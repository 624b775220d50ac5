# SoundRemote server: specifications, model checking and proofs

SoundRemote-WinServer is a Windows program that captures the sound of a
computer, encodes it with Opus (or not at all) and sends it over UDP to phones,
which in turn send it keystrokes.  This directory holds TLA+ specifications of
it, the TLC configurations that check them on small instances, and proofs for
TLAPS.  Every definition is translated from the C++ sources in
`src/SoundRemote`; `PROJECT.json` maps each one to its lines.

## 1. The system

Four kinds of actor meet:

- the **io thread** (`io_context_`, run by `SoundRemoteApp::asioEventLoop`): all
  network handlers, the maintenance timer, the capture's timer, and everything
  posted to it (`changeCaptureDevice`, `shutdown`).  Handlers run one after the
  other;
- the **window's thread**: the message loop, the tray, menus, the mute button,
  the peak meter, `WM_POWERBROADCAST`, and the results of update checks;
- the **update threads**: one detached thread for each check;
- the **phones**, on the other side of a network that loses, repeats, delays and
  reorders datagrams.

### Components

| Component | State it keeps | Operations | What makes it correct |
|---|---|---|---|
| `Clients`, the registry | `clients_` (compression and last contact of each phone), `clientInfos_` (snapshot), `clientsListeners_`, `clientsMutex_` | `add`, `setCompression`, `keep`, `remove`, `removeAll`, `maintain`, `addClientsListener`, `removeClientsListener` | every listener always has the current phones; nobody is dropped before the timeout nor kept long after it |
| `Server` | sockets, `clientsCache_`, `maintainenanceTimer_`, `password_` | `receive` and one handler for each kind of datagram, `sendAudio`, `keepalive`, `sendDisconnect`, `maintain`, `onClientsUpdate` | frames reach exactly the connected phones, each in its compression; only a checked Connect lets a phone in; connected phones keep hearing from the server; everybody is told of the end |
| `NetUtil`, the wire protocol | none; `Server::receive` keeps its buffer | parse and build datagrams | a request is read as it was meant, whatever the buffer held before; an acknowledgement is read back as the request's; audio is read back as it was written |
| `CapturePipe` | `encoders_`, `pcmAudioBuffer_`, `muted_`, the pipe's coroutine; the numbers of frames | `start`, `stop`, `process`, `onClientsUpdate`, `setMuted`, `getPeakValue` | one encoder for each compression in use; bounded delay; numbers without gaps |
| `AudioCapture` | the device's COM objects, a timer, `destroyed_`, the capture's coroutine, the silence not yet compensated | constructor, `capture`, destructor | the pipe is driven by one tick at a time, and no tick reaches a coroutine that is gone; each packet is processed once; a silent device does not stop the stream; what is opened is given back, in order |
| `EncoderOpus`, `AudioResampler` | Opus and Media Foundation objects, what the resampler keeps inside | `encode`, `resample` | no audio is lost, doubled or left behind on the way through; the rest is arithmetic of libraries |
| `SoundRemoteApp` | the above, `currentDeviceId_`, the io thread, the window | `run`, `asioEventLoop`, `changeCaptureDevice`, `stopCapture`, `shutdown`, `wndProc` | what the window shows is so; no thread waits for ever |
| `UpdateChecker` | `checkMutex_`, `stopping_` | `checkUpdates`, `checkWorker`, `showResult` | one check at a time; only newer releases are announced; automatic checks are throttled |
| `Settings` | the ini file, what the process holds of it | `get`, `set`, migration | the file follows what the process holds, after failed writes too; an old file keeps its ports; every getter finds a value |
| `Keystroke` | none | `emulate`, `toString` | modifiers are down when the key is, and every key that went down comes up; the log names what was pressed |
| the window: tray, menu, languages, device list, `Controls` | the icon and whether it was added, the menu bar, `deviceIds_` and the selection | `showWindow`, `hideToTray`, `initMenu`, `switchLanguage`, `initDevices`, `onDeviceSelect` | the user can always get at the program; the marks and texts show the settings; the pipe follows the selection, which is remembered and restored |

### How they interact

- A datagram reaches `Server::receive`, whose handler calls one operation of
  `Clients` and may send an acknowledgement.
- Every operation of `Clients` that changes something rebuilds `clientInfos_` and
  calls **each listener under `clientsMutex_`**: the sender (`Server::onClientsUpdate`,
  replaces `clientsCache_`), the capture pipe (`CapturePipe::onClientsUpdate`, replaces
  `encoders_`) and the window (`SoundRemoteApp::onClientListUpdate`, which uses
  `SendMessage` and so waits for the window's thread).  Changing the *list* of
  listeners, and the first call of a new one, happen without the mutex.
- The pipe's coroutine awaits the capture's, the capture's a timer.  A frame
  goes from the pipe to `Server::sendAudio`, which looks up its phones in
  `clientsCache_`.
- The window's thread posts changes of device and the shutdown to the io thread,
  but calls `Clients::removeAll`, `CapturePipe::setMuted` and
  `CapturePipe::getPeakValue` directly.
- A captured packet goes through the resampler into the pipe's buffer, from there
  in frames through the encoders, and in datagrams to the phones, on one thread.
- A datagram of a keystroke ends in `SendInput` and in a line of the window's log.
- An update thread posts `WM_UPDATE_CHECK` to the window, whose handler records the
  time of the check in the settings.

### What is hard here

- Two threads on the registry: call-backs under a mutex, one of which waits for
  the other thread; a list changed outside it; caches replaced while the other
  thread goes through them.
- Three copies of who is connected (the registry, the sender's cache, the pipe's
  encoders), kept in step only by call-backs, with a listener that comes and goes.
- An unreliable network: an old Connect after a Disconnect, a keep-alive of a phone
  that was dropped, a timeout that races a keep-alive.
- A pair of coroutines which is replaced while its timer may already have expired,
  and which re-enters itself when a tick brings more than one packet; errors that
  unwind through both.
- A receive buffer that is never cleared, so that a short datagram lies over the
  bytes of an earlier one; fields that are cut and read as C strings.
- A device opened by a dozen calls any of which may fail, given back by destructors
  in the order of declarations.
- A settings file written over in place, whose writes may fail or stop half-way.
- Buffers and compensation of silence with packets larger or smaller than a frame.
- Checks for updates on threads of their own, which report by messages to a window
  that may be gone, and a throttle that depends on those messages.

`PROJECT.json` lists these hazards with the line each bites at, and the
properties that would catch it.

## 2. The modules

| Module | Models | Composes |
|---|---|---|
| `Clients` | the registry: one operator for each method, an operation being one step | |
| `Session` | abstract specification: who takes part, in which compression, who is given a frame or a keep-alive; who decides about it | |
| `Server` | the UDP server, the phones, the network, the life of the process | EXTENDS `Clients`; INSTANCE `Session` with a refinement mapping |
| `NotifyThreads` | the two threads around the mutex and the list of listeners | |
| `Coroutines` | the two coroutines of a pipe, suspension by suspension | |
| `Program` | both threads with the pipe's coroutines, changes of device, the peak meter | EXTENDS `NotifyThreads`, `Coroutines` |
| `CapturePipe` | sizes, silence, encoders, numbers, mute, changes of device | |
| `Datagrams` | the layout of every datagram, byte by byte | |
| `Keystrokes` | the key events of a keystroke and its name | |
| `Requests` | abstract specification: what one phone's request does | |
| `Wire` | `Server::receive` and its handlers on bytes | EXTENDS `Datagrams`, `Keystrokes`; INSTANCE `Requests` with a refinement mapping |
| `AudioSource` | opening and closing the device, packets, the resampler | |
| `Path` | the way of the audio from the device to what a phone hears | EXTENDS `Wire`, `AudioSource` |
| `UpdateChecker` | the threads, the mutex, the messages, the recorded time | |
| `Settings` | the file and what the process holds of it | |
| `Window` | tray, menu, languages, list of devices, starts and ends of the process | EXTENDS `Settings` |
| `MCServer`, `MCThreads`, `MCProgram`, `MCCapture`, `MCPath`, `MCUpdate`, `MCWindow` | instances for TLC | EXTEND the module they check |
| `ServerProofs`, `ThreadsProofs`, `ProgramProofs`, `CaptureProofs`, `PathProofs`, `UpdateProofs`, `WindowProofs` | theorems | EXTEND the module they are about; `ProgramProofs` also `ThreadsProofs`, `PathProofs` also `WireProofs` |
| `WireProofs` | lemmas on datagrams and keystrokes | EXTENDS `Wire` |

Definitions called *faulty variants*, and the few that carry their slip in the name, are
not part of any specification: each is what an action would be after a plausible slip
(a dropped guard, a missing reset, a swapped order), kept beside the action so that one
can see that a property tells the two apart.  `PROJECT.json` pairs each checked property
with the variant it refutes.

The same code appears in more than one module where two questions need different
detail.  A request is a record in `Server`, where the network and the timeouts matter,
and bytes in `Wire`, where the reading does; `CapturePipe` counts units of audio,
`Coroutines` asks who runs and who holds which packet, `AudioSource` and `Path` follow
the audio itself.

### Clients and Server

`clients[a]` is the compression in `clients_`, or `NoClient`; `silence[a]` is
`now - lastContact()`, so that time itself needs no counter; it is capped at
`MaxSilence`, beyond every bound a property names.  `view[l]` is the argument
of the last call of listener `l`; `clientsCache` and `encoders` are what the code
computes from it, whole and at once, hence functions of `view` and not variables.
`listeners` is a set: the order of the calls within one operation shows only with two
threads, in `NotifyThreads`, which keeps it.  `UpdateAndNotify` is part of the
operation that calls it, never a step of its own.  `Erase` is the common part of
`remove`, `removeAll` and `maintain`: listeners are called once, and only if
someone was erased.

`net` is the *set* of datagrams under way: any of them may arrive next (reordering),
`Receive` may leave it there (duplication), `Lose` takes it out.  `Request`
covers every kind of datagram that `receive` tells apart: `Unreadable` stands for
all that the header checks drop.  A compression value the server does not know is
`BadFormat`; `password` says whether the password of a Connect is the right one.
`sent` is what the last step handed to the socket.  `sinceArmed` counts from the last
`startMaintenanceTimer`; `Slack` is the delay of a handler behind others on the io
thread.  A failed asynchronous send, an error in `receive` and a failed blocking
send at shutdown all end in `std::exit`: `Exit`, after any subset of the
farewells.  The process may `Start` again, with an empty registry, while old
datagrams are still in the network.

`Session` states the promise without any of this.  Its `requests` are the datagrams
under way that pass the server's checks (`Accepted`); it leaves them to the
environment.  A phone joins, changes, contacts and leaves only by a request of its own;
`Maintain` reassures all participants and puts out exactly the overdue; `Close` puts
out everyone; `Broadcast` gives a frame to all and to no one else.  What is sent is
part of the promise: were it not, dropping one phone too early would look like that
phone leaving, and dropping all like a suspend.

`encoders` in `Server` is the pipe as its listener leaves it; `SendFrame` is one frame
that the pipe hands over in all compressions.  What happens inside the pipe is in
`CapturePipe`, whose `EncodersFollow` is what `Server` takes for granted of it.

### NotifyThreads, Coroutines and Program

`NotifyThreads` is the registry again, with the mutex, the list of listeners in order
and one step for each thing another thread can come between.  Compressions are left
out.  `Lock` takes the mutex and makes the change; with no change the operation returns
early.  `Notify` calls one listener; for the io thread and the window's listener it is
enabled only while the window's thread pumps messages: that is `SendMessage`.
`StopCaptureDetach`, `StopCaptureDestroy`, `AddListener` and `Greet` are the change of
device, whose registration of the listener does not take the mutex.  `Suspend` is
`removeAll` from `WM_POWERBROADCAST`.  The variable `suspends` is chosen once, from
`Suspends`: without suspend the io thread is alone in calling the registry, and
several properties hold only then.

`Coroutines` keeps the `stack` of activations on the io thread, the innermost last, and
for each of the two frames the `point` it will be resumed at: a frame has one such
point, however many activations of it are on the stack, which is why a pipe that is
entered again goes on where it last waited.  `pcmAudio` and `awaiting` are the promise
of the capture.  The timer is `armed`, then `expired` with its handler in the queue;
when a pipe goes with its handler queued that handler is an `orphan`, which finds
`destroyed_` set.  `piece` and `heard` are history: the packet the capture has
yielded and how often the pipe has processed it since.  `Throw` is an `Audio::Error`
anywhere a call may fail: it empties the stack, and with more than one activation of the pipe on
it, each of which destroys the frame of the capture, the process may end (`crashed`) or
go on.  What undefined behaviour does beyond that is not modelled.

`Program` puts the two together.  A tick begins when nothing else runs on the io thread
(`Idle`), holds the io thread as a send does, and ends when the stack is empty.  A new
pipe takes the current phones and begins its coroutines in one step (`StartPipe`).
`posted` is the number of changes of device that wait for the io thread; the selection
of the same device changes nothing (`ChangeCaptureDevice`).  The window's thread reads
the peak value of a pipe in two steps, so that the pipe may go in between.

### CapturePipe

`queue` holds the handlers the io thread has yet to run that matter here: expired
timers and posted changes of device, in order.  A tick carries `destroyed`, the
flag that `~Timer` sets: closing a pipe turns the expired tick in the queue into a
stale one (`Orphaned`).  `burst` is the number of packets yielded in the tick under way,
which is also the number of activations of the pipe's coroutine on the stack, because
each packet resumes the pipe from within (`CapturePipe.cpp:109`, `AudioCapture.h:107`);
`Coroutines` shows that this is so.  `Unwind` is an `Audio::Error` going through them
all; `frame` counts how often the frame of the capture's coroutine is destroyed on the
way.  `ProcessPacket` is `process`: with no encoder or muted it leaves the buffer alone,
otherwise it takes all whole frames.  `CaptureNothing` is the compensation of silence,
where half of a buffer that has an odd length is rounded down as in the code.
`OpenFails` may leave `deviceId` set or not, for failures in `start` and before it.
`OnClientsUpdate` may end the process, when an encoder cannot be made in a handler of a
datagram.

### Datagrams, Keystrokes, Requests and Wire

`Datagrams` has the offsets and sizes of `NetDefines.h` and the readers and writers of
`NetUtil`: a datagram is a sequence of bytes, a number is laid out high byte first, a
reader of a datagram that is too short returns `NoData`.  The password of a Connect is
what the code makes of its field: the last byte is overwritten and the rest ends at the
first zero.  The length of the field is a constant, 32 in the code.

`Keystrokes` translates `emulate` into the sequence of events handed to `SendInput`, for
*every* order in which the unordered set may list the modifiers; `SendInput` takes all of
them or, when it is blocked, none.  `toString` names the keys from the scan code and the
extended bit, so that two keys with one scan code are told apart as Windows does.

`Wire` is one phone before the server.  `Receive` copies a datagram over the front of
`datagram`, the buffer whose other bytes stay what they were; the handlers see as much of
it as has arrived, and act on `format`, `reply`, `inputs` and `logged`.  The phone's side
(`PhoneWrites`, `PhoneReadsAck`) is external: it is modelled from what the server reads
and writes.  `Requested` is all that a phone may ask for, in any version of the protocol
(numbers that fit their fields, passwords without a zero), `Stray` the bytes of other
programs, of any content that no handler takes for a request; an instance picks some
of both (`Request`).

`Requests` says the same of records: a Connect that the protocol knows, with the right
password, registers and is acknowledged with the request's id and the server's version; a
keystroke presses just its key with just its modifiers and the log names them; anything
else changes nothing.  Its passwords are those of the settings as the server holds them
(`Passwords`).  `ReadsAsWritten` is the refinement: the bytes in between, and
whatever earlier ones the buffer holds, do not show.

### AudioSource and Path

`AudioSource` builds the pipe one call at a time: COM, enumerator, device, clients, the
resampler and its types; each may fail, and then what is `held` is given back in the
order of the destructors.  Audio is a stream of *units* numbered modulo
`SeqModulus * FrameSize`; a packet brings the next units, at half the number if the
device has another format.  The resampler keeps up to `Latency` units inside, and
returns at most `MaxOutput` at a time: `resample` asks until it is empty of what it
may give.  The buffer of the pipe is the sequence of units it holds.

`Path` adds the encoders, the datagram of a frame and what the phone reads from it, for a
phone that comes, changes its compression and goes by the datagrams of `Wire`.
`others` are the compressions of other phones, which keep the pipe encoding while this
phone is away.  The io thread does one thing at a time, so no datagram is read while a
packet is processed or a pipe made (`Busy`).

### UpdateChecker

Each `Worker` is a detached thread.  `TryLock` is `try_lock` with its silent return; the
version resource, the request, the parser and the comparison may each fail, and each
way out posts what the code posts and unlocks.  `OnUpdateCheckFinish` is the
window's handler: it records the time only for an answer, and the write may
fail.  `answered` is a history variable: when an automatic check last had an answer.
`IsNewerVersion` compares tags of three or four numbers, with or without a suffix, with
an installed version of the same forms.

### Settings and Window

`file` is settings.ini as a function from keys, with the ports that version 0.5.2 wrote
without a section beside them; `ini` is what the process holds.  `SaveFile` succeeds, or
fails leaving the file as it was or *torn*: the file is written over from its start,
so a write that stops loses what comes after.  Nobody looks at the result, so the
process goes on with what it holds.  A bound: no two writes in a row fail, since after
an unbounded run of failures no property of the file is left.  Loading sets missing keys
to their defaults and moves the ports of 0.5.2 into their section.

`Window` is a process that starts (`initInstance` loads the settings and makes window,
lists, menu and icon; `run` restores and selects the device), runs and ends, over and over.  `present` changes at any time, while the list of devices is
filled once at the start: `items` are the keys of the entries as the combo box has them and
`deviceIds` the map from key to device; of devices of one name only one is listed, as in the
code.  The shell may refuse the icon, or lose it (`shellOk`).  Selections are saved
at once and posted; the io thread makes the pipe, or fails at it, before or after
`currentDeviceId_` is set (`audioFailed`).  `chosen` is a history variable: what the
user's last selection meant.  `wished` is another, which outlives the process: what that
selection stands for, a default device or one by its id, until the user selects again (or
the process ends on a failed write, after which the file need not have it).

## 3. The runs

| Run | Module | Question | Bounds | Distinct states |
|---|---|---|---|---|
| `server_safety` | `MCServer` | do the caches agree with the registry after each handler; is only a checked Connect let in; is everyone told of the end | 2 phones, 2 compressions, password, 2 datagrams, no delay | 1,037,344 |
| `server_promise` | `MCServer` | is a silent phone out in time; does `Server` implement `Session`; is a phone that is gone forgotten for good; does a connected one keep hearing | 2 phones, 2 compressions, delay 1, 1 datagram | 258,608 |
| `threads` | `MCProgram` | does every copy end up as the registry; is each packet processed once; do operations end; does the peak meter fall | 2 phones, 3 packets a tick, 2 posted changes, with suspend and without | 83,098 |
| `threads_suspend_empties` | `MCThreads` | does suspend empty the registry? **No** (section 5) | 2 phones | |
| `threads_race` | `MCThreads` | is what one thread goes through left alone by the other? **No** | 2 phones | |
| `capture_stream` | `MCCapture` | one tick per pipe, encoders, delay, numbers, the stream goes on | 2 devices, 3 compressions, frame 3, packets 2 and 7, 2 packets a tick, 2 handlers queued | 237,536 |
| `capture_mute` | `MCCapture` | does the mute button show whether the pipe is muted? **No** | 2 devices, frame 2 | |
| `capture_error` | `MCCapture` | is the capture's frame destroyed once? **No** | as above | |
| `update_checks` | `MCUpdate` | one check at a time, no uncalled-for boxes, only newer releases | 2 threads, 8 tags, time up to 4, interval 2 | 28,496 |
| `update_throttle` | `MCUpdate` | are automatic checks an interval apart? **No** | as above | |
| `path` | `MCPath` | are requests read as they were written; are keys released; is the device given back; does the number of a frame tell its place | 12 requests, 4 passwords, frame 2, packets 1 and 3, 2 numbers | 601,266 |
| `window` | `MCWindow` | can the program be reached; does the file follow; do marks and texts show the settings; is the selection followed and remembered, and selected again by the next process | 3 devices, 2 posted changes, 2 files to start from | 1,557,944 |

Why the bounds are enough to be of interest:

- Two phones with two compressions are the least for which phones share, and do
  not share, an encoder, and for which one is dropped while the other stays.  Handlers
  treat phones one by one, so a third adds no new relation; the proofs cover all.
- `MaxInFlight = 2` in `server_safety` lets one datagram overtake another, and one be
  repeated after the other.  With one in flight `server_promise` has loss and duplication
  but no overtaking; `KeepsPromise` and `StaleClientsExpire` are also proved, for any
  number in flight.
- In `server_promise` the timeout and the interval are one tick and the timer may be
  another late (`Slack`), so that a contact can fall before, at and after each limit.
- In `threads` three packets in a tick enter the pipe while it is already
  entered twice, the least for which the resumption point has been overwritten before;
  with two posted changes a pipe goes while another change waits.
- In `capture_stream` packets of 2 are smaller than a frame of 3 and do not divide
  it, packets of 7 hold more than two; `BufferDuration = 3` is odd;
  `SeqModulus = 4` wraps after a few frames; `MaxQueue = 2` lets a tick and a change
  of device wait together in both orders, and two changes; `MaxBurst = 2` is the
  least that re-enters the pipe.  `MaxBurst` and `MaxQueue` are in guards.
- In `update_checks` two threads are enough to contend; `MaxTime` allows a check, an
  interval and another; `MaxMessages` bounds the unread results.  The installed version
  is a preview, and the tags are older and newer, shorter, equal, with and without a
  suffix.
- In `path` the password field has 3 bytes, so that the 4 passwords are empty, fit, are cut
  and hold a character that is not ASCII; the buffer has 13 bytes, the longest request
  fills it and the short ones leave the rest of it standing.  The requests are of
  three versions of the protocol, and two are of other programs.  Keys 36 (Home) and 103
  (7 of the number pad) share scan code 71.  A packet of 3 gives 6 units through the
  resampler, which is more than `MaxOutput = 3` returns at a time, so its loop goes
  round; with two numbers the number wraps at every second frame.
- In `window` two of three devices share a name and the third is of the other flow.  The
  process starts without a file or on one of 0.5.2 with one port changed, and then on
  whatever the last process left.

Symmetry (of phones, of threads) is used for safety only.  `CHECK_DEADLOCK FALSE` stands
where the program may stop: in `threads` with suspend the two threads may block each other
for good and a crash ends the behaviour, as it does in `CapturePipe`.

### Fairness

- `Server`: the clock goes on, a due timer is handled (the io thread is not blocked
  for ever), and no datagram stays in the network for ever.  Nothing is assumed of
  the phones, nor that a datagram arrives.
- `NotifyThreads`: a thread that can go on does.  `Notify` is strongly fair, as
  `SendMessage` waits for a message loop that other messages keep leaving and coming
  back to.  No fairness makes the window's thread leave `lock` while the mutex is taken.
- `Program` (`ProgramFairness`, which takes the place of the former's in the run
  `threads`): as in `NotifyThreads`; a change of device and a send that have begun
  go on, a running activation does too, and the window gets to the messages of its timer,
  which the system delivers when nothing else is waiting.  Not assumed: that the timer of
  the capture expires, that packets come, that the user does anything.
- `CapturePipe`: the timer expires, the io thread runs what is queued and goes on with
  the tick it is in.  Packets and errors are not assumed.
- `UpdateChecker`, `Path` and `Window` have no liveness property: that a request for a
  check is answered is not so (one asked for during another is dropped, by design), a
  phone's datagram may be lost, and the window waits for its user.

## 4. What is proved

All theorems hold for **every** value of the constants, under the named assumptions of
the modules, which TLC also evaluates in the runs.  None of the properties is inductive
as it stands, except where this is said.

`ServerProofs`, under `ClientsAssumption` and `ServerAssumption` (the two extra values are
not compressions, numbers are naturals, the interval is not zero):

| Theorem | States |
|---|---|
| `TypeCorrect` | `Spec => []TypeOK` |
| `ListenersAlwaysAgree` | `Spec => []ListenersAgree` |
| `StaleClientsAlwaysExpire` | `Spec => []StaleClientsExpire` |
| `AckedAlwaysRegistered` | `Spec => []AckedIsRegistered` |
| `OnlyConnectEverAdmits` | `Spec => OnlyConnectAdmits` |
| `FarewellAlwaysReachesAll` | `Spec => FarewellReachesAll` |
| `ServerKeepsPromise` | `Spec => KeepsPromise`: `Server` implements `Session` |

`ServerInv` is `TypeOK` with `RegistryOK` (`clientInfos = InfosOf(clients)`: the snapshot,
which is what a *new* listener is given, is current, without which `ListenersAgree` would
break at `AttachPipe`; and the window and the sender are always registered),
`AbsentNotTimed` (an address that is not connected has silence 0: `Exit` and `Close` of
`Session` agree only because of it) and `Timely` (`silence <= Timeout + sinceArmed` for a
connected phone: the bound of `StaleClientsExpire` follows with `sinceArmed <= Period +
Slack`, but by itself is not kept by `Tick`).  The lemmas `...KeepsRegistry` show
this operation by operation for `Clients`, then handler by handler.
`FrameReachesMembers` is the heart of the refinement: as both the cache and the encoders
agree with the registry, the product of the two is exactly the connected phones, each
with its compression; `KeepaliveReachesMembers` is the same for the keep-alives.

`ThreadsProofs`, for the specification of `NotifyThreads` (`ProgramProofs` has the same two for
the whole program):

| Theorem | States |
|---|---|
| `TypeCorrect` | `Spec => []TypeOK` |
| `LastCallAlwaysWins` | `Spec => []LastCallWins` |

The invariant says what is left of the round of calls of the thread that holds the
mutex: `MutexHeld` (who is inside is the holder), `ListFollowsPipe` (the list is the
sender, the window and the pipe if there is one), `NothingLeftToCall` (a thread outside
has nobody left to call), `SnapshotTaken` (from `UpdateInfos` on the snapshot is the
registry), `AllTold` and `PipeTold` (whoever is not left to call holds the snapshot).

`ProgramProofs`, for any number of packets in a tick:

| Theorem | States |
|---|---|
| `EachPacketAlwaysOnce` | `ProgramSpec => []EachPacketOnce` |
| `AlwaysWaitBetweenHandlers` | `ProgramSpec => []WaitBetweenHandlers` |
| `ProgramTypeCorrect` | `ProgramSpec => []TypeOK` |
| `ProgramLastCallWins` | `ProgramSpec => []LastCallWins` |

`CoInv` is about the whole stack: below the innermost activation there are only
activations of the pipe that have resumed the capture (`StackInv`), and for the innermost
one there is a formula for each place it may be at (`Fresh`, `FirstWait`, `Waiting`,
`Asking`, `Holding`), which says where both frames are, whether the promise holds audio and
whether the timer runs.  `MakingInv` ties it to the threads: while there is no pipe, or one
is being made, nothing is left of an earlier one.

The last two bring the invariant of `ThreadsProofs` over to the whole program.  As far as
the registry goes, a step of `Program` is a step of `NotifyThreads` or leaves its variables
alone (`RegistrySteps`), with one exception: a tick that fails (`FailingKeeps`),
which puts the io thread back between two handlers or ends all threads where they are.
`AtRest` is what that takes: a tick is only under way while the io thread is in no operation on
the registry.  `RegistryInv` is `IInv`
of `ThreadsProofs` until the process crashes, and after that what the properties need.

`CaptureProofs`, under `CaptureAssumption` (sizes are positive, the buffer holds at
least two units, there are finitely many compressions):

| Theorem | States |
|---|---|
| `TypeCorrect` | `Spec => []TypeOK` |
| `DelayAlwaysBounded` | `Spec => []DelayBounded` |
| `EncodersAlwaysFollow` | `Spec => []EncodersFollow` |
| `AlwaysOneTickPerPipe` | `Spec => []OneTickPerPipe` |
| `NumbersAlwaysConsecutive` | `Spec => NumbersConsecutive` |

`DelayBounded` and `EncodersFollow` are inductive with `TypeOK`; the first rests on
`RestOfFrames` (the remainder of a division), the second on `UpdatedIsWanted`: the
comparison of two cardinalities in the code is enough to tell that nothing is
to be done, because one of the sets is part of the other and finite.
`OneTickPerPipe` counts; its invariant `Driven` says *which* of the three ticks a pipe
has (the timer runs, the handler is in the queue, the tick is under way), and that
without a pipe none is left.  `NumbersConsecutive` is about steps, and a step numbers as many
frames as a packet fills; it needs `PacketAssumption` too: no packet
has more frames than there are numbers, or two frames of one step would have the same
number.  2^32 frames are more than a year of audio.

`PathProofs`, under the assumptions of `Datagrams`, `AudioSource`, `Wire` and `Path` (a
frame fits a datagram, a number four bytes):

| Theorem | States |
|---|---|
| `KeysAlwaysReleased` | `Spec => []KeysReleased` |
| `AlwaysHeldInOrder` | `Spec => []HeldInOrder` |
| `NothingEverLeftBehind` | `Spec => []NothingLeftBehind` |
| `NumberAlwaysTellsPlace` | `Spec => []NumberTellsPlace` |
| `PathTypeCorrect` | `Spec => []TypeOK` |
| `AlwaysReadsAsWritten` | `Spec => ReadsAsWritten`: the server on bytes implements `Requests` |

The first is about the sequence of events (`EventsRelease`: whatever the order of the
modifiers, each key that went down comes up after it).  `DeviceInv` says what is held in
each phase: a prefix of `OpeningOrder` while the device is being opened, and while it is
being closed only that everything left has what it leans on.  `RestInv` bounds what is inside the resampler and the buffer in each
phase.  `StreamInv` is the argument about the audio: the buffer, what is inside the
resampler and the next capture follow one another in the stream (`Place`), from
`sequence * FrameSize` on; it rests on the arithmetic of remainders
(`RestUnique`, `RestOfSum`, `NextNumber`) and on `AudioPacketReads`, which takes the
datagram apart byte by byte.  `PathTypeCorrect` takes these together with `TypeInv`: what
arrives are bytes, and the phone is registered with a compression the server knows.

`AlwaysReadsAsWritten` needs no invariant beyond the type of the buffer: `WireProofs` shows
for each step that what the handlers do is what the request meant.  In it

- `HeaderWritten`, `WrittenReads` and `ReceivedIsSent`: the header comes back as it was laid
  out, and the handlers see the datagram that was sent whatever lay in the buffer before it;
- `ConnectRead`, `SetFormatRead`, `KeystrokeRead`, `EmptyRead` read the data of each kind,
  `FieldRead` the password (cut at its first zero, or at the end of the field), `AckRead` what
  the phone gets back;
- `ModsRead` and `PressedRight`: the modifiers come out of their bits, and the events press the
  key with exactly these modifiers down, in any order of them; `SetListed` is the fact on
  finite sets that this rests on (a sequence as long as the set is large, without repetition,
  has all of it);
- `NameTells` and `NamedRight`: key and modifiers can be told from the line in the log;
- `ConnectServed`, `SetFormatServed`, `DisconnectServed`, `KeystrokeServed` and `OtherServed`
  put these together handler by handler, `WireNextServes` for all.

What it assumes of the constants, beyond sizes: `RequestAssumption` (what arrives is something a
phone may ask for, or bytes no handler takes), `NamesAssumption` (no two keys that phones send
have one name; the log could not tell them apart), `NoDataAssumption` (the value for "nothing
read" is no data) and `WireAssumption` (the buffer has room for the Connect of a later version,
1024 bytes against 42).

`UpdateProofs`, under `UpdateAssumption`:

| Theorem | States |
|---|---|
| `TypeCorrect` | `Spec => []TypeOK` |
| `OneCheckEverAtATime` | `Spec => []OneCheckAtATime` |
| `UnaskedEverOnlyFound` | `Spec => []UnaskedOnlyFound` |
| `FoundEverMeansNewer` | `Spec => FoundMeansNewer` |

`MutexHeld` (a thread is checking just when it holds the mutex), `NothingLeft` (nothing
outlives the process), `QuietUnlessAsked` (as long as nobody asked, all
threads are quiet, and so is what they post).  `FoundMeansNewer` compares the code's walk
over the parts of a version with an order on ranks.

`WindowProofs`, under `SettingsAssumption` (no default is missing) and `WindowAssumption` (there
are finitely many devices, and Windows gives each an id of its own, other than those
by which the settings name the default devices):

| Theorem | States |
|---|---|
| `AlwaysReachable` | `Spec => []Reachable` |
| `FileAlwaysFollows` | `Spec => []FileFollows` |
| `MarksAlwaysShowSettings` | `Spec => []MarksShowSettings` |
| `PipeAlwaysFollows` | `Spec => []PipeFollowsSelection` |
| `ChoiceAlwaysSurvives` | `Spec => ChoiceSurvives` |
| `TypeCorrect` | `Spec => []TypeOK` |
| `SelectionAlwaysRemembered` | `Spec => []SelectionRemembered` |
| `PortsAlwaysSurvive` | `Spec => PortsSurvive` |

`FileFollows` is inductive itself.  `TrayOK` says when the icon is there, `MenuInv` what the
menu shows from `initInstance` on, and `PipeInv` that what waits in `posted` ends with the
chosen device, or, if nothing waits, that the current device is the chosen one or none.

`SelectionAlwaysRemembered`, `PortsAlwaysSurvive` and `ChoiceAlwaysSurvives` rest on
`WindowInv`.  Its heart is `Listed`: each entry of the list has a key
that is a default's or one of `deviceIds`, and no two keys have one device; so the id
that the settings get from an entry leads back to the key of that entry, which is
`SelectionRemembered`.  `ValuesThere` says that a running process has a value for every
key, `MarkInFile` that the file may have lost keys but holds no others; `PortsSurvive` follows
from these, `FileFollows` and the migration.  `ChoiceAlwaysSurvives` adds `WishKept`: the settings
hold the value of what was wished, in `ini` while a process runs and in the file while none
does.  Selecting keeps it, since an entry of the list stands for what the settings are
given for it (`SelectKeepsWish`); loading keeps it, as the migration touches no other key
(`LoadKeepsWish`); and at the next start the value leads to the entry that stands for the
same device, at whatever place of the list that now is (`CodeLeadsBack`).

**Only model-checked**: liveness (`SilentPhoneForgotten`, `MembersHearFromServer`,
`OperationsEnd`, `MeterFalls`, `StreamFlows`), which is out of the reach of the prover, as
are `ENABLED` and induction over data.  Every invariant, action property and refinement of the
passing runs is stated by a theorem.  No module declares a `RECURSIVE` operator.

## 5. Where the code differs from what it says

Each of these is a run that TLC ends with a counterexample.

1. `threads_suspend_empties`.  The io thread is in `Clients::add` with the mutex, and
   calls the window's listener, whose `SendMessage` waits for the window's thread; that
   thread handles `WM_POWERBROADCAST` and waits for the mutex in `removeAll`.
   Neither goes on: the registry is not emptied and the program hangs.
2. `threads_race`.  On suspend the window's thread goes through the listeners and runs the
   call-backs of the sender and the pipe.  These replace the cache and the encoders
   while the io thread may be going through them; and a change of device on the io thread
   puts a listener into the list, or takes one out, without the mutex, while the window's
   thread may stand on it.  The documentation has all call-backs on the io thread, and
   the list changed at the start only.  The run ends with whichever TLC finds first.
3. `capture_mute`.  A new pipe is not muted, the button keeps its state: after mute
   and a change of device audio is sent under a pressed button.
4. `capture_error`.  With a second packet in a tick the pipe's coroutine is
   re-entered; an `Audio::Error` then unwinds the same frame twice, and the frame of
   the capture's coroutine is destroyed twice.
5. `update_throttle`.  A quiet check which finds nothing posts no message, and only
   the handler of the message records the time: the next start checks again.

The models keep to the code in the following too, which no run is about; a maintainer
may still want to know.  For the first four a text of the repository says otherwise.

- The menu bar stays Chinese after a switch from Chinese to English, until the next start:
  `initMenu` has a branch for Chinese only (`SoundRemoteApp.cpp:634`), where the comment
  at line 684 and the documentation of the user interface have the menu rebuilt.
  `MarksShowSettings` is about the marks, the window's texts and the menu under Chinese texts.
- A frame that one encoder has sent when another one fails keeps its number for the first
  frame of the next pipe (`CapturePipe.cpp:142`); the documentation of the protocol has the
  numbers grow with every frame.  `NumbersConsecutive` is about a pipe that stays.
- With suspend a new pipe may keep encoders for phones that are gone until the next change:
  its first call brings it a copy of the snapshot made without the mutex (`Clients.cpp:55`),
  older than what the window's thread has called it with in between.  The documentation has
  the current snapshot pushed.  Of the pipe `LastCallWins` speaks without suspend only.
- A check asked for from the menu while the quiet one of the start is under way is never
  answered (`UpdateChecker.cpp:191`); `UpdateChecker.h:22` has every check show its result.
- A send that fails at shutdown keeps the phones after it from being told, and the box for an
  audio error stops keep-alives and timeouts until the user closes it.
- The pipe resumes its own coroutine while that one is running and not suspended
  (`AudioCapture.h:107`).  What the standard leaves undefined there works with the
  compilers in use because the frame's resumption point was written before;
  `EachPacketOnce` and `WaitBetweenHandlers` say what follows from that.
- A tick of the peak meter before the io thread has made the pipe stops the meter for good
  (`SoundRemoteApp.cpp:373`): the bar stays empty until a device is selected again.
- After an audio error `currentDeviceId_` stays set, so that selecting the same device
  again does nothing.  A default device that is absent ends the program.
- Of devices with the same name only one is listed.
- A settings file that cannot be read is overwritten with the defaults.  Failed and torn
  writes are ignored; the next write makes up for them.
- When the shell restarts, or refuses the icon, `trayIconAdded_` stays set and nobody adds
  the icon again.
- The result of `SetOutputType` is not looked at (`AudioResampler.cpp:42`).
- The server does not look at the version of the protocol in a Connect, only at its length.
- A password of 32 characters or more is cut on arrival and never matches; one
  without any ASCII character counts as none.
- A modifier which the user holds down is released by an emulated one; a keystroke is logged
  also where `SendInput` was blocked.
- Two equal versions of three numbers compare as newer.  The time of the last check
  is cut to 32 bits (`Settings.cpp:121`).

## 6. What is not modelled, and why

- `getLocalAddresses`: a list read from Windows for display, which nothing else reads.
- The arithmetic of Opus and Media Foundation: they are libraries.  That encoders and devices
  fail, that an encoder may have nothing to send and how much the resampler keeps inside *is*
  modelled.  The peak value is 0 or not 0.
- Layout, fonts, colours, icons and the wording of texts, logs and error boxes: no state
  that a property relates to another.  The time an error box blocks the io thread is
  within `Slack` only if the user closes it.
- Font, size and weight in the settings have no setter that is called.
- The contents of HTTP and JSON in the update check: each call succeeds with the
  release there is, or fails.
- The use of a pipe by the peak meter while the io thread destroys it is a data race:
  `Program` has both steps, but not what comes of them.
- The repository's tests are a reference for what the parts promise; the headers of Opus,
  build files and release scripts are not the program's logic.

## 7. Plan

Done, in this order, the most important behaviour first: `Clients`, `Session`,
`Server`, `ServerProofs`; `NotifyThreads`; `CapturePipe`, `CaptureProofs`;
`UpdateChecker`; then `Datagrams`, `Keystrokes`, `Requests`, `Wire`; `AudioSource`,
`Path`, `PathProofs`; `Coroutines`, `Program`, `ProgramProofs`; `Settings`, `Window`,
`WindowProofs`; `ThreadsProofs` and `UpdateProofs`; `WireProofs`, the rest of `PathProofs` and
`WindowProofs`, the registry in `ProgramProofs`.

Left:

1. `Coroutines` as an implementation of what `CapturePipe` takes for granted: the
   activations of the pipe on the stack are the packets of the tick (`burst`), and each is
   processed by one of them.  `EachPacketOnce` has the second half.
2. An abstract registry whose operations are one step each, implemented by `NotifyThreads`
   between taking and giving back the mutex, so that `Server` may be read as using it.
