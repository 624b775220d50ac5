----------------------------- MODULE UpdateChecker -----------------------------
(***************************************************************************)
(* The check for a newer release: on start, quietly, if the last recorded  *)
(* check is long enough ago, and from the menu at any time.  Every check   *)
(* has a detached thread of its own, whose result comes back as a message  *)
(* to the window.  The time of a check is recorded in the settings, by the *)
(* handler of that message.                                                *)
(***************************************************************************)
EXTENDS Integers, Sequences, FiniteSets

CONSTANTS
    Worker,     \* bound: threads at a time
    Nobody,     \* no thread holds checkMutex_
    Never,      \* no automatic check has had an answer
    Installed,  \* the installed version
    Tag,        \* the tags of releases
    NoAnswer,   \* a step of the check has returned nothing
    MaxNumber,  \* the largest number that std::stoul takes
    Interval,   \* kCheckIntervalSec
    MaxTime,    \* bound: the end of time
    MaxMessages \* bound: results waiting when a check is asked for

ASSUME UpdateAssumption ==
    /\ Nobody \notin Worker
    /\ Never \notin Nat
    /\ Installed \in [parts : [1 .. 4 -> Nat], suffix : BOOLEAN]
    /\ Tag \subseteq [parts : {<<>>} \cup [1 .. 3 -> Nat] \cup [1 .. 4 -> Nat], suffix : BOOLEAN]
    /\ NoAnswer \notin Tag \cup {Installed}
    /\ MaxNumber \in Nat
    /\ Interval \in Nat
    /\ MaxTime \in Nat
    /\ MaxMessages \in Nat

VARIABLES
    running,          \* the window exists
    now,              \* the time
    checkOnStart,     \* CheckUpdates in settings.ini
    lastUpdateCheck,  \* LastUpdateCheck in settings.ini
    release,          \* the tag of the latest release
    worker,           \* what each thread is doing
    checkMutex,       \* who holds checkMutex_
    messages,         \* WM_UPDATE_CHECK messages the window has yet to take
    shown,            \* the box opened in the last step
    asked,            \* the user has asked for a check since the start
    answered          \* when an automatic check last had an answer

vars == <<running, now, checkOnStart, lastUpdateCheck, release, worker,
          checkMutex, messages, shown, asked, answered>>

Result == {"FOUND", "NOT_FOUND", "CHECK_ERROR"}

None == [quiet |-> FALSE, pc |-> "none"]

-----------------------------------------------------------------------------
(* Faulty variants, here and below, are named for their slip: each one    *)
(* stands for a bug that a property must tell from the code.               *)
isNewerVersionByPart(current, latest) ==
    IF \E i \in DOMAIN current.parts \cap DOMAIN latest.parts : current.parts[i] < latest.parts[i]
    THEN 1 ELSE 0

(* isNewerVersion: 1, 0, or -1 for an error.  A version is its numbers,    *)
(* none where the expression does not match, and whether a suffix follows. *)
(* The first place decides where the numbers differ, or one is too large;  *)
(* the place where one version ends; and last the suffix.                  *)
isNewerVersion(current, latest) ==
    LET both == DOMAIN current.parts \cap DOMAIN latest.parts
        decides == {i \in both : \/ current.parts[i] # latest.parts[i]
                                \/ {current.parts[i], latest.parts[i]} \cap 0..MaxNumber = {}}
        first == CHOOSE i \in decides : \A j \in decides : i <= j
    IN  CASE both = {} -> -1
          [] decides # {} ->
                IF {current.parts[first], latest.parts[first]} \subseteq 0..MaxNumber
                THEN IF current.parts[first] < latest.parts[first] THEN 1 ELSE 0
                ELSE -1
          [] decides = {} /\ both = 1 .. 3 -> IF 4 \in DOMAIN current.parts THEN 0 ELSE 1
          [] decides = {} /\ both = 1 .. 4 -> IF current.suffix /\ ~latest.suffix THEN 1 ELSE 0

-----------------------------------------------------------------------------
(* A thread.                                                               *)

(* checkUpdates starts a thread.                                           *)
CheckUpdates(w, quiet) ==
    /\ worker[w] = None
    /\ worker' = [worker EXCEPT ![w] = [quiet |-> quiet, pc |-> "start"]]

TryLockUnheeded(w) ==
    /\ worker[w].pc = "start"
    /\ checkMutex' = w
    /\ worker' = [worker EXCEPT ![w].pc = "check"]
    /\ shown' = "nothing"
    /\ UNCHANGED <<running, now, checkOnStart, lastUpdateCheck, release, messages, asked, answered>>

(* A thread that finds another check under way gives up without a word.    *)
TryLock(w) ==
    /\ worker[w].pc = "start"
    /\ IF checkMutex = Nobody
       THEN checkMutex' = w /\ worker' = [worker EXCEPT ![w].pc = "check"]
       ELSE worker' = [worker EXCEPT ![w] = None] /\ UNCHANGED checkMutex
    /\ shown' = "nothing"
    /\ UNCHANGED <<running, now, checkOnStart, lastUpdateCheck, release, messages, asked, answered>>

ShowResultAlways(result, quiet) == messages' = Append(messages, result)

(* A quiet check only has something to say if there is a newer release.    *)
ShowResult(result, quiet) ==
    messages' = IF result = "FOUND" \/ ~quiet THEN Append(messages, result) ELSE messages

(* Any call on the way to the version resource, to the server or through   *)
(* the JSON may fail, and every failure returns an empty string.           *)
getVersion == {Installed, NoAnswer}

getLatestRelease == {release, NoAnswer}

parseReleaseTag(json) == {json, NoAnswer}

CheckResult ==
    {IF version = NoAnswer \/ tag = NoAnswer THEN "CHECK_ERROR"
     ELSE CASE isNewerVersion(version, tag) = 0 -> "NOT_FOUND"
            [] isNewerVersion(version, tag) = 1 -> "FOUND"
            [] OTHER -> "CHECK_ERROR" :
        version \in getVersion, tag \in UNION {parseReleaseTag(json) : json \in getLatestRelease}}

(* The release is fetched and compared, each step if the one before had an *)
(* answer.                                                                 *)
CheckWorker(w) ==
    /\ worker[w].pc = "check"
    /\ \E result \in CheckResult :
         /\ ShowResult(result, worker[w].quiet)
         /\ answered' = IF worker[w].quiet /\ result # "CHECK_ERROR" THEN now ELSE answered
    /\ checkMutex' = Nobody
    /\ worker' = [worker EXCEPT ![w] = None]
    /\ shown' = "nothing"
    /\ UNCHANGED <<running, now, checkOnStart, lastUpdateCheck, release, asked>>

-----------------------------------------------------------------------------
(* The application.                                                        *)

(* run: an automatic check, unless the last recorded one is too recent.    *)
Start ==
    /\ ~running
    /\ running' = TRUE
    /\ asked' = FALSE
    /\ IF checkOnStart /\ now - lastUpdateCheck >= Interval
       THEN \E w \in Worker : CheckUpdates(w, TRUE)
       ELSE UNCHANGED worker
    /\ shown' = "nothing"
    /\ UNCHANGED <<now, checkOnStart, lastUpdateCheck, release, checkMutex, messages, answered>>

CheckFromMenu ==
    /\ running
    /\ Len(messages) < MaxMessages
    /\ asked' = TRUE
    /\ \E w \in Worker : CheckUpdates(w, FALSE)
    /\ shown' = "nothing"
    /\ UNCHANGED <<running, now, checkOnStart, lastUpdateCheck, release, checkMutex, messages, answered>>

ToggleCheckOnStart ==
    /\ running
    /\ checkOnStart' = ~checkOnStart
    /\ shown' = "nothing"
    /\ UNCHANGED <<running, now, lastUpdateCheck, release, worker, checkMutex, messages, asked, answered>>

OnUpdateCheckFinishRecordsDue ==
    /\ running
    /\ messages # <<>>
    /\ messages' = Tail(messages)
    /\ shown' = Head(messages)
    /\ lastUpdateCheck' = now + Interval
    /\ UNCHANGED <<running, now, checkOnStart, release, worker, checkMutex, asked, answered>>

(* A check that had an answer is recorded, if the file can be written, and *)
(* the result is shown.                                                    *)
OnUpdateCheckFinish ==
    /\ running
    /\ messages # <<>>
    /\ messages' = Tail(messages)
    /\ shown' = Head(messages)
    /\ lastUpdateCheck' \in IF Head(messages) = "CHECK_ERROR" THEN {lastUpdateCheck}
                            ELSE {lastUpdateCheck, now}
    /\ UNCHANGED <<running, now, checkOnStart, release, worker, checkMutex, asked, answered>>

(* The process ends, and with it its threads and messages.                 *)
Exit ==
    /\ running
    /\ running' = FALSE
    /\ worker' = [w \in Worker |-> None]
    /\ checkMutex' = Nobody
    /\ messages' = <<>>
    /\ shown' = "nothing"
    /\ UNCHANGED <<now, checkOnStart, lastUpdateCheck, release, asked, answered>>

Publish(tag) ==
    /\ tag # release
    /\ release' = tag
    /\ shown' = "nothing"
    /\ UNCHANGED <<running, now, checkOnStart, lastUpdateCheck, worker, checkMutex, messages, asked, answered>>

Clock ==
    /\ now < MaxTime
    /\ now' = now + 1
    /\ shown' = "nothing"
    /\ UNCHANGED <<running, checkOnStart, lastUpdateCheck, release, worker, checkMutex, messages, asked, answered>>

-----------------------------------------------------------------------------
Init ==
    /\ running = FALSE
    /\ now = Interval
    /\ checkOnStart = TRUE
    /\ lastUpdateCheck = 0
    /\ release \in Tag
    /\ worker = [w \in Worker |-> None]
    /\ checkMutex = Nobody
    /\ messages = <<>>
    /\ shown = "nothing"
    /\ asked = FALSE
    /\ answered = Never

Next ==
    \/ \E w \in Worker : TryLock(w) \/ CheckWorker(w)
    \/ Start
    \/ CheckFromMenu
    \/ ToggleCheckOnStart
    \/ OnUpdateCheckFinish
    \/ Exit
    \/ \E tag \in Tag : Publish(tag)
    \/ Clock

Spec == Init /\ [][Next]_vars

-----------------------------------------------------------------------------
(* Properties.                                                             *)

(* The type of the state.                                                  *)
TypeOK ==
    /\ running \in BOOLEAN /\ checkOnStart \in BOOLEAN /\ asked \in BOOLEAN
    /\ now \in Nat
    /\ lastUpdateCheck \in 0 .. now
    /\ release \in Tag
    /\ worker \in [Worker -> [quiet : BOOLEAN, pc : {"none", "start", "check"}]]
    /\ checkMutex \in Worker \cup {Nobody}
    /\ messages \in Seq(Result)
    /\ shown \in Result \cup {"nothing"}
    /\ answered \in Nat \cup {Never}

(* However many checks are asked for, one at a time reaches the network.   *)
OneCheckAtATime ==
    Cardinality({w \in Worker : worker[w].pc = "check"}) = (IF checkMutex = Nobody THEN 0 ELSE 1)

(* Only a newer release is brought up by the program itself: that there is *)
(* none, or that the check failed, is told to a user who asked.            *)
UnaskedOnlyFound == shown \in {"NOT_FOUND", "CHECK_ERROR"} => asked

(* Versions in the order that Util.h describes: by their numbers, where a  *)
(* missing fourth one comes before any, then a suffix before none.         *)
Rank(version) ==
    [i \in 1 .. 5 |-> IF i = 5 THEN (IF version.suffix THEN 0 ELSE 1)
                      ELSE IF i \in DOMAIN version.parts THEN version.parts[i] + 1 ELSE 0]

Newer(tag) ==
    \E i \in 1 .. 5 :
      /\ Rank(tag)[i] > Rank(Installed)[i]
      /\ \A j \in 1 .. i - 1 : Rank(tag)[j] = Rank(Installed)[j]

(* An update is announced exactly for a tag that is newer, whichever of    *)
(* the two versions has more numbers or a suffix; what is no version is    *)
(* never announced as one.                                                 *)
FoundMeansNewer ==
    [][\A w \in Worker :
         worker[w].pc = "check" /\ worker'[w] = None /\ Len(messages') > Len(messages) =>
           (messages'[Len(messages')] = "FOUND" => Newer(release))
             /\ (messages'[Len(messages')] = "NOT_FOUND" => ~Newer(release))]_vars

(* The comment in run: an automatic check at most once in an interval,     *)
(* unless the last one failed.                                             *)
Throttled ==
    [][~running /\ running' /\ worker' # worker =>
         answered = Never \/ now - answered >= Interval]_vars

=============================================================================
