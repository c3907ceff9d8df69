----------------------------- MODULE Connection -----------------------------
(***************************************************************************)
(* The connection task of icecc-proto/src/conn.rs (run_live, connect_once, *)
(* Retry, Recorder), the bounded channel it reports on, and the part of    *)
(* run_tui and App::apply that reads it.                                   *)
(*                                                                         *)
(* The task is one action per stretch of code between two awaits that can  *)
(* wait on somebody else: `at` is the await it stands at.  The remote, the *)
(* network and the disk are free: any answer, refusal, silence or error    *)
(* the code distinguishes may come.  `timer` is the deadline the task is   *)
(* waiting under (discovery, connect, handshake, or the wait between two   *)
(* attempts) in seconds still to go.  A second is long against what a task  *)
(* that is ready needs to run: the second at which a deadline expires does *)
(* not pass before somebody acts on it, and none passes while a wait has   *)
(* been asked to end.                                                      *)
(*                                                                         *)
(* Sessions are numbered modulo SessionTags; the channel never holds two   *)
(* updates of sessions with one tag.  What frames say is not modelled.     *)
(***************************************************************************)
EXTENDS Integers, Sequences, FiniteSetsExt

CONSTANTS
  Capacity,          \* of the update channel, 1024 in conn.rs
  MinDelay,          \* reconnect_min_delay, seconds
  MaxDelay,          \* reconnect_max_delay, seconds
  MaxShift,          \* the largest shift backoff makes, 16
  AttemptMax,        \* u32::MAX, where attempt saturates
  DiscoverTimeout,   \* discover_timeout, seconds
  HandshakeTimeout,  \* handshake_timeout, seconds
  Records,           \* whether --record is given
  KernelProbes,      \* whether the kernel takes the keepalive options
  SessionTags,       \* how many sessions can be told apart
  MaxFrames          \* bound: frames in one session

ASSUME DelayAssumption ==
  /\ MinDelay \in Nat \ {0}
  /\ MaxDelay \in Nat \ {0}
  /\ MaxShift \in Nat
  /\ AttemptMax \in Nat \ {0}
  /\ DiscoverTimeout \in Nat
  /\ HandshakeTimeout \in Nat
ASSUME ChannelAssumption ==
  /\ Capacity \in Nat \ {0}
  /\ SessionTags \in Nat \ {0}
  /\ MaxFrames \in Nat
ASSUME ShiftAssumption == \A n \in 0 .. MaxShift : 2 ^ n \in Nat
ASSUME OptionAssumption == Records \in BOOLEAN /\ KernelProbes \in BOOLEAN

VARIABLES
  plan,         \* Discovery: a named scheduler or a broadcast
  at,           \* where the task waits
  attempt,      \* consecutive attempts that did not log in
  established,  \* whether this attempt logged in
  timer,        \* seconds to the deadline the task waits under
  permit,       \* the permit stored in the Notify of Retry
  conversation, \* the session on the wire, the frames read from it, and
                \* (history) the last of them that was an event
  severed,      \* the peer is gone and said nothing
  probed,       \* keepalive probes are on for this stream
  capture,      \* the capture file
  channel,      \* updates sent and not yet received
  closed,       \* the receiver is dropped
  shown,        \* what the UI has applied
  lastEvent,    \* App::last_event, kept as the session it belongs to
  asked         \* history variable: whether `r` was pressed since the last wait
                \* that was cut short, and whether a wait has ended since

taskVars == <<plan, at, attempt, established, timer>>
wireVars == <<conversation, severed, probed, capture>>
uiVars   == <<closed, shown, lastEvent>>
vars     == <<taskVars, permit, wireVars, channel, uiVars, asked>>

-----------------------------------------------------------------------------
(* Values. *)

Places == {"start", "search", "found", "dial", "greet", "login", "attached",
           "record", "pump", "deliver", "over", "wait", "stopped"}

Tags == 0 .. SessionTags - 1
NoTag == -1

\* enum Update: n is the frame of an Event and the attempt of a Disconnected.
Update ==
  [kind : {"Connecting", "Connected"}, session : Tags, n : {0}] \cup
  [kind : {"Event"}, session : Tags, n : 0 .. MaxFrames] \cup
  [kind : {"Disconnected"}, session : Tags, n : 0 .. AttemptMax]

Make(kind, n) == [kind |-> kind, session |-> conversation.session, n |-> n]

NextTag(s) == (s + 1) % SessionTags

\* tx.send(..).await: waits for room, and fails at once without a receiver.
CanSend == closed \/ Len(channel) < Capacity

Send(u) == channel' = IF closed THEN channel ELSE Append(channel, u)

\* Guards of the steps that wait for nobody's answer.  Each is all its action asks
\* for: a send, a deadline that has passed, a wake-up, a second, an update to apply.
CanTell(place) == at = place /\ CanSend

CanSettle == at = "search" /\ timer = 0

\* Mutant: only the connect is under a deadline.
CanTimeOut_DialOnly == at = "dial" /\ timer = 0

CanTimeOut == at \in {"dial", "greet"} /\ timer = 0

CanSleepOut == at = "wait" /\ timer = 0

CanWake == at = "wait" /\ permit

CanTick == timer > 0 /\ ~CanWake

CanApply == ~closed /\ channel # <<>>

\* Mutant: the delay keeps doubling.
Backoff_Uncapped(a) ==
  IF a = 0 THEN 0 ELSE MinDelay * 2 ^ (IF a - 1 < MaxShift THEN a - 1 ELSE MaxShift)

\* backoff
Backoff(a) ==
  IF a = 0 THEN 0
  ELSE Min({MinDelay * 2 ^ Min({a - 1, MaxShift}), MaxDelay})

\* Mutant: a login does not forgive the failures before it.
AttemptAfter_NoReset(ok, a) == Min({a + 1, AttemptMax})

\* attempt = 0, or attempt.saturating_add(1)
AttemptAfter(ok, a) == IF ok THEN 0 ELSE Min({a + 1, AttemptMax})

-----------------------------------------------------------------------------

Init ==
  /\ plan \in {"Explicit", "Broadcast"}
  /\ at = "start"
  /\ attempt = 0
  /\ established = FALSE
  /\ timer = 0
  /\ permit = FALSE
  /\ conversation = [session |-> 0, read |-> 0, told |-> 0]
  /\ severed = FALSE
  /\ probed = FALSE
  /\ capture = [session |-> NoTag, frames |-> 0]
  /\ channel = <<>>
  /\ closed = FALSE
  /\ shown = [link |-> "Connecting", session |-> 0, heard |-> 0, attempt |-> 0]
  /\ lastEvent = NoTag
  /\ asked = "No"

-----------------------------------------------------------------------------
(* connect_once *)

Step(from, to) == at = from /\ at' = to

\* Update::Connecting goes out before anything is tried.
Announce ==
  /\ CanTell("start")
  /\ Send(Make("Connecting", 0))
  /\ IF plan = "Broadcast" THEN at' = "search" /\ timer' = DiscoverTimeout
                           ELSE at' = "found" /\ timer' = 0
  /\ UNCHANGED <<plan, attempt, established, permit, wireVars, uiVars, asked>>

\* discover::broadcast listens until its deadline, then takes the best answer;
\* without one, or on a socket error, the attempt is over.
Discover ==
  /\ \/ CanSettle /\ at' \in {"found", "over"}
     \/ Step("search", "over")
  /\ timer' = 0
  /\ UNCHANGED <<plan, attempt, established, permit, wireVars, channel, uiVars, asked>>

AnnounceTarget ==
  /\ CanTell("found")
  /\ at' = "dial"
  /\ Send(Make("Connecting", 0))
  /\ timer' = HandshakeTimeout
  /\ UNCHANGED <<plan, attempt, established, permit, wireVars, uiVars, asked>>

\* Mutant: the socket is left with the kernel's defaults.
Dial_Unprobed ==
  /\ Step("dial", "greet")
  /\ timer' = HandshakeTimeout
  /\ severed' = FALSE
  /\ probed' = FALSE
  /\ UNCHANGED <<plan, attempt, established, permit, conversation, capture,
                 channel, uiVars, asked>>

\* TcpStream::connect answered; the handshake gets a deadline of its own.
Dial ==
  /\ Step("dial", "greet")
  /\ timer' = HandshakeTimeout
  /\ severed' = FALSE
  /\ probed' = KernelProbes
  /\ UNCHANGED <<plan, attempt, established, permit, conversation, capture,
                 channel, uiVars, asked>>

Greet ==
  /\ Step("greet", "login")
  /\ timer' = 0
  /\ UNCHANGED <<plan, attempt, established, permit, wireVars, channel, uiVars, asked>>

\* Refused, reset, or not the protocol.
Refused ==
  /\ at \in {"dial", "greet", "login"}
  /\ at' = "over"
  /\ timer' = 0
  /\ UNCHANGED <<plan, attempt, established, permit, wireVars, channel, uiVars, asked>>

\* No answer in handshake_timeout.  An answer in that very second still counts:
\* tokio polls the answer before the deadline.
TimedOut ==
  /\ CanTimeOut
  /\ at' = "over"
  /\ UNCHANGED <<plan, attempt, established, timer, permit, wireVars, channel,
                 uiVars, asked>>

\* MON_LOGIN is written: from here the attempt counts as a success.
Login ==
  /\ Step("login", "attached")
  /\ established' = TRUE
  /\ conversation' = [session |-> NextTag(conversation.session), read |-> 0,
                       told |-> 0]
  /\ UNCHANGED <<plan, attempt, timer, permit, severed, probed, capture, channel,
                 uiVars, asked>>

\* Update::Connected goes out before the capture file is opened.
AnnounceSession ==
  /\ CanTell("attached")
  /\ at' = "record"
  /\ Send(Make("Connected", 0))
  /\ UNCHANGED <<plan, attempt, established, timer, permit, wireVars, uiVars, asked>>

\* Recorder::create truncates; a disk that refuses ends the session.
OpenCapture ==
  /\ \/ /\ Step("record", "pump")
        /\ capture' = IF Records THEN [session |-> conversation.session, frames |-> 0]
                                 ELSE capture
     \/ Records /\ Step("record", "over") /\ UNCHANGED capture
  /\ UNCHANGED <<plan, attempt, established, timer, permit, conversation, severed,
                 probed, channel, uiVars, asked>>

\* Mutant: only what the monitor understands is recorded.
Recorded_Decoded(kind, n) ==
  IF Records /\ kind # "Event" THEN [capture EXCEPT !.frames = n] ELSE capture

\* Recorder::write
Recorded(kind, n) == IF Records THEN [capture EXCEPT !.frames = n] ELSE capture

\* read_frame, Recorder::write and msg::decode of one frame: an event to
\* deliver, MON_END, or a message that cannot be decoded and is passed over.
ReadFrame(kind) ==
  LET n == conversation.read + 1
  IN /\ at = "pump" /\ ~severed
     /\ conversation.read < MaxFrames
     /\ conversation' = [conversation EXCEPT !.read = n,
                                             !.told = IF kind = "Event" THEN n ELSE @]
     /\ capture' = Recorded(kind, n)
     /\ at' = CASE kind = "Event" -> "deliver"
                [] kind = "End" -> "over"
                [] kind = "Undecodable" -> "pump"
     /\ UNCHANGED <<plan, attempt, established, timer, permit, severed, probed,
                    channel, uiVars, asked>>

\* End of file, a socket error, or a frame that could not be recorded.
HangUp ==
  /\ Step("pump", "over")
  /\ ~severed
  /\ UNCHANGED <<plan, attempt, established, timer, permit, wireVars, channel,
                 uiVars, asked>>

\* The kernel's probes go unanswered and the read fails.
ProbesFail ==
  /\ Step("pump", "over")
  /\ severed /\ probed
  /\ UNCHANGED <<plan, attempt, established, timer, permit, wireVars, channel,
                 uiVars, asked>>

\* Mutant: an event is dropped when the channel has no room for it.
Deliver_TrySend ==
  /\ at = "deliver"
  /\ IF CanSend THEN Send(Make("Event", conversation.read)) ELSE UNCHANGED channel
  /\ at' = IF closed THEN "over" ELSE "pump"
  /\ UNCHANGED <<plan, attempt, established, timer, permit, wireVars, uiVars, asked>>

\* The event is sent; without a receiver the session ends.
Deliver ==
  /\ CanTell("deliver")
  /\ Send(Make("Event", conversation.read))
  /\ at' = IF closed THEN "over" ELSE "pump"
  /\ UNCHANGED <<plan, attempt, established, timer, permit, wireVars, uiVars, asked>>

-----------------------------------------------------------------------------
(* run_live, after connect_once returned *)

\* Mutant: a session that ends is not reported, the next attempt will say so.
Report_Silent ==
  /\ Step("over", "wait")
  /\ attempt' = AttemptAfter(established, attempt)
  /\ timer' = Backoff(attempt')
  /\ UNCHANGED <<plan, established, permit, wireVars, channel, uiVars, asked>>

\* Mutant: a failed attempt is an error to return, not to retry.
Report_GivesUp ==
  /\ CanTell("over")
  /\ attempt' = AttemptAfter(established, attempt)
  /\ Send(Make("Disconnected", attempt'))
  /\ at' = IF closed \/ ~established THEN "stopped" ELSE "wait"
  /\ timer' = 0
  /\ UNCHANGED <<plan, established, permit, wireVars, uiVars, asked>>

\* Mutant: a send that waits for room even when nobody will make any.
Report_Deaf ==
  /\ at = "over"
  /\ Len(channel) < Capacity /\ ~closed
  /\ attempt' = AttemptAfter(established, attempt)
  /\ Send(Make("Disconnected", attempt'))
  /\ at' = "wait"
  /\ timer' = Backoff(attempt')
  /\ UNCHANGED <<plan, established, permit, wireVars, uiVars, asked>>

Report ==
  /\ CanTell("over")
  /\ attempt' = AttemptAfter(established, attempt)
  /\ Send(Make("Disconnected", attempt'))
  /\ at' = IF closed THEN "stopped" ELSE "wait"
  /\ timer' = IF closed THEN 0 ELSE Backoff(attempt')
  /\ UNCHANGED <<plan, established, permit, wireVars, uiVars, asked>>

\* The wait is over, whichever branch of the select ended it.  The history notes
\* what can be told from outside: whether it had time left.
Resume ==
  /\ at' = IF closed THEN "stopped" ELSE "start"
  /\ established' = FALSE
  /\ timer' = 0
  /\ asked' = IF timer > 0 THEN "No" ELSE IF asked = "Yes" THEN "Once" ELSE asked
  /\ UNCHANGED <<plan, attempt, wireVars, channel, uiVars>>

\* With both branches ready select! takes either, and a request it leaves is kept.
Slept == CanSleepOut /\ Resume /\ UNCHANGED permit

Woken == CanWake /\ Resume /\ permit' = FALSE

-----------------------------------------------------------------------------
(* The clock, the network, and the UI loop. *)

Second ==
  /\ CanTick
  /\ timer' = timer - 1
  /\ UNCHANGED <<plan, at, attempt, established, permit, wireVars, channel,
                 uiVars, asked>>

\* A pulled cable or a dropped VPN: no FIN, no RST.
Sever ==
  /\ at \in {"attached", "record", "pump", "deliver"}
  /\ ~severed
  /\ severed' = TRUE
  /\ UNCHANGED <<taskVars, permit, conversation, probed, capture, channel,
                 uiVars, asked>>

\* What App::apply and Cluster::apply make of an update.
Applied(u) ==
  CASE u.kind = "Connecting"   -> [shown EXCEPT !.link = "Connecting"]
    [] u.kind = "Connected"    -> [shown EXCEPT !.link = "Connected",
                                     !.session = u.session, !.heard = 0]
    [] u.kind = "Event"        -> [shown EXCEPT !.session = u.session, !.heard = u.n]
    [] u.kind = "Disconnected" -> [shown EXCEPT !.link = "Disconnected",
                                     !.attempt = u.n]

\* rx.recv() in run_tui and run_dump
Apply ==
  /\ CanApply
  /\ shown' = Applied(Head(channel))
  /\ lastEvent' = IF Head(channel).kind = "Event" THEN Head(channel).session
                                                  ELSE lastEvent
  /\ channel' = Tail(channel)
  /\ UNCHANGED <<taskVars, permit, wireVars, closed, asked>>

\* Mutant: notify_waiters, which wakes a wait and stores nothing for the next.
PressRetry_WaitersOnly ==
  /\ ~closed /\ shown.link # "Connected"
  /\ permit' = (permit \/ at = "wait")
  /\ asked' = "Yes"
  /\ UNCHANGED <<taskVars, wireVars, channel, uiVars>>

\* `r` in run_tui: Retry::now, unless the screen says connected.  notify_one
\* stores one permit, however often it is called.
PressRetry ==
  /\ ~closed /\ shown.link # "Connected"
  /\ permit' = TRUE
  /\ asked' = "Yes"
  /\ UNCHANGED <<taskVars, wireVars, channel, uiVars>>

\* The UI returns and drops the receiver with what it holds.
Quit ==
  /\ ~closed
  /\ closed' = TRUE
  /\ channel' = <<>>
  /\ UNCHANGED <<taskVars, permit, wireVars, shown, lastEvent, asked>>

Stopped == at = "stopped" /\ UNCHANGED vars

-----------------------------------------------------------------------------

Task ==
  \/ Announce \/ Discover \/ AnnounceTarget \/ Dial \/ Greet \/ Refused
  \/ TimedOut \/ Login \/ AnnounceSession \/ OpenCapture
  \/ \E kind \in {"Event", "End", "Undecodable"} : ReadFrame(kind)
  \/ HangUp \/ ProbesFail \/ Deliver \/ Report \/ Slept \/ Woken

Next == Task \/ Second \/ Sever \/ Apply \/ PressRetry \/ Quit \/ Stopped

Spec == Init /\ [][Next]_vars

\* What runs on this machine goes on: the clock, the task wherever it is not
\* waiting for the remote, and the loop that drains the channel.  The remote may
\* stay silent for ever, and no key has to be pressed.
Fairness ==
  /\ WF_vars(Second)
  /\ WF_vars(Announce) /\ WF_vars(AnnounceTarget) /\ WF_vars(AnnounceSession)
  /\ WF_vars(CanSettle /\ Discover) /\ WF_vars(TimedOut)
  /\ WF_vars(at = "login" /\ (Login \/ Refused))
  /\ WF_vars(OpenCapture) /\ WF_vars(ProbesFail) /\ WF_vars(Deliver)
  /\ WF_vars(Report) /\ WF_vars(Slept) /\ WF_vars(Woken)
  /\ WF_vars(Apply)

FairSpec == Spec /\ Fairness

-----------------------------------------------------------------------------
(* Properties. *)

\* The state has the shape of the task's locals.
TypeOK ==
  /\ plan \in {"Explicit", "Broadcast"}
  /\ at \in Places
  /\ attempt \in 0 .. AttemptMax
  /\ established \in BOOLEAN
  /\ timer \in Nat
  /\ permit \in BOOLEAN
  /\ conversation \in [session : Tags, read : 0 .. MaxFrames, told : 0 .. MaxFrames]
  /\ severed \in BOOLEAN /\ probed \in BOOLEAN
  /\ capture \in [session : Tags \cup {NoTag}, frames : 0 .. MaxFrames]
  /\ channel \in Seq(Update)
  /\ closed \in BOOLEAN
  /\ shown \in [link : {"Connecting", "Connected", "Disconnected"},
                session : Tags, heard : 0 .. MaxFrames, attempt : 0 .. AttemptMax]
  /\ lastEvent \in Tags \cup {NoTag}
  /\ asked \in {"No", "Yes", "Once"}

Promise == INSTANCE Session
  WITH link <- shown.link, session <- shown.session, heard <- shown.heard

\* What the UI applies is what Session promises: however attempts fail, however
\* full the channel is, no update is lost, reordered or carried over from one
\* session to the next, and an event is never applied outside its session.
KeepsThePromise == Promise!SessionSpec

\* What the screen shows of the link, and what it will show after an update.
View(sh) ==
  [link |-> sh.link, session |-> sh.session,
   heard |-> IF sh.link = "Connected" THEN sh.heard ELSE 0]

After(u) ==
  [link |-> IF u.kind = "Event" THEN "Connected" ELSE u.kind,
   session |-> u.session,
   heard |-> IF u.kind = "Event" THEN u.n ELSE 0]

\* Where the screen will be once it has applied what is in the channel.
Newest == IF channel = <<>> THEN View(shown) ELSE After(channel[Len(channel)])

\* A slow UI holds the task up and loses nothing: while the task waits for a
\* frame, the newest event it read is the newest the UI has or will get, and the
\* updates that wait are never more than the channel has room for.
NoEventLost ==
  /\ at = "pump" /\ ~closed =>
       Newest = [link |-> "Connected", session |-> conversation.session,
                 heard |-> conversation.told]
  /\ Len(channel) <= Capacity

\* The capture file of the running session holds every frame read from it, the
\* undecodable ones too, before the UI hears of them.
CaptureIsComplete ==
  Records /\ at \in {"pump", "deliver"} =>
    capture = [session |-> conversation.session, frames |-> conversation.read]

\* "Reset to 0 by a successful login, so a large number means down for a while":
\* the count shown with a lost connection is 0 exactly when the screen had just
\* shown a session.
AttemptTellsFlappingFromDown ==
  [][shown'.link = "Disconnected" /\ shown.link # "Disconnected" =>
       (shown'.attempt = 0 <=> shown.link = "Connected")]_vars

\* However long the failures go on, the wait is within the ceiling the user set,
\* and a lost session is retried at once; and the deadline of a search or of a
\* handshake is never left running into the session it led to.
WaitWithinCeiling ==
  /\ at = "wait" => timer <= MaxDelay /\ (established => timer = 0)
  /\ timer > 0 => at \in {"search", "dial", "greet", "wait"}

\* However silent the remote is, an attempt comes to a session or to a wait.
EveryAttemptEnds == at = "start" ~> at \in {"pump", "wait", "stopped"}

\* "Without keepalive, a pulled cable leaves the monitor displaying a connected
\* cluster whose figures stopped being true": a link that dies without a word is
\* shown as lost in the end.
SeveredIsNoticed ==
  severed /\ at = "pump" ~> closed \/ shown.link = "Disconnected"

\* A task blocked on a full channel, or waiting to retry, ends when the UI quits.
QuitStopsTheTask == closed ~> at \in {"pump", "stopped"}

\* A scheduler that is up again, or a network that is back: attempts do not fail
\* for ever.
Reachable ==
  /\ SF_vars(at = "search" /\ Second) /\ SF_vars(Discover /\ at' = "found")
  /\ SF_vars(Dial) /\ SF_vars(Greet) /\ SF_vars(Login)

\* "The connection task retries forever": whatever was lost and however often, a
\* scheduler that can be reached is shown as connected again.
Reconnects == Reachable => []<>(closed \/ shown.link = "Connected")

\* "Consumed by the next wait rather than lost or doubled": whenever `r` is pressed,
\* during a wait, an attempt or a session the screen does not show yet, the wait
\* under way or the next one passes no second of its backoff; and a wait is never
\* cut short but for a key that no wait was cut short for before.
RetryIsHonouredOnce ==
  [][at = "wait" =>
       /\ asked = "Yes" => timer' >= timer \/ at' # "wait"
       /\ at' # "wait" /\ timer > 0 => asked # "No"]_vars

\* App::quiet_for is Some
QuietForKnown == shown.link = "Connected" /\ lastEvent # NoTag

\* "None before the first event of a session".
SilentBeforeFirstEvent ==
  shown.link = "Connected" /\ shown.heard = 0 => ~QuietForKnown

=============================================================================
