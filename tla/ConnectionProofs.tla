-------------------------- MODULE ConnectionProofs --------------------------
(***************************************************************************)
(* What holds of the connection task for every capacity of the channel,    *)
(* every delay and every number of tags and frames.                        *)
(*                                                                         *)
(* The argument for the order of updates: the channel is Orderly, each     *)
(* update fits on what the one before it will have shown, the first on     *)
(* what is shown now, and where the task stands is known from the last     *)
(* (TaskInv).  The UI takes the first and leaves the rest as orderly.      *)
(***************************************************************************)
EXTENDS Connection, TLAPS

\* The guards are names for the first conjuncts of actions; every proof sees them.
USE DEF CanTell, CanSettle, CanTimeOut, CanSleepOut, CanWake, CanTick, CanApply

-----------------------------------------------------------------------------
(* Helpers. *)

\* The smaller of two numbers is one of them.
LEMMA MinOfTwo ==
  ASSUME NEW a \in Int, NEW b \in Int
  PROVE  /\ Min({a, b}) \in {a, b}
         /\ Min({a, b}) <= a /\ Min({a, b}) <= b
<1>1. \E x \in {a, b} : \A y \in {a, b} : x <= y
  <2>1. CASE a <= b
    BY <2>1
  <2>2. CASE ~(a <= b)
    BY <2>2
  <2> QED BY <2>1, <2>2
<1>2. Min({a, b}) \in {a, b} /\ \A y \in {a, b} : Min({a, b}) <= y
  BY <1>1 DEF Min
<1> QED BY <1>2

\* The count of failed attempts saturates.
LEMMA AttemptInRange ==
  ASSUME NEW ok \in BOOLEAN, NEW a \in 0 .. AttemptMax
  PROVE  /\ AttemptAfter(ok, a) \in 0 .. AttemptMax
         /\ ok <=> AttemptAfter(ok, a) = 0
<1>1. AttemptMax \in Nat /\ AttemptMax > 0
  BY DelayAssumption
<1>2. Min({a + 1, AttemptMax}) \in {a + 1, AttemptMax} /\ Min({a + 1, AttemptMax}) <= AttemptMax
  BY <1>1, MinOfTwo
<1> QED BY <1>1, <1>2 DEF AttemptAfter

\* The delay is a time, within the ceiling, and none after a session.
LEMMA BackoffInRange ==
  ASSUME NEW a \in Nat
  PROVE  /\ Backoff(a) \in Nat /\ Backoff(a) <= MaxDelay
         /\ a = 0 => Backoff(a) = 0
<1>1. MaxDelay \in Nat /\ MinDelay \in Nat /\ MaxShift \in Nat
  BY DelayAssumption
<1>2. CASE a = 0
  BY <1>1, <1>2 DEF Backoff
<1>3. CASE a # 0
  <2> DEFINE shift == Min({a - 1, MaxShift})
             long  == MinDelay * 2 ^ shift
  <2>1. shift \in 0 .. MaxShift
    <3>1. a - 1 \in Nat
      BY <1>3
    <3>2. shift \in {a - 1, MaxShift} /\ shift <= MaxShift
      BY <1>1, <3>1, MinOfTwo
    <3> HIDE DEF shift
    <3> QED BY <1>1, <3>1, <3>2
  <2>2. 2 ^ shift \in Nat
    BY <2>1, ShiftAssumption
  <2>3. long \in Nat
    <3> HIDE DEF shift
    <3> QED BY <1>1, <2>2
  <2>4. Min({long, MaxDelay}) \in {long, MaxDelay} /\ Min({long, MaxDelay}) <= MaxDelay
    <3> HIDE DEF long
    <3> QED BY <1>1, <2>3, MinOfTwo
  <2>5. Backoff(a) = Min({long, MaxDelay})
    BY <1>3 DEF Backoff
  <2> HIDE DEF long
  <2> QED BY <1>1, <1>3, <2>3, <2>4, <2>5
<1> QED BY <1>2, <1>3

\* After the last tag the tags start again.
LEMMA NextTagIsTag ==
  ASSUME NEW s \in Tags
  PROVE  NextTag(s) \in Tags
<1>1. SessionTags \in Nat /\ SessionTags > 0
  BY ChannelAssumption
<1>2. s + 1 \in Nat
  BY <1>1 DEF Tags
<1> QED BY <1>1, <1>2 DEF Tags, NextTag

-----------------------------------------------------------------------------
(* Types. *)

\* Every update the task can send is one.
LEMMA UpdateTypes ==
  ASSUME TypeOK
  PROVE  /\ Make("Connecting", 0) \in Update /\ Make("Connected", 0) \in Update
         /\ Make("Event", conversation.read) \in Update
         /\ \A n \in 0 .. AttemptMax : Make("Disconnected", n) \in Update
<1>1. MaxFrames \in Nat /\ AttemptMax \in Nat
  BY ChannelAssumption, DelayAssumption
<1> QED BY <1>1 DEF TypeOK, Make, Update

\* A send leaves a sequence of updates in the channel.
LEMMA SendType ==
  ASSUME TypeOK, NEW u \in Update, Send(u)
  PROVE  channel' \in Seq(Update)
BY DEF TypeOK, Send

\* The UI stays within its type, whatever update it takes.
LEMMA ApplyType ==
  ASSUME TypeOK, NEW u \in Update
  PROVE  Applied(u) \in [link : {"Connecting", "Connected", "Disconnected"},
                         session : Tags, heard : 0 .. MaxFrames,
                         attempt : 0 .. AttemptMax]
<1>1. MaxFrames \in Nat
  BY ChannelAssumption
<1>2. /\ shown \in [link : {"Connecting", "Connected", "Disconnected"},
                    session : Tags, heard : 0 .. MaxFrames, attempt : 0 .. AttemptMax]
      /\ u.session \in Tags
      /\ u.kind \in {"Connecting", "Connected", "Event", "Disconnected"}
      /\ u.kind = "Event" => u.n \in 0 .. MaxFrames
      /\ u.kind = "Disconnected" => u.n \in 0 .. AttemptMax
  BY DEF TypeOK, Update
<1>3. CASE u.kind = "Connecting"
  BY <1>2, <1>3 DEF Applied
<1>4. CASE u.kind = "Connected"
  <2>1. Applied(u) = [[[shown EXCEPT !.link = "Connected"] EXCEPT !.session = u.session]
                        EXCEPT !.heard = 0]
    BY <1>4 DEF Applied
  <2>2. 0 \in 0 .. MaxFrames
    BY <1>1
  <2> QED BY <1>2, <2>1, <2>2
<1>5. CASE u.kind = "Event"
  BY <1>2, <1>5 DEF Applied
<1>6. CASE u.kind = "Disconnected"
  BY <1>2, <1>6 DEF Applied
<1> QED BY <1>2, <1>3, <1>4, <1>5, <1>6

\* The initial state has its type.
LEMMA InitType == Init => TypeOK
<1>1. /\ MaxFrames \in Nat /\ AttemptMax \in Nat
     /\ SessionTags \in Nat /\ SessionTags > 0
  BY ChannelAssumption, DelayAssumption
<1> SUFFICES ASSUME Init PROVE TypeOK
  OBVIOUS
<1>2. 0 \in Tags /\ 0 \in 0 .. MaxFrames /\ 0 \in 0 .. AttemptMax
  BY <1>1 DEF Tags
<1>3. /\ conversation \in [session : Tags, read : 0 .. MaxFrames, told : 0 .. MaxFrames]
      /\ capture \in [session : Tags \cup {NoTag}, frames : 0 .. MaxFrames]
  BY <1>2 DEF Init
<1>4. shown \in [link : {"Connecting", "Connected", "Disconnected"},
                 session : Tags, heard : 0 .. MaxFrames, attempt : 0 .. AttemptMax]
  BY <1>2 DEF Init
<1>5. channel \in Seq(Update)
  BY DEF Init
<1> QED BY <1>2, <1>3, <1>4, <1>5 DEF Init, TypeOK, Places

\* No step leaves the types: one case an action.
LEMMA NextType == TypeOK /\ [Next]_vars => TypeOK'
<1> SUFFICES ASSUME TypeOK, [Next]_vars PROVE TypeOK'
  OBVIOUS
<1>n. /\ MaxFrames \in Nat /\ AttemptMax \in Nat
     /\ DiscoverTimeout \in Nat /\ HandshakeTimeout \in Nat
  BY ChannelAssumption, DelayAssumption
<1>o. KernelProbes \in BOOLEAN
  BY OptionAssumption
<1> USE <1>n DEF TypeOK, taskVars, wireVars, uiVars, Places, Step
<1>1. CASE Announce
  BY <1>1, UpdateTypes, SendType DEF Announce
<1>2. CASE Discover
  BY <1>2 DEF Discover
<1>3. CASE AnnounceTarget
  BY <1>3, UpdateTypes, SendType DEF AnnounceTarget
<1>4. CASE Dial
  BY <1>4, <1>o DEF Dial
<1>5. CASE Greet
  BY <1>5 DEF Greet
<1>6. CASE Refused
  BY <1>6 DEF Refused
<1>7. CASE TimedOut
  BY <1>7 DEF TimedOut
<1>8. CASE Login
  BY <1>8, NextTagIsTag DEF Login
<1>9. CASE AnnounceSession
  BY <1>9, UpdateTypes, SendType DEF AnnounceSession
<1>10. CASE OpenCapture
  BY <1>10 DEF OpenCapture
<1>11. ASSUME NEW kind \in {"Event", "End", "Undecodable"}, ReadFrame(kind)
       PROVE TypeOK'
  <2>0. conversation.read + 1 \in 0 .. MaxFrames
    BY <1>11 DEF ReadFrame
  <2>1. conversation' \in [session : Tags, read : 0 .. MaxFrames, told : 0 .. MaxFrames]
    <3>1. CASE kind = "Event"
      BY <1>11, <2>0, <3>1 DEF ReadFrame
    <3>2. CASE kind # "Event"
      BY <1>11, <2>0, <3>2 DEF ReadFrame
    <3> QED BY <3>1, <3>2
  <2>2. capture' \in [session : Tags \cup {NoTag}, frames : 0 .. MaxFrames]
    <3>1. capture' = capture \/ capture' = [capture EXCEPT !.frames = conversation.read + 1]
      BY <1>11 DEF ReadFrame, Recorded
    <3> QED BY <2>0, <3>1
  <2> QED BY <1>11, <2>1, <2>2 DEF ReadFrame
<1>12. CASE HangUp
  BY <1>12 DEF HangUp
<1>13. CASE ProbesFail
  BY <1>13 DEF ProbesFail
<1>14. CASE Deliver
  BY <1>14, UpdateTypes, SendType DEF Deliver
<1>15. CASE Report
  <2>1. attempt' \in 0 .. AttemptMax
    BY <1>15, AttemptInRange DEF Report
  <2>2. timer' \in Nat
    BY <1>15, <2>1, BackoffInRange DEF Report
  <2>3. channel' \in Seq(Update)
    BY <1>15, <2>1, UpdateTypes, SendType DEF Report
  <2> QED BY <1>15, <2>1, <2>2, <2>3 DEF Report
<1>16. CASE Slept
  BY <1>16 DEF Slept, Resume
<1>17. CASE Woken
  BY <1>17 DEF Woken, Resume
<1>18. CASE Second
  BY <1>18 DEF Second
<1>19. CASE Sever
  BY <1>19 DEF Sever
<1>20. CASE Apply
  <2>1. Head(channel) \in Update /\ Tail(channel) \in Seq(Update)
    BY <1>20 DEF Apply
  <2>2. Head(channel).session \in Tags
    BY <2>1 DEF Update
  <2> QED BY <1>20, <2>1, <2>2, ApplyType DEF Apply
<1>21. CASE PressRetry
  BY <1>21 DEF PressRetry
<1>22. CASE Quit
  BY <1>22 DEF Quit
<1>23. CASE UNCHANGED vars
  BY <1>23 DEF vars
<1> QED
  BY <1>1, <1>2, <1>3, <1>4, <1>5, <1>6, <1>7, <1>8, <1>9, <1>10, <1>11, <1>12,
     <1>13, <1>14, <1>15, <1>16, <1>17, <1>18, <1>19, <1>20, <1>21, <1>22, <1>23
     DEF Next, Task, Stopped

\* The task's locals, its channel and the screen have the types of their
\* declarations; what waits in the channel is an update of a tag there is.
THEOREM ConnectionTypes == Spec => []TypeOK
BY InitType, NextType, PTL DEF Spec

-----------------------------------------------------------------------------
(* Deadlines. *)

\* One deadline at a time: each place that has one sets it on entering, every
\* other is entered with none.
LEMMA NextWait == TypeOK /\ WaitWithinCeiling /\ [Next]_vars => WaitWithinCeiling'
<1> SUFFICES ASSUME TypeOK, WaitWithinCeiling, [Next]_vars PROVE WaitWithinCeiling'
  OBVIOUS
<1>n. MaxDelay \in Nat /\ DiscoverTimeout \in Nat /\ HandshakeTimeout \in Nat
  BY DelayAssumption
<1>t. timer \in Nat /\ established \in BOOLEAN /\ attempt \in 0 .. AttemptMax /\ closed \in BOOLEAN
  BY DEF TypeOK
<1> USE <1>n, <1>t DEF WaitWithinCeiling, taskVars, Step
<1>1. CASE Report
  <2>1. attempt' \in Nat /\ (established => attempt' = 0)
    BY <1>1, AttemptInRange DEF Report
  <2>2. Backoff(attempt') \in Nat /\ Backoff(attempt') <= MaxDelay
        /\ (established => Backoff(attempt') = 0)
    BY <2>1, BackoffInRange
  <2>3. timer' \in {0, Backoff(attempt')} /\ established' = established
        /\ at' \in {"stopped", "wait"} /\ (at' = "stopped" => timer' = 0)
    BY <1>1 DEF Report
  <2> QED BY <2>2, <2>3
<1>2. CASE Announce
  BY <1>2 DEF Announce
<1>3. CASE Discover
  BY <1>3 DEF Discover
<1>4. CASE AnnounceTarget
  BY <1>4 DEF AnnounceTarget
<1>5. CASE Dial \/ Greet \/ Refused \/ TimedOut
  BY <1>5 DEF Dial, Greet, Refused, TimedOut
<1>6. CASE Login \/ AnnounceSession \/ OpenCapture
  BY <1>6 DEF Login, AnnounceSession, OpenCapture
<1>7. ASSUME NEW kind \in {"Event", "End", "Undecodable"}, ReadFrame(kind)
      PROVE WaitWithinCeiling'
  BY <1>7 DEF ReadFrame
<1>8. CASE HangUp \/ ProbesFail \/ Deliver
  BY <1>8 DEF HangUp, ProbesFail, Deliver
<1>9. CASE Slept \/ Woken
  BY <1>9 DEF Slept, Woken, Resume
<1>10. CASE Second
  BY <1>10 DEF Second
<1>11. CASE Sever \/ Apply \/ PressRetry \/ Quit \/ UNCHANGED vars
  BY <1>11 DEF Sever, Apply, PressRetry, Quit, vars
<1> QED
  BY <1>1, <1>2, <1>3, <1>4, <1>5, <1>6, <1>7, <1>8, <1>9, <1>10, <1>11
     DEF Next, Task, Stopped

\* However long the failures go on, no wait is longer than the ceiling, a lost
\* session is retried at once, and no deadline runs on into a session.
THEOREM TheWaitIsBounded == Spec => []WaitWithinCeiling
<1>1. Init => WaitWithinCeiling
  BY DEF Init, WaitWithinCeiling
<1> QED BY <1>1, NextWait, ConnectionTypes, PTL DEF Spec

-----------------------------------------------------------------------------
(* The capture. *)

\* Before the first frame there is nothing to record.
CaptureInv ==
  /\ CaptureIsComplete
  /\ at \in {"attached", "record"} => conversation.read = 0

\* No step of either task breaks what the capture holds.
LEMMA NextCapture == TypeOK /\ CaptureInv /\ [Next]_vars => CaptureInv'
<1> SUFFICES ASSUME TypeOK, CaptureInv, [Next]_vars PROVE CaptureInv'
  OBVIOUS
<1>t. /\ conversation \in [session : Tags, read : 0 .. MaxFrames, told : 0 .. MaxFrames]
      /\ capture \in [session : Tags \cup {NoTag}, frames : 0 .. MaxFrames]
  BY DEF TypeOK
<1> USE <1>t DEF CaptureInv, CaptureIsComplete, taskVars, wireVars, Step
<1>1. CASE Announce \/ Discover \/ AnnounceTarget \/ Dial \/ Greet \/ Refused \/ TimedOut
  BY <1>1 DEF Announce, Discover, AnnounceTarget, Dial, Greet, Refused, TimedOut
<1>2. CASE Login \/ AnnounceSession \/ OpenCapture
  BY <1>2 DEF Login, AnnounceSession, OpenCapture
<1>3. ASSUME NEW kind \in {"Event", "End", "Undecodable"}, ReadFrame(kind)
      PROVE CaptureInv'
  <2>1. /\ at = "pump" /\ at' \notin {"attached", "record"}
        /\ conversation'.session = conversation.session
        /\ conversation'.read = conversation.read + 1
    BY <1>3 DEF ReadFrame
  <2>2. Records => capture' = [capture EXCEPT !.frames = conversation.read + 1]
    BY <1>3 DEF ReadFrame, Recorded
  <2>3. Records => capture' = [session |-> conversation.session,
                               frames |-> conversation.read + 1]
    BY <2>1, <2>2
  <2> QED BY <2>1, <2>3
<1>4. CASE HangUp \/ ProbesFail \/ Deliver \/ Report \/ Slept \/ Woken
  BY <1>4 DEF HangUp, ProbesFail, Deliver, Report, Slept, Woken, Resume
<1>5. CASE Second \/ Sever \/ Apply \/ PressRetry \/ Quit \/ UNCHANGED vars
  BY <1>5 DEF Second, Sever, Apply, PressRetry, Quit, vars
<1> QED BY <1>1, <1>2, <1>3, <1>4, <1>5 DEF Next, Task, Stopped

\* Whatever the frames and however many, the capture has those read so far.
THEOREM EverythingIsRecorded == Spec => []CaptureIsComplete
<1>1. Init => CaptureInv
  BY DEF Init, CaptureInv, CaptureIsComplete
<1>2. CaptureInv => CaptureIsComplete
  BY DEF CaptureInv
<1> QED BY <1>1, <1>2, NextCapture, ConnectionTypes, PTL DEF Spec

-----------------------------------------------------------------------------
(* The order of updates. *)

\* What may follow a screen that shows v.
Follows(v, u) ==
  /\ u.kind = "Connecting"   => v.link # "Connected" /\ u.session = v.session
  /\ u.kind = "Connected"    => v.link = "Connecting" /\ u.session = NextTag(v.session)
  /\ u.kind = "Event"        => v.link = "Connected" /\ u.session = v.session /\ u.n > v.heard
  /\ u.kind = "Disconnected" =>
       v.link # "Disconnected" /\ u.session = v.session /\ (u.n = 0 <=> v.link = "Connected")

\* Each update of ch fits on the one before it, the first on what is shown.
Orderly(sh, ch) ==
  \A k \in 1 .. Len(ch) : Follows(IF k = 1 THEN View(sh) ELSE After(ch[k - 1]), ch[k])

\* How far the updates sent so far tell of the task.
Told ==
  /\ at # "attached" => Newest.session = conversation.session
  /\ at = "attached" => conversation.session = NextTag(Newest.session)
  /\ at \in {"start", "wait"} => Newest.link # "Connected"
  /\ at \in {"search", "found", "dial", "greet", "login", "attached"} =>
       Newest.link = "Connecting"
  /\ at \in {"record", "pump", "deliver"} => Newest.link = "Connected"
  /\ at \in {"record", "pump"} => Newest.heard = conversation.told
  /\ at = "deliver" => Newest.heard < conversation.told
  /\ at \in {"start", "search", "found", "dial", "greet", "login"} => ~established
  /\ at \in {"attached", "record", "pump", "deliver"} => established
  /\ at = "over" =>
       Newest.link # "Disconnected" /\ (established <=> Newest.link = "Connected")
  /\ at # "stopped"

TaskInv ==
  /\ conversation.told <= conversation.read
  /\ at \in {"attached", "record"} => conversation.read = 0
  /\ at = "deliver" => conversation.told = conversation.read
  /\ ~closed => Orderly(shown, channel) /\ Told
  /\ Len(channel) <= Capacity

Views == [link : {"Connecting", "Connected", "Disconnected"}, session : Tags, heard : Nat]

\* What a screen shows, and what an update makes of one, is a view.
LEMMA ViewTypes ==
  /\ TypeOK => View(shown) \in Views
  /\ \A u \in Update : After(u) \in Views
<1>1. MaxFrames \in Nat
  BY ChannelAssumption
<1>2. TypeOK => View(shown) \in Views
  BY <1>1 DEF TypeOK, View, Views
<1>3. ASSUME NEW u \in Update PROVE After(u) \in Views
  BY <1>1, <1>3 DEF Update, After, Views
<1> QED BY <1>2, <1>3

\* What an update does to the screen is what After says of it.
LEMMA AppliedIsAfter ==
  ASSUME TypeOK, NEW u \in Update, Follows(View(shown), u)
  PROVE  View(Applied(u)) = After(u)
<1>1. /\ shown \in [link : {"Connecting", "Connected", "Disconnected"},
                    session : Tags, heard : 0 .. MaxFrames, attempt : 0 .. AttemptMax]
      /\ u.kind \in {"Connecting", "Connected", "Event", "Disconnected"}
  BY DEF TypeOK, Update
<1>2. CASE u.kind = "Connecting"
  BY <1>1, <1>2 DEF Applied, View, After, Follows
<1>3. CASE u.kind = "Connected"
  BY <1>1, <1>3 DEF Applied, View, After, Follows
<1>4. CASE u.kind = "Event"
  BY <1>1, <1>4 DEF Applied, View, After, Follows
<1>5. CASE u.kind = "Disconnected"
  BY <1>1, <1>5 DEF Applied, View, After, Follows
<1> QED BY <1>1, <1>2, <1>3, <1>4, <1>5

\* An update that fits on the newest one may be sent.
LEMMA SendKeepsOrder ==
  ASSUME TypeOK, NEW u \in Update, ~closed, CanSend, Send(u), shown' = shown,
         Orderly(shown, channel), Follows(Newest, u), Len(channel) <= Capacity
  PROVE  /\ Orderly(shown', channel') /\ Newest' = After(u)
         /\ Len(channel') <= Capacity
<1>1. channel \in Seq(Update) /\ channel' = Append(channel, u)
  BY DEF TypeOK, Send
<1>2. /\ Len(channel) \in Nat /\ Len(channel') = Len(channel) + 1
      /\ channel'[Len(channel) + 1] = u
      /\ \A k \in 1 .. Len(channel) : channel'[k] = channel[k]
  BY <1>1
<1>3. Newest' = After(u)
  BY <1>1, <1>2 DEF Newest
<1>4. Len(channel') <= Capacity
  BY <1>2, ChannelAssumption DEF CanSend
<1>5. ASSUME NEW k \in 1 .. Len(channel')
      PROVE  Follows(IF k = 1 THEN View(shown') ELSE After(channel'[k - 1]), channel'[k])
  <2>1. CASE k <= Len(channel)
    <3>1. /\ k \in 1 .. Len(channel) /\ channel'[k] = channel[k]
          /\ k # 1 => channel'[k - 1] = channel[k - 1]
      BY <1>2, <2>1
    <3> QED BY <3>1 DEF Orderly
  <2>2. CASE k = Len(channel) + 1 /\ k = 1
    BY <1>1, <1>2, <2>2 DEF Newest
  <2>3. CASE k = Len(channel) + 1 /\ k # 1
    <3>1. /\ channel # <<>> /\ channel'[k] = u
          /\ channel'[k - 1] = channel[Len(channel)]
      BY <1>1, <1>2, <2>3
    <3> QED BY <2>3, <3>1 DEF Newest
  <2> QED BY <1>2, <2>1, <2>2, <2>3
<1> QED BY <1>3, <1>4, <1>5 DEF Orderly

\* The UI takes the first and finds the rest in order.
LEMMA ApplyKeepsOrder ==
  ASSUME TypeOK, Apply, Orderly(shown, channel)
  PROVE  /\ Follows(View(shown), Head(channel)) /\ Head(channel) \in Update
         /\ Orderly(shown', channel') /\ Newest' = Newest
         /\ Len(channel') <= Len(channel)
<1>1. channel \in Seq(Update) /\ channel # <<>> /\ channel' = Tail(channel)
      /\ shown' = Applied(Head(channel))
  BY DEF TypeOK, Apply
<1>2. /\ Len(channel) \in Nat /\ Len(channel) >= 1 /\ Len(channel') = Len(channel) - 1
      /\ Head(channel) = channel[1] /\ channel[1] \in Update
      /\ \A k \in 1 .. Len(channel) - 1 : channel'[k] = channel[k + 1]
  BY <1>1
<1>3. Follows(View(shown), channel[1])
  BY <1>2 DEF Orderly
<1>4. View(shown') = After(channel[1])
  BY <1>1, <1>2, <1>3, AppliedIsAfter
<1>5. ASSUME NEW k \in 1 .. Len(channel')
      PROVE  Follows(IF k = 1 THEN View(shown') ELSE After(channel'[k - 1]), channel'[k])
  <2>1. k + 1 \in 1 .. Len(channel) /\ k + 1 # 1 /\ channel'[k] = channel[k + 1]
    BY <1>2
  <2>2. Follows(After(channel[k]), channel[k + 1])
    BY <2>1 DEF Orderly
  <2>3. CASE k = 1
    BY <1>4, <2>1, <2>2, <2>3
  <2>4. CASE k # 1
    <3>1. channel'[k - 1] = channel[k]
      BY <1>2, <2>4
    <3> QED BY <2>1, <2>2, <2>4, <3>1
  <2> QED BY <2>3, <2>4
<1>6. Newest' = Newest
  <2>1. CASE Len(channel) = 1
    BY <1>1, <1>2, <1>4, <2>1 DEF Newest
  <2>2. CASE Len(channel) # 1
    <3>1. Len(channel') \in 1 .. Len(channel) - 1 /\ Len(channel') + 1 = Len(channel)
      BY <1>2, <2>2
    <3>2. channel'[Len(channel')] = channel[Len(channel)]
      BY <1>2, <3>1
    <3>3. channel' # <<>>
      BY <3>1
    <3> QED BY <1>1, <3>2, <3>3 DEF Newest
  <2> QED BY <2>1, <2>2
<1> QED BY <1>2, <1>3, <1>5, <1>6 DEF Orderly

\* Before the first step nothing was told and nothing is shown.
LEMMA InitTask == Init => TaskInv
BY ChannelAssumption DEF Init, TaskInv, Told, Orderly, Newest, View

\* Steps after which the channel and the screen are what they were, or nobody
\* listens any more.
LEMMA QuietStep ==
  ASSUME TypeOK, TaskInv, UNCHANGED <<channel, shown, closed>>
  PROVE  /\ ~closed' => Orderly(shown', channel') /\ Newest' = Newest
         /\ Len(channel') <= Capacity
BY DEF TaskInv, Newest, Orderly

\* Every step keeps what the task told in order.
LEMMA NextTaskInv == TypeOK /\ TaskInv /\ [Next]_vars => TaskInv'
<1> SUFFICES ASSUME TypeOK, TaskInv, [Next]_vars PROVE TaskInv'
  OBVIOUS
<1>n. MaxFrames \in Nat /\ Capacity \in Nat /\ Capacity > 0
  BY ChannelAssumption
<1>t. /\ conversation \in [session : Tags, read : 0 .. MaxFrames, told : 0 .. MaxFrames]
      /\ attempt \in 0 .. AttemptMax /\ established \in BOOLEAN /\ closed \in BOOLEAN
      /\ channel \in Seq(Update) /\ at \in Places
  BY DEF TypeOK
<1>v. /\ Newest \in Views
      /\ ~closed => Orderly(shown, channel) /\ Told
      /\ Len(channel) <= Capacity
  <2>1. CASE channel = <<>>
    BY <2>1, ViewTypes DEF Newest, TaskInv
  <2>2. CASE channel # <<>>
    <3>1. channel[Len(channel)] \in Update
      BY <1>t, <2>2
    <3> QED BY <2>2, <3>1, ViewTypes DEF Newest, TaskInv
  <2> QED BY <2>1, <2>2
<1>1. CASE Announce
  <2>1. /\ Make("Connecting", 0) \in Update /\ Send(Make("Connecting", 0))
        /\ CanSend /\ shown' = shown /\ closed' = closed
        /\ at = "start" /\ at' \in {"search", "found"} /\ conversation' = conversation
        /\ established' = established
    BY <1>1, UpdateTypes DEF Announce, uiVars, wireVars
  <2>2. closed => channel' = channel
    BY <2>1 DEF Send
  <2>3. ~closed => Follows(Newest, Make("Connecting", 0))
    BY <1>v, <2>1 DEF Told, Follows, Make
  <2>4. ~closed => /\ Orderly(shown', channel') /\ Newest' = After(Make("Connecting", 0))
                   /\ Len(channel') <= Capacity
    BY <1>v, <2>1, <2>3, SendKeepsOrder
  <2> QED BY <1>v, <2>1, <2>2, <2>4 DEF TaskInv, Told, After, Make
<1>2. CASE AnnounceTarget
  <2>1. /\ Make("Connecting", 0) \in Update /\ Send(Make("Connecting", 0))
        /\ CanSend /\ shown' = shown /\ closed' = closed
        /\ at = "found" /\ at' = "dial" /\ conversation' = conversation
        /\ established' = established
    BY <1>2, UpdateTypes DEF AnnounceTarget, uiVars, wireVars, Step
  <2>2. closed => channel' = channel
    BY <2>1 DEF Send
  <2>3. ~closed => Follows(Newest, Make("Connecting", 0))
    BY <1>v, <2>1 DEF Told, Follows, Make
  <2>4. ~closed => /\ Orderly(shown', channel') /\ Newest' = After(Make("Connecting", 0))
                   /\ Len(channel') <= Capacity
    BY <1>v, <2>1, <2>3, SendKeepsOrder
  <2> QED BY <1>v, <2>1, <2>2, <2>4 DEF TaskInv, Told, After, Make
<1>3. CASE AnnounceSession
  <2>1. /\ Make("Connected", 0) \in Update /\ Send(Make("Connected", 0))
        /\ CanSend /\ shown' = shown /\ closed' = closed
        /\ at = "attached" /\ at' = "record" /\ conversation' = conversation
        /\ established' = established
    BY <1>3, UpdateTypes DEF AnnounceSession, uiVars, wireVars, Step
  <2>2. closed => channel' = channel
    BY <2>1 DEF Send
  <2>3. ~closed => Follows(Newest, Make("Connected", 0))
    BY <1>v, <2>1 DEF Told, Follows, Make
  <2>4. ~closed => /\ Orderly(shown', channel') /\ Newest' = After(Make("Connected", 0))
                   /\ Len(channel') <= Capacity
    BY <1>v, <2>1, <2>3, SendKeepsOrder
  <2>5. conversation.told = 0 /\ conversation.read = 0
    BY <1>t, <2>1 DEF TaskInv
  <2> QED BY <1>v, <2>1, <2>2, <2>4, <2>5 DEF TaskInv, Told, After, Make
<1>4. CASE Deliver
  <2> DEFINE u == Make("Event", conversation.read)
  <2>1. /\ u \in Update /\ Send(u) /\ CanSend /\ shown' = shown /\ closed' = closed
        /\ at = "deliver" /\ at' = (IF closed THEN "over" ELSE "pump")
        /\ conversation' = conversation /\ established' = established
    BY <1>4, UpdateTypes DEF Deliver, uiVars, wireVars
  <2>2. closed => channel' = channel
    BY <2>1 DEF Send
  <2>3. conversation.told = conversation.read
    BY <2>1 DEF TaskInv
  <2>4. ~closed => Follows(Newest, u)
    BY <1>t, <1>v, <2>1, <2>3 DEF Told, Follows, Make, Views
  <2>5. ~closed => /\ Orderly(shown', channel') /\ Newest' = After(u)
                   /\ Len(channel') <= Capacity
    <3> HIDE DEF u
    <3> QED BY <1>v, <2>1, <2>4, SendKeepsOrder
  <2> QED BY <1>t, <1>v, <2>1, <2>2, <2>3, <2>5 DEF TaskInv, Told, After, Make
<1>5. CASE Report
  <2> DEFINE u == Make("Disconnected", attempt')
  <2>1. /\ Send(u) /\ CanSend /\ shown' = shown /\ closed' = closed
        /\ at = "over" /\ at' = (IF closed THEN "stopped" ELSE "wait")
        /\ conversation' = conversation /\ established' = established
    BY <1>5 DEF Report, uiVars, wireVars
  <2>2. u \in Update
    <3>1. attempt' \in 0 .. AttemptMax
      BY <1>5, <1>t, AttemptInRange DEF Report
    <3> QED BY <3>1, UpdateTypes
  <2>3. closed => channel' = channel
    BY <2>1 DEF Send
  <2>4. ~closed => Follows(Newest, u)
    <3>1. attempt' = 0 <=> established
      BY <1>5, <1>t, AttemptInRange DEF Report
    <3> QED BY <1>v, <2>1, <3>1 DEF Told, Follows, Make
  <2>5. ~closed => /\ Orderly(shown', channel') /\ Newest' = After(u)
                   /\ Len(channel') <= Capacity
    <3> HIDE DEF u
    <3> QED BY <1>v, <2>1, <2>2, <2>4, SendKeepsOrder
  <2> QED BY <1>v, <2>1, <2>3, <2>5 DEF TaskInv, Told, After, Make
<1>6. CASE Login
  <2>1. /\ UNCHANGED <<channel, shown, closed>>
        /\ at = "login" /\ at' = "attached" /\ established'
        /\ conversation' = [session |-> NextTag(conversation.session), read |-> 0, told |-> 0]
    BY <1>6 DEF Login, uiVars, Step
  <2>2. /\ ~closed' => Orderly(shown', channel') /\ Newest' = Newest
        /\ Len(channel') <= Capacity
    BY <2>1, QuietStep
  <2> QED BY <1>v, <2>1, <2>2 DEF TaskInv, Told
<1>7. ASSUME NEW kind \in {"Event", "End", "Undecodable"}, ReadFrame(kind)
      PROVE TaskInv'
  <2>1. /\ UNCHANGED <<channel, shown, closed, established>> /\ at = "pump"
        /\ conversation'.session = conversation.session
        /\ conversation'.read = conversation.read + 1
        /\ conversation'.told = IF kind = "Event" THEN conversation.read + 1
                                                  ELSE conversation.told
        /\ at' = CASE kind = "Event" -> "deliver" [] kind = "End" -> "over"
                   [] kind = "Undecodable" -> "pump"
    BY <1>7, <1>t DEF ReadFrame, uiVars
  <2>2. /\ ~closed' => Orderly(shown', channel') /\ Newest' = Newest
        /\ Len(channel') <= Capacity
    BY <2>1, QuietStep
  <2>3. conversation.told <= conversation.read
    BY DEF TaskInv
  <2>4. CASE kind = "Event"
    BY <1>t, <1>v, <2>1, <2>2, <2>3, <2>4 DEF TaskInv, Told, Views
  <2>5. CASE kind # "Event"
    BY <1>t, <1>v, <2>1, <2>2, <2>3, <2>5 DEF TaskInv, Told
  <2> QED BY <2>4, <2>5
<1>8. CASE Discover \/ Dial \/ Greet \/ Refused \/ TimedOut \/ OpenCapture
  <2>1. UNCHANGED <<channel, shown, closed, conversation, established>>
    BY <1>8 DEF Discover, Dial, Greet, Refused, TimedOut, OpenCapture, uiVars, wireVars
  <2>2. \/ at = "search" /\ at' \in {"found", "over"}
        \/ at = "dial" /\ at' \in {"greet", "over"}
        \/ at = "greet" /\ at' \in {"login", "over"}
        \/ at = "login" /\ at' = "over"
        \/ at = "record" /\ at' \in {"pump", "over"}
    BY <1>8 DEF Discover, Dial, Greet, Refused, TimedOut, OpenCapture, Step
  <2>3. /\ ~closed' => Orderly(shown', channel') /\ Newest' = Newest
        /\ Len(channel') <= Capacity
    BY <2>1, QuietStep
  <2> QED BY <1>v, <2>1, <2>2, <2>3 DEF TaskInv, Told
<1>9. CASE HangUp \/ ProbesFail \/ Slept \/ Woken
  <2>1. UNCHANGED <<channel, shown, closed, conversation>>
    BY <1>9 DEF HangUp, ProbesFail, Slept, Woken, Resume, uiVars, wireVars
  <2>2. \/ at = "pump" /\ at' = "over" /\ established' = established
        \/ at = "wait" /\ at' = (IF closed THEN "stopped" ELSE "start") /\ ~established'
    BY <1>9 DEF HangUp, ProbesFail, Slept, Woken, Resume, Step
  <2>3. /\ ~closed' => Orderly(shown', channel') /\ Newest' = Newest
        /\ Len(channel') <= Capacity
    BY <2>1, QuietStep
  <2> QED BY <1>v, <2>1, <2>2, <2>3 DEF TaskInv, Told
<1>10. CASE Second \/ Sever \/ PressRetry \/ UNCHANGED vars
  <2>1. UNCHANGED <<channel, shown, closed, conversation, at, established>>
    BY <1>10 DEF Second, Sever, PressRetry, uiVars, wireVars, taskVars, vars
  <2>2. /\ ~closed' => Orderly(shown', channel') /\ Newest' = Newest
        /\ Len(channel') <= Capacity
    BY <2>1, QuietStep
  <2> QED BY <1>v, <2>1, <2>2 DEF TaskInv, Told
<1>11. CASE Apply
  <2>1. UNCHANGED <<closed, conversation, at, established>> /\ ~closed
    BY <1>11 DEF Apply, taskVars, wireVars
  <2>2. /\ Orderly(shown', channel') /\ Newest' = Newest
        /\ Len(channel') <= Len(channel)
    BY <1>11, <1>v, <2>1, ApplyKeepsOrder
  <2>3. Len(channel') \in Nat
    BY <1>11, <1>t DEF Apply
  <2> QED BY <1>n, <1>t, <1>v, <2>1, <2>2, <2>3 DEF TaskInv, Told
<1>12. CASE Quit
  <2>1. UNCHANGED <<conversation, at>> /\ closed' /\ channel' = <<>>
    BY <1>12 DEF Quit, taskVars, wireVars
  <2>2. Len(channel') <= Capacity
    BY <1>n, <2>1
  <2> QED BY <2>1, <2>2 DEF TaskInv
<1> QED
  BY <1>1, <1>2, <1>3, <1>4, <1>5, <1>6, <1>7, <1>8, <1>9, <1>10, <1>11, <1>12
     DEF Next, Task, Stopped

\* The invariant of the task and its channel always holds.
LEMMA TaskInvHolds == Spec => [](TypeOK /\ TaskInv)
BY InitTask, NextTaskInv, ConnectionTypes, PTL DEF Spec

\* However small the channel and however slow the UI, while the task waits for a
\* frame, what it last told is the newest the UI has or will get.
THEOREM NothingIsLost == Spec => []NoEventLost
<1>1. TypeOK /\ TaskInv => NoEventLost
  <2> SUFFICES ASSUME TypeOK, TaskInv PROVE NoEventLost
    OBVIOUS
  <2>1. Newest \in Views
    <3>1. CASE channel = <<>>
      BY <3>1, ViewTypes DEF Newest
    <3>2. CASE channel # <<>>
      <4>1. channel[Len(channel)] \in Update
        BY <3>2 DEF TypeOK
      <4> QED BY <3>2, <4>1, ViewTypes DEF Newest
    <3> QED BY <3>1, <3>2
  <2> QED BY <2>1 DEF NoEventLost, TaskInv, Told, Views
<1> QED BY <1>1, TaskInvHolds, PTL

\* Only the UI loop changes what is shown.
LEMMA OnlyApplyShows ==
  ASSUME [Next]_vars, ~Apply
  PROVE  shown' = shown
BY DEF Next, Task, Stopped, vars, uiVars, Announce, Discover, AnnounceTarget, Dial, Greet,
       Refused, TimedOut, Login, AnnounceSession, OpenCapture, ReadFrame, HangUp, ProbesFail,
       Deliver, Report, Slept, Woken, Resume, Second, Sever, PressRetry, Quit

\* The task implements Session: each update the UI applies is a step of it, each
\* other step leaves what the UI shows alone.
THEOREM TheTaskKeepsThePromise == Spec => KeepsThePromise
<1>1. Init => Promise!Init
  BY DEF Init, Promise!Init
<1>2. TypeOK /\ TaskInv /\ [Next]_vars => [Promise!Next]_(Promise!sessionVars)
  <2> SUFFICES ASSUME TypeOK, TaskInv, [Next]_vars
               PROVE  [Promise!Next]_(Promise!sessionVars)
    OBVIOUS
  <2>1. CASE Apply
    <3> DEFINE u == Head(channel)
    <3>1. /\ shown' = Applied(u) /\ ~closed
      BY <2>1 DEF Apply
    <3>2. u \in Update /\ Follows(View(shown), u)
      BY <2>1, <3>1, ApplyKeepsOrder DEF TaskInv
    <3>3. /\ shown \in [link : {"Connecting", "Connected", "Disconnected"},
                        session : Tags, heard : 0 .. MaxFrames, attempt : 0 .. AttemptMax]
          /\ u.kind \in {"Connecting", "Connected", "Event", "Disconnected"}
          /\ u.kind = "Event" => u.n \in 0 .. MaxFrames
      BY <3>2 DEF TypeOK, Update
    <3> HIDE DEF u
    <3>4. CASE u.kind = "Connecting"
      BY <3>1, <3>2, <3>3, <3>4
         DEF Applied, Follows, View, Promise!Next, Promise!Announce
    <3>5. CASE u.kind = "Connected"
      BY <3>1, <3>2, <3>3, <3>5
         DEF Applied, Follows, View, NextTag, Promise!Next, Promise!Attach, Promise!NextTag
    <3>6. CASE u.kind = "Event"
      <4>1. /\ shown.link = "Connected" /\ u.session = shown.session /\ u.n > shown.heard
        BY <3>2, <3>6 DEF Follows, View
      <4>2. u.n \in 1 .. MaxFrames
        BY <3>3, <3>6, <4>1
      <4>3. Promise!Hear(u.n)
        BY <3>1, <3>3, <3>6, <4>1 DEF Applied, Promise!Hear
      <4> QED BY <4>2, <4>3 DEF Promise!Next
    <3>7. CASE u.kind = "Disconnected"
      BY <3>1, <3>2, <3>3, <3>7
         DEF Applied, Follows, View, Promise!Next, Promise!Lose
    <3> QED BY <3>3, <3>4, <3>5, <3>6, <3>7
  <2>2. CASE ~Apply
    BY <2>2, OnlyApplyShows DEF Promise!sessionVars
  <2> QED BY <2>1, <2>2
<1> QED
  BY <1>1, <1>2, TaskInvHolds, PTL DEF Spec, KeepsThePromise, Promise!SessionSpec

\* The attempt shown with a lost connection is 0 exactly where the screen had just
\* shown a session, however far behind the task it is.
THEOREM ZeroMeansItWasUp == Spec => AttemptTellsFlappingFromDown
<1> DEFINE A == shown'.link = "Disconnected" /\ shown.link # "Disconnected" =>
                  (shown'.attempt = 0 <=> shown.link = "Connected")
<1>1. TypeOK /\ TaskInv /\ [Next]_vars => [A]_vars
  <2> SUFFICES ASSUME TypeOK, TaskInv, [Next]_vars,
                      shown'.link = "Disconnected", shown.link # "Disconnected"
               PROVE  shown'.attempt = 0 <=> shown.link = "Connected"
    OBVIOUS
  <2>1. Apply
    BY OnlyApplyShows
  <2> DEFINE u == Head(channel)
  <2>2. /\ shown' = Applied(u) /\ u \in Update /\ Follows(View(shown), u)
    BY <2>1, ApplyKeepsOrder DEF Apply, TaskInv
  <2>3. /\ shown \in [link : {"Connecting", "Connected", "Disconnected"},
                      session : Tags, heard : 0 .. MaxFrames, attempt : 0 .. AttemptMax]
        /\ u.kind \in {"Connecting", "Connected", "Event", "Disconnected"}
    BY <2>2 DEF TypeOK, Update
  <2> HIDE DEF u
  <2>4. u.kind = "Disconnected"
    BY <2>2, <2>3 DEF Applied
  <2> QED BY <2>2, <2>3, <2>4 DEF Applied, Follows, View
<1> QED
  BY <1>1, TaskInvHolds, PTL DEF Spec, AttemptTellsFlappingFromDown

-----------------------------------------------------------------------------
(* An attempt ends: the step half of EveryAttemptEnds and QuitStopsTheTask. *)

\* Where the task is on its way from one attempt to the next and nothing holds it but a
\* deadline, the channel or an answer that is under a deadline.
Underway == at \notin {"pump", "deliver", "stopped"} \/ (closed /\ at = "deliver")

\* How many steps of the task there are at most before the next attempt.
Rank ==
  CASE at = "start" -> 10 [] at = "search" -> 9 [] at = "found" -> 8 [] at = "dial" -> 7
    [] at = "greet" -> 6 [] at = "login" -> 5 [] at = "attached" -> 4
    [] at \in {"record", "deliver"} -> 3 [] at = "over" -> 2 [] at = "wait" -> 1
    [] OTHER -> 0

\* The deadlines that may still be set, in seconds.
Ahead ==
  CASE at = "start" -> DiscoverTimeout + 2 * HandshakeTimeout + MaxDelay
    [] at \in {"search", "found"} -> 2 * HandshakeTimeout + MaxDelay
    [] at = "dial" -> HandshakeTimeout + MaxDelay
    [] at \in {"greet", "login", "attached", "record", "deliver", "over"} -> MaxDelay
    [] OTHER -> 0

Effort == Rank + Ahead + timer

\* The effort is a number, and what it is at the start of an attempt.
LEMMA EffortIsNumber ==
  ASSUME TypeOK
  PROVE  Rank \in Nat /\ Ahead \in Nat /\ timer \in Nat /\ Effort \in Nat
<1>1. MaxDelay \in Nat /\ DiscoverTimeout \in Nat /\ HandshakeTimeout \in Nat
  BY DelayAssumption
<1>2. Rank \in Nat
  BY DEF Rank
<1>3. Ahead \in Nat
  BY <1>1 DEF Ahead
<1>4. timer \in Nat
  BY DEF TypeOK
<1> QED BY <1>2, <1>3, <1>4 DEF Effort

\* A step from one attempt towards the next leaves less to do.
LEMMA StepShortens ==
  ASSUME TypeOK, WaitWithinCeiling, Underway, Task \/ Second
  PROVE  at' = "start" \/ Effort' < Effort
<1> DEFINE D == DiscoverTimeout
           H == HandshakeTimeout
           M == MaxDelay
<1>c. D \in Nat /\ H \in Nat /\ M \in Nat /\ timer \in Nat
  BY DelayAssumption DEF TypeOK
<1>t. at \notin {"search", "dial", "greet", "wait"} => timer = 0
  BY <1>c DEF WaitWithinCeiling
<1> USE DEF Effort, Rank, Ahead
<1>1. CASE Announce
  <2>1. at = "start" /\ timer = 0
    BY <1>1, <1>t DEF Announce
  <2>2. \/ at' = "search" /\ timer' = D
        \/ at' = "found" /\ timer' = 0
    BY <1>1 DEF Announce
  <2> QED BY <1>c, <2>1, <2>2
<1>2. CASE Discover
  BY <1>2, <1>c DEF Discover, Step
<1>3. CASE AnnounceTarget
  <2>1. at = "found" /\ timer = 0 /\ at' = "dial" /\ timer' = H
    BY <1>3, <1>t DEF AnnounceTarget, Step
  <2> QED BY <1>c, <2>1
<1>4. CASE Dial
  BY <1>4, <1>c DEF Dial, Step
<1>5. CASE Greet
  BY <1>5, <1>c DEF Greet, Step
<1>6. CASE Refused \/ TimedOut
  <2>1. at \in {"dial", "greet", "login"} /\ at' = "over" /\ timer' = 0
    BY <1>6 DEF Refused, TimedOut
  <2> QED BY <1>c, <2>1
<1>7. CASE Login \/ AnnounceSession \/ OpenCapture
  <2>1. /\ timer' = timer /\ timer = 0
        /\ \/ at = "login" /\ at' = "attached"
           \/ at = "attached" /\ at' = "record"
           \/ at = "record" /\ at' \in {"pump", "over"}
    BY <1>7, <1>t DEF Login, AnnounceSession, OpenCapture, Step
  <2> QED BY <1>c, <2>1
<1>8. CASE Deliver
  <2>1. timer' = timer /\ timer = 0 /\ at = "deliver" /\ at' = "over"
    BY <1>8, <1>t DEF Deliver, Underway
  <2> QED BY <1>c, <2>1
<1>9. CASE Report
  <2>1. at = "over" /\ timer = 0
    BY <1>9, <1>t DEF Report
  <2>2. CASE closed
    <3>1. at' = "stopped" /\ timer' = 0
      BY <1>9, <2>2 DEF Report
    <3> QED BY <1>c, <2>1, <3>1
  <2>3. CASE ~closed
    <3>1. at' = "wait" /\ timer' = Backoff(attempt')
      BY <1>9, <2>3 DEF Report
    <3>2. attempt' \in 0 .. AttemptMax
      BY <1>9, AttemptInRange DEF TypeOK, Report
    <3>3. timer' \in Nat /\ timer' <= M
      BY <3>1, <3>2, BackoffInRange, DelayAssumption
    <3> QED BY <1>c, <2>1, <3>1, <3>3
  <2> QED BY <2>2, <2>3
<1>10. CASE Slept \/ Woken
  <2>1. at = "wait" /\ at' \in {"start", "stopped"} /\ timer' = 0
    BY <1>10 DEF Slept, Woken, Resume
  <2> QED BY <1>c, <2>1
<1>11. CASE Second
  <2>1. at' = at /\ timer' = timer - 1
    BY <1>11 DEF Second
  <2>2. Rank' = Rank /\ Ahead' = Ahead
    BY <2>1
  <2>3. Rank \in Nat /\ Ahead \in Nat
    BY EffortIsNumber
  <2>4. Effort = Rank + Ahead + timer /\ Effort' = Rank' + Ahead' + timer'
    OBVIOUS
  <2> QED BY ONLY <1>c, <2>1, <2>2, <2>3, <2>4
<1>12. ~HangUp /\ ~ProbesFail /\ ~(\E kind \in {"Event", "End", "Undecodable"} : ReadFrame(kind))
  BY DEF Underway, HangUp, ProbesFail, ReadFrame, Step
<1> QED
  BY <1>1, <1>2, <1>3, <1>4, <1>5, <1>6, <1>7, <1>8, <1>9, <1>10, <1>11, <1>12 DEF Task

\* Nobody else makes it longer or shorter.
LEMMA OthersLeaveEffort ==
  ASSUME [Next]_vars, ~Task, ~Second
  PROVE  Effort' = Effort
<1>1. UNCHANGED <<at, timer>>
  BY DEF Next, Sever, Apply, PressRetry, Quit, Stopped, taskVars, vars
<1> QED BY <1>1 DEF Effort, Rank, Ahead

\* However the remote answers, refuses or keeps silent, whatever the user presses and
\* however slow the UI is, an attempt and the wait after it are over after ten steps of
\* the task and the seconds of the deadlines it sets, each set once (connect_once,
\* run_live); and so is the way to the end of the task once the UI has quit.
THEOREM AttemptShortens ==
  Spec => /\ [](Effort \in Nat)
          /\ [](at = "start" =>
                  Effort = 10 + DiscoverTimeout + 2 * HandshakeTimeout + MaxDelay)
          /\ [][IF Task \/ Second THEN Underway => at' = "start" \/ Effort' < Effort
                                  ELSE Effort' = Effort]_vars
<1>1. TypeOK => Effort \in Nat
  BY EffortIsNumber
<1>2. TypeOK /\ WaitWithinCeiling =>
        (at = "start" => Effort = 10 + DiscoverTimeout + 2 * HandshakeTimeout + MaxDelay)
  <2> SUFFICES ASSUME TypeOK, WaitWithinCeiling, at = "start"
               PROVE  Effort = 10 + DiscoverTimeout + 2 * HandshakeTimeout + MaxDelay
    OBVIOUS
  <2>1. timer = 0
    BY DEF WaitWithinCeiling, TypeOK
  <2> QED BY <2>1, DelayAssumption DEF Effort, Rank, Ahead
<1>3. TypeOK /\ WaitWithinCeiling /\ [Next]_vars =>
        [IF Task \/ Second THEN Underway => at' = "start" \/ Effort' < Effort
                           ELSE Effort' = Effort]_vars
  BY StepShortens, OthersLeaveEffort
<1> QED BY <1>1, <1>2, <1>3, ConnectionTypes, TheWaitIsBounded, PTL DEF Spec

\* The guards of the steps that wait for no answer of the remote, those FairSpec
\* assumes to be taken: CanGoOn holds where one of them can be.
CanGoOn ==
  \/ CanTick \/ CanSettle \/ CanTimeOut \/ CanSleepOut \/ CanWake
  \/ at = "login"                        \* Login or Refused: a write to the socket
  \/ at = "record"                       \* OpenCapture
  \/ CanTell("start") \/ CanTell("found") \/ CanTell("attached")
  \/ CanTell("deliver") \/ CanTell("over")
  \/ CanApply

\* No attempt gets stuck: where it waits for an answer a deadline runs or has passed
\* and can be acted on, and where it waits for room in the channel the UI has an
\* update to take or is gone.
THEOREM AttemptNeverSticks == Spec => [](Underway => CanGoOn)
<1>1. TypeOK => (Underway => CanGoOn)
  <2> SUFFICES ASSUME TypeOK, Underway PROVE CanGoOn
    OBVIOUS
  <2>t. timer \in Nat /\ permit \in BOOLEAN /\ Capacity > 0
    BY ChannelAssumption DEF TypeOK
  <2>1. CASE at = "search"
    BY <2>t, <2>1 DEF CanGoOn
  <2>2. CASE at \in {"dial", "greet"}
    BY <2>t, <2>2 DEF CanGoOn
  <2>3. CASE at = "wait"
    BY <2>t, <2>3 DEF CanGoOn
  <2>4. CASE at \in {"login", "record"}
    BY <2>4 DEF CanGoOn
  <2>5. CASE at \in {"start", "found", "attached", "deliver", "over"}
    <3>1. CASE CanSend
      BY <2>5, <3>1 DEF CanGoOn
    <3>2. CASE ~CanSend
      <4>1. ~closed /\ Len(channel) # 0
        BY <2>t, <3>2 DEF CanSend, TypeOK
      <4> QED BY <4>1 DEF CanGoOn, TypeOK
    <3> QED BY <3>1, <3>2
  <2> QED BY <2>1, <2>2, <2>3, <2>4, <2>5 DEF Underway, TypeOK, Places
<1> QED BY <1>1, ConnectionTypes, PTL

-----------------------------------------------------------------------------
(* The retry key. *)

\* A key no wait has ended since is stored, and what is stored was pressed after the
\* last wait that was cut short.
RetryInv ==
  /\ asked = "Yes" => permit
  /\ permit => asked # "No"

\* Only the key and the end of a wait touch either.
LEMMA NextRetry == TypeOK /\ RetryInv /\ [Next]_vars => RetryInv'
<1> SUFFICES ASSUME TypeOK, RetryInv, [Next]_vars PROVE RetryInv'
  OBVIOUS
<1> USE DEF RetryInv
<1>1. CASE Slept
  BY <1>1 DEF Slept, Resume, TypeOK
<1>2. CASE Woken
  BY <1>2 DEF Woken, Resume, TypeOK
<1>3. CASE PressRetry
  BY <1>3 DEF PressRetry
<1>4. CASE ~Slept /\ ~Woken /\ ~PressRetry
  <2>1. UNCHANGED <<permit, asked>>
    BY <1>4 DEF Next, Task, Stopped, vars, Announce, Discover, AnnounceTarget, Dial, Greet,
       Refused, TimedOut, Login, AnnounceSession, OpenCapture, ReadFrame, HangUp, ProbesFail,
       Deliver, Report, Second, Sever, Apply, Quit
  <2> QED BY <2>1
<1> QED BY <1>1, <1>2, <1>3, <1>4

\* Whatever the remote does and however far behind the screen is, a key pressed before
\* or during a wait is honoured by it, no later wait is cut short for the same key, and
\* none for a key nobody pressed (Retry::now, run_live).
THEOREM RetryIsNeitherLostNorDoubled == Spec => RetryIsHonouredOnce
<1> DEFINE A == at = "wait" =>
                  /\ asked = "Yes" => timer' >= timer \/ at' # "wait"
                  /\ at' # "wait" /\ timer > 0 => asked # "No"
<1>1. Init => RetryInv
  BY DEF Init, RetryInv
<1>2. TypeOK /\ RetryInv /\ [Next]_vars => [A]_vars
  <2> SUFFICES ASSUME TypeOK, RetryInv, [Next]_vars, at = "wait" PROVE A
    OBVIOUS
  <2>t. timer \in Nat
    BY DEF TypeOK
  <2>1. CASE Slept \/ Woken
    BY <2>t, <2>1 DEF Slept, Woken, Resume, RetryInv
  <2>2. CASE Second
    BY <2>t, <2>2 DEF Second, RetryInv
  <2>3. CASE ~Slept /\ ~Woken /\ ~Second
    <3>1. at' = at /\ timer' = timer
      BY <2>3 DEF Next, Task, Stopped, vars, taskVars, Announce, Discover, AnnounceTarget,
         Dial, Greet, Refused, TimedOut, Login, AnnounceSession, OpenCapture, ReadFrame,
         HangUp, ProbesFail, Deliver, Report, Sever, Apply, PressRetry, Quit, Step
    <3> QED BY <2>t, <3>1
  <2> QED BY <2>1, <2>2, <2>3
<1> QED
  BY <1>1, <1>2, NextRetry, ConnectionTypes, PTL DEF Spec, RetryIsHonouredOnce

=============================================================================
