------------------------------- MODULE Replay -------------------------------
(***************************************************************************)
(* Replaying a capture (run_replay and spawn in icecc-proto/src/conn.rs)   *)
(* into the same channel a live connection reports on, and the loop of     *)
(* icecream-watcher/src/main.rs that drains it.                            *)
(*                                                                         *)
(* The capture is whatever module Capture left: whole, cut off anywhere,   *)
(* damaged, or not there.  The reader finds its way through it by bytes.   *)
(* The pauses of --replay-realtime only take time.                         *)
(***************************************************************************)
EXTENDS Capture

CONSTANT Capacity   \* of the update channel, 1024 in conn.rs

ASSUME ReplayAssumption == Capacity \in Nat \ {0}

VARIABLES
  reader,   \* bytes read, frames read, and the event of the last frame
  channel,  \* updates sent and not yet received
  hungUp,   \* the task has ended and dropped the sender
  shown,    \* what the UI has applied
  ui        \* whether the UI loop runs, and what ended it

replayVars == <<reader, channel, hungUp, shown, ui>>
vars       == <<captureVars, replayVars>>

record == <<scheduler, protocol, sessions, file, story>>

Make(kind) == [kind |-> kind, n |-> reader.frames, event |-> reader.event]

\* tx.send(..).await
CanSend == ui # "running" \/ Len(channel) < Capacity

Send(u) == channel' = IF ui # "running" THEN channel ELSE Append(channel, u)

Init ==
  /\ CaptureInit
  /\ reader = [pos |-> Header, frames |-> 0, event |-> Undecodable]
  /\ channel = <<>>
  /\ hungUp = FALSE
  /\ shown = [link |-> "Connecting", session |-> 0, heard |-> 0, told |-> <<>>]
  /\ ui = "running"

\* No such file, a file too short, or the magic of something else.
Open ==
  /\ at = "open"
  /\ at' = IF file.header THEN "attach" ELSE "failed"
  /\ UNCHANGED <<record, replayVars>>

\* Mutant: nobody is told that the replay has started.
Attach_Silent ==
  /\ at = "attach"
  /\ at' = "read"
  /\ UNCHANGED <<record, replayVars>>

\* A replay is connected from its first byte.
Attach ==
  /\ at = "attach"
  /\ CanSend
  /\ Send(Make("Connected"))
  /\ at' = "read"
  /\ UNCHANGED <<record, reader, hungUp, shown, ui>>

\* The frame that begins at a position.
FramesAt(pos) ==
  LET here == {i \in DOMAIN file.frames : file.frames[i].begin = pos}
  IN {file.frames[i].frame : i \in here}

\* Where a frame that begins at the reader's position ends.
End(f) == reader.pos + FrameHeader + 4 + PayloadLen(f.len)

\* Mutant: the type word is forgotten where the end of the file is looked for.
CutOff_Short(f) == End(f) - 4 > file.size

CutOff(f) == End(f) > file.size

\* One frame: an impossible length fails the replay, a truncated one ends it, one
\* that cannot be decoded is passed over.
ReadFrame ==
  /\ at = "read" /\ reader.pos + FrameHeader <= file.size
  /\ \E f \in FramesAt(reader.pos) :
       IF PayloadLen(f.len) = None THEN at' = "failed" /\ UNCHANGED reader
       ELSE IF CutOff(f) THEN at' = "finished" /\ UNCHANGED reader
       ELSE \E event \in {Decode(f.ty, f.payload, file.protocol)} :
              /\ reader' = [pos |-> End(f), frames |-> reader.frames + 1, event |-> event]
              /\ at' = CASE event.type = "End"         -> "finished"
                         [] event.type = "Undecodable" -> "read"
                         [] OTHER                      -> "deliver"
  /\ UNCHANGED <<record, channel, hungUp, shown, ui>>

EndOfFile ==
  /\ at = "read" /\ reader.pos + FrameHeader > file.size
  /\ at' = "finished"
  /\ UNCHANGED <<record, replayVars>>

Deliver ==
  /\ at = "deliver"
  /\ CanSend
  /\ Send(Make("Event"))
  /\ at' = IF ui # "running" THEN "done" ELSE "read"
  /\ UNCHANGED <<record, reader, hungUp, shown, ui>>

\* "end of capture" from run_replay, "replay failed" from spawn.
Close ==
  /\ at \in {"finished", "failed"}
  /\ CanSend
  /\ Send(Make("Disconnected"))
  /\ at' = "done"
  /\ UNCHANGED <<record, reader, hungUp, shown, ui>>

\* Mutant: a sender outlives the task for as long as the UI runs.
HangUp_Kept ==
  /\ at = "done" /\ ~hungUp /\ ui # "running"
  /\ hungUp' = TRUE
  /\ UNCHANGED <<captureVars, reader, channel, shown, ui>>

\* The task returns; nothing else holds the sender.
HangUp ==
  /\ at = "done" /\ ~hungUp
  /\ hungUp' = TRUE
  /\ UNCHANGED <<captureVars, reader, channel, shown, ui>>

Applied(u) ==
  CASE u.kind = "Connected"    -> [link |-> "Connected", session |-> 1, heard |-> 0,
                                   told |-> <<>>]
    [] u.kind = "Event"        -> [shown EXCEPT !.heard = u.n, !.told = Append(@, u.event)]
    [] u.kind = "Disconnected" -> [shown EXCEPT !.link = "Disconnected"]

\* Some(update) => app.apply(update)
Apply ==
  /\ ui = "running" /\ channel # <<>>
  /\ shown' = Applied(Head(channel))
  /\ channel' = Tail(channel)
  /\ UNCHANGED <<captureVars, reader, hungUp, ui>>

\* None => break: recv says so once the channel is empty and the sender gone.
Closed ==
  /\ ui = "running" /\ hungUp /\ channel = <<>>
  /\ ui' = "closed"
  /\ UNCHANGED <<captureVars, reader, channel, hungUp, shown>>

Playing == at \in {"attach", "read", "deliver", "finished", "failed", "done"}

\* The user quits; the receiver is dropped with what it holds.
Quit ==
  /\ Playing /\ ui = "running"
  /\ ui' = "quit"
  /\ channel' = <<>>
  /\ UNCHANGED <<captureVars, reader, hungUp, shown>>

Stopped == hungUp /\ ui # "running" /\ UNCHANGED vars

Task == Open \/ Attach \/ ReadFrame \/ EndOfFile \/ Deliver \/ Close \/ HangUp

Next ==
  \/ Recording /\ UNCHANGED replayVars
  \/ Task \/ Apply \/ Closed \/ Quit \/ Stopped

Spec == Init /\ [][Next]_vars

\* Nothing here waits for anything but the disk and the other side.
FairSpec == Spec /\ WF_vars(Task) /\ WF_vars(Apply) /\ WF_vars(Closed)

-----------------------------------------------------------------------------
(* Properties. *)

Promise == INSTANCE Session
  WITH SessionTags <- 2, link <- shown.link, session <- shown.session,
       heard <- shown.heard

\* To the model a replay is one session of a live connection.
ReplayKeepsThePromise == Promise!SessionSpec

\* "A capture truncated mid-frame (killed recorder, full disk) replays up to the
\* last complete frame", and an undamaged one to its end: a UI the user did not
\* quit has applied the very events the recording monitor decoded, in order,
\* then the end of the session, before it sees the channel closed.
ReplayTellsTheSession ==
  LET events   == {i \in DOMAIN story : story[i].heard.type \notin {"End", "Undecodable"}}
      Place(i) == Cardinality({j \in events : j <= i})
  IN ui = "closed" => /\ shown.link = "Disconnected"
                      /\ Len(shown.told) = Cardinality(events)
                      /\ \A i \in events : shown.told[Place(i)] = story[i].heard

\* A replay always ends, and the UI with it.
ReplayEnds == at = "open" ~> hungUp /\ ui # "running"

=============================================================================
