------------------------------- MODULE Session -------------------------------
(***************************************************************************)
(* What the connection task promises whoever reads its updates             *)
(* (icecc-proto/src/conn.rs, enum Update): sessions come one after another, *)
(* each is announced, attached, heard and lost in that order, no session is *)
(* skipped, and the frames of a session arrive in the order the scheduler   *)
(* wrote them, each at most once and only within their session.             *)
(*                                                                          *)
(* Module Connection implements it.  Module Cluster takes it as the order   *)
(* of the updates Cluster::apply sees.                                      *)
(***************************************************************************)
EXTENDS Integers

CONSTANTS
  SessionTags,  \* how many sessions can be told apart
  MaxFrames     \* bound: frames in one session

VARIABLES
  link,     \* the last session update that was not an Event
  session,  \* the tag of the last session attached to
  heard     \* the number of the last frame of that session heard of

sessionVars == <<link, session, heard>>

NextTag(s) == (s + 1) % SessionTags

Init ==
  /\ link = "Connecting"
  /\ session = 0
  /\ heard = 0

\* Update::Connecting, repeated as the attempt gets further.
Announce ==
  /\ link # "Connected"
  /\ link' = "Connecting"
  /\ UNCHANGED <<session, heard>>

\* Update::Connected
Attach ==
  /\ link = "Connecting"
  /\ link' = "Connected"
  /\ session' = NextTag(session)
  /\ heard' = 0

\* Update::Event.  A frame that could not be decoded is passed over.
Hear(frame) ==
  /\ link = "Connected"
  /\ frame > heard
  /\ heard' = frame
  /\ UNCHANGED <<link, session>>

\* Update::Disconnected, after a session or after an attempt that never became
\* one.
Lose ==
  /\ link # "Disconnected"
  /\ link' = "Disconnected"
  /\ UNCHANGED <<session, heard>>

Next ==
  \/ Announce
  \/ Attach
  \/ \E frame \in 1 .. MaxFrames : Hear(frame)
  \/ Lose

SessionSpec == Init /\ [][Next]_sessionVars

=============================================================================
