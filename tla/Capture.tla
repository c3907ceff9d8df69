------------------------------- MODULE Capture -------------------------------
(***************************************************************************)
(* A session that is recorded (handshake, read_frame, Recorder and the     *)
(* pump of connect_once in icecc-proto/src/conn.rs), up to the file it     *)
(* leaves behind.                                                          *)
(*                                                                         *)
(* The scheduler is of some version and says the messages of its version;  *)
(* it may be another one after each reconnect.  Of the file, its frames    *)
(* are kept with the byte each begins at, and the number of its bytes.     *)
(* When the task waits, and what the UI does meanwhile, is in module       *)
(* Connection.                                                             *)
(***************************************************************************)
EXTENDS Wire

CONSTANTS
  Versions,     \* protocol versions a scheduler may have
  Messages,     \* what a scheduler may say
  MaxFrames,    \* bound: frames in a session
  MaxSessions,  \* bound: attempts to log in
  Cuts          \* bytes of the last frame that may have reached the disk

ASSUME CaptureAssumption ==
  /\ \A v \in Versions : v \in Nat /\ v \div 16777216 < 256
  /\ MaxFrames \in Nat /\ MaxSessions \in Nat
  /\ Cuts \subseteq Nat \ {0}

VARIABLES
  at,         \* where the task is
  scheduler,  \* the version of the scheduler
  protocol,   \* the version agreed on
  sessions,   \* attempts made so far
  file,       \* the capture
  story       \* history variable: the frames in the file, as said and as decoded

captureVars == <<at, scheduler, protocol, sessions, file, story>>

Header       == 12   \* magic and protocol
FrameHeader  == 12   \* milliseconds and length

NoFile == [header |-> FALSE, protocol |-> 0, frames |-> <<>>, size |-> Header]

-----------------------------------------------------------------------------
(* The scheduler: what it writes, by its own version. *)

\* It takes the lower version too.
TheirProtocol == Min({scheduler, PROTOCOL_VERSION})

\* The order it fills a message in.
Filled(t) ==
  CASE t = "MonStats"         -> <<"host", "stats">>
    [] t = "MonGetCs"         -> <<"filename", "lang", "job", "client">>
    [] t = "MonJobBegin"      -> <<"job", "start", "host">>
    [] t = "MonJobDone"       -> <<"job", "exit", "real", "user", "sys", "faults",
                                   "inSent", "in", "outSent", "out", "flags">>
    [] t = "MonLocalJobBegin" -> <<"host", "job", "start", "file">>
    [] t = "JobLocalDone"     -> <<"job">>
    [] t \in {"Ping", "End", "Novel"} -> <<>>

\* What there is to say: each message fills in its own fields, a text has a length,
\* a "Novel" message is of a type a monitor has no name for, and a count of clients
\* and what is unknown come with a MON_JOB_DONE.  A scheduler that spells an unknown
\* job as an exit code means nothing else by that code.
ASSUME MessagesAssumption ==
  \A m \in Messages :
    /\ m.type \in {"MonStats", "MonGetCs", "MonJobBegin", "MonJobDone",
                   "MonLocalJobBegin", "JobLocalDone", "Ping", "End", "Novel"}
    /\ IF m.type = "Novel"
       THEN DOMAIN m.field = {"ty"} /\ m.field.ty \in Nat /\ FromU32(m.field.ty) = None
       ELSE DOMAIN m.field = Range(Filled(m.type))
    /\ \A n \in DOMAIN m.field :
         IF n \in Strings THEN m.field[n].bytes \in Nat /\ m.field[n].utf8 \in BOOLEAN
                          ELSE m.field[n] \in Nat
    /\ m.type = "MonJobDone" =>
         /\ m.unknown \in BOOLEAN /\ m.clients \in Nat \cup {None}
         /\ ~UnknownJobId(m.field.flags)
         /\ m.field.exit = UNKNOWN_JOB_EXIT =>
              m.unknown \/ \A v \in Versions : v >= CLIENT_COUNT_VERSION

\* An unknown job is an exit code below 39 and a flag from there on.
Spelled(m, name) ==
  LET old == TheirProtocol < CLIENT_COUNT_VERSION
      unknown == m.type = "MonJobDone" /\ m.unknown
  IN CASE name = "exit" /\ unknown /\ old   -> UNKNOWN_JOB_EXIT
       [] name = "flags" /\ unknown /\ ~old -> m.field.flags + 2
       [] OTHER                             -> m.field[name]

Item(m, name) == IF name \in Strings THEN Text(m.field[name]) ELSE Word(Spelled(m, name))

Written(m) ==
  LET names   == Filled(m.type)
      items   == [k \in DOMAIN names |-> Item(m, names[k])]
      counted == m.type = "MonJobDone" /\ m.clients # None
                 /\ TheirProtocol >= CLIENT_COUNT_VERSION
  IN IF counted THEN Append(items, Word(m.clients)) ELSE items

\* A frame on the wire.  Below version 29 a MON_GET_CS is a longer message.
Sent(m) ==
  LET ty == IF m.type = "Novel" THEN m.field.ty ELSE MsgType[m.type]
  IN EncodeFrame(ty, Written(m))

-----------------------------------------------------------------------------
(* The capture, byte by byte. *)

FrameSize(f) == FrameHeader + f.len

\* Recorder::write of a frame, of which some bytes do not get to the disk.
Recorded(frame, missing) ==
  [file EXCEPT !.frames = Append(@, [begin |-> file.size, frame |-> frame]),
               !.size = @ + FrameSize(frame) - missing]

-----------------------------------------------------------------------------
(* connect_once *)

CaptureInit ==
  /\ at = "dial"
  /\ scheduler \in Versions
  /\ protocol = None
  /\ sessions = 1
  /\ file = NoFile
  /\ story = <<>>

\* handshake: the scheduler answers with its version and echoes what it takes,
\* or it is something else that listens on the port.
Shake ==
  /\ at = "dial"
  /\ \E echo \in {TheirProtocol, 0} :
       LET agreed == AcceptPeer(PROTOCOL_VERSION, Le(scheduler))
           settled == IF agreed = None THEN None ELSE Confirm(agreed, Le(echo))
       IN protocol' = settled /\ at' = IF settled = None THEN "idle" ELSE "create"
  /\ UNCHANGED <<scheduler, sessions, file, story>>

\* Recorder::create: the file of an earlier session is truncated.  Killed in the
\* middle, it leaves a header that is not one.
Create ==
  /\ at = "create"
  /\ story' = <<>>
  /\ \/ at' = "pump" /\ file' = [NoFile EXCEPT !.header = TRUE, !.protocol = protocol]
     \/ at' = "open" /\ file' = NoFile
  /\ UNCHANGED <<scheduler, protocol, sessions>>

\* read_frame takes no frame of an impossible length: the session is Lost instead.
Fits(frame) == PayloadLen(frame.len) # None

\* read_frame, Recorder::write, decode: MON_END ends the session.
Hear(m) ==
  LET frame == Sent(m)
      event == Decode(frame.ty, frame.payload, protocol)
  IN /\ at = "pump" /\ Len(file.frames) < MaxFrames /\ Fits(frame)
     /\ file' = Recorded(frame, 0)
     /\ story' = Append(story, [said |-> m, heard |-> event])
     /\ at' = IF event.type = "End" THEN "idle" ELSE "pump"
     /\ UNCHANGED <<scheduler, protocol, sessions>>

\* The disk is full or the process killed in the middle of a frame.  The frame
\* was not told to anybody.
BreakOff(m, kept) ==
  LET frame == Sent(m)
  IN /\ at = "pump" /\ Len(file.frames) < MaxFrames /\ Fits(frame)
     /\ kept < FrameSize(frame)
     /\ file' = Recorded(frame, FrameSize(frame) - kept)
     /\ at' \in {"idle", "open"}
     /\ UNCHANGED <<scheduler, protocol, sessions, story>>

\* The scheduler goes away.
Lost ==
  /\ at = "pump" /\ at' = "idle"
  /\ UNCHANGED <<scheduler, protocol, sessions, file, story>>

\* run_live: the next attempt, maybe to a scheduler of another version.
Redial ==
  /\ at = "idle" /\ sessions < MaxSessions
  /\ at' = "dial"
  /\ sessions' = sessions + 1
  /\ scheduler' \in Versions
  /\ protocol' = None
  /\ UNCHANGED <<file, story>>

\* The user quits; what was recorded is given to --replay.
Leave ==
  /\ at \in {"idle", "pump"} /\ at' = "open"
  /\ UNCHANGED <<scheduler, protocol, sessions, file, story>>

\* A file can be damaged before it is played: a length no frame has.
Damage ==
  /\ at = "open"
  /\ \E i \in DOMAIN story, len \in {3, MAX_MSG_SIZE + 1} :
       /\ file' = [file EXCEPT !.frames[i].frame.len = len]
       /\ story' = SubSeq(story, 1, i - 1)
  /\ UNCHANGED <<at, scheduler, protocol, sessions>>

Recording ==
  \/ Shake \/ Create \/ Lost \/ Redial \/ Leave \/ Damage
  \/ \E m \in Messages : Hear(m) \/ \E kept \in Cuts : BreakOff(m, kept)

-----------------------------------------------------------------------------
(* Properties. *)

\* What a monitor may make of a message in some version, by what it means and not by how it is
\* spelled: nothing of a text that is none, no request in the form it declines.
Means(m, version) ==
  LET bad == \E n \in DOMAIN m.field : n \in Strings /\ ~m.field[n].utf8
      Plain(n) == IF n \in Strings THEN m.field[n].text ELSE m.field[n]
  IN IF m.type = "Novel" THEN Other(m.field.ty)
     ELSE IF m.type = "MonGetCs" /\ version < 29 THEN Other(83)
     ELSE IF bad THEN Undecodable
     ELSE [type |-> m.type, field |-> [n \in DOMAIN m.field |-> Plain(n)]]

\* A job is the same job whichever version reports it: the fields are those the
\* scheduler filled in, in its order, an unknown job is unknown whether it is
\* spelled as an exit code or as a flag, and a count that was not sent is not
\* made up, whatever version the handshake settled on.
Understood(m, e, version) ==
  IF m.type # "MonJobDone" THEN e = Means(m, version)
  ELSE /\ e.type = "MonJobDone"
       /\ \A n \in DOMAIN m.field \ {"exit", "flags"} : e.field[n] = m.field[n]
       /\ UnknownJobId(e.field.flags) <=> m.unknown
       /\ FromSubmitter(e.field.flags) <=> FromSubmitter(m.field.flags)
       /\ e.field.clients = IF version < 39 THEN None ELSE m.clients

\* What a monitor decodes is what the scheduler said: the two agreed on one
\* version, and it decides the same on both sides.
HeardAsSaid ==
  at \in {"pump", "idle"} /\ protocol # None =>
    \A i \in DOMAIN story : Understood(story[i].said, story[i].heard, TheirProtocol)

=============================================================================
