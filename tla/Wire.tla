-------------------------------- MODULE Wire --------------------------------
(***************************************************************************)
(* What goes over the connection (icecc-proto/src/wire.rs and msg.rs): the *)
(* version handshake, frames, and the messages a monitor decodes.          *)
(*                                                                         *)
(* A payload is the sequence of what was written into it: a word of four   *)
(* bytes, or a text behind the word that counts its bytes.  That numbers   *)
(* inside messages are big-endian on both sides is left out; the words of  *)
(* the handshake are little-endian bytes.                                  *)
(***************************************************************************)
EXTENDS Integers, Sequences, FiniteSetsExt, Functions, TLC

CONSTANT None   \* Option::None, and a result that is an error

PROTOCOL_VERSION       == 44
MIN_PROTOCOL_VERSION   == 21
MIN_MON_GET_CS_VERSION == 29
MAX_PEER_VERSION       == 2 ^ 20
MAX_MSG_SIZE           == 1024 * 1024

CLIENT_COUNT_VERSION   == 39    \* from here MON_JOB_DONE has a client count
UNKNOWN_JOB_EXIT       == 200   \* what said "unknown job id" before

-----------------------------------------------------------------------------
(* Handshake: four words of raw little-endian bytes. *)

Le(n) == <<n % 256, (n \div 256) % 256, (n \div 65536) % 256, (n \div 16777216) % 256>>

FromLe(b) == b[1] + 256 * (b[2] + 256 * (b[3] + 256 * b[4]))

\* Handshake::accept_peer: the version to speak and to echo.
AcceptPeer(ours, peer) ==
  LET theirs == FromLe(peer)
  IN IF theirs \in MIN_PROTOCOL_VERSION .. MAX_PEER_VERSION
     THEN Min({theirs, ours})
     ELSE None

\* Handshake::confirm
Confirm(agreed, echo) == IF FromLe(echo) = agreed THEN agreed ELSE None

-----------------------------------------------------------------------------
(* Frames: a length word covering the type word and the payload. *)

Word(n) == [bytes |-> 4, says |-> n]

\* The text with its NUL after its length, or a length of zero and nothing.
Text(t) == [bytes |-> 4 + t.bytes, says |-> t]

Bytes(payload) == SumFunction([k \in DOMAIN payload |-> payload[k].bytes])

EncodeFrame(ty, payload) == [len |-> 4 + Bytes(payload), ty |-> ty, payload |-> payload]

\* payload_len
PayloadLen(len) == IF len \in 4 .. MAX_MSG_SIZE THEN len - 4 ELSE None

MsgType == [Unknown |-> 65, Ping |-> 66, End |-> 67, JobLocalDone |-> 79,
            MonLogin |-> 82, MonGetCs |-> 83, MonJobBegin |-> 84,
            MonJobDone |-> 85, MonLocalJobBegin |-> 86, MonStats |-> 87]

\* What is no number and no type: MsgType::from_u32 and payload_len return it.
ASSUME NoneAssumption == None \notin Int /\ None \notin DOMAIN MsgType

\* MsgType::from_u32
FromU32(v) ==
  LET named == {t \in DOMAIN MsgType : MsgType[t] = v}
  IN IF named = {} THEN None ELSE CHOOSE t \in named : TRUE

-----------------------------------------------------------------------------
(* Reader: the fields of a message in the order they are read. *)

Strings == {"stats", "filename", "file"}

\* Mutant: the order MON_LOCAL_JOB_BEGIN was "read the other way round" in.
Layout_JobFirst(t) ==
  CASE t = "MonStats"         -> <<"host", "stats">>
    [] t = "MonGetCs"         -> <<"filename", "lang", "job", "client">>
    [] t = "MonJobBegin"      -> <<"job", "start", "host">>
    [] t = "MonLocalJobBegin" -> <<"job", "host", "start", "file">>
    [] t = "JobLocalDone"     -> <<"job">>
    [] t = "MonJobDone"       -> <<"job", "exit", "real", "user", "sys", "faults",
                                   "inSent", "in", "outSent", "out", "flags">>

Layout(t) ==
  CASE t = "MonStats"         -> <<"host", "stats">>
    [] t = "MonGetCs"         -> <<"filename", "lang", "job", "client">>
    [] t = "MonJobBegin"      -> <<"job", "start", "host">>
    [] t = "MonLocalJobBegin" -> <<"host", "job", "start", "file">>
    [] t = "JobLocalDone"     -> <<"job">>
    [] t = "MonJobDone"       -> <<"job", "exit", "real", "user", "sys", "faults",
                                   "inSent", "in", "outSent", "out", "flags">>

\* Every field is there (no Truncated), and every text is one (no BadUtf8).
Readable(names, p) ==
  /\ Len(names) <= Len(p)
  /\ \A k \in DOMAIN names : names[k] \in Strings => p[k].says.utf8

Read(names, p) ==
  [n \in {names[k] : k \in DOMAIN names} |->
     LET item == p[CHOOSE k \in DOMAIN names : names[k] = n]
     IN IF n \in Strings THEN item.says.text ELSE item.says]

\* Reader::u32_opt for the word after the fields.
Trailing(names, p) == IF Len(names) < Len(p) THEN p[Len(names) + 1].says ELSE None

-----------------------------------------------------------------------------
(* msg::decode *)

Undecodable == [type |-> "Undecodable", field |-> <<>>]
Other(ty)   == [type |-> "Other", field |-> [ty |-> ty]]

\* JobDone::from_submitter and JobDone::unknown_job_id
FromSubmitter(flags) == flags % 2 = 1
UnknownJobId(flags)  == (flags \div 2) % 2 = 1

\* flags |= 1 << 1
MarkUnknown(flags) == IF UnknownJobId(flags) THEN flags ELSE flags + 2

\* What the protocol version decides about a MON_JOB_DONE.
Report(d, p, protocol) ==
  LET old == protocol < CLIENT_COUNT_VERSION
      flags == IF old /\ d.exit = UNKNOWN_JOB_EXIT THEN MarkUnknown(d.flags) ELSE d.flags
      clients == IF old THEN None ELSE Trailing(Layout("MonJobDone"), p)
  IN [n \in DOMAIN d \cup {"clients"} |->
        IF n = "flags" THEN flags ELSE IF n = "clients" THEN clients ELSE d[n]]

\* Types a monitor is not told about, and a form it declines.
Declined(t, protocol) ==
  \/ t \in {None, "MonLogin", "Unknown"}
  \/ t = "MonGetCs" /\ protocol < MIN_MON_GET_CS_VERSION

Decode(ty, p, protocol) ==
  LET t == FromU32(ty)
  IN IF Declined(t, protocol) THEN Other(ty)
     ELSE IF t \in {"End", "Ping"} THEN [type |-> t, field |-> <<>>]
     ELSE IF ~Readable(Layout(t), p) THEN Undecodable
     ELSE LET d == Read(Layout(t), p)
          IN [type |-> t,
              field |-> IF t = "MonJobDone" THEN Report(d, p, protocol) ELSE d]

=============================================================================
