---------------------------- MODULE ReplayProofs ----------------------------
EXTENDS Replay, FiniteSetTheorems, TLAPS

(***************************************************************************)
(* A replay tells the session that was recorded.  The argument:            *)
(*                                                                         *)
(*  - HearInv: the handshake settles the version of the scheduler or       *)
(*    none, and in that version what is read out of a frame is what was    *)
(*    written.                                                             *)
(*  - ShapeInv, FileInv: the file holds the frames of the story one        *)
(*    behind the other, and what a cut or a flipped length leaves behind   *)
(*    them is no whole frame.                                              *)
(*  - ReaderInv: the reader stands at a frame of the story, so that it     *)
(*    finds the end where the story ends.                                  *)
(*  - ShownInv, ChannelInv: what the UI has applied, followed by what is   *)
(*    in the channel, is what was read, each event at the place its        *)
(*    frame has among those a monitor is told about (Ordinal).  A          *)
(*    channel that is empty and hung up then leaves nothing untold.        *)
(***************************************************************************)

-----------------------------------------------------------------------------
(* The handshake. *)

\* A word comes back from its bytes as what it was.
LEMMA FromLeOfLe ==
  ASSUME NEW v \in Nat, v \div 16777216 < 256
  PROVE  FromLe(Le(v)) = v
<1>1. v \div 65536 = (v \div 256) \div 256 /\ v \div 16777216 = (v \div 65536) \div 256
  BY SMT
<1>2. (v \div 16777216) % 256 = v \div 16777216
  BY SMT
<1>3. \A n \in Nat : n % 256 = n - 256 * (n \div 256)
  BY SMT
<1>4. v \div 256 \in Nat /\ v \div 65536 \in Nat
  BY SMT
<1>5. /\ v % 256 = v - 256 * (v \div 256)
      /\ (v \div 256) % 256 = (v \div 256) - 256 * (v \div 65536)
      /\ (v \div 65536) % 256 = (v \div 65536) - 256 * (v \div 16777216)
  BY <1>1, <1>3, <1>4, SMT
<1> QED BY <1>2, <1>4, <1>5, SMT DEF FromLe, Le

\* The lower of two versions.
LEMMA LowerOf ==
  ASSUME NEW a \in Int, NEW b \in Int
  PROVE  Min({a, b}) \in {a, b}
<1>1. \E x \in {a, b} : \A y \in {a, b} : x <= y
  <2>1. CASE a <= b
    BY <2>1
  <2>2. CASE ~(a <= b)
    BY <2>2
  <2> QED BY <2>1, <2>2
<1> QED BY <1>1 DEF Min

\* What is settled on is the version the scheduler speaks, or nothing.
LEMMA SettledIsTheirs ==
  ASSUME scheduler \in Versions, NEW agreed, NEW echo,
         agreed = AcceptPeer(PROTOCOL_VERSION, Le(scheduler))
  PROVE  /\ agreed \in {None, TheirProtocol}
         /\ Confirm(agreed, echo) \in {None, TheirProtocol}
<1>1. FromLe(Le(scheduler)) = scheduler
  BY CaptureAssumption, FromLeOfLe, SMT
<1> QED BY <1>1 DEF AcceptPeer, Confirm, TheirProtocol

\* The version the scheduler speaks is a number.
LEMMA TheirProtocolIsInt ==
  ASSUME scheduler \in Versions
  PROVE  TheirProtocol \in Int
BY CaptureAssumption, LowerOf, SMT DEF TheirProtocol, PROTOCOL_VERSION

-----------------------------------------------------------------------------
(* Messages. *)

Named == {"MonStats", "MonGetCs", "MonJobBegin", "MonJobDone", "MonLocalJobBegin",
          "JobLocalDone"}

\* No type is called None.
LEMMA TypesAreSome ==
  ASSUME NEW t \in Named \cup {"Ping", "End"}
  PROVE  t \notin {None, "MonLogin", "Unknown"}
<1>1. t \in DOMAIN MsgType
  BY DEF Named, MsgType
<1> QED BY <1>1, NoneAssumption DEF Named

\* The number of a type is the number of no other.
LEMMA FromU32OfType ==
  ASSUME NEW t \in DOMAIN MsgType
  PROVE  FromU32(MsgType[t]) = t
<1>1. \A s \in DOMAIN MsgType : MsgType[s] = MsgType[t] => s = t
  BY DEF MsgType
<1>2. {s \in DOMAIN MsgType : MsgType[s] = MsgType[t]} = {t}
  BY <1>1
<1> QED BY <1>2 DEF FromU32

\* The reader takes the fields in the order the scheduler fills them in.
LEMMA LayoutIsFilled ==
  ASSUME NEW t \in Named
  PROVE  Layout(t) = Filled(t)
BY DEF Named, Layout, Filled

\* No field comes twice.
LEMMA FieldsAreDistinct ==
  ASSUME NEW t \in Named
  PROVE  /\ Len(Filled(t)) \in Nat /\ DOMAIN Filled(t) = 1 .. Len(Filled(t))
         /\ \A j, k \in DOMAIN Filled(t) : Filled(t)[j] = Filled(t)[k] => j = k
<1>1. CASE t = "MonJobDone"
  <2> DEFINE names == <<"job", "exit", "real", "user", "sys", "faults", "inSent", "in",
                        "outSent", "out", "flags">>
  <2>1. Filled(t) = names
    BY <1>1, SMT DEF Filled
  <2>3. Len(names) = 11 /\ DOMAIN names = 1 .. 11
    BY SMT
  <2>4. /\ names[1] = "job" /\ names[2] = "exit" /\ names[3] = "real" /\ names[4] = "user"
        /\ names[5] = "sys" /\ names[6] = "faults" /\ names[7] = "inSent" /\ names[8] = "in"
        /\ names[9] = "outSent" /\ names[10] = "out" /\ names[11] = "flags"
    BY SMT
  <2> HIDE DEF names
  <2>5. \A j, k \in 1 .. 11 : names[j] = names[k] => j = k
    BY <2>4, SMT
  <2> QED BY <2>1, <2>3, <2>5, SMT
<1>2. CASE t = "MonStats"
  BY <1>2, SMT DEF Filled
<1>3. CASE t = "MonGetCs"
  BY <1>3, SMT DEF Filled
<1>4. CASE t = "MonJobBegin"
  BY <1>4, SMT DEF Filled
<1>5. CASE t = "MonLocalJobBegin"
  BY <1>5, SMT DEF Filled
<1>6. CASE t = "JobLocalDone"
  BY <1>6, SMT DEF Filled
<1> QED BY <1>1, <1>2, <1>3, <1>4, <1>5, <1>6 DEF Named

\* The fields come first, and a count that was sent right after them.
LEMMA WrittenItems ==
  ASSUME NEW m, m.type \in Named
  PROVE  LET names   == Filled(m.type)
             counted == m.type = "MonJobDone" /\ m.clients # None
                        /\ TheirProtocol >= CLIENT_COUNT_VERSION
         IN  /\ \A k \in DOMAIN names : Written(m)[k] = Item(m, names[k])
             /\ Len(Written(m)) = IF counted THEN Len(names) + 1 ELSE Len(names)
             /\ counted => Written(m)[Len(names) + 1].says = m.clients
<1> DEFINE names   == Filled(m.type)
           count   == Len(names)
           items   == [k \in DOMAIN names |-> Item(m, names[k])]
           counted == m.type = "MonJobDone" /\ m.clients # None
                      /\ TheirProtocol >= CLIENT_COUNT_VERSION
<1>1. count \in Nat /\ DOMAIN names = 1 .. count
  BY FieldsAreDistinct
<1>2. items \in Seq({items[k] : k \in 1 .. count}) /\ Len(items) = count
  <2> DEFINE T == {items[k] : k \in 1 .. count}
  <2>1. items \in [1 .. count -> T]
    BY <1>1
  <2> HIDE DEF items, count, T
  <2>2. items \in Seq(T) /\ Len(items) = count
    BY ONLY <1>1, <2>1
  <2> QED BY <2>2 DEF T
<1>3. Written(m) = IF counted THEN Append(items, Word(m.clients)) ELSE items
  BY DEF Written
<1>4. \A k \in DOMAIN names : items[k] = Item(m, names[k])
  OBVIOUS
<1> HIDE DEF items, names, counted, count
<1>5. CASE counted
  <2> DEFINE S == {items[k] : k \in 1 .. count} \cup {Word(m.clients)}
  <2>1. items \in Seq(S)
    BY <1>2
  <2>2. /\ Len(Append(items, Word(m.clients))) = count + 1
        /\ \A k \in 1 .. count : Append(items, Word(m.clients))[k] = items[k]
        /\ Append(items, Word(m.clients))[count + 1] = Word(m.clients)
    <3> HIDE DEF S
    <3> QED BY <1>1, <1>2, <2>1
  <2>3. Word(m.clients).says = m.clients
    BY DEF Word
  <2> QED BY <1>1, <1>3, <1>4, <1>5, <2>2, <2>3 DEF names, counted, count
<1>6. CASE ~counted
  BY <1>1, <1>2, <1>3, <1>4, <1>6 DEF names, counted, count
<1> QED BY <1>5, <1>6

-----------------------------------------------------------------------------
(* What is decoded. *)

\* Nothing of a type that has no name.
LEMMA NovelIsOther ==
  ASSUME NEW m \in Messages, m.type = "Novel"
  PROVE  Decode(Sent(m).ty, Sent(m).payload, TheirProtocol) = Means(m, TheirProtocol)
<1>1. FromU32(m.field.ty) = None
  BY MessagesAssumption, SMT
<1>2. Sent(m).ty = m.field.ty
  BY DEF Sent, EncodeFrame
<1>3. Declined(None, TheirProtocol)
  BY DEF Declined
<1> QED BY <1>1, <1>2, <1>3 DEF Decode, Means

\* The type of a frame.
LEMMA TypeOfSent ==
  ASSUME NEW m \in Messages, m.type # "Novel"
  PROVE  Sent(m).ty = MsgType[m.type] /\ FromU32(Sent(m).ty) = m.type
         /\ Sent(m).payload = Written(m)
<1>1. m.type \in DOMAIN MsgType
  BY MessagesAssumption, SMT DEF MsgType
<1>2. FromU32(MsgType[m.type]) = m.type
  BY <1>1, FromU32OfType
<1> QED BY <1>2 DEF Sent, EncodeFrame

\* A message without fields is heard as what it is.
LEMMA PingAndEnd ==
  ASSUME NEW m \in Messages, m.type \in {"Ping", "End"}
  PROVE  Decode(Sent(m).ty, Sent(m).payload, TheirProtocol) = Means(m, TheirProtocol)
<1>1. FromU32(Sent(m).ty) = m.type
  BY TypeOfSent
<1>2. ~Declined(m.type, TheirProtocol)
  BY TypesAreSome DEF Declined
<1>3. Decode(Sent(m).ty, Sent(m).payload, TheirProtocol) = [type |-> m.type, field |-> <<>>]
  BY <1>1, <1>2 DEF Decode
<1>4. DOMAIN m.field = {}
  <2>1. Filled(m.type) = <<>>
    BY SMT DEF Filled
  <2>2. Range(<<>>) = {}
    BY DEF Range
  <2> QED BY <2>1, <2>2, MessagesAssumption, SMT
<1>5. \A F : DOMAIN F = {} /\ F = [n \in {} |-> F[n]] => F = <<>>
  BY SMT
<1> DEFINE Plain(n) == IF n \in Strings THEN m.field[n].text ELSE m.field[n]
<1>6. [n \in DOMAIN m.field |-> Plain(n)] = <<>>
  BY <1>4
<1>7. Means(m, TheirProtocol) = [type |-> m.type, field |-> [n \in DOMAIN m.field |-> Plain(n)]]
  BY <1>4 DEF Means
<1> HIDE DEF Plain
<1> QED BY <1>3, <1>6, <1>7

\* A text that is none makes a message unreadable, and nothing else does.
LEMMA ReadableIsGood ==
  ASSUME NEW m \in Messages, m.type \in Named
  PROVE  Readable(Layout(m.type), Written(m)) <=>
           ~\E n \in DOMAIN m.field : n \in Strings /\ ~m.field[n].utf8
<1> DEFINE names == Filled(m.type)
<1>1. Len(names) \in Nat /\ DOMAIN names = 1 .. Len(names) /\ Layout(m.type) = names
  BY FieldsAreDistinct, LayoutIsFilled
<1>2. Len(names) <= Len(Written(m)) /\ \A k \in DOMAIN names : Written(m)[k] = Item(m, names[k])
  BY <1>1, WrittenItems, SMT
<1>3. DOMAIN m.field = {names[k] : k \in DOMAIN names}
  BY MessagesAssumption, SMT DEF Named, Range
<1> HIDE DEF names
<1>4. ASSUME NEW k \in DOMAIN names, names[k] \in Strings
      PROVE  Written(m)[k].says = m.field[names[k]]
  <2>1. Written(m)[k] = Text(m.field[names[k]])
    BY <1>2, <1>4 DEF Item
  <2> QED BY <2>1 DEF Text
<1> QED BY <1>1, <1>2, <1>3, <1>4 DEF Readable

\* Whatever was written first to last is read as it was written.
LEMMA ReadOfWritten ==
  ASSUME NEW m \in Messages, m.type \in Named
  PROVE  Read(Layout(m.type), Written(m)) =
           [n \in DOMAIN m.field |->
              IF n \in Strings THEN m.field[n].text ELSE Spelled(m, n)]
<1> DEFINE names == Filled(m.type)
           p == Written(m)
           Place(n) == CHOOSE k \in DOMAIN names : names[k] = n
           Taken(n) == IF n \in Strings THEN p[Place(n)].says.text ELSE p[Place(n)].says
           Meant(n) == IF n \in Strings THEN m.field[n].text ELSE Spelled(m, n)
<1>1. /\ Layout(m.type) = names
      /\ \A j, k \in DOMAIN names : names[j] = names[k] => j = k
  BY FieldsAreDistinct, LayoutIsFilled
<1>2. \A k \in DOMAIN names : p[k] = Item(m, names[k])
  BY WrittenItems
<1>3. DOMAIN m.field = {names[k] : k \in DOMAIN names}
  BY MessagesAssumption, SMT DEF Named, Range
<1> HIDE DEF names, p
<1>4. Read(names, p) = [n \in DOMAIN m.field |-> Taken(n)]
  BY <1>3 DEF Read
<1>5. ASSUME NEW n \in DOMAIN m.field
      PROVE  Taken(n) = Meant(n)
  <2>1. PICK k \in DOMAIN names : names[k] = n
    BY <1>3
  <2>2. Place(n) = k
    BY <1>1, <2>1
  <2>3. p[Place(n)] = Item(m, n)
    BY <1>2, <2>1, <2>2
  <2> HIDE DEF Place
  <2> QED BY <2>3 DEF Item, Text, Word
<1> HIDE DEF Taken, Meant
<1>6. [n \in DOMAIN m.field |-> Taken(n)] = [n \in DOMAIN m.field |-> Meant(n)]
  BY <1>5
<1> QED BY <1>1, <1>4, <1>6 DEF p, Meant

\* A message that is no end of a job is taken for what it means.
LEMMA OthersAreUnderstood ==
  ASSUME NEW m \in Messages, m.type \in Named \ {"MonJobDone"}
  PROVE  Decode(Sent(m).ty, Sent(m).payload, TheirProtocol) = Means(m, TheirProtocol)
<1> DEFINE Plain(n) == IF n \in Strings THEN m.field[n].text ELSE m.field[n]
           bad == \E n \in DOMAIN m.field : n \in Strings /\ ~m.field[n].utf8
           ty == Sent(m).ty
           d == [n \in DOMAIN m.field |-> Plain(n)]
<1>1. /\ FromU32(ty) = m.type /\ ty = MsgType[m.type]
      /\ Sent(m).payload = Written(m)
  BY TypeOfSent DEF Named
<1>2. Declined(m.type, TheirProtocol) <=> m.type = "MonGetCs" /\ TheirProtocol < 29
  BY TypesAreSome DEF Declined, MIN_MON_GET_CS_VERSION
<1>3. CASE Declined(m.type, TheirProtocol)
  <2>1. ty = 83
    BY <1>1, <1>2, <1>3 DEF MsgType
  <2>2. Decode(ty, Written(m), TheirProtocol) = Other(83)
    BY <1>1, <1>3, <2>1 DEF Decode
  <2> QED BY <1>1, <1>2, <1>3, <2>2 DEF Means
<1>4. CASE ~Declined(m.type, TheirProtocol)
  <2>1. Readable(Layout(m.type), Written(m)) <=> ~bad
    BY ReadableIsGood
  <2>2. Read(Layout(m.type), Written(m)) = d
    <3>1. \A n : Spelled(m, n) = m.field[n]
      BY DEF Spelled
    <3> QED BY <3>1, ReadOfWritten
  <2>3. m.type \notin {"End", "Ping", "MonJobDone", "Novel"}
    BY DEF Named
  <2>4. Means(m, TheirProtocol) = IF bad THEN Undecodable ELSE [type |-> m.type, field |-> d]
    BY <1>2, <1>4, <2>3 DEF Means
  <2> HIDE DEF bad, d, ty
  <2> QED BY <1>1, <1>4, <2>1, <2>2, <2>3, <2>4 DEF Decode, ty
<1> QED BY <1>1, <1>3, <1>4

\* Marking a job unknown leaves who submitted it alone.
LEMMA MarkingFlags ==
  ASSUME NEW f \in Nat, ~UnknownJobId(f)
  PROVE  UnknownJobId(f + 2) /\ (FromSubmitter(f + 2) <=> FromSubmitter(f))
<1>1. (f + 2) \div 2 = f \div 2 + 1 /\ (f + 2) % 2 = f % 2
  OBVIOUS
<1>2. (f \div 2) % 2 # 1
  BY DEF UnknownJobId
<1>3. f \div 2 \in Nat
  OBVIOUS
<1>4. \A h \in Nat : h % 2 # 1 => (h + 1) % 2 = 1
  OBVIOUS
<1> QED BY <1>1, <1>2, <1>3, <1>4 DEF UnknownJobId, FromSubmitter

\* A job that ended is the same job, however its end is spelled.
LEMMA JobDoneIsUnderstood ==
  ASSUME scheduler \in Versions, NEW m \in Messages, m.type = "MonJobDone"
  PROVE  Understood(m, Decode(Sent(m).ty, Sent(m).payload, TheirProtocol), TheirProtocol)
<1> DEFINE fields == DOMAIN m.field
           old == TheirProtocol < CLIENT_COUNT_VERSION
           d == [n \in fields |-> IF n \in Strings THEN m.field[n].text ELSE Spelled(m, n)]
           flags == IF old /\ d.exit = UNKNOWN_JOB_EXIT THEN MarkUnknown(d.flags) ELSE d.flags
           clients == IF old THEN None ELSE Trailing(Layout("MonJobDone"), Written(m))
           e == Report(d, Written(m), TheirProtocol)
<1>1. /\ m.unknown \in BOOLEAN /\ m.clients \in Nat \cup {None}
      /\ ~UnknownJobId(m.field.flags) /\ m.field.flags \in Nat
      /\ m.field.exit = UNKNOWN_JOB_EXIT =>
           m.unknown \/ \A v \in Versions : v >= CLIENT_COUNT_VERSION
      /\ fields = Range(Filled("MonJobDone"))
  <2>1. fields = Range(Filled("MonJobDone"))
    BY MessagesAssumption, SMT
  <2>2. "flags" \in fields
    <3>1. Filled("MonJobDone")[11] = "flags" /\ 11 \in DOMAIN Filled("MonJobDone")
      BY SMT DEF Filled
    <3> QED BY <2>1, <3>1 DEF Range
  <2>3. m.field["flags"] \in Nat
    BY <2>2, MessagesAssumption, SMT DEF Strings
  <2> QED BY <2>1, <2>3, MessagesAssumption, SMT
<1>2. /\ "exit" \in fields /\ "flags" \in fields /\ "clients" \notin fields
      /\ fields \cap Strings = {}
  <2>1. Filled("MonJobDone") = <<"job", "exit", "real", "user", "sys", "faults",
                                "inSent", "in", "outSent", "out", "flags">>
    BY SMT DEF Filled
  <2>2. Range(Filled("MonJobDone")) = {"job", "exit", "real", "user", "sys", "faults",
                                       "inSent", "in", "outSent", "out", "flags"}
    BY <2>1, SMT DEF Range
  <2> QED BY <1>1, <2>2 DEF Strings
<1>3. Decode(Sent(m).ty, Sent(m).payload, TheirProtocol) = [type |-> "MonJobDone", field |-> e]
  <2>1. FromU32(Sent(m).ty) = "MonJobDone" /\ Sent(m).payload = Written(m)
    BY TypeOfSent
  <2>2. ~Declined("MonJobDone", TheirProtocol)
    BY TypesAreSome DEF Declined, Named
  <2>3. Readable(Layout("MonJobDone"), Written(m))
    BY <1>2, ReadableIsGood DEF Named
  <2>4. Read(Layout("MonJobDone"), Written(m)) = d
    BY ReadOfWritten DEF Named
  <2> HIDE DEF d
  <2> QED BY <2>1, <2>2, <2>3, <2>4 DEF Decode
<1>4. /\ \A n \in fields \ {"flags"} : e[n] = d[n]
      /\ e.flags = flags /\ e.clients = clients
  <2>1. e = [n \in fields \cup {"clients"} |->
               IF n = "flags" THEN flags ELSE IF n = "clients" THEN clients ELSE d[n]]
    <3>1. DOMAIN d = fields
      OBVIOUS
    <3> HIDE DEF d
    <3> QED BY <3>1 DEF Report
  <2> HIDE DEF e, flags, clients, d
  <2> QED BY <1>2, <2>1
<1>5. \A n \in fields \ {"exit", "flags"} : d[n] = m.field[n]
  BY <1>2 DEF Spelled
<1>6. /\ d.exit = IF m.unknown /\ old THEN UNKNOWN_JOB_EXIT ELSE m.field.exit
      /\ d.flags = IF m.unknown /\ ~old THEN m.field.flags + 2 ELSE m.field.flags
  BY <1>1, <1>2 DEF Spelled, Strings
<1>7. old => \E v \in Versions : ~(v >= CLIENT_COUNT_VERSION)
  <2>1. scheduler \in Nat /\ PROTOCOL_VERSION \in Nat
    BY CaptureAssumption, SMT DEF PROTOCOL_VERSION
  <2>2. TheirProtocol \in {scheduler, PROTOCOL_VERSION}
    BY <2>1, LowerOf DEF TheirProtocol
  <2> QED BY <2>1, <2>2 DEF PROTOCOL_VERSION, CLIENT_COUNT_VERSION
<1>8. /\ UnknownJobId(flags) <=> m.unknown
      /\ FromSubmitter(flags) <=> FromSubmitter(m.field.flags)
  <2>1. UnknownJobId(m.field.flags + 2)
        /\ (FromSubmitter(m.field.flags + 2) <=> FromSubmitter(m.field.flags))
    BY <1>1, MarkingFlags
  <2>2. CASE old
    <3>1. d.flags = m.field.flags /\ (d.exit = UNKNOWN_JOB_EXIT <=> m.unknown)
      BY <1>1, <1>6, <1>7, <2>2
    <3>2. flags = IF m.unknown THEN m.field.flags + 2 ELSE m.field.flags
      <4> HIDE DEF d
      <4> QED BY <1>1, <2>2, <3>1 DEF MarkUnknown
    <3> HIDE DEF flags
    <3> QED BY <1>1, <2>1, <3>2
  <2>3. CASE ~old
    <3>1. flags = IF m.unknown THEN m.field.flags + 2 ELSE m.field.flags
      BY <1>1, <1>6, <2>3
    <3> HIDE DEF flags
    <3> QED BY <1>1, <2>1, <3>1
  <2> QED BY <2>2, <2>3
<1>9. clients = IF TheirProtocol < 39 THEN None ELSE m.clients
  <2>1. TheirProtocol \in Int
    BY TheirProtocolIsInt
  <2>2. CASE ~old
    <3> DEFINE names == Filled("MonJobDone")
               counted == m.clients # None /\ TheirProtocol >= CLIENT_COUNT_VERSION
    <3>1. Len(names) \in Nat /\ Layout("MonJobDone") = names
      BY FieldsAreDistinct, LayoutIsFilled DEF Named
    <3>2. /\ Len(Written(m)) = IF counted THEN Len(names) + 1 ELSE Len(names)
          /\ counted => Written(m)[Len(names) + 1].says = m.clients
      BY WrittenItems DEF Named
    <3>3. counted <=> m.clients # None
      BY <2>1, <2>2 DEF CLIENT_COUNT_VERSION
    <3> HIDE DEF names, counted
    <3>4. Trailing(Layout("MonJobDone"), Written(m)) = m.clients
      BY <3>1, <3>2, <3>3 DEF Trailing
    <3> QED BY <2>1, <2>2, <3>4 DEF CLIENT_COUNT_VERSION
  <2>3. CASE old
    BY <2>1, <2>3 DEF CLIENT_COUNT_VERSION
  <2> QED BY <2>2, <2>3
<1> DEFINE event == [type |-> "MonJobDone", field |-> e]
<1>10. event.type = "MonJobDone" /\ event.field = e
  OBVIOUS
<1> HIDE DEF e, d, flags, clients, event
<1>11. Understood(m, event, TheirProtocol)
  BY <1>4, <1>5, <1>8, <1>9, <1>10 DEF Understood
<1> QED BY <1>3, <1>11 DEF event

\* Whatever is said is understood.
LEMMA SaidIsUnderstood ==
  ASSUME scheduler \in Versions, NEW m \in Messages
  PROVE  Understood(m, Decode(Sent(m).ty, Sent(m).payload, TheirProtocol), TheirProtocol)
<1>1. m.type \in {"Novel", "Ping", "End", "MonJobDone"} \cup (Named \ {"MonJobDone"})
  BY MessagesAssumption, SMT DEF Named
<1>2. CASE m.type = "MonJobDone"
  BY <1>2, JobDoneIsUnderstood
<1>3. CASE m.type # "MonJobDone"
  <2>1. Decode(Sent(m).ty, Sent(m).payload, TheirProtocol) = Means(m, TheirProtocol)
    BY <1>1, <1>3, NovelIsOther, PingAndEnd, OthersAreUnderstood
  <2> QED BY <1>3, <2>1 DEF Understood
<1> QED BY <1>2, <1>3

-----------------------------------------------------------------------------
(* The inductive invariants. *)

\* The session speaks the version of the scheduler, and what was heard is what was said.
HearInv ==
  /\ scheduler \in Versions
  /\ protocol \in {None, TheirProtocol}
  /\ at \in {"create", "pump"} => protocol = TheirProtocol
  /\ HeardAsSaid

Frame(f, i)    == f.frames[i].frame
FrameEnd(f, i) == f.frames[i].begin + FrameSize(Frame(f, i))

\* Where frame i of a file begins, or where the file ends.
BeginOf(f, i) == IF i <= Len(f.frames) THEN f.frames[i].begin ELSE f.size

\* What the file and the story are made of: records and sequences.
ShapeInv ==
  /\ file = [header |-> file.header, protocol |-> file.protocol,
             frames |-> file.frames, size |-> file.size]
  /\ file.header \in BOOLEAN /\ file.size \in Nat
  /\ file.frames \in Seq(Range(file.frames)) /\ story \in Seq(Range(story))
  /\ \A i \in DOMAIN file.frames :
       /\ file.frames[i] = [begin |-> file.frames[i].begin, frame |-> Frame(file, i)]
       /\ Frame(file, i) = [len |-> Frame(file, i).len, ty |-> Frame(file, i).ty,
                            payload |-> Frame(file, i).payload]
       /\ file.frames[i].begin \in Nat /\ Frame(file, i).len \in Int

\* The file holds the story: its frames lie one behind the other, each of the story's is
\* whole, what follows the story is cut off or damaged, and an End is the last of it.
FileInv ==
  /\ Len(story) <= Len(file.frames) /\ Len(file.frames) <= MaxFrames
  /\ BeginOf(file, 1) = Header
  /\ \A i \in DOMAIN file.frames : file.frames[i].begin <= file.size
  /\ \A i, j \in DOMAIN file.frames : i < j => file.frames[i].begin < file.frames[j].begin
  /\ \A i \in DOMAIN story :
       /\ PayloadLen(Frame(file, i).len) # None
       /\ FrameEnd(file, i) = BeginOf(file, i + 1)
       /\ story[i].heard = Decode(Frame(file, i).ty, Frame(file, i).payload, file.protocol)
       /\ story[i].heard.type = "End" => i = Len(story)
  /\ Len(story) < Len(file.frames) =>
       \/ PayloadLen(Frame(file, Len(story) + 1).len) = None
       \/ FrameEnd(file, Len(story) + 1) > file.size
  /\ at = "pump" => /\ file.header /\ file.protocol = protocol
                    /\ Len(story) = Len(file.frames)
                    /\ \A i \in DOMAIN story : story[i].heard.type # "End"
  /\ ~file.header => file.frames = <<>>

\* Before the replay attaches.
Waiting == at \in {"dial", "create", "pump", "idle", "open", "attach"}

\* The frames of a story that a monitor is told about, and which of them a frame is.
Telling(s)    == {i \in DOMAIN s : s[i].heard.type \notin {"End", "Undecodable"}}
Ordinal(K, i) == Cardinality({j \in K : j <= i})

\* Nothing was sent yet.
Fresh ==
  /\ Waiting
  /\ reader = [pos |-> Header, frames |-> 0, event |-> Undecodable]
  /\ channel = <<>> /\ ~hungUp
  /\ shown = [link |-> "Connecting", session |-> 0, heard |-> 0, told |-> <<>>]
  /\ ui = "running" \/ (ui = "quit" /\ at = "attach")
  /\ at = "attach" => file.header

\* The reader stands before a frame of the story, or behind the last one.
ReaderInv ==
  /\ Waiting => Fresh
  /\ at \in {"read", "deliver", "finished"} => file.header
  /\ reader = [pos |-> reader.pos, frames |-> reader.frames, event |-> reader.event]
  /\ reader.frames \in 0 .. Len(story)
  /\ reader.pos = BeginOf(file, reader.frames + 1)
  /\ at = "deliver" => /\ reader.frames \in Telling(story)
                       /\ reader.event = story[reader.frames].heard
  /\ at \in {"finished", "failed"} \/ (at = "done" /\ ui = "running") =>
       reader.frames = Len(story)
  /\ hungUp => at = "done"

\* How many updates there are of a kind that were sent and not yet applied, and the
\* frames whose events were sent.
SentFrames == IF at = "deliver" THEN reader.frames - 1 ELSE reader.frames
Ahead      == IF shown.link = "Connecting" /\ file.header /\ ~Waiting THEN 1 ELSE 0
Coming     == Ordinal(Telling(story), SentFrames) - Len(shown.told)
Behind     == IF at = "done" /\ shown.link # "Disconnected" THEN 1 ELSE 0

\* What the UI has applied is the beginning of what was sent...
ShownInv ==
  /\ shown = [link |-> shown.link, session |-> shown.session, heard |-> shown.heard,
              told |-> shown.told]
  /\ shown.told \in Seq(Range(shown.told))
  /\ Coming >= 0
  /\ \A k \in DOMAIN shown.told : \E i \in Telling(story) :
       Ordinal(Telling(story), i) = k /\ shown.told[k] = story[i].heard
  /\ IF shown.told = <<>> THEN shown.heard = 0
     ELSE /\ shown.heard \in Telling(story)
          /\ Ordinal(Telling(story), shown.heard) = Len(shown.told)
  /\ shown.link = "Connecting" => shown.told = <<>> /\ shown.session = 0
  /\ shown.link = "Connected" => ~Waiting /\ file.header
  /\ shown.link = "Disconnected" => at = "done" /\ Coming = 0
  /\ shown.link \in {"Connecting", "Connected", "Disconnected"}

\* The kind of the k-th update in the channel.
Kind(k, ahead, coming) ==
  IF k <= ahead THEN "Connected" ELSE IF k <= ahead + coming THEN "Event" ELSE "Disconnected"

\* ... and the channel holds the rest of it, in order.
ChannelInv ==
  /\ channel \in Seq(Range(channel))
  /\ ui \in {"running", "quit", "closed"}
  /\ ui # "running" => channel = <<>>
  /\ ui = "running" =>
       /\ Len(channel) = Ahead + Coming + Behind
       /\ \A k \in DOMAIN channel :
            /\ channel[k].kind = Kind(k, Ahead, Coming)
            /\ Kind(k, Ahead, Coming) = "Event" =>
                 /\ channel[k].n \in Telling(story)
                 /\ Ordinal(Telling(story), channel[k].n) = Len(shown.told) + k - Ahead
                 /\ channel[k].event = story[channel[k].n].heard
  /\ ui = "closed" => at = "done" /\ ReplayTellsTheSession

-----------------------------------------------------------------------------
(* Sequences of whatever they hold. *)

\* A sequence of anything is a sequence of what is in it.
LEMMA SeqShape ==
  ASSUME NEW S, NEW s \in Seq(S)
  PROVE  /\ s \in Seq(Range(s))
         /\ Len(s) \in Nat /\ DOMAIN s = 1 .. Len(s)
<1>1. Len(s) \in Nat /\ DOMAIN s = 1 .. Len(s)
  OBVIOUS
<1>2. s \in [1 .. Len(s) -> Range(s)]
  BY <1>1 DEF Range
<1> QED BY <1>1, <1>2

\* A sequence that something is appended to.
LEMMA AppendShape ==
  ASSUME NEW s, s \in Seq(Range(s)), NEW e
  PROVE  /\ Append(s, e) \in Seq(Range(Append(s, e)))
         /\ Len(s) \in Nat /\ DOMAIN s = 1 .. Len(s)
         /\ Len(Append(s, e)) = Len(s) + 1
         /\ DOMAIN Append(s, e) = 1 .. Len(s) + 1
         /\ \A i \in 1 .. Len(s) : Append(s, e)[i] = s[i]
         /\ Append(s, e)[Len(s) + 1] = e
<1> DEFINE R == Range(s)
           S == R \cup {e}
<1> HIDE DEF R
<1>1. s \in Seq(S)
  BY DEF R
<1> HIDE DEF S
<1>2. e \in S
  BY DEF S
<1> DEFINE t == Append(s, e)
<1>3. t \in Seq(S)
  BY <1>1, <1>2
<1>4. /\ Len(s) \in Nat /\ DOMAIN s = 1 .. Len(s) /\ Len(t) = Len(s) + 1
      /\ \A i \in 1 .. Len(s) : t[i] = s[i]
      /\ t[Len(s) + 1] = e
  BY <1>1, <1>2
<1> HIDE DEF t
<1>5. t \in Seq(Range(t)) /\ DOMAIN t = 1 .. Len(t)
  BY <1>3, SeqShape
<1> QED BY <1>4, <1>5 DEF t

\* A sequence without its first element.
LEMMA TailShape ==
  ASSUME NEW s, s \in Seq(Range(s)), s # <<>>
  PROVE  /\ Tail(s) \in Seq(Range(Tail(s)))
         /\ Len(s) \in Nat \ {0} /\ DOMAIN s = 1 .. Len(s)
         /\ Len(Tail(s)) = Len(s) - 1
         /\ DOMAIN Tail(s) = 1 .. Len(s) - 1
         /\ \A i \in 1 .. Len(s) - 1 : Tail(s)[i] = s[i + 1]
         /\ Head(s) = s[1]
<1> DEFINE R == Range(s)
<1> HIDE DEF R
<1>1. s \in Seq(R)
  BY DEF R
<1> DEFINE t == Tail(s)
<1>2. t \in Seq(R)
  BY <1>1
<1>3. /\ Len(s) \in Nat \ {0} /\ DOMAIN s = 1 .. Len(s) /\ Len(t) = Len(s) - 1
      /\ \A i \in 1 .. Len(s) - 1 : t[i] = s[i + 1]
      /\ Head(s) = s[1]
  BY <1>1
<1> HIDE DEF t
<1>4. t \in Seq(Range(t)) /\ DOMAIN t = 1 .. Len(t)
  BY <1>2, SeqShape
<1> QED BY <1>3, <1>4 DEF t

\* The first elements of a sequence.
LEMMA FrontShape ==
  ASSUME NEW s, s \in Seq(Range(s)), NEW n \in 0 .. Len(s)
  PROVE  /\ SubSeq(s, 1, n) \in Seq(Range(SubSeq(s, 1, n)))
         /\ Len(SubSeq(s, 1, n)) = n
         /\ DOMAIN SubSeq(s, 1, n) = 1 .. n
         /\ \A i \in 1 .. n : SubSeq(s, 1, n)[i] = s[i]
<1> DEFINE R == Range(s)
<1> HIDE DEF R
<1>1. s \in Seq(R)
  BY DEF R
<1> DEFINE t == SubSeq(s, 1, n)
<1>2. t \in Seq(R)
  BY <1>1
<1>3. Len(t) = n /\ \A i \in 1 .. n : t[i] = s[i]
  BY <1>1
<1> HIDE DEF t
<1>4. t \in Seq(Range(t)) /\ DOMAIN t = 1 .. Len(t)
  BY <1>2, SeqShape
<1> QED BY <1>3, <1>4 DEF t

\* The empty sequence.
LEMMA EmptyShape == <<>> \in Seq(Range(<<>>)) /\ Len(<<>>) = 0 /\ DOMAIN <<>> = {}
BY DEF Range

-----------------------------------------------------------------------------
(* What is heard is what was said. *)

\* At first nothing was heard.
LEMMA HearInvInit == Init => HearInv
BY DEF Init, CaptureInit, HearInv, HeardAsSaid

\* The session goes on, or ends, with what it has.
LEMMA HearInvKept ==
  ASSUME HearInv, UNCHANGED <<scheduler, protocol, story>>,
         at' \in {"create", "pump"} => at' = at,
         at' = "idle" => at \in {"pump", "idle"}
  PROVE  HearInv'
BY DEF HearInv, HeardAsSaid, TheirProtocol

\* No step of the recorder or the replay puts a frame into the story that was not
\* heard as what was said: Hear does it in the version that the handshake settled.
LEMMA HearInvStep ==
  ASSUME HearInv, story \in Seq(Range(story)), [Next]_vars
  PROVE  HearInv'
<1>1. CASE Shake
  <2>1. PICK echo \in {TheirProtocol, 0} :
          LET agreed == AcceptPeer(PROTOCOL_VERSION, Le(scheduler))
              settled == IF agreed = None THEN None ELSE Confirm(agreed, Le(echo))
          IN protocol' = settled /\ at' = IF settled = None THEN "idle" ELSE "create"
    BY <1>1 DEF Shake
  <2> DEFINE agreed == AcceptPeer(PROTOCOL_VERSION, Le(scheduler))
  <2>2. protocol' \in {None, TheirProtocol}
    <3>1. scheduler \in Versions
      BY DEF HearInv
    <3>2. Confirm(agreed, Le(echo)) \in {None, TheirProtocol}
      BY <3>1, SettledIsTheirs
    <3> HIDE DEF agreed
    <3> QED BY <2>1, <3>2 DEF agreed
  <2>3. at' = IF protocol' = None THEN "idle" ELSE "create"
    BY <2>1
  <2>4. scheduler' = scheduler
    BY <1>1 DEF Shake
  <2> QED BY <2>2, <2>3, <2>4 DEF HearInv, HeardAsSaid, TheirProtocol
<1>2. CASE Create
  BY <1>2 DEF Create, HearInv, HeardAsSaid, TheirProtocol
<1>3. ASSUME NEW m \in Messages, Hear(m)
      PROVE  HearInv'
  <2> DEFINE event == Decode(Sent(m).ty, Sent(m).payload, TheirProtocol)
             entry == [said |-> m, heard |-> event]
  <2>1. /\ at = "pump" /\ protocol = TheirProtocol /\ scheduler \in Versions
        /\ UNCHANGED <<scheduler, protocol>> /\ at' \in {"idle", "pump"}
    BY <1>3 DEF Hear, HearInv
  <2>2. story' = Append(story, entry)
    BY <1>3, <2>1 DEF Hear
  <2>3. Understood(m, event, TheirProtocol)
    BY <2>1, SaidIsUnderstood
  <2>4. entry.said = m /\ entry.heard = event
    OBVIOUS
  <2> HIDE DEF event, entry
  <2>5. \A i \in DOMAIN story : Understood(story[i].said, story[i].heard, TheirProtocol)
    BY <2>1, TheirProtocolIsInt, NoneAssumption DEF HearInv, HeardAsSaid
  <2>6. \A i \in DOMAIN story' : Understood(story'[i].said, story'[i].heard, TheirProtocol)
    BY <2>2, <2>3, <2>4, <2>5, AppendShape
  <2>7. TheirProtocol' = TheirProtocol
    BY <2>1 DEF TheirProtocol
  <2> QED BY <2>1, <2>6, <2>7 DEF HearInv, HeardAsSaid
<1>4. ASSUME NEW m \in Messages, NEW kept \in Cuts, BreakOff(m, kept)
      PROVE  HearInv'
  BY <1>4, HearInvKept DEF BreakOff
<1>5. CASE Lost
  BY <1>5, HearInvKept DEF Lost
<1>6. CASE Redial
  BY <1>6 DEF Redial, HearInv, HeardAsSaid
<1>7. CASE Leave
  BY <1>7, HearInvKept DEF Leave
<1>8. CASE Damage
  BY <1>8 DEF Damage, HearInv, HeardAsSaid, TheirProtocol
<1>9. CASE Task
  <2>1. UNCHANGED <<scheduler, protocol, story>>
    BY <1>9 DEF Task, Open, Attach, ReadFrame, EndOfFile, Deliver, Close, HangUp, record,
                captureVars
  <2>2. at' \notin {"create", "pump", "idle"}
    BY <1>9 DEF Task, Open, Attach, ReadFrame, EndOfFile, Deliver, Close, HangUp, captureVars
  <2> QED BY <2>1, <2>2, HearInvKept
<1>10. CASE Apply \/ Closed \/ Quit \/ Stopped \/ UNCHANGED vars
  BY <1>10, HearInvKept DEF Apply, Closed, Quit, Stopped, vars, captureVars
<1> QED
  BY <1>1, <1>2, <1>3, <1>4, <1>5, <1>6, <1>7, <1>8, <1>9, <1>10 DEF Next, Recording

-----------------------------------------------------------------------------
(* The file that a recording leaves. *)

\* What payload_len makes of a length it takes (conn.rs).
LEMMA LengthThatFits ==
  ASSUME NEW len, PayloadLen(len) # None
  PROVE  len \in Nat /\ len >= 4 /\ PayloadLen(len) = len - 4
<1>1. MAX_MSG_SIZE \in Int
  BY DEF MAX_MSG_SIZE
<1> QED BY <1>1 DEF PayloadLen

\* A frame has a length, a type and a payload.
LEMMA SentShape ==
  ASSUME NEW m
  PROVE  Sent(m) = [len |-> Sent(m).len, ty |-> Sent(m).ty, payload |-> Sent(m).payload]
BY DEF Sent, EncodeFrame

\* The file with one frame more, or with what of it reached the disk.
LEMMA RecordedFile ==
  ASSUME ShapeInv, NEW f, NEW missing \in Nat,
         f = [len |-> f.len, ty |-> f.ty, payload |-> f.payload],
         f.len \in Nat, missing <= FrameSize(f), file' = Recorded(f, missing)
  PROVE  LET n == Len(file.frames)
         IN  /\ n \in Nat /\ DOMAIN file.frames = 1 .. n
             /\ file' = [header |-> file'.header, protocol |-> file'.protocol,
                         frames |-> file'.frames, size |-> file'.size]
             /\ file'.header = file.header /\ file'.protocol = file.protocol
             /\ file'.size \in Nat /\ file'.size = file.size + FrameSize(f) - missing
             /\ file'.frames \in Seq(Range(file'.frames))
             /\ Len(file'.frames) = n + 1 /\ DOMAIN file'.frames = 1 .. n + 1
             /\ \A i \in 1 .. n : file'.frames[i] = file.frames[i]
             /\ file'.frames[n + 1] = [begin |-> file.size, frame |-> f]
<1> DEFINE e == [begin |-> file.size, frame |-> f]
           more == Append(file.frames, e)
           size == file.size + FrameSize(f) - missing
<1>1. /\ file = [header |-> file.header, protocol |-> file.protocol,
                 frames |-> file.frames, size |-> file.size]
      /\ file.size \in Nat /\ file.frames \in Seq(Range(file.frames))
  BY DEF ShapeInv
<1>2. size \in Nat
  BY <1>1 DEF FrameSize, FrameHeader
<1> HIDE DEF e, more, size
<1>3. file' = [header |-> file.header, protocol |-> file.protocol, frames |-> more,
               size |-> size]
  BY <1>1 DEF Recorded, e, more, size
<1>4. /\ file'.header = file.header /\ file'.protocol = file.protocol
      /\ file'.frames = more /\ file'.size = size
  BY <1>3
<1>5. /\ more \in Seq(Range(more))
      /\ Len(file.frames) \in Nat /\ DOMAIN file.frames = 1 .. Len(file.frames)
      /\ Len(more) = Len(file.frames) + 1
      /\ DOMAIN more = 1 .. Len(file.frames) + 1
      /\ \A i \in 1 .. Len(file.frames) : more[i] = file.frames[i]
      /\ more[Len(file.frames) + 1] = e
  BY <1>1, AppendShape DEF more
<1> QED BY <1>2, <1>3, <1>4, <1>5 DEF e, size

\* At first there is no file.
LEMMA ShapeInit == Init => ShapeInv /\ FileInv
<1> SUFFICES ASSUME Init PROVE ShapeInv /\ FileInv
  OBVIOUS
<1>1. /\ file = [header |-> FALSE, protocol |-> 0, frames |-> <<>>, size |-> Header]
      /\ story = <<>> /\ at = "dial"
  BY DEF Init, CaptureInit, NoFile
<1>2. ShapeInv
  BY <1>1, EmptyShape DEF ShapeInv, Header
<1>3. MaxFrames \in Nat
  BY CaptureAssumption, SMT
<1>4. FileInv
  BY <1>1, <1>3, EmptyShape DEF FileInv, BeginOf
<1> QED BY <1>2, <1>4

\* An empty file is a file.
LEMMA CreateFile ==
  ASSUME Create
  PROVE  ShapeInv' /\ FileInv'
<1> DEFINE header   == file'.header
           proto == file'.protocol
<1>1. /\ file' = [header |-> header, protocol |-> proto, frames |-> <<>>, size |-> Header]
      /\ header \in BOOLEAN
      /\ story' = <<>>
      /\ at' = "pump" => header /\ proto = protocol'
  <2>1. CASE at' = "pump" /\ file' = [NoFile EXCEPT !.header = TRUE, !.protocol = protocol]
    <3>1. file' = [header |-> TRUE, protocol |-> protocol, frames |-> <<>>, size |-> Header]
      BY <2>1 DEF NoFile
    <3> QED BY <2>1, <3>1 DEF Create
  <2>2. CASE at' = "open" /\ file' = NoFile
    BY <2>2 DEF Create, NoFile
  <2> QED BY <2>1, <2>2 DEF Create
<1> HIDE DEF header, proto
<1>2. file'.header = header /\ file'.protocol = proto /\ file'.frames = <<>> /\ file'.size = Header
  BY <1>1
<1>3. ShapeInv'
  BY <1>1, <1>2, EmptyShape DEF ShapeInv, Header
<1>4. MaxFrames \in Nat
  BY CaptureAssumption, SMT
<1>5. FileInv'
  BY <1>1, <1>2, <1>4, EmptyShape DEF FileInv, BeginOf
<1> QED BY <1>3, <1>5

\* What stays as it is.
LEMMA FileKept ==
  ASSUME ShapeInv, FileInv, UNCHANGED <<file, story>>,
         at' = "pump" => at = "pump" /\ protocol' = protocol
  PROVE  ShapeInv' /\ FileInv'
<1>1. ShapeInv'
  BY DEF ShapeInv, Frame
<1>2. FileInv'
  BY DEF FileInv, BeginOf, FrameEnd, Frame
<1> QED BY <1>1, <1>2

\* In a session every frame ends where the next begins, the last at the end.
LEMMA EveryFrameEnds ==
  ASSUME ShapeInv, FileInv, at = "pump", NEW i \in DOMAIN file.frames
  PROVE  /\ file.frames[i].begin < file.size
         /\ PayloadLen(Frame(file, i).len) # None
         /\ FrameEnd(file, i) = BeginOf(file, i + 1)
<1> DEFINE n == Len(file.frames)
<1>1. /\ n \in Nat /\ DOMAIN file.frames = 1 .. n /\ DOMAIN story = 1 .. n
      /\ \A k \in 1 .. n : file.frames[k].begin \in Nat
      /\ file.size \in Nat
  BY SeqShape DEF ShapeInv, FileInv
<1>2. \A k \in 1 .. n : PayloadLen(Frame(file, k).len) # None /\ FrameEnd(file, k) = BeginOf(file, k + 1)
  BY <1>1 DEF FileInv
<1>3. file.frames[n].begin < file.size
  <2>1. n \in 1 .. n
    BY <1>1
  <2>2. Frame(file, n).len \in Nat
    BY <1>2, <2>1, LengthThatFits
  <2>3. FrameEnd(file, n) = file.size
    <3>1. BeginOf(file, n + 1) = file.size
      BY <1>1 DEF BeginOf
    <3> QED BY <1>2, <2>1, <3>1
  <2> QED BY <1>1, <2>1, <2>2, <2>3 DEF FrameEnd, FrameSize, FrameHeader
<1>4. i < n => file.frames[i].begin < file.frames[n].begin
  <2>1. i \in 1 .. n /\ n \in 1 .. n
    BY <1>1
  <2>2. \A k, l \in 1 .. n : k < l => file.frames[k].begin < file.frames[l].begin
    BY <1>1 DEF FileInv
  <2> HIDE DEF n
  <2> QED BY ONLY <2>1, <2>2
<1>5. file.frames[i].begin < file.size
  <2> DEFINE b == file.frames[i].begin
             e == file.frames[n].begin
  <2>1. /\ b \in Nat /\ e \in Nat /\ e < file.size /\ file.size \in Nat /\ i \in 1 .. n /\ n \in Nat
        /\ (i = n => b = e) /\ (i < n => b < e)
    BY <1>1, <1>3, <1>4
  <2> HIDE DEF n, b, e
  <2>2. b < file.size
    BY ONLY <2>1
  <2> QED BY <2>2 DEF b
<1> QED BY <1>1, <1>2, <1>5

\* A frame that is read is recorded whole, where the last one ended.
LEMMA HearFile ==
  ASSUME ShapeInv, FileInv, NEW m \in Messages, Hear(m)
  PROVE  ShapeInv' /\ FileInv'
<1> DEFINE n == Len(file.frames)
           f == Sent(m)
           event == Decode(f.ty, f.payload, protocol)
           entry == [said |-> m, heard |-> event]
<1>1. /\ f = [len |-> f.len, ty |-> f.ty, payload |-> f.payload]
      /\ f.len \in Nat /\ PayloadLen(f.len) # None
  <2>1. PayloadLen(Sent(m).len) # None
    BY DEF Hear, Fits
  <2> QED BY <2>1, SentShape, LengthThatFits
<1>2. /\ at = "pump" /\ n < MaxFrames /\ file' = Recorded(f, 0) /\ protocol' = protocol
      /\ story' = Append(story, entry) /\ at' = IF event.type = "End" THEN "idle" ELSE "pump"
  BY DEF Hear
<1>3. entry.heard = event
  OBVIOUS
<1> HIDE DEF f, event, entry
<1>4. 0 \in Nat /\ 0 <= FrameSize(f)
  BY <1>1 DEF FrameSize, FrameHeader
<1>5. /\ n \in Nat /\ DOMAIN file.frames = 1 .. n
      /\ file' = [header |-> file'.header, protocol |-> file'.protocol,
                  frames |-> file'.frames, size |-> file'.size]
      /\ file'.header = file.header /\ file'.protocol = file.protocol
      /\ file'.size \in Nat /\ file'.size = file.size + FrameSize(f) - 0
      /\ file'.frames \in Seq(Range(file'.frames))
      /\ Len(file'.frames) = n + 1 /\ DOMAIN file'.frames = 1 .. n + 1
      /\ \A i \in 1 .. n : file'.frames[i] = file.frames[i]
      /\ file'.frames[n + 1] = [begin |-> file.size, frame |-> f]
  BY <1>1, <1>2, <1>4, RecordedFile
<1>6. /\ file.header /\ file.protocol = protocol /\ Len(story) = n
      /\ \A i \in DOMAIN story : story[i].heard.type # "End"
      /\ story \in Seq(Range(story)) /\ file.size \in Nat
  BY <1>2 DEF FileInv, ShapeInv
<1>7. /\ story' \in Seq(Range(story')) /\ DOMAIN story = 1 .. n
      /\ Len(story') = n + 1 /\ DOMAIN story' = 1 .. n + 1
      /\ \A i \in 1 .. n : story'[i] = story[i]
      /\ story'[n + 1] = entry
  BY <1>2, <1>6, AppendShape
<1>8. /\ file'.frames[n + 1].begin = file.size /\ file'.frames[n + 1].frame = f
  BY <1>5
<1>9. \A i \in 1 .. n :
        /\ file.frames[i] = [begin |-> file.frames[i].begin, frame |-> Frame(file, i)]
        /\ Frame(file, i) = [len |-> Frame(file, i).len, ty |-> Frame(file, i).ty,
                             payload |-> Frame(file, i).payload]
        /\ file.frames[i].begin \in Nat /\ Frame(file, i).len \in Int
  BY <1>5 DEF ShapeInv
<1>10. /\ \A i \in 1 .. n : Frame(file', i) = Frame(file, i) /\ FrameEnd(file', i) = FrameEnd(file, i)
       /\ Frame(file', n + 1) = f /\ FrameEnd(file', n + 1) = file.size + FrameSize(f)
  <2>1. \A i \in 1 .. n : Frame(file', i) = Frame(file, i) /\ FrameEnd(file', i) = FrameEnd(file, i)
    BY <1>5 DEF Frame, FrameEnd
  <2>2. Frame(file', n + 1) = f
    BY <1>8 DEF Frame
  <2> QED BY <1>8, <2>1, <2>2 DEF FrameEnd
<1>11. ShapeInv'
  <2>1. \A i \in 1 .. n + 1 :
          /\ file'.frames[i] = [begin |-> file'.frames[i].begin, frame |-> Frame(file', i)]
          /\ Frame(file', i) = [len |-> Frame(file', i).len, ty |-> Frame(file', i).ty,
                          payload |-> Frame(file', i).payload]
          /\ file'.frames[i].begin \in Nat /\ Frame(file', i).len \in Int
    <3>1. ASSUME NEW i \in 1 .. n
          PROVE  /\ file'.frames[i] = [begin |-> file'.frames[i].begin, frame |-> Frame(file', i)]
                 /\ Frame(file', i) = [len |-> Frame(file', i).len, ty |-> Frame(file', i).ty,
                                 payload |-> Frame(file', i).payload]
                 /\ file'.frames[i].begin \in Nat /\ Frame(file', i).len \in Int
      BY <1>5, <1>9, <1>10
    <3>2. /\ file'.frames[n + 1] = [begin |-> file'.frames[n + 1].begin, frame |-> Frame(file', n + 1)]
          /\ Frame(file', n + 1) = [len |-> Frame(file', n + 1).len, ty |-> Frame(file', n + 1).ty,
                              payload |-> Frame(file', n + 1).payload]
          /\ file'.frames[n + 1].begin \in Nat /\ Frame(file', n + 1).len \in Int
      BY <1>1, <1>5, <1>6, <1>8, <1>10
    <3> QED BY <1>5, <3>1, <3>2
  <2>2. file'.header \in BOOLEAN
    BY <1>5, <1>6
  <2> QED BY <1>5, <1>7, <2>1, <2>2 DEF ShapeInv
<1>12. \A i \in 1 .. n :
         /\ file.frames[i].begin < file.size
         /\ PayloadLen(Frame(file, i).len) # None
         /\ FrameEnd(file, i) = BeginOf(file, i + 1)
  BY <1>2, <1>5, EveryFrameEnds
<1>13. /\ \A i \in 1 .. n + 1 : BeginOf(file', i) = BeginOf(file, i)
       /\ BeginOf(file', n + 2) = file'.size
  <2>1. \A i \in 1 .. n : BeginOf(file', i) = BeginOf(file, i)
    BY <1>5 DEF BeginOf
  <2>2. BeginOf(file, n + 1) = file.size /\ BeginOf(file', n + 1) = file.size
    BY <1>5, <1>8 DEF BeginOf
  <2>3. BeginOf(file', n + 2) = file'.size
    BY <1>5 DEF BeginOf
  <2> QED BY <1>5, <2>1, <2>2, <2>3
<1>14. FileInv'
  <2>1. /\ Len(story') <= Len(file'.frames) /\ Len(file'.frames) <= MaxFrames
        /\ ~(Len(story') < Len(file'.frames))
    <3>1. MaxFrames \in Nat
      BY CaptureAssumption, SMT
    <3> QED BY <1>2, <1>5, <1>7, <3>1
  <2>2. BeginOf(file', 1) = Header
    <3>1. BeginOf(file, 1) = Header
      BY DEF FileInv
    <3> QED BY <1>5, <1>13, <3>1
  <2>3. ASSUME NEW i \in 1 .. n + 1, NEW j \in 1 .. n + 1, i < j
        PROVE  file'.frames[i].begin < file'.frames[j].begin
    <3>1. i \in 1 .. n
      BY <1>5, <2>3
    <3>2. CASE j = n + 1
      BY <1>5, <1>8, <1>12, <3>1, <3>2
    <3>3. CASE j # n + 1
      <4>1. j \in 1 .. n
        BY <1>5, <3>3
      <4>2. file.frames[i].begin < file.frames[j].begin
        BY <1>5, <2>3, <3>1, <4>1 DEF FileInv
      <4> QED BY <1>5, <3>1, <4>1, <4>2
    <3> QED BY <3>2, <3>3
  <2>4. ASSUME NEW i \in 1 .. n + 1
        PROVE  /\ PayloadLen(Frame(file', i).len) # None
               /\ FrameEnd(file', i) = BeginOf(file', i + 1)
               /\ story'[i].heard = Decode(Frame(file', i).ty, Frame(file', i).payload, file'.protocol)
               /\ story'[i].heard.type = "End" => i = n + 1
    <3>1. CASE i \in 1 .. n
      <4>1. PayloadLen(Frame(file', i).len) # None
        BY <1>10, <1>12, <3>1
      <4>2. FrameEnd(file', i) = BeginOf(file', i + 1)
        <5>1. i + 1 \in 1 .. n + 1
          BY <1>5, <3>1
        <5> QED BY <1>10, <1>12, <1>13, <3>1, <5>1
      <4>3. story'[i].heard = Decode(Frame(file', i).ty, Frame(file', i).payload, file'.protocol)
        BY <1>5, <1>7, <1>10, <3>1 DEF FileInv
      <4>4. story'[i].heard.type # "End"
        BY <1>6, <1>7, <3>1
      <4> QED BY <4>1, <4>2, <4>3, <4>4
    <3>2. CASE i = n + 1
      <4>1. story'[i].heard = Decode(f.ty, f.payload, file'.protocol)
        BY <1>3, <1>5, <1>6, <1>7, <3>2 DEF event
      <4>2. FrameEnd(file', i) = BeginOf(file', i + 1)
        <5>1. i + 1 = n + 2
          BY <1>5, <3>2
        <5>2. file.size + FrameSize(f) = file.size + FrameSize(f) - 0
          BY <1>1, <1>6 DEF FrameSize, FrameHeader
        <5> QED BY <1>5, <1>10, <1>13, <3>2, <5>1, <5>2
      <4> QED BY <1>1, <1>10, <3>2, <4>1, <4>2
    <3> QED BY <1>5, <3>1, <3>2
  <2>5. at' = "pump" => /\ file'.header /\ file'.protocol = protocol'
                        /\ Len(story') = Len(file'.frames)
                        /\ \A i \in DOMAIN story' : story'[i].heard.type # "End"
    <3>1. ASSUME at' = "pump", NEW i \in 1 .. n + 1
          PROVE  story'[i].heard.type # "End"
      <4>1. event.type # "End"
        BY <1>2, <3>1
      <4>2. CASE i = n + 1
        BY <1>3, <1>7, <4>1, <4>2
      <4>3. CASE i # n + 1
        <5>1. i \in 1 .. n
          BY <1>5, <4>3
        <5> QED BY <1>6, <1>7, <5>1
      <4> QED BY <4>2, <4>3
    <3> QED BY <1>2, <1>5, <1>6, <1>7, <3>1
  <2>6. file'.header
    BY <1>5, <1>6
  <2>7. ASSUME NEW i \in 1 .. n + 1
        PROVE  file'.frames[i].begin <= file'.size
    <3>1. file.size <= file'.size
      BY <1>1, <1>5, <1>6 DEF FrameSize, FrameHeader
    <3>2. CASE i = n + 1
      BY <1>8, <3>1, <3>2
    <3>3. CASE i # n + 1
      <4>1. i \in 1 .. n
        BY <1>5, <3>3
      <4>2. file'.frames[i].begin = file.frames[i].begin
        BY <1>5, <4>1
      <4>3. file.frames[i].begin < file.size /\ file.frames[i].begin \in Nat
        BY <1>9, <1>12, <4>1
      <4> QED BY <1>5, <1>6, <3>1, <4>2, <4>3
    <3> QED BY <3>2, <3>3
  <2> QED BY <1>5, <1>7, <2>1, <2>2, <2>3, <2>4, <2>5, <2>6, <2>7 DEF FileInv
<1> QED BY <1>11, <1>14

\* A frame that is broken off reaches beyond the end of the file.
LEMMA BreakOffFile ==
  ASSUME ShapeInv, FileInv, NEW m \in Messages, NEW kept \in Cuts, BreakOff(m, kept)
  PROVE  ShapeInv' /\ FileInv'
<1> DEFINE n == Len(file.frames)
           f == Sent(m)
           missing == FrameSize(f) - kept
<1>1. /\ f = [len |-> f.len, ty |-> f.ty, payload |-> f.payload]
      /\ f.len \in Nat /\ PayloadLen(f.len) # None
  <2>1. PayloadLen(Sent(m).len) # None
    BY DEF BreakOff, Fits
  <2> QED BY <2>1, SentShape, LengthThatFits
<1>2. /\ at = "pump" /\ n < MaxFrames /\ file' = Recorded(f, missing) /\ story' = story
      /\ at' # "pump" /\ kept < FrameSize(f)
  BY DEF BreakOff
<1>3. kept \in Nat /\ kept > 0
  BY CaptureAssumption, SMT
<1> HIDE DEF f
<1>4. FrameSize(f) \in Nat
  BY <1>1 DEF FrameSize, FrameHeader
<1>5. missing \in Nat /\ missing <= FrameSize(f) /\ FrameSize(f) - missing = kept
  BY <1>2, <1>3, <1>4
<1> HIDE DEF missing
<1>6. /\ n \in Nat /\ DOMAIN file.frames = 1 .. n
      /\ file' = [header |-> file'.header, protocol |-> file'.protocol,
                  frames |-> file'.frames, size |-> file'.size]
      /\ file'.header = file.header /\ file'.protocol = file.protocol
      /\ file'.size \in Nat /\ file'.size = file.size + FrameSize(f) - missing
      /\ file'.frames \in Seq(Range(file'.frames))
      /\ Len(file'.frames) = n + 1 /\ DOMAIN file'.frames = 1 .. n + 1
      /\ \A i \in 1 .. n : file'.frames[i] = file.frames[i]
      /\ file'.frames[n + 1] = [begin |-> file.size, frame |-> f]
  BY <1>1, <1>2, <1>5, RecordedFile
<1>7. /\ file.header /\ Len(story) = n /\ story \in Seq(Range(story)) /\ file.size \in Nat
      /\ DOMAIN story = 1 .. n
  BY <1>2, SeqShape DEF FileInv, ShapeInv
<1>8. /\ file'.frames[n + 1].begin = file.size /\ file'.frames[n + 1].frame = f
      /\ file'.size = file.size + kept
  BY <1>4, <1>5, <1>6, <1>7
<1>9. \A i \in 1 .. n :
        /\ file.frames[i] = [begin |-> file.frames[i].begin, frame |-> Frame(file, i)]
        /\ Frame(file, i) = [len |-> Frame(file, i).len, ty |-> Frame(file, i).ty,
                             payload |-> Frame(file, i).payload]
        /\ file.frames[i].begin \in Nat /\ Frame(file, i).len \in Int
  BY <1>6 DEF ShapeInv
<1>10. /\ \A i \in 1 .. n : Frame(file', i) = Frame(file, i) /\ FrameEnd(file', i) = FrameEnd(file, i)
       /\ Frame(file', n + 1) = f /\ FrameEnd(file', n + 1) = file.size + FrameSize(f)
  <2>1. \A i \in 1 .. n : Frame(file', i) = Frame(file, i) /\ FrameEnd(file', i) = FrameEnd(file, i)
    BY <1>6 DEF Frame, FrameEnd
  <2>2. Frame(file', n + 1) = f
    BY <1>8 DEF Frame
  <2> QED BY <1>8, <2>1, <2>2 DEF FrameEnd
<1>11. ShapeInv'
  <2>1. \A i \in 1 .. n + 1 :
          /\ file'.frames[i] = [begin |-> file'.frames[i].begin, frame |-> Frame(file', i)]
          /\ Frame(file', i) = [len |-> Frame(file', i).len, ty |-> Frame(file', i).ty,
                                payload |-> Frame(file', i).payload]
          /\ file'.frames[i].begin \in Nat /\ Frame(file', i).len \in Int
    <3>1. ASSUME NEW i \in 1 .. n
          PROVE  /\ file'.frames[i] = [begin |-> file'.frames[i].begin, frame |-> Frame(file', i)]
                 /\ Frame(file', i) = [len |-> Frame(file', i).len, ty |-> Frame(file', i).ty,
                                       payload |-> Frame(file', i).payload]
                 /\ file'.frames[i].begin \in Nat /\ Frame(file', i).len \in Int
      BY <1>6, <1>9, <1>10
    <3>2. /\ file'.frames[n + 1] = [begin |-> file'.frames[n + 1].begin,
                                    frame |-> Frame(file', n + 1)]
          /\ Frame(file', n + 1) = [len |-> Frame(file', n + 1).len, ty |-> Frame(file', n + 1).ty,
                                    payload |-> Frame(file', n + 1).payload]
          /\ file'.frames[n + 1].begin \in Nat /\ Frame(file', n + 1).len \in Int
      BY <1>1, <1>6, <1>7, <1>8, <1>10
    <3> QED BY <1>6, <3>1, <3>2
  <2>2. file'.header \in BOOLEAN /\ story' \in Seq(Range(story'))
    BY <1>2, <1>6, <1>7
  <2> QED BY <1>6, <2>1, <2>2 DEF ShapeInv
<1>12. \A i \in 1 .. n :
         /\ file.frames[i].begin < file.size
         /\ PayloadLen(Frame(file, i).len) # None
         /\ FrameEnd(file, i) = BeginOf(file, i + 1)
  BY <1>2, <1>6, EveryFrameEnds
<1>13. \A i \in 1 .. n + 1 : BeginOf(file', i) = BeginOf(file, i)
  <2>1. \A i \in 1 .. n : BeginOf(file', i) = BeginOf(file, i)
    BY <1>6 DEF BeginOf
  <2>2. BeginOf(file, n + 1) = file.size /\ BeginOf(file', n + 1) = file.size
    BY <1>6, <1>8 DEF BeginOf
  <2> QED BY <1>6, <2>1, <2>2
<1>14. FileInv'
  <2>1. /\ Len(story') <= Len(file'.frames) /\ Len(file'.frames) <= MaxFrames
        /\ Len(story') = n
    <3>1. MaxFrames \in Nat
      BY CaptureAssumption, SMT
    <3> QED BY <1>2, <1>6, <1>7, <3>1
  <2>2. BeginOf(file', 1) = Header
    <3>1. BeginOf(file, 1) = Header
      BY DEF FileInv
    <3> QED BY <1>6, <1>13, <3>1
  <2>3. ASSUME NEW i \in 1 .. n + 1, NEW j \in 1 .. n + 1, i < j
        PROVE  file'.frames[i].begin < file'.frames[j].begin
    <3>1. i \in 1 .. n
      BY <1>6, <2>3
    <3>2. CASE j = n + 1
      BY <1>6, <1>8, <1>12, <3>1, <3>2
    <3>3. CASE j # n + 1
      <4>1. j \in 1 .. n
        BY <1>6, <3>3
      <4>2. file.frames[i].begin < file.frames[j].begin
        BY <1>6, <2>3, <3>1, <4>1 DEF FileInv
      <4> QED BY <1>6, <3>1, <4>1, <4>2
    <3> QED BY <3>2, <3>3
  <2>4. ASSUME NEW i \in 1 .. n
        PROVE  /\ PayloadLen(Frame(file', i).len) # None
               /\ FrameEnd(file', i) = BeginOf(file', i + 1)
               /\ story'[i].heard = Decode(Frame(file', i).ty, Frame(file', i).payload,
                                           file'.protocol)
               /\ story'[i].heard.type = "End" => i = n
    <3>1. i + 1 \in 1 .. n + 1
      BY <1>6
    <3> QED BY <1>2, <1>6, <1>7, <1>10, <1>12, <1>13, <3>1 DEF FileInv
  <2>5. FrameEnd(file', n + 1) > file'.size
    BY <1>2, <1>3, <1>4, <1>7, <1>8, <1>10
  <2>6. file'.header /\ DOMAIN story' = 1 .. n
    BY <1>2, <1>6, <1>7
  <2>7. ASSUME NEW i \in 1 .. n + 1
        PROVE  file'.frames[i].begin <= file'.size
    <3>1. file.size <= file'.size
      BY <1>3, <1>7, <1>8
    <3>2. CASE i = n + 1
      BY <1>8, <3>1, <3>2
    <3>3. CASE i # n + 1
      <4>1. i \in 1 .. n
        BY <1>6, <3>3
      <4>2. file'.frames[i].begin = file.frames[i].begin
        BY <1>6, <4>1
      <4>3. file.frames[i].begin < file.size /\ file.frames[i].begin \in Nat
        BY <1>9, <1>12, <4>1
      <4> QED BY <1>6, <1>7, <3>1, <4>2, <4>3
    <3> QED BY <3>2, <3>3
  <2> QED BY <1>2, <1>6, <2>1, <2>2, <2>3, <2>4, <2>5, <2>6, <2>7 DEF FileInv
<1> QED BY <1>11, <1>14

\* A length no frame has ends the story where it stands.
LEMMA DamagedFile ==
  ASSUME ShapeInv, FileInv, Damage
  PROVE  ShapeInv' /\ FileInv'
<1> DEFINE n == Len(file.frames)
<1>1. PICK i \in DOMAIN story, len \in {3, MAX_MSG_SIZE + 1} :
        /\ file' = [file EXCEPT !.frames[i].frame.len = len]
        /\ story' = SubSeq(story, 1, i - 1)
  BY DEF Damage
<1>2. /\ n \in Nat /\ DOMAIN file.frames = 1 .. n
      /\ Len(story) \in 0 .. n /\ DOMAIN story = 1 .. Len(story)
      /\ story \in Seq(Range(story)) /\ file.frames \in Seq(Range(file.frames))
  BY SeqShape DEF ShapeInv, FileInv
<1>3. i \in 1 .. n /\ i - 1 \in 0 .. Len(story) /\ i \in 1 .. Len(story)
  BY <1>2
<1>4. /\ story' \in Seq(Range(story')) /\ Len(story') = i - 1 /\ DOMAIN story' = 1 .. i - 1
      /\ \A k \in 1 .. i - 1 : story'[k] = story[k]
  BY <1>1, <1>2, <1>3, FrontShape
<1>5. len \in Int /\ PayloadLen(len) = None
  <2>1. MAX_MSG_SIZE \in Int
    BY DEF MAX_MSG_SIZE
  <2> QED BY <2>1 DEF PayloadLen
<1> DEFINE entry  == [file.frames[i] EXCEPT !.frame.len = len]
           frames == [file.frames EXCEPT ![i] = entry]
<1>6. /\ entry = [begin |-> entry.begin, frame |-> entry.frame]
      /\ entry.begin = file.frames[i].begin /\ entry.begin \in Nat
      /\ entry.frame.len = len
      /\ entry.frame = [len |-> entry.frame.len, ty |-> entry.frame.ty,
                        payload |-> entry.frame.payload]
  <2> DEFINE old == file.frames[i]
             part == file.frames[i].frame
  <2>1. /\ old = [begin |-> old.begin, frame |-> part] /\ old.begin \in Nat
        /\ part = [len |-> part.len, ty |-> part.ty, payload |-> part.payload]
    BY <1>2, <1>3 DEF ShapeInv, Frame
  <2>2. entry = [old EXCEPT !.frame = [part EXCEPT !.len = len]]
    OBVIOUS
  <2> HIDE DEF old, part, entry
  <2>3. entry = [begin |-> old.begin, frame |-> [part EXCEPT !.len = len]]
    BY <2>1, <2>2
  <2>4. [part EXCEPT !.len = len] = [len |-> len, ty |-> part.ty, payload |-> part.payload]
    BY <2>1
  <2>5. entry = [begin |-> old.begin, frame |-> [len |-> len, ty |-> part.ty, payload |-> part.payload]]
    BY <2>3, <2>4
  <2> QED BY <2>1, <2>5 DEF old
<1> HIDE DEF entry
<1>7. file' = [header |-> file.header, protocol |-> file.protocol, frames |-> frames,
               size |-> file.size]
  <2>1. file' = [file EXCEPT !.frames = frames]
    BY <1>1 DEF entry
  <2> HIDE DEF frames
  <2> QED BY <2>1 DEF ShapeInv
<1>8. /\ frames \in Seq(Range(frames)) /\ Len(frames) = n /\ DOMAIN frames = 1 .. n
      /\ frames[i] = entry /\ \A k \in 1 .. n : k # i => frames[k] = file.frames[k]
  <2> DEFINE S == Range(file.frames) \cup {entry}
  <2>1. file.frames \in Seq(S) /\ entry \in S
    BY <1>2
  <2> HIDE DEF S
  <2>2. frames \in Seq(S) /\ Len(frames) = n
    BY <1>2, <1>3, <2>1
  <2>3. frames[i] = entry /\ \A k \in 1 .. n : k # i => frames[k] = file.frames[k]
    BY <1>2, <1>3
  <2> HIDE DEF frames
  <2> QED BY <2>2, <2>3, SeqShape
<1> HIDE DEF frames
<1>9. /\ file'.header = file.header /\ file'.protocol = file.protocol
      /\ file'.frames = frames /\ file'.size = file.size
  BY <1>7
<1>10. /\ \A k \in 1 .. n : k # i => Frame(file', k) = Frame(file, k)
                                   /\ FrameEnd(file', k) = FrameEnd(file, k)
       /\ Frame(file', i) = entry.frame
       /\ \A k \in Int : k >= 1 => BeginOf(file', k) = BeginOf(file, k)
  <2>1. \A k \in 1 .. n : k # i => Frame(file', k) = Frame(file, k)
                                 /\ FrameEnd(file', k) = FrameEnd(file, k)
    BY <1>8, <1>9 DEF Frame, FrameEnd
  <2>2. Frame(file', i) = entry.frame
    BY <1>8, <1>9 DEF Frame
  <2>3. \A k \in 1 .. n : frames[k].begin = file.frames[k].begin
    BY <1>6, <1>8
  <2>4. ASSUME NEW k \in Int, k >= 1
        PROVE  BeginOf(file', k) = BeginOf(file, k)
    BY <1>2, <1>8, <1>9, <2>3, <2>4 DEF BeginOf
  <2> QED BY <2>1, <2>2, <2>4
<1>11. ShapeInv'
  <2>1. \A k \in 1 .. n :
          /\ file'.frames[k] = [begin |-> file'.frames[k].begin, frame |-> Frame(file', k)]
          /\ Frame(file', k) = [len |-> Frame(file', k).len, ty |-> Frame(file', k).ty,
                                payload |-> Frame(file', k).payload]
          /\ file'.frames[k].begin \in Nat /\ Frame(file', k).len \in Int
    <3>1. ASSUME NEW k \in 1 .. n, k # i
          PROVE  /\ file'.frames[k] = [begin |-> file'.frames[k].begin, frame |-> Frame(file', k)]
                 /\ Frame(file', k) = [len |-> Frame(file', k).len, ty |-> Frame(file', k).ty,
                                       payload |-> Frame(file', k).payload]
                 /\ file'.frames[k].begin \in Nat /\ Frame(file', k).len \in Int
      <4>1. file'.frames[k] = file.frames[k] /\ Frame(file', k) = Frame(file, k)
        BY <1>8, <1>9, <1>10, <3>1
      <4> QED BY <1>2, <4>1 DEF ShapeInv
    <3>2. /\ file'.frames[i] = [begin |-> file'.frames[i].begin, frame |-> Frame(file', i)]
          /\ Frame(file', i) = [len |-> Frame(file', i).len, ty |-> Frame(file', i).ty,
                                payload |-> Frame(file', i).payload]
          /\ file'.frames[i].begin \in Nat /\ Frame(file', i).len \in Int
      <4>1. file'.frames[i] = entry /\ Frame(file', i) = entry.frame
        BY <1>8, <1>9, <1>10
      <4> QED BY <1>5, <1>6, <4>1
    <3> QED BY <3>1, <3>2
  <2>2. /\ file' = [header |-> file'.header, protocol |-> file'.protocol,
                    frames |-> file'.frames, size |-> file'.size]
        /\ file'.header \in BOOLEAN /\ file'.size \in Nat
    BY <1>7, <1>9 DEF ShapeInv
  <2> QED BY <1>4, <1>8, <1>9, <2>1, <2>2 DEF ShapeInv
<1>12. FileInv'
  <2>1. /\ Len(story') <= Len(file'.frames) /\ Len(file'.frames) <= MaxFrames
        /\ Len(story') + 1 = i
    BY <1>2, <1>3, <1>4, <1>8, <1>9 DEF FileInv
  <2>2. BeginOf(file', 1) = Header
    BY <1>10 DEF FileInv
  <2>3. ASSUME NEW j \in 1 .. n, NEW k \in 1 .. n, j < k
        PROVE  file'.frames[j].begin < file'.frames[k].begin
    <3>1. file.frames[j].begin < file.frames[k].begin
      BY <1>2, <2>3 DEF FileInv
    <3>2. \A h \in 1 .. n : file'.frames[h].begin = file.frames[h].begin
      BY <1>6, <1>8, <1>9
    <3> QED BY <3>1, <3>2
  <2>4. ASSUME NEW k \in 1 .. i - 1
        PROVE  /\ PayloadLen(Frame(file', k).len) # None
               /\ FrameEnd(file', k) = BeginOf(file', k + 1)
               /\ story'[k].heard = Decode(Frame(file', k).ty, Frame(file', k).payload,
                                           file'.protocol)
               /\ story'[k].heard.type = "End" => k = i - 1
    <3>1. k \in 1 .. n /\ k # i /\ k \in DOMAIN story /\ k # Len(story)
          /\ k + 1 \in Int /\ k + 1 >= 1
      <4> DEFINE told == Len(story)
      <4>1. n \in Nat /\ told \in 0 .. n /\ i \in 1 .. told /\ DOMAIN story = 1 .. told
        BY <1>2, <1>3
      <4> HIDE DEF n, told
      <4>2. k \in 1 .. n /\ k # i /\ k \in 1 .. told /\ k # told /\ k + 1 \in Int /\ k + 1 >= 1
        BY <4>1
      <4> QED BY <4>1, <4>2 DEF told
    <3>2. /\ Frame(file', k) = Frame(file, k) /\ FrameEnd(file', k) = FrameEnd(file, k)
          /\ BeginOf(file', k + 1) = BeginOf(file, k + 1)
      BY <1>10, <3>1
    <3> QED BY <1>4, <1>9, <3>1, <3>2 DEF FileInv
  <2>5. PayloadLen(Frame(file', i).len) = None
    BY <1>5, <1>6, <1>10
  <2>6. at' # "pump"
    BY DEF Damage
  <2>7. file'.header
    <3>1. file.frames # <<>>
      BY <1>2, <1>3, EmptyShape
    <3> QED BY <1>9, <3>1 DEF FileInv
  <2>8. ASSUME NEW k \in 1 .. n
        PROVE  file'.frames[k].begin <= file'.size
    <3>1. file.frames[k].begin <= file.size
      BY <1>2 DEF FileInv
    <3>2. file'.frames[k].begin = file.frames[k].begin
      BY <1>6, <1>8, <1>9
    <3> QED BY <1>9, <3>1, <3>2
  <2> QED BY <1>4, <1>8, <1>9, <2>1, <2>2, <2>3, <2>4, <2>5, <2>6, <2>7, <2>8 DEF FileInv
<1> QED BY <1>11, <1>12

\* Every step of the recorder leaves a file as it should be.
LEMMA FileStep ==
  ASSUME ShapeInv, FileInv, [Next]_vars
  PROVE  ShapeInv' /\ FileInv'
<1>1. CASE Shake
  BY <1>1, FileKept DEF Shake
<1>2. CASE Create
  BY <1>2, CreateFile
<1>3. ASSUME NEW m \in Messages, Hear(m)
      PROVE  ShapeInv' /\ FileInv'
  BY <1>3, HearFile
<1>4. ASSUME NEW m \in Messages, NEW kept \in Cuts, BreakOff(m, kept)
      PROVE  ShapeInv' /\ FileInv'
  BY <1>4, BreakOffFile
<1>5. CASE Lost \/ Redial \/ Leave
  BY <1>5, FileKept DEF Lost, Redial, Leave
<1>6. CASE Damage
  BY <1>6, DamagedFile
<1>7. CASE Task
  <2>1. UNCHANGED <<file, story>> /\ at' # "pump"
    BY <1>7 DEF Task, Open, Attach, ReadFrame, EndOfFile, Deliver, Close, HangUp, record,
                captureVars
  <2> QED BY <2>1, FileKept
<1>8. CASE Apply \/ Closed \/ Quit \/ Stopped \/ UNCHANGED vars
  BY <1>8, FileKept DEF Apply, Closed, Quit, Stopped, vars, captureVars
<1> QED BY <1>1, <1>2, <1>3, <1>4, <1>5, <1>6, <1>7, <1>8 DEF Next, Recording

-----------------------------------------------------------------------------
(* Counting frames. *)

\* A count grows by one at each frame that is counted, and at no other.
LEMMA OrdinalNext ==
  ASSUME NEW n \in Nat, NEW K, K \subseteq 1 .. n, NEW i \in Int
  PROVE  /\ Ordinal(K, i) \in Nat
         /\ Ordinal(K, i + 1) = Ordinal(K, i) + IF i + 1 \in K THEN 1 ELSE 0
<1> DEFINE Upto(k) == {j \in K : j <= k}
<1>1. \A j \in K : j \in Int /\ 1 <= j /\ j <= n
  OBVIOUS
<1>2. \A k : IsFiniteSet(Upto(k)) /\ Cardinality(Upto(k)) \in Nat
  <2>1. IsFiniteSet(1 .. n)
    BY FS_Interval
  <2>2. IsFiniteSet(K)
    BY <2>1, FS_Subset
  <2> QED BY <2>2, FS_Subset, FS_CardinalityType
<1>3. CASE i + 1 \in K
  <2>0. \A j \in K : j <= i + 1 <=> j <= i \/ j = i + 1
    BY <1>1
  <2>1. Upto(i + 1) = Upto(i) \cup {i + 1} /\ i + 1 \notin Upto(i)
    <3>1. Upto(i + 1) \subseteq Upto(i) \cup {i + 1}
      BY <2>0
    <3>2. Upto(i) \cup {i + 1} \subseteq Upto(i + 1)
      BY <1>3, <2>0
    <3>3. i + 1 \notin Upto(i)
      OBVIOUS
    <3> QED BY <3>1, <3>2, <3>3
  <2> HIDE DEF Upto
  <2>2. Cardinality(Upto(i + 1)) = Cardinality(Upto(i)) + 1
    BY <1>2, <2>1, FS_AddElement
  <2> QED BY <1>2, <1>3, <2>2 DEF Ordinal, Upto
<1>4. CASE i + 1 \notin K
  <2>0. \A j \in K : j <= i + 1 <=> j <= i
    BY <1>1, <1>4
  <2>1. Upto(i + 1) = Upto(i)
    BY <2>0
  <2> QED BY <1>2, <1>4, <2>1 DEF Ordinal
<1> QED BY <1>3, <1>4

\* From no frame at all to every one, a count takes those steps.
LEMMA OrdinalSteps ==
  ASSUME NEW n \in Nat, NEW K, K \subseteq 1 .. n
  PROVE  /\ \A i \in Int : Ordinal(K, i) \in Nat
         /\ Ordinal(K, 0) = 0
         /\ \A i \in Int : Ordinal(K, i + 1) = Ordinal(K, i) + IF i + 1 \in K THEN 1 ELSE 0
         /\ Ordinal(K, n) = Cardinality(K)
<1> DEFINE Upto(i) == {j \in K : j <= i}
<1>1. \A j \in K : j \in Int /\ 1 <= j /\ j <= n
  OBVIOUS
<1>2. Ordinal(K, 0) = 0
  <2>1. ASSUME NEW j \in Upto(0)
        PROVE  FALSE
    BY <1>1
  <2>2. Upto(0) = {}
    BY <2>1
  <2> QED BY <2>2, FS_EmptySet DEF Ordinal
<1>3. ASSUME NEW i \in Int
      PROVE  /\ Ordinal(K, i) \in Nat
             /\ Ordinal(K, i + 1) = Ordinal(K, i) + IF i + 1 \in K THEN 1 ELSE 0
  BY OrdinalNext
<1>4. Ordinal(K, n) = Cardinality(K)
  <2>1. Upto(n) = K
    BY <1>1
  <2> QED BY <2>1 DEF Ordinal
<1> QED BY <1>2, <1>3, <1>4

\* The later of two frames does not come first.
LEMMA OrdinalGrows ==
  ASSUME NEW n \in Nat, NEW K, K \subseteq 1 .. n, NEW i \in Int, NEW j \in Int, i <= j
  PROVE  Ordinal(K, i) <= Ordinal(K, j)
<1>1. IsFiniteSet({k \in K : k <= j})
  <2>1. IsFiniteSet(1 .. n)
    BY FS_Interval
  <2> QED BY <2>1, FS_Subset
<1>0. \A k \in K : k \in Int
  OBVIOUS
<1>2. {k \in K : k <= i} \subseteq {k \in K : k <= j}
  <2>1. \A k \in K : k <= i => k <= j
    BY <1>0
  <2> QED BY <2>1
<1> QED BY <1>1, <1>2, FS_Subset DEF Ordinal

\* No two frames have the same place.
LEMMA OrdinalsDiffer ==
  ASSUME NEW n \in Nat, NEW K, K \subseteq 1 .. n, NEW i \in K, NEW j \in K, i < j
  PROVE  Ordinal(K, i) < Ordinal(K, j)
<1> DEFINE h == j - 1
<1>1. i \in Int /\ h \in Int /\ i <= h /\ h + 1 = j
  <2>1. i \in Int /\ j \in Int
    OBVIOUS
  <2> QED BY <2>1
<1> HIDE DEF h
<1>2. Ordinal(K, i) <= Ordinal(K, h)
  BY <1>1, OrdinalGrows
<1>3. Ordinal(K, h + 1) = Ordinal(K, h) + IF h + 1 \in K THEN 1 ELSE 0
  BY <1>1, OrdinalSteps
<1>4. Ordinal(K, i) \in Nat /\ Ordinal(K, h) \in Nat
  BY <1>1, OrdinalSteps
<1> QED BY <1>1, <1>2, <1>3, <1>4

\* The frames a monitor is told about are frames.
LEMMA TellingIsFrames ==
  ASSUME ShapeInv
  PROVE  /\ Len(story) \in Nat /\ DOMAIN story = 1 .. Len(story)
         /\ Telling(story) \subseteq 1 .. Len(story)
<1>1. Len(story) \in Nat /\ DOMAIN story = 1 .. Len(story)
  BY SeqShape DEF ShapeInv
<1> QED BY <1>1 DEF Telling

-----------------------------------------------------------------------------
(* Before the replay. *)

\* Before the replay has sent anything, all is well with its updates.
LEMMA FreshIsGood == ShapeInv /\ FileInv /\ Fresh => ReaderInv /\ ShownInv /\ ChannelInv
<1> SUFFICES ASSUME ShapeInv, FileInv, Fresh PROVE ReaderInv /\ ShownInv /\ ChannelInv
  OBVIOUS
<1>1. /\ Waiting /\ at \notin {"read", "deliver", "finished", "failed", "done"}
      /\ reader = [pos |-> Header, frames |-> 0, event |-> Undecodable]
      /\ channel = <<>> /\ ~hungUp
      /\ shown = [link |-> "Connecting", session |-> 0, heard |-> 0, told |-> <<>>]
      /\ ui = "running" \/ ui = "quit"
  BY DEF Fresh, Waiting
<1>2. /\ reader.pos = Header /\ reader.frames = 0 /\ reader.event = Undecodable
      /\ shown.link = "Connecting" /\ shown.session = 0 /\ shown.heard = 0 /\ shown.told = <<>>
  BY <1>1
<1>3. Len(story) \in Nat /\ DOMAIN story = 1 .. Len(story) /\ Telling(story) \subseteq 1 .. Len(story)
  BY TellingIsFrames
<1>4. ReaderInv
  BY <1>1, <1>2, <1>3 DEF ReaderInv, FileInv
<1>5. Ahead = 0 /\ Behind = 0 /\ Coming = 0
  <2>1. SentFrames = 0
    BY <1>1, <1>2 DEF SentFrames
  <2>2. Ordinal(Telling(story), 0) = 0
    BY <1>3, OrdinalSteps
  <2> QED BY <1>1, <1>2, <2>1, <2>2, EmptyShape DEF Ahead, Behind, Coming
<1>6. ShownInv
  BY <1>1, <1>2, <1>5, EmptyShape DEF ShownInv
<1>7. ChannelInv
  BY <1>1, <1>5, EmptyShape DEF ChannelInv
<1> QED BY <1>4, <1>6, <1>7

-----------------------------------------------------------------------------
(* The reader finds the frames of the story, and stops where it does. *)

\* A frame of the story is where the reader stands, ends within the file, and is the
\* only one there.
LEMMA FrameAtReader ==
  ASSUME ShapeInv, FileInv, ReaderInv, reader.frames < Len(story)
  PROVE  LET i == reader.frames + 1
         IN  /\ i \in DOMAIN story
             /\ FramesAt(reader.pos) = {Frame(file, i)}
             /\ PayloadLen(Frame(file, i).len) # None
             /\ End(Frame(file, i)) = BeginOf(file, i + 1)
             /\ ~CutOff(Frame(file, i))
             /\ reader.pos + FrameHeader <= file.size
<1> DEFINE i == reader.frames + 1
           n == Len(file.frames)
<1>1. /\ Len(story) \in Nat /\ DOMAIN story = 1 .. Len(story)
      /\ n \in Nat /\ DOMAIN file.frames = 1 .. n /\ Len(story) <= n
      /\ reader.frames \in 0 .. Len(story) /\ file.size \in Nat
  BY TellingIsFrames, SeqShape DEF ShapeInv, FileInv, ReaderInv
<1>2. i \in 1 .. Len(story) /\ i \in 1 .. n
  BY <1>1
<1>3. reader.pos = file.frames[i].begin
  BY <1>1, <1>2 DEF ReaderInv, BeginOf
<1>4. FramesAt(reader.pos) = {Frame(file, i)}
  <2>1. \A j \in 1 .. n : file.frames[j].begin = file.frames[i].begin => j = i
    <3>1. \A j \in 1 .. n : file.frames[j].begin \in Nat
      BY <1>1 DEF ShapeInv
    <3>2. \A j, k \in 1 .. n : j < k => file.frames[j].begin < file.frames[k].begin
      BY <1>1 DEF FileInv
    <3> HIDE DEF i, n
    <3> QED BY <1>2, <3>1, <3>2
  <2>2. {j \in DOMAIN file.frames : file.frames[j].begin = reader.pos} = {i}
    BY <1>1, <1>2, <1>3, <2>1
  <2> QED BY <2>2 DEF FramesAt, Frame
<1>5. /\ PayloadLen(Frame(file, i).len) # None
      /\ FrameEnd(file, i) = BeginOf(file, i + 1)
  BY <1>1, <1>2 DEF FileInv
<1>6. /\ Frame(file, i).len \in Nat /\ Frame(file, i).len >= 4
      /\ PayloadLen(Frame(file, i).len) = Frame(file, i).len - 4
  BY <1>5, LengthThatFits
<1>7. reader.pos \in Nat
  BY <1>1, <1>2, <1>3 DEF ShapeInv
<1>8. End(Frame(file, i)) = FrameEnd(file, i)
  <2> DEFINE f == Frame(file, i)
             begin == file.frames[i].begin
  <2>1. FrameEnd(file, i) = begin + (12 + f.len)
    BY DEF FrameEnd, FrameSize, FrameHeader
  <2>2. End(f) = reader.pos + 12 + 4 + PayloadLen(f.len)
    BY DEF End, FrameHeader
  <2> HIDE DEF begin, f
  <2>3. f.len \in Nat /\ PayloadLen(f.len) = f.len - 4 /\ begin \in Nat /\ reader.pos = begin
    BY <1>3, <1>6, <1>7 DEF begin, f
  <2>4. End(f) = FrameEnd(file, i)
    BY <2>1, <2>2, <2>3
  <2> QED BY <2>4 DEF f
<1>9. BeginOf(file, i + 1) \in Nat /\ BeginOf(file, i + 1) <= file.size
  <2>1. CASE i + 1 <= n
    <3>1. i + 1 \in DOMAIN file.frames
      BY <1>1, <1>2, <2>1
    <3> QED BY <2>1, <3>1 DEF BeginOf, FileInv, ShapeInv
  <2>2. CASE ~(i + 1 <= n)
    BY <1>1, <2>2 DEF BeginOf
  <2> QED BY <2>1, <2>2
<1>10. ~CutOff(Frame(file, i))
  BY <1>1, <1>5, <1>8, <1>9 DEF CutOff
<1>11. reader.pos + FrameHeader <= FrameEnd(file, i)
  BY <1>3, <1>6, <1>7 DEF FrameEnd, FrameSize, FrameHeader
<1>12. reader.pos + FrameHeader <= file.size
  BY <1>1, <1>5, <1>7, <1>9, <1>11 DEF FrameHeader
<1> QED BY <1>1, <1>2, <1>4, <1>5, <1>8, <1>10, <1>12

\* After the story no frame can be read.
LEMMA NoFrameAfterStory ==
  ASSUME ShapeInv, FileInv, ReaderInv, reader.frames = Len(story),
         reader.pos + FrameHeader <= file.size, NEW f \in FramesAt(reader.pos)
  PROVE  PayloadLen(f.len) = None \/ CutOff(f)
<1> DEFINE i == reader.frames + 1
           n == Len(file.frames)
<1>1. /\ Len(story) \in Nat /\ n \in Nat /\ DOMAIN file.frames = 1 .. n /\ Len(story) <= n
      /\ file.size \in Nat
  BY TellingIsFrames, SeqShape DEF ShapeInv, FileInv
<1>2. i <= n
  <2>1. CASE i > n
    <3>1. reader.pos = file.size
      BY <1>1, <2>1 DEF ReaderInv, BeginOf
    <3> QED BY <1>1, <3>1 DEF FrameHeader
  <2> QED BY <1>1, <2>1
<1>3. i \in 1 .. n /\ reader.pos = file.frames[i].begin
  BY <1>1, <1>2 DEF ReaderInv, BeginOf
<1>4. f = Frame(file, i)
  <2>1. PICK j \in 1 .. n : file.frames[j].begin = reader.pos /\ f = Frame(file, j)
    BY <1>1 DEF FramesAt, Frame
  <2>2. j = i
    <3>1. \A k \in 1 .. n : file.frames[k].begin \in Nat
      BY <1>1 DEF ShapeInv
    <3>2. \A h, k \in 1 .. n : h < k => file.frames[h].begin < file.frames[k].begin
      BY <1>1 DEF FileInv
    <3> HIDE DEF i, n
    <3> QED BY <1>3, <2>1, <3>1, <3>2
  <2> QED BY <2>1, <2>2
<1>5. PayloadLen(f.len) = None \/ FrameEnd(file, i) > file.size
  BY <1>1, <1>2, <1>4 DEF FileInv
<1>6. ASSUME PayloadLen(f.len) # None
      PROVE  CutOff(f)
  <2>1. f.len \in Nat /\ PayloadLen(f.len) = f.len - 4
    BY <1>6, LengthThatFits
  <2>2. reader.pos \in Nat
    BY <1>1, <1>3 DEF ShapeInv
  <2> DEFINE begin == file.frames[i].begin
  <2>3. End(f) = FrameEnd(file, i)
    <3>1. FrameEnd(file, i) = begin + (12 + f.len)
      BY <1>4 DEF FrameEnd, FrameSize, FrameHeader
    <3>2. End(f) = reader.pos + 12 + 4 + PayloadLen(f.len)
      BY DEF End, FrameHeader
    <3> HIDE DEF begin
    <3>3. begin \in Nat /\ reader.pos = begin
      BY <1>3, <2>2 DEF begin
    <3> QED BY <2>1, <3>1, <3>2, <3>3
  <2> QED BY <1>5, <1>6, <2>3 DEF CutOff
<1> QED BY <1>6

-----------------------------------------------------------------------------
(* The steps of the replay. *)

Updates == ReaderInv /\ ShownInv /\ ChannelInv

\* The same one step later.
LEMMA FreshIsGoodNext == ShapeInv' /\ FileInv' /\ Fresh' => Updates'
<1>1. ShapeInv /\ FileInv /\ Fresh => Updates
  BY FreshIsGood DEF Updates
<1> QED BY <1>1, PTL

\* As long as nothing is recorded from, nothing is sent.
LEMMA RecordingStep ==
  ASSUME Updates, ShapeInv', FileInv', Recording, UNCHANGED replayVars
  PROVE  Updates'
<1>1. /\ at \in {"dial", "create", "pump", "idle", "open"}
      /\ at' \in {"dial", "create", "pump", "idle", "open"}
  BY DEF Recording, Shake, Create, Lost, Redial, Leave, Damage, Hear, BreakOff
<1>2. Fresh
  BY <1>1 DEF Updates, ReaderInv, Waiting
<1>3. Fresh'
  BY <1>1, <1>2 DEF Fresh, Waiting, replayVars
<1> QED BY <1>3, FreshIsGoodNext

\* A file that opens has its header; no update goes out.
LEMMA OpenStep ==
  ASSUME ShapeInv, FileInv, Updates, ShapeInv', FileInv', Open
  PROVE  Updates'
<1>1. /\ at = "open" /\ at' = IF file.header THEN "attach" ELSE "failed"
      /\ UNCHANGED <<file, story, reader, channel, hungUp, shown, ui>>
  BY DEF Open, record, replayVars
<1>2. Fresh
  BY <1>1 DEF Updates, ReaderInv, Waiting
<1>3. CASE file.header
  <2>1. Fresh'
    BY <1>1, <1>2, <1>3 DEF Fresh, Waiting
  <2> QED BY <2>1, FreshIsGoodNext
<1>4. CASE ~file.header
  <2>1. /\ reader.frames = 0 /\ channel = <<>> /\ ui = "running"
        /\ shown.link = "Connecting" /\ shown.told = <<>> /\ at' = "failed"
    BY <1>1, <1>2, <1>4 DEF Fresh
  <2>2. Len(story) = 0
    <3>1. Len(file.frames) = 0
      BY <1>4, EmptyShape DEF FileInv
    <3> QED BY <3>1, TellingIsFrames DEF FileInv
  <2>3. ReaderInv'
    BY <1>1, <1>4, <2>1, <2>2 DEF Updates, ReaderInv, Fresh, Waiting
  <2>4. Coming' = 0 /\ Ahead' = 0 /\ Behind' = 0
    <3>1. SentFrames' = 0
      BY <1>1, <2>1 DEF SentFrames
    <3>2. Ordinal(Telling(story), 0) = 0
      BY TellingIsFrames, OrdinalSteps
    <3> QED BY <1>1, <1>4, <2>1, <3>1, <3>2, EmptyShape DEF Coming, Ahead, Behind
  <2>5. ShownInv'
    BY <1>1, <2>1, <2>4 DEF Updates, ShownInv
  <2>6. ChannelInv'
    BY <1>1, <2>1, <2>4, EmptyShape DEF ChannelInv
  <2> QED BY <2>3, <2>5, <2>6 DEF Updates
<1> QED BY <1>3, <1>4

\* The first update is that the replay is connected.
LEMMA AttachStep ==
  ASSUME ShapeInv, Updates, Attach
  PROVE  Updates'
<1> DEFINE u == Make("Connected")
<1>1. /\ at = "attach" /\ at' = "read" /\ Send(u)
      /\ UNCHANGED <<file, story, reader, hungUp, shown, ui>>
  BY DEF Attach, record
<1>2. Fresh
  BY <1>1 DEF Updates, ReaderInv, Waiting
<1>3. u.kind = "Connected"
  BY DEF Make
<1> HIDE DEF u
<1>4. /\ reader.frames = 0 /\ channel = <<>> /\ ui \in {"running", "quit"} /\ file.header
      /\ shown.link = "Connecting" /\ shown.told = <<>> /\ ~hungUp
  BY <1>1, <1>2 DEF Fresh
<1>5. ReaderInv'
  BY <1>1, <1>4 DEF Updates, ReaderInv, Waiting
<1>6. Coming' = 0 /\ Ahead' = 1 /\ Behind' = 0
  <2>1. SentFrames' = 0
    BY <1>1, <1>4 DEF SentFrames
  <2>2. Ordinal(Telling(story), 0) = 0
    BY TellingIsFrames, OrdinalSteps
  <2> QED BY <1>1, <1>4, <2>1, <2>2, EmptyShape DEF Coming, Ahead, Behind, Waiting
<1>7. ShownInv'
  BY <1>1, <1>4, <1>6 DEF Updates, ShownInv
<1>8. ChannelInv'
  <2>1. CASE ui = "running"
    <3>1. channel' = Append(<<>>, u)
      BY <1>1, <1>4, <2>1 DEF Send
    <3>2. /\ channel' \in Seq(Range(channel')) /\ Len(channel') = 1 /\ DOMAIN channel' = 1 .. 1
          /\ channel'[1] = u
      <4> DEFINE none == <<>>
      <4>1. none \in Seq(Range(none)) /\ Len(none) = 0
        BY EmptyShape
      <4> HIDE DEF none
      <4>2. /\ Append(none, u) \in Seq(Range(Append(none, u)))
            /\ Len(Append(none, u)) = 1 /\ DOMAIN Append(none, u) = 1 .. 1
            /\ Append(none, u)[1] = u
        <5>1. /\ Append(none, u) \in Seq(Range(Append(none, u)))
              /\ Len(Append(none, u)) = Len(none) + 1
              /\ DOMAIN Append(none, u) = 1 .. Len(none) + 1
              /\ Append(none, u)[Len(none) + 1] = u
          BY <4>1, AppendShape
        <5>2. Len(none) + 1 = 1
          BY <4>1
        <5> QED BY <5>1, <5>2
      <4> QED BY <3>1, <4>2 DEF none
    <3> QED BY <1>1, <1>3, <1>6, <2>1, <3>2 DEF ChannelInv, Kind
  <2>2. CASE ui = "quit"
    <3>1. channel' = <<>>
      BY <1>1, <1>4, <2>2 DEF Send
    <3> QED BY <1>1, <2>2, <3>1, EmptyShape DEF ChannelInv
  <2> QED BY <1>4, <2>1, <2>2
<1> QED BY <1>5, <1>7, <1>8 DEF Updates

\* What was sent and applied stays, whatever the reader does between two updates.
LEMMA SameUpdates ==
  ASSUME ShownInv, ChannelInv, UNCHANGED <<file, story, channel, shown, ui>>,
         at \in {"read", "deliver", "finished", "failed"},
         at' \in {"read", "deliver", "finished", "failed"},
         Coming' = Coming
  PROVE  ShownInv' /\ ChannelInv'
<1>1. Ahead' = Ahead /\ Behind' = Behind /\ Behind = 0
  BY DEF Ahead, Behind, Waiting
<1>2. ShownInv'
  BY DEF ShownInv, Waiting
<1>3. ChannelInv'
  BY <1>1 DEF ChannelInv
<1> QED BY <1>2, <1>3

\* The reader goes on to the next frame that a monitor is told about, or finds the end
\* of the file behind the last one of the story.
LEMMA ReadStep ==
  ASSUME ShapeInv, FileInv, Updates, ReadFrame \/ EndOfFile
  PROVE  Updates'
<1> DEFINE i == reader.frames + 1
           K == Telling(story)
<1>1. /\ at = "read" /\ UNCHANGED <<file, story, channel, hungUp, shown, ui>>
      /\ file.header /\ ~hungUp
  BY DEF ReadFrame, EndOfFile, record, replayVars, Updates, ReaderInv
<1>2. /\ Len(story) \in Nat /\ DOMAIN story = 1 .. Len(story) /\ K \subseteq 1 .. Len(story)
      /\ reader.frames \in 0 .. Len(story)
      /\ reader = [pos |-> reader.pos, frames |-> reader.frames, event |-> reader.event]
  BY TellingIsFrames DEF Updates, ReaderInv
<1>3. reader.frames < Len(story) =>
        /\ i \in DOMAIN story
        /\ FramesAt(reader.pos) = {Frame(file, i)}
        /\ PayloadLen(Frame(file, i).len) # None
        /\ End(Frame(file, i)) = BeginOf(file, i + 1)
        /\ ~CutOff(Frame(file, i))
        /\ reader.pos + FrameHeader <= file.size
  BY FrameAtReader DEF Updates
<1>4. file.size \in Nat /\ reader.pos \in Nat
  <2>1. CASE i <= Len(file.frames)
    <3>1. i \in DOMAIN file.frames
      BY <1>2, <2>1, SeqShape DEF ShapeInv
    <3> QED BY <2>1, <3>1 DEF Updates, ReaderInv, BeginOf, ShapeInv
  <2>2. CASE ~(i <= Len(file.frames))
    BY <2>2 DEF Updates, ReaderInv, BeginOf, ShapeInv
  <2> QED BY <2>1, <2>2
<1>5. ASSUME at' \in {"finished", "failed"}, UNCHANGED reader, reader.frames = Len(story)
      PROVE  Updates'
  <2>1. Coming' = Coming
    BY <1>1, <1>5 DEF Coming, SentFrames
  <2>2. ShownInv' /\ ChannelInv'
    BY <1>1, <1>5, <2>1, SameUpdates DEF Updates
  <2>3. ReaderInv'
    BY <1>1, <1>5 DEF Updates, ReaderInv, Waiting
  <2> QED BY <2>2, <2>3 DEF Updates
<1>6. CASE EndOfFile
  <2>1. ~(reader.frames < Len(story))
    BY <1>3, <1>4, <1>6 DEF EndOfFile, FrameHeader
  <2> QED BY <1>2, <1>5, <1>6, <2>1 DEF EndOfFile, replayVars
<1>7. CASE ReadFrame
  <2>1. PICK f \in FramesAt(reader.pos) :
          IF PayloadLen(f.len) = None THEN at' = "failed" /\ UNCHANGED reader
          ELSE IF CutOff(f) THEN at' = "finished" /\ UNCHANGED reader
          ELSE \E event \in {Decode(f.ty, f.payload, file.protocol)} :
                 /\ reader' = [pos |-> End(f), frames |-> reader.frames + 1, event |-> event]
                 /\ at' = CASE event.type = "End"         -> "finished"
                            [] event.type = "Undecodable" -> "read"
                            [] OTHER                      -> "deliver"
    BY <1>7 DEF ReadFrame
  <2>2. CASE PayloadLen(f.len) = None \/ CutOff(f)
    <3>1. ~(reader.frames < Len(story))
      BY <1>3, <2>2
    <3> QED BY <1>2, <1>5, <2>1, <2>2, <3>1
  <2>3. CASE PayloadLen(f.len) # None /\ ~CutOff(f)
    <3> DEFINE event == story[i].heard
    <3>1. reader.frames < Len(story)
      <4>1. reader.pos + FrameHeader <= file.size
        BY <1>7 DEF ReadFrame
      <4>2. reader.frames # Len(story)
        BY <2>3, <4>1, NoFrameAfterStory DEF Updates
      <4> QED BY <1>2, <4>2
    <3>2. f = Frame(file, i) /\ i \in DOMAIN story /\ End(f) = BeginOf(file, i + 1)
      BY <1>3, <2>1, <3>1
    <3>3. /\ Decode(f.ty, f.payload, file.protocol) = event
          /\ event.type = "End" => i = Len(story)
      BY <3>2 DEF FileInv
    <3>4. /\ reader' = [pos |-> End(f), frames |-> i, event |-> event]
          /\ at' = CASE event.type = "End"         -> "finished"
                     [] event.type = "Undecodable" -> "read"
                     [] OTHER                      -> "deliver"
      BY <2>1, <2>3, <3>3
    <3>5. i \in K <=> event.type \notin {"End", "Undecodable"}
      BY <3>2 DEF Telling
    <3> HIDE DEF event
    <3>6. /\ at' \in {"finished", "read", "deliver"}
          /\ at' = "finished" <=> event.type = "End"
          /\ at' = "deliver" <=> i \in K
      BY <3>4, <3>5
    <3>7. reader'.pos = End(f) /\ reader'.frames = i /\ reader'.event = event
      BY <3>4
    <3>8. ReaderInv'
      <4>1. i \in 0 .. Len(story) /\ reader'.pos = BeginOf(file, i + 1)
        BY <1>2, <3>1, <3>2, <3>7
      <4>2. reader' = [pos |-> reader'.pos, frames |-> reader'.frames, event |-> reader'.event]
        BY <3>4, <3>7
      <4>3. at' = "deliver" => i \in K /\ reader'.event = story[i].heard
        BY <3>6, <3>7 DEF event
      <4>4. at' \in {"finished", "failed"} => i = Len(story)
        BY <3>3, <3>6
      <4> HIDE DEF i, K
      <4> QED BY <1>1, <3>6, <3>7, <4>1, <4>2, <4>3, <4>4 DEF ReaderInv, Waiting, K
    <3>9. Ordinal(K, SentFrames') = Ordinal(K, SentFrames)
      <4>1. SentFrames = reader.frames /\ reader.frames \in Int
        BY <1>1, <1>2 DEF SentFrames
      <4>2. CASE i \in K
        <5>1. SentFrames' = reader.frames
          BY <1>2, <3>6, <3>7, <4>2 DEF SentFrames
        <5> QED BY <4>1, <5>1
      <4>3. CASE i \notin K
        <5>1. SentFrames' = i
          BY <3>6, <3>7, <4>3 DEF SentFrames
        <5>2. Ordinal(K, i) = Ordinal(K, reader.frames)
          <6> DEFINE r == reader.frames
                     n == Len(story)
          <6>1. n \in Nat /\ K \subseteq 1 .. n /\ r \in Int /\ i = r + 1
            BY <1>2, <4>1
          <6> HIDE DEF K, r, i, n
          <6>2. /\ Ordinal(K, r) \in Nat
                /\ Ordinal(K, r + 1) = Ordinal(K, r) + IF r + 1 \in K THEN 1 ELSE 0
            BY ONLY <6>1, OrdinalNext
          <6>3. Ordinal(K, i) = Ordinal(K, r)
            BY ONLY <4>3, <6>1, <6>2
          <6> QED BY <6>3 DEF r
        <5> QED BY <4>1, <5>1, <5>2
      <4> QED BY <4>2, <4>3
    <3>10. Coming' = Coming
      BY <1>1, <3>9 DEF Coming
    <3>11. ShownInv' /\ ChannelInv'
      BY <1>1, <3>6, <3>10, SameUpdates DEF Updates
    <3> QED BY <3>8, <3>11 DEF Updates
  <2> QED BY <2>2, <2>3
<1> QED BY <1>6, <1>7

\* An update that is sent goes behind what was sent before it.
LEMMA SendStep ==
  ASSUME channel \in Seq(Range(channel)), NEW u, Send(u)
  PROVE  /\ ui # "running" => channel' = channel
         /\ ui = "running" =>
              /\ channel' \in Seq(Range(channel'))
              /\ Len(channel) \in Nat /\ DOMAIN channel = 1 .. Len(channel)
              /\ Len(channel') = Len(channel) + 1
              /\ DOMAIN channel' = 1 .. Len(channel) + 1
              /\ \A k \in 1 .. Len(channel) : channel'[k] = channel[k]
              /\ channel'[Len(channel) + 1] = u
<1>1. CASE ui = "running"
  <2>1. channel' = Append(channel, u)
    BY <1>1 DEF Send
  <2> QED BY <1>1, <2>1, AppendShape
<1>2. CASE ui # "running"
  BY <1>2 DEF Send
<1> QED BY <1>1, <1>2

\* What is on its way is a number of updates.
LEMMA CountsAreNumbers ==
  ASSUME ShapeInv, Updates
  PROVE  /\ Ahead \in {0, 1} /\ Behind \in {0, 1} /\ Coming \in Nat
         /\ Len(shown.told) \in Nat /\ DOMAIN shown.told = 1 .. Len(shown.told)
         /\ SentFrames \in Int /\ Ordinal(Telling(story), SentFrames) \in Nat
         /\ Ordinal(Telling(story), SentFrames) = Coming + Len(shown.told)
<1>1. reader.frames \in 0 .. Len(story) /\ Len(story) \in Nat /\ Telling(story) \subseteq 1 .. Len(story)
  BY TellingIsFrames DEF Updates, ReaderInv
<1>2. SentFrames \in Int
  BY <1>1 DEF SentFrames
<1>3. Ordinal(Telling(story), SentFrames) \in Nat
  BY <1>1, <1>2, OrdinalSteps
<1>4. Len(shown.told) \in Nat /\ DOMAIN shown.told = 1 .. Len(shown.told)
  BY SeqShape DEF Updates, ShownInv
<1>5. Coming >= 0
  BY DEF Updates, ShownInv
<1> QED BY <1>2, <1>3, <1>4, <1>5 DEF Ahead, Behind, Coming

\* The event of a frame goes behind the events of the frames before it.
LEMMA DeliverStep ==
  ASSUME ShapeInv, Updates, Deliver
  PROVE  Updates'
<1> DEFINE u == Make("Event")
           K == Telling(story)
           told == Len(shown.told)
           i == reader.frames
<1>1. /\ at = "deliver" /\ at' = IF ui # "running" THEN "done" ELSE "read"
      /\ Send(u) /\ UNCHANGED <<file, story, reader, hungUp, shown, ui>>
  BY DEF Deliver, record
<1>2. u.kind = "Event" /\ u.n = reader.frames /\ u.event = reader.event
  BY DEF Make
<1>3. /\ i \in K /\ reader.event = story[i].heard
      /\ file.header /\ ~hungUp /\ Len(story) \in Nat /\ K \subseteq 1 .. Len(story)
      /\ i \in 0 .. Len(story)
  BY <1>1, TellingIsFrames DEF Updates, ReaderInv
<1>4. /\ Ahead \in {0, 1} /\ Behind \in {0, 1} /\ Coming \in Nat /\ told \in Nat
      /\ Ordinal(K, SentFrames) = Coming + told
  BY CountsAreNumbers
<1>5. SentFrames = i - 1 /\ SentFrames' = i
  BY <1>1 DEF SentFrames
<1>6. Ordinal(K, i) = Coming + told + 1
  <2> DEFINE h == i - 1
  <2>1. h \in Int /\ h + 1 = i
    BY <1>3
  <2> HIDE DEF h
  <2>2. Ordinal(K, h + 1) = Ordinal(K, h) + IF h + 1 \in K THEN 1 ELSE 0
    BY <1>3, <2>1, OrdinalSteps
  <2>3. Ordinal(K, h) = Coming + told
    BY <1>4, <1>5 DEF h
  <2> HIDE DEF i, K, told
  <2> QED BY <1>3, <1>4, <2>1, <2>2, <2>3
<1>7. Coming' = Coming + 1
  <2>1. Coming' = Ordinal(K, i) - told
    BY <1>1, <1>5 DEF Coming
  <2> HIDE DEF i, K, told
  <2> QED BY <1>4, <1>6, <2>1
<1>8. /\ Ahead' = Ahead /\ Behind = 0 /\ shown.link # "Disconnected"
      /\ ui = "running" => Behind' = 0
  BY <1>1 DEF Ahead, Behind, Waiting, Updates, ShownInv
<1>9. ui # "closed"
  BY <1>1 DEF Updates, ChannelInv
<1>10. ReaderInv'
  BY <1>1, <1>3 DEF Updates, ReaderInv, Waiting
<1>11. ShownInv'
  <2>1. Coming' >= 0
    BY <1>4, <1>7
  <2> QED BY <1>1, <1>8, <2>1 DEF Updates, ShownInv, Waiting
<1>12. ChannelInv'
  <2>1. channel \in Seq(Range(channel))
    BY DEF Updates, ChannelInv
  <2>2. CASE ui = "running"
    <3> DEFINE c == Len(channel)
    <3>1. /\ channel' \in Seq(Range(channel'))
          /\ c \in Nat /\ DOMAIN channel = 1 .. c
          /\ Len(channel') = c + 1 /\ DOMAIN channel' = 1 .. c + 1
          /\ \A k \in 1 .. c : channel'[k] = channel[k]
          /\ channel'[c + 1] = u
      BY <1>1, <2>1, <2>2, SendStep
    <3>2. c = Ahead + Coming
      <4>1. c = Ahead + Coming + Behind
        BY <2>2 DEF Updates, ChannelInv
      <4> QED BY <1>4, <1>8, <4>1
    <3> DEFINE Placed(k) ==
                 /\ channel'[k].kind = Kind(k, Ahead, Coming + 1)
                 /\ Kind(k, Ahead, Coming + 1) = "Event" =>
                      /\ channel'[k].n \in K
                      /\ Ordinal(K, channel'[k].n) = told + k - Ahead
                      /\ channel'[k].event = story[channel'[k].n].heard
    <3>3. ASSUME NEW k \in 1 .. c
          PROVE  Placed(k)
      <4>1. Kind(k, Ahead, Coming + 1) = Kind(k, Ahead, Coming)
        BY <1>4, <3>1, <3>2 DEF Kind
      <4>2. /\ channel[k].kind = Kind(k, Ahead, Coming)
            /\ Kind(k, Ahead, Coming) = "Event" =>
                 /\ channel[k].n \in K
                 /\ Ordinal(K, channel[k].n) = told + k - Ahead
                 /\ channel[k].event = story[channel[k].n].heard
        BY <2>2, <3>1 DEF Updates, ChannelInv
      <4> QED BY <3>1, <4>1, <4>2
    <3>4. Placed(c + 1)
      <4>1. Kind(c + 1, Ahead, Coming + 1) = "Event"
        BY <1>4, <3>2 DEF Kind
      <4>2. told + (c + 1) - Ahead = Coming + told + 1
        <5> HIDE DEF c, told
        <5> QED BY <1>4, <3>2
      <4> HIDE DEF c, told, u, K
      <4> QED BY <1>2, <1>3, <1>6, <3>1, <4>1, <4>2
    <3> HIDE DEF Placed
    <3>5. \A k \in 1 .. c + 1 : Placed(k)
      <4> HIDE DEF c
      <4> QED BY <3>1, <3>3, <3>4
    <3>6. Len(channel') = Ahead' + Coming' + Behind'
      <4> HIDE DEF c
      <4> QED BY <1>4, <1>7, <1>8, <2>2, <3>1, <3>2
    <3> QED BY <1>1, <1>7, <1>8, <2>2, <3>1, <3>5, <3>6 DEF ChannelInv, Placed
  <2>3. CASE ui = "quit"
    <3>1. channel' = channel /\ channel = <<>>
      BY <1>1, <2>1, <2>3, SendStep DEF Updates, ChannelInv
    <3> QED BY <1>1, <2>1, <2>3, <3>1 DEF ChannelInv
  <2> QED BY <1>9, <2>2, <2>3 DEF Updates, ChannelInv
<1> QED BY <1>10, <1>11, <1>12 DEF Updates

\* The end of the session goes behind everything.
LEMMA CloseStep ==
  ASSUME ShapeInv, Updates, Close
  PROVE  Updates'
<1> DEFINE u == Make("Disconnected")
           K == Telling(story)
           told == Len(shown.told)
<1>1. /\ at \in {"finished", "failed"} /\ at' = "done"
      /\ Send(u) /\ UNCHANGED <<file, story, reader, hungUp, shown, ui>>
  BY DEF Close, record
<1>2. u.kind = "Disconnected"
  BY DEF Make
<1>3. reader.frames = Len(story)
  BY <1>1 DEF Updates, ReaderInv
<1>4. Ahead \in {0, 1} /\ Coming \in Nat
  BY CountsAreNumbers
<1>5. Coming' = Coming
  BY <1>1 DEF Coming, SentFrames
<1>6. Ahead' = Ahead /\ Behind = 0 /\ Behind' = 1 /\ shown.link # "Disconnected"
  BY <1>1 DEF Ahead, Behind, Waiting, Updates, ShownInv
<1>7. ui # "closed"
  BY <1>1 DEF Updates, ChannelInv
<1>8. ReaderInv'
  BY <1>1, <1>3 DEF Updates, ReaderInv, Waiting
<1>9. ShownInv'
  BY <1>1, <1>5, <1>6 DEF Updates, ShownInv, Waiting
<1>10. ChannelInv'
  <2>1. channel \in Seq(Range(channel))
    BY DEF Updates, ChannelInv
  <2>2. CASE ui = "running"
    <3> DEFINE c == Len(channel)
    <3>1. /\ channel' \in Seq(Range(channel'))
          /\ c \in Nat /\ DOMAIN channel = 1 .. c
          /\ Len(channel') = c + 1 /\ DOMAIN channel' = 1 .. c + 1
          /\ \A k \in 1 .. c : channel'[k] = channel[k]
          /\ channel'[c + 1] = u
      BY <1>1, <2>1, <2>2, SendStep
    <3>2. c = Ahead + Coming
      <4>1. c = Ahead + Coming + Behind
        BY <2>2 DEF Updates, ChannelInv
      <4> QED BY <1>4, <1>6, <4>1
    <3> DEFINE Placed(k) ==
                 /\ channel'[k].kind = Kind(k, Ahead, Coming)
                 /\ Kind(k, Ahead, Coming) = "Event" =>
                      /\ channel'[k].n \in K
                      /\ Ordinal(K, channel'[k].n) = told + k - Ahead
                      /\ channel'[k].event = story[channel'[k].n].heard
    <3>3. ASSUME NEW k \in 1 .. c
          PROVE  Placed(k)
      BY <2>2, <3>1 DEF Updates, ChannelInv
    <3>4. Placed(c + 1)
      <4>1. Kind(c + 1, Ahead, Coming) = "Disconnected"
        BY <1>4, <3>2 DEF Kind
      <4> HIDE DEF c, told, u, K
      <4> QED BY <1>2, <3>1, <4>1
    <3> HIDE DEF Placed
    <3>5. \A k \in 1 .. c + 1 : Placed(k)
      <4> HIDE DEF c
      <4> QED BY <3>1, <3>3, <3>4
    <3>6. Len(channel') = Ahead' + Coming' + Behind'
      <4> HIDE DEF c
      <4> QED BY <1>4, <1>5, <1>6, <2>2, <3>1, <3>2
    <3> QED BY <1>1, <1>5, <1>6, <2>2, <3>1, <3>5, <3>6 DEF ChannelInv, Placed
  <2>3. CASE ui = "quit"
    <3>1. channel' = channel /\ channel = <<>>
      BY <1>1, <2>1, <2>3, SendStep DEF Updates, ChannelInv
    <3> QED BY <1>1, <2>1, <2>3, <3>1 DEF ChannelInv
  <2> QED BY <1>7, <2>2, <2>3 DEF Updates, ChannelInv
<1> QED BY <1>8, <1>9, <1>10 DEF Updates

\* Hanging up takes nothing out of the channel.
LEMMA HangUpStep ==
  ASSUME Updates, HangUp
  PROVE  Updates'
<1>1. /\ at = "done" /\ UNCHANGED <<at, file, story, reader, channel, shown, ui>>
  BY DEF HangUp, captureVars
<1>2. UNCHANGED <<Ahead, Coming, Behind>>
  BY <1>1 DEF Ahead, Coming, Behind, SentFrames, Waiting
<1>3. ReaderInv'
  BY <1>1 DEF Updates, ReaderInv, Waiting
<1>4. ShownInv'
  BY <1>1, <1>2 DEF Updates, ShownInv, Waiting
<1>5. ChannelInv'
  BY <1>1, <1>2 DEF Updates, ChannelInv, ReplayTellsTheSession
<1> QED BY <1>3, <1>4, <1>5 DEF Updates

\* A user who quits leaves an empty channel.
LEMMA QuitStep ==
  ASSUME ShapeInv, FileInv, Updates, ShapeInv', FileInv', Quit
  PROVE  Updates'
<1>1. /\ Playing /\ ui = "running" /\ ui' = "quit" /\ channel' = <<>>
      /\ UNCHANGED <<at, file, story, reader, hungUp, shown>>
  BY DEF Quit, captureVars
<1>2. CASE Waiting
  <2>1. at = "attach"
    BY <1>1, <1>2 DEF Waiting, Playing
  <2>2. Fresh'
    BY <1>1, <1>2, <2>1 DEF Updates, ReaderInv, Fresh, Waiting
  <2> QED BY <2>2, FreshIsGoodNext
<1>3. CASE ~Waiting
  <2>1. ReaderInv'
    BY <1>1, <1>3 DEF Updates, ReaderInv, Waiting
  <2>2. ShownInv'
    BY <1>1, <1>3 DEF Updates, ShownInv, Waiting, Coming, SentFrames
  <2>3. ChannelInv'
    BY <1>1, EmptyShape DEF ChannelInv
  <2> QED BY <2>1, <2>2, <2>3 DEF Updates
<1> QED BY <1>2, <1>3

\* A UI that sees the channel closed has applied everything.
LEMMA ClosedStep ==
  ASSUME ShapeInv, FileInv, Updates, Closed
  PROVE  Updates'
<1> DEFINE K == Telling(story)
           n == Len(story)
<1>1. /\ ui = "running" /\ hungUp /\ channel = <<>> /\ ui' = "closed" /\ at = "done"
      /\ UNCHANGED <<at, file, story, reader, channel, hungUp, shown>>
  BY DEF Closed, captureVars, Updates, ReaderInv
<1>2. /\ Ahead \in {0, 1} /\ Behind \in {0, 1} /\ Coming \in Nat
      /\ Len(shown.told) \in Nat /\ DOMAIN shown.told = 1 .. Len(shown.told)
      /\ Ordinal(K, SentFrames) = Coming + Len(shown.told)
  BY CountsAreNumbers
<1>3. Ahead = 0 /\ Coming = 0 /\ Behind = 0
  <2>1. Ahead + Coming + Behind = 0
    BY <1>1, EmptyShape DEF Updates, ChannelInv
  <2> QED BY <1>2, <2>1
<1>4. shown.link = "Disconnected"
  BY <1>1, <1>3 DEF Behind
<1>5. n \in Nat /\ DOMAIN story = 1 .. n /\ K \subseteq 1 .. n /\ SentFrames = n
  BY <1>1, TellingIsFrames DEF Updates, ReaderInv, SentFrames
<1>6. Len(shown.told) = Cardinality(K)
  <2>1. Ordinal(K, n) = Cardinality(K)
    BY <1>5, OrdinalSteps
  <2> QED BY <1>2, <1>3, <1>5, <2>1
<1>7. ASSUME NEW i \in K
      PROVE  shown.told[Ordinal(K, i)] = story[i].heard
  <2>1. Ordinal(K, i) \in 1 .. Len(shown.told)
    <3> DEFINE h == i - 1
    <3>1. i \in Int /\ i <= n /\ h \in Int /\ h + 1 = i
      BY <1>5
    <3> HIDE DEF h
    <3>2. Ordinal(K, i) <= Ordinal(K, n)
      BY <1>5, <3>1, OrdinalGrows
    <3>3. Ordinal(K, h + 1) = Ordinal(K, h) + IF h + 1 \in K THEN 1 ELSE 0
      BY <1>5, <3>1, OrdinalSteps
    <3>4. Ordinal(K, h) \in Nat /\ Ordinal(K, i) \in Nat
      BY <1>5, <3>1, OrdinalSteps
    <3>5. Ordinal(K, n) = Len(shown.told)
      BY <1>2, <1>3, <1>5
    <3> QED BY <1>2, <1>7, <3>1, <3>2, <3>3, <3>4, <3>5
  <2>2. PICK j \in K : Ordinal(K, j) = Ordinal(K, i) /\ shown.told[Ordinal(K, i)] = story[j].heard
    BY <1>2, <2>1 DEF Updates, ShownInv
  <2>3. j = i
    <3>0. i \in Int /\ j \in Int
      BY <1>5
    <3>1. i \in Int /\ j \in Int /\ Ordinal(K, i) \in Nat /\ Ordinal(K, j) \in Nat
      BY <1>5, <3>0, OrdinalSteps
    <3>2. ~(i < j)
      BY <1>5, <2>2, <3>1, OrdinalsDiffer
    <3>3. ~(j < i)
      BY <1>5, <2>2, <3>1, OrdinalsDiffer
    <3> QED BY <3>1, <3>2, <3>3
  <2> QED BY <2>2, <2>3
<1>8. ReplayTellsTheSession'
  BY <1>1, <1>4, <1>6, <1>7 DEF ReplayTellsTheSession, Telling, Ordinal
<1>9. ReaderInv'
  BY <1>1 DEF Updates, ReaderInv, Waiting
<1>10. ShownInv'
  BY <1>1 DEF Updates, ShownInv, Waiting, Coming, SentFrames
<1>11. ChannelInv'
  BY <1>1, <1>8, EmptyShape DEF ChannelInv
<1> QED BY <1>9, <1>10, <1>11 DEF Updates

\* The UI takes the first update, which is what the promise has next, and leaves the
\* rest.
LEMMA ApplyStep ==
  ASSUME ShapeInv, FileInv, Updates, Apply
  PROVE  Updates' /\ [Promise!Next]_(Promise!sessionVars)
<1> DEFINE K == Telling(story)
           told == Len(shown.told)
           c == Len(channel)
           first == channel[1]
<1>1. /\ ui = "running" /\ channel # <<>> /\ channel' = Tail(channel)
      /\ UNCHANGED <<at, file, story, reader, hungUp, ui>>
  BY DEF Apply, captureVars
<1>2. /\ c \in Nat \ {0} /\ DOMAIN channel = 1 .. c
      /\ channel' \in Seq(Range(channel')) /\ Len(channel') = c - 1
      /\ DOMAIN channel' = 1 .. c - 1
      /\ \A k \in 1 .. c - 1 : channel'[k] = channel[k + 1]
      /\ Head(channel) = first
  BY <1>1, TailShape DEF Updates, ChannelInv
<1>3. shown' = Applied(first)
  BY <1>2 DEF Apply
<1>4. /\ Ahead \in {0, 1} /\ Behind \in {0, 1} /\ Coming \in Nat
      /\ told \in Nat /\ DOMAIN shown.told = 1 .. told
      /\ Ordinal(K, SentFrames) = Coming + told
  BY CountsAreNumbers
<1>5. /\ c = Ahead + Coming + Behind
      /\ \A k \in 1 .. c :
           /\ channel[k].kind = Kind(k, Ahead, Coming)
           /\ Kind(k, Ahead, Coming) = "Event" =>
                /\ channel[k].n \in K
                /\ Ordinal(K, channel[k].n) = told + k - Ahead
                /\ channel[k].event = story[channel[k].n].heard
  BY <1>1, <1>2 DEF Updates, ChannelInv
<1>6. ~Waiting
  BY <1>1 DEF Updates, ReaderInv, Fresh
<1>7. /\ Len(story) \in Nat /\ DOMAIN story = 1 .. Len(story) /\ K \subseteq 1 .. Len(story)
      /\ SentFrames' = SentFrames /\ Waiting' = Waiting
  BY <1>1, TellingIsFrames DEF SentFrames, Waiting
<1>8. ReaderInv'
  BY <1>1, <1>6 DEF Updates, ReaderInv, Waiting
<1>9. shown = [link |-> shown.link, session |-> shown.session, heard |-> shown.heard,
               told |-> shown.told]
  BY DEF Updates, ShownInv
<1>10. 1 \in 1 .. c /\ \A k \in 1 .. c - 1 : k + 1 \in 1 .. c
  <2> HIDE DEF c
  <2> QED BY <1>2
\* What is left in the channel, once it is known what one update less means.
<1>11. ASSUME Ahead' + Coming' = Ahead + Coming - 1, Len(shown'.told) \in Nat,
              Len(shown'.told) - Ahead' = told + 1 - Ahead,
              Ahead' \in {0, 1}, Coming' \in Nat, Behind' = c - Ahead - Coming,
              Ahead' = 0
       PROVE  ChannelInv'
  <2>1. Len(channel') = Ahead' + Coming' + Behind'
    <3>1. c \in Nat /\ Len(channel') = c - 1
      BY <1>2
    <3> DEFINE a1 == Ahead'
               c1 == Coming'
               b1 == Behind'
               len1 == Len(channel')
    <3>2. /\ a1 = 0 /\ a1 + c1 = Ahead + Coming - 1 /\ b1 = c - Ahead - Coming /\ c1 \in Nat
          /\ len1 = c - 1 /\ c \in Nat /\ Ahead \in {0, 1} /\ Coming \in Nat
      BY <1>4, <1>11, <3>1
    <3> HIDE DEF a1, c1, b1, len1, c
    <3>3. len1 = a1 + c1 + b1
      BY ONLY <3>2
    <3> QED BY <3>3 DEF a1, c1, b1, len1
  <2>2. ASSUME NEW k \in 1 .. c - 1
        PROVE  /\ channel'[k].kind = Kind(k, Ahead', Coming')
               /\ Kind(k, Ahead', Coming') = "Event" =>
                    /\ channel'[k].n \in K
                    /\ Ordinal(K, channel'[k].n) = Len(shown'.told) + k - Ahead'
                    /\ channel'[k].event = story[channel'[k].n].heard
    <3>1. channel'[k] = channel[k + 1] /\ k + 1 \in 1 .. c /\ k \in Nat /\ k >= 1
      BY <1>2, <1>10
    <3>2. Kind(k, Ahead', Coming') = Kind(k + 1, Ahead, Coming)
      <4> DEFINE a1 == Ahead'
                 c1 == Coming'
      <4>1. /\ a1 = 0 /\ a1 + c1 = Ahead + Coming - 1 /\ c1 \in Nat
            /\ Ahead \in {0, 1} /\ Coming \in Nat /\ k \in Nat /\ k >= 1
        BY <1>4, <1>11, <3>1
      <4> HIDE DEF c, told, a1, c1
      <4>2. Kind(k, a1, c1) = Kind(k + 1, Ahead, Coming)
        BY ONLY <4>1 DEF Kind
      <4> QED BY <4>2 DEF a1, c1
    <3>3. Len(shown'.told) + k - Ahead' = told + (k + 1) - Ahead
      <4> DEFINE a1 == Ahead'
                 t1 == Len(shown'.told)
      <4>1. /\ a1 = 0 /\ t1 - a1 = told + 1 - Ahead /\ t1 \in Nat /\ k \in Nat
            /\ Ahead \in {0, 1} /\ told \in Nat
        BY <1>4, <1>11, <3>1
      <4> HIDE DEF c, told, a1, t1
      <4>2. t1 + k - a1 = told + (k + 1) - Ahead
        BY ONLY <4>1
      <4> QED BY <4>2 DEF a1, t1
    <3> HIDE DEF c, told, K
    <3> QED BY <1>5, <3>1, <3>2, <3>3
  <2> QED BY <1>1, <1>2, <2>1, <2>2 DEF ChannelInv
<1>12. CASE Ahead = 1
  <2>1. first.kind = "Connected"
    <3>1. Kind(1, Ahead, Coming) = "Connected"
      BY <1>12 DEF Kind
    <3> QED BY <1>5, <1>10, <3>1
  <2>2. shown.link = "Connecting" /\ shown.told = <<>> /\ shown.session = 0 /\ file.header
    BY <1>12 DEF Ahead, Updates, ShownInv
  <2>3. shown' = [link |-> "Connected", session |-> 1, heard |-> 0, told |-> <<>>]
    BY <1>3, <2>1 DEF Applied
  <2>4. shown'.link = "Connected" /\ shown'.session = 1 /\ shown'.heard = 0 /\ shown'.told = <<>>
    BY <2>3
  <2>5. told = 0
    BY <2>2, EmptyShape
  <2>6. Ahead' = 0 /\ Coming' = Coming /\ Behind' = Behind
    <3>1. Ahead' = 0
      BY <2>4 DEF Ahead
    <3>2. Coming' = Coming
      BY <1>1, <1>7, <2>2, <2>4 DEF Coming
    <3>3. Behind' = Behind
      BY <1>1, <2>2, <2>4 DEF Behind
    <3> QED BY <3>1, <3>2, <3>3
  <2>7. ShownInv'
    BY <1>1, <1>4, <1>6, <1>7, <2>2, <2>3, <2>4, <2>6, EmptyShape DEF ShownInv
  <2>8. ChannelInv'
    <3>1. Len(shown'.told) = 0
      BY <2>4, EmptyShape
    <3> HIDE DEF c, told
    <3> QED BY <1>4, <1>5, <1>11, <1>12, <2>5, <2>6, <3>1
  <2>9. Promise!Next
    BY <2>2, <2>4 DEF Promise!Next, Promise!Attach, Promise!NextTag
  <2> QED BY <1>8, <2>7, <2>8, <2>9 DEF Updates
<1>13. CASE Ahead = 0 /\ Coming > 0
  <2> DEFINE n == first.n
  <2>1. Kind(1, Ahead, Coming) = "Event"
    BY <1>4, <1>13 DEF Kind
  <2>2. /\ first.kind = "Event" /\ n \in K /\ first.event = story[n].heard
        /\ Ordinal(K, n) = told + 1
    <3>1. told + 1 - Ahead = told + 1
      BY <1>4, <1>13
    <3> QED BY <1>5, <1>10, <2>1, <3>1
  <2>3. shown.link = "Connected"
    <3>1. shown.link # "Disconnected"
      BY <1>13 DEF Updates, ShownInv
    <3>2. ASSUME shown.link = "Connecting"
          PROVE  FALSE
      <4>1. ~file.header
        BY <1>6, <1>13, <3>2 DEF Ahead
      <4>2. Len(story) = 0
        <5>1. Len(file.frames) = 0
          BY <4>1, EmptyShape DEF FileInv
        <5> QED BY <1>7, <5>1 DEF FileInv
      <4> QED BY <1>7, <2>2, <4>2
    <3> QED BY <3>1, <3>2 DEF Updates, ShownInv
  <2> DEFINE more == Append(shown.told, first.event)
  <2>4. shown' = [link |-> "Connected", session |-> shown.session, heard |-> n, told |-> more]
    <3>1. shown' = [shown EXCEPT !.heard = first.n, !.told = Append(@, first.event)]
      BY <1>3, <2>2 DEF Applied
    <3> HIDE DEF first
    <3> QED BY <1>9, <2>3, <3>1
  <2>5. /\ more \in Seq(Range(more)) /\ Len(more) = told + 1 /\ DOMAIN more = 1 .. told + 1
        /\ \A k \in 1 .. told : more[k] = shown.told[k]
        /\ more[told + 1] = first.event
    BY AppendShape DEF Updates, ShownInv
  <2> HIDE DEF more
  <2>6. shown'.link = "Connected" /\ shown'.heard = n /\ shown'.told = more
        /\ shown'.session = shown.session
    BY <2>4
  <2>7. Ahead' = 0 /\ Coming' = Coming - 1 /\ Behind' = Behind
    <3>1. Ahead' = 0
      BY <2>6 DEF Ahead
    <3>2. Coming' = Coming - 1
      <4>1. Coming' = Ordinal(K, SentFrames) - (told + 1)
        BY <1>1, <1>7, <2>5, <2>6 DEF Coming
      <4> HIDE DEF K, told
      <4> QED BY <1>4, <4>1
    <3>3. Behind' = Behind
      BY <1>1, <2>3, <2>6 DEF Behind
    <3> QED BY <3>1, <3>2, <3>3
  <2>8. ShownInv'
    <3>1. \A k \in 1 .. told + 1 : \E i \in K : Ordinal(K, i) = k /\ more[k] = story[i].heard
      <4>1. ASSUME NEW k \in 1 .. told
            PROVE  \E i \in K : Ordinal(K, i) = k /\ more[k] = story[i].heard
        <5>1. \E i \in K : Ordinal(K, i) = k /\ shown.told[k] = story[i].heard
          BY <1>4 DEF Updates, ShownInv
        <5> QED BY <2>5, <5>1
      <4>2. \E i \in K : Ordinal(K, i) = told + 1 /\ more[told + 1] = story[i].heard
        BY <2>2, <2>5
      <4> HIDE DEF told, K
      <4> QED BY <1>4, <4>1, <4>2
    <3>2. more # <<>>
      BY <1>4, <2>5, EmptyShape
    <3>3. Coming' >= 0
      BY <1>4, <1>13, <2>7
    <3>4. shown' = [link |-> shown'.link, session |-> shown'.session, heard |-> shown'.heard,
                    told |-> shown'.told]
      BY <2>4, <2>6
    <3>5. Waiting' = Waiting /\ file' = file /\ story' = story
      BY <1>1, <1>7
    <3>6. ~Waiting /\ file.header
      BY <2>3 DEF Updates, ShownInv
    <3> HIDE DEF n, told
    <3> QED BY <2>2, <2>5, <2>6, <3>1, <3>2, <3>3, <3>4, <3>5, <3>6 DEF ShownInv
  <2>9. ChannelInv'
    <3>1. Len(shown'.told) = told + 1
      BY <2>5, <2>6
    <3> HIDE DEF c, told
    <3> QED BY <1>4, <1>5, <1>11, <1>13, <2>7, <3>1
  <2>10. n > shown.heard /\ n \in 1 .. MaxFrames /\ shown.heard \in Int
    <3>1. n \in 1 .. Len(story) /\ Len(story) <= Len(file.frames) /\ Len(file.frames) <= MaxFrames
      BY <1>7, <2>2 DEF FileInv
    <3>2. Len(file.frames) \in Nat /\ MaxFrames \in Nat
      BY CaptureAssumption, SeqShape, SMT DEF ShapeInv
    <3>3. CASE shown.told = <<>>
      <4>1. shown.heard = 0
        BY <3>3 DEF Updates, ShownInv
      <4> HIDE DEF n
      <4> QED BY <1>7, <3>1, <3>2, <4>1
    <3>4. CASE shown.told # <<>>
      <4>1. shown.heard \in K /\ Ordinal(K, shown.heard) = told
        BY <3>4 DEF Updates, ShownInv
      <4>2. shown.heard \in Int /\ n \in Int
        BY <1>7, <2>2, <4>1
      <4>3. ~(n <= shown.heard)
        <5>1. CASE n <= shown.heard
          <6>1. Ordinal(K, n) <= Ordinal(K, shown.heard)
            BY <1>7, <4>2, <5>1, OrdinalGrows
          <6> HIDE DEF told, K, n
          <6> QED BY <1>4, <2>2, <4>1, <6>1
        <5> QED BY <5>1
      <4> HIDE DEF n
      <4> QED BY <1>7, <3>1, <3>2, <4>2, <4>3
    <3> QED BY <3>3, <3>4
  <2>11. Promise!Next
    <3> HIDE DEF n
    <3>1. Promise!Hear(n)
      BY <2>3, <2>6, <2>10 DEF Promise!Hear
    <3> QED BY <2>10, <3>1 DEF Promise!Next
  <2> QED BY <1>8, <2>8, <2>9, <2>11 DEF Updates
<1>14. CASE Ahead = 0 /\ Coming = 0
  <2>1. Behind = 1 /\ c = 1
    <3> HIDE DEF c
    <3> QED BY <1>2, <1>4, <1>5, <1>14
  <2>2. at = "done" /\ shown.link # "Disconnected"
    BY <2>1 DEF Behind
  <2>3. first.kind = "Disconnected"
    <3>1. Kind(1, Ahead, Coming) = "Disconnected"
      BY <1>14 DEF Kind
    <3> QED BY <1>5, <1>10, <3>1
  <2>4. shown' = [link |-> "Disconnected", session |-> shown.session, heard |-> shown.heard,
                  told |-> shown.told]
    <3>1. shown' = [shown EXCEPT !.link = "Disconnected"]
      BY <1>3, <2>3 DEF Applied
    <3> QED BY <1>9, <3>1
  <2>5. /\ shown'.link = "Disconnected" /\ shown'.session = shown.session
        /\ shown'.heard = shown.heard /\ shown'.told = shown.told
    BY <2>4
  <2>6. Ahead' = 0 /\ Coming' = 0 /\ Behind' = 0
    <3>1. Ahead' = 0 /\ Behind' = 0
      BY <2>5 DEF Ahead, Behind
    <3>2. Coming' = Coming
      BY <1>1, <1>7, <2>5 DEF Coming
    <3> QED BY <1>14, <3>1, <3>2
  <2>7. ShownInv'
    BY <1>1, <2>2, <2>4, <2>5, <2>6 DEF Updates, ShownInv
  <2>8. ChannelInv'
    <3>1. Len(channel') = 0 /\ DOMAIN channel' = {}
      BY <1>2, <2>1
    <3> QED BY <1>1, <1>2, <2>6, <3>1 DEF ChannelInv
  <2>9. Promise!Next
    BY <2>2, <2>5 DEF Promise!Next, Promise!Lose
  <2> QED BY <1>8, <2>7, <2>8, <2>9 DEF Updates
<1> QED BY <1>4, <1>12, <1>13, <1>14

\* Every step keeps what was sent in order.
LEMMA UpdatesStep ==
  ASSUME ShapeInv, FileInv, Updates, ShapeInv', FileInv', [Next]_vars
  PROVE  Updates'
<1>1. CASE Recording /\ UNCHANGED replayVars
  BY <1>1, RecordingStep
<1>2. CASE Open
  BY <1>2, OpenStep
<1>3. CASE Attach
  BY <1>3, AttachStep
<1>4. CASE ReadFrame \/ EndOfFile
  BY <1>4, ReadStep
<1>5. CASE Deliver
  BY <1>5, DeliverStep
<1>6. CASE Close
  BY <1>6, CloseStep
<1>7. CASE HangUp
  BY <1>7, HangUpStep
<1>8. CASE Apply
  BY <1>8, ApplyStep
<1>9. CASE Closed
  BY <1>9, ClosedStep
<1>10. CASE Quit
  BY <1>10, QuitStep
<1>11. CASE UNCHANGED vars
  <2>1. UNCHANGED <<at, file, story, reader, channel, hungUp, shown, ui>>
    BY <1>11 DEF vars, captureVars, replayVars
  <2>2. UNCHANGED <<Ahead, Coming, Behind>>
    BY <2>1 DEF Ahead, Coming, Behind, SentFrames, Waiting
  <2>3. ReaderInv'
    BY <2>1 DEF Updates, ReaderInv, Waiting, Fresh
  <2>4. ShownInv'
    BY <2>1, <2>2 DEF Updates, ShownInv, Waiting
  <2>5. ChannelInv'
    BY <2>1, <2>2 DEF Updates, ChannelInv, ReplayTellsTheSession
  <2> QED BY <2>3, <2>4, <2>5 DEF Updates
<1> QED
  BY <1>1, <1>2, <1>3, <1>4, <1>5, <1>6, <1>7, <1>8, <1>9, <1>10, <1>11
  DEF Next, Task, Stopped

\* Nobody but the UI's Apply changes what is shown.
LEMMA OnlyApplyShows ==
  ASSUME [Next]_vars, ~Apply
  PROVE  UNCHANGED shown
BY DEF Next, Recording, Task, Open, Attach, ReadFrame, EndOfFile, Deliver, Close, HangUp,
       Closed, Quit, Stopped, vars, replayVars

-----------------------------------------------------------------------------
(* The theorems. *)

\* What holds of the recording, the file and the updates together.
IInv == HearInv /\ ShapeInv /\ FileInv /\ Updates

\* The invariant holds of a recorder that has not dialled and a UI that shows nothing.
LEMMA IInvInit == Init => IInv
<1> SUFFICES ASSUME Init PROVE IInv
  OBVIOUS
<1>1. HearInv /\ ShapeInv /\ FileInv
  BY HearInvInit, ShapeInit
<1>2. Fresh
  BY DEF Init, CaptureInit, Fresh, Waiting
<1>3. Updates
  BY <1>1, <1>2, FreshIsGood DEF Updates
<1> QED BY <1>1, <1>3 DEF IInv

\* Every step keeps it.
LEMMA IInvStep == IInv /\ [Next]_vars => IInv'
<1> SUFFICES ASSUME IInv, [Next]_vars PROVE IInv'
  OBVIOUS
<1>1. HearInv'
  BY HearInvStep DEF IInv, ShapeInv
<1>2. ShapeInv' /\ FileInv'
  BY FileStep DEF IInv
<1>3. Updates'
  BY <1>2, UpdatesStep DEF IInv
<1> QED BY <1>1, <1>2, <1>3 DEF IInv

\* The invariant: what was heard is what was said, the file holds the frames of the
\* story, and what the UI has applied followed by what is in the channel is what the
\* reader has read of it.
THEOREM IInvHolds == Spec => []IInv
<1> QED BY IInvInit, IInvStep, PTL DEF Spec

\* What a monitor decodes is what the scheduler said (msg::decode), whatever two
\* versions the handshake brought together and whatever is said: no field is read in
\* the place of another and no job is unknown on one side only.
THEOREM HearsAsSaid == Spec => []HeardAsSaid
<1>1. IInv => HeardAsSaid
  BY DEF IInv, HearInv
<1> QED BY <1>1, IInvHolds, PTL

\* However many frames were recorded, and wherever the file was cut off or damaged, a
\* UI that sees the channel closed has applied the events of the recorded session up
\* to there, all of them and in order, and then its end (run_replay).
THEOREM ReplayTells == Spec => []ReplayTellsTheSession
<1>1. IInv => ReplayTellsTheSession
  BY DEF IInv, Updates, ChannelInv, ReplayTellsTheSession
<1> QED BY <1>1, IInvHolds, PTL

\* To the model behind the channel a replay is one session of a live connection:
\* announced, heard frame after frame and lost (enum Update).
THEOREM ReplayRefinesSession == Spec => ReplayKeepsThePromise
<1>1. Init => Promise!Init
  BY DEF Init, Promise!Init
<1>2. IInv /\ [Next]_vars => [Promise!Next]_(Promise!sessionVars)
  <2> SUFFICES ASSUME IInv, [Next]_vars
               PROVE  [Promise!Next]_(Promise!sessionVars)
    OBVIOUS
  <2>1. CASE Apply
    BY <2>1, ApplyStep DEF IInv
  <2>2. CASE ~Apply
    BY <2>2, OnlyApplyShows DEF Promise!sessionVars
  <2> QED BY <2>1, <2>2
<1> QED BY <1>1, <1>2, IInvHolds, PTL DEF Spec, ReplayKeepsThePromise, Promise!SessionSpec

-----------------------------------------------------------------------------
(* A replay ends: the step half of ReplayEnds. *)

\* How far the task is from its end, in steps, without the frames still to be read.
Rank ==
  CASE at = "attach" -> 4 [] at = "deliver" -> 3 [] at = "read" -> 2
    [] at \in {"finished", "failed"} -> 1 [] OTHER -> 0

\* Two steps at most for every frame of the story: to read it and to tell of it.
StepsLeft == 2 * (Len(story) - reader.frames) + Rank + (IF hungUp THEN 0 ELSE 1)

\* A step of the task leaves at most one update more for the UI to apply.
Measure == 2 * StepsLeft + Len(channel) + (IF ui = "running" THEN 1 ELSE 0)

Numbers ==
  /\ Len(story) \in Nat /\ reader.frames \in 0 .. Len(story)
  /\ Rank \in 0 .. 4 /\ Len(channel) \in Nat
  /\ StepsLeft \in Nat /\ Measure \in Nat

\* What the measure is a sum of.
LEMMA MeasureParts ==
  ASSUME ShapeInv, Updates
  PROVE  Numbers
<1>1. Len(story) \in Nat /\ reader.frames \in 0 .. Len(story)
  BY TellingIsFrames DEF Updates, ReaderInv
<1>2. Rank \in 0 .. 4
  BY DEF Rank
<1>3. Len(channel) \in Nat
  BY SeqShape DEF Updates, ChannelInv
<1>4. StepsLeft \in Nat
  <2> DEFINE left == Len(story) - reader.frames
             open == IF hungUp THEN 0 ELSE 1
  <2>1. left \in Nat
    BY <1>1
  <2>2. open \in {0, 1}
    OBVIOUS
  <2>3. StepsLeft = 2 * left + Rank + open
    BY DEF StepsLeft
  <2> HIDE DEF left, open
  <2> QED BY <1>2, <2>1, <2>2, <2>3
<1>5. Measure \in Nat
  <2> DEFINE up == IF ui = "running" THEN 1 ELSE 0
  <2>1. up \in {0, 1}
    OBVIOUS
  <2>2. Measure = 2 * StepsLeft + Len(channel) + up
    BY DEF Measure
  <2> HIDE DEF up
  <2> QED BY <1>3, <1>4, <2>1, <2>2
<1> QED BY <1>1, <1>2, <1>3, <1>4, <1>5 DEF Numbers

\* The same one step later.
LEMMA MeasurePartsNext == ShapeInv' /\ Updates' => Numbers'
<1>1. ShapeInv /\ Updates => Numbers
  BY MeasureParts
<1> QED BY <1>1, PTL

\* A step of the task that reads frames, or not, and goes on to a lower rank.
LEMMA TaskShortens ==
  ASSUME ShapeInv, Updates, ShapeInv', Updates', UNCHANGED <<story, hungUp>>,
         2 * reader.frames' - Rank' > 2 * reader.frames - Rank
  PROVE  StepsLeft' < StepsLeft
<1> DEFINE n == Len(story)
           r == reader.frames
           r1 == reader.frames'
           k == Rank
           k1 == Rank'
           open == IF hungUp THEN 0 ELSE 1
           s == StepsLeft
           s1 == StepsLeft'
<1>1. n \in Nat /\ r \in 0 .. n /\ k \in 0 .. 4 /\ s \in Nat
  BY MeasureParts DEF Numbers
<1>2. r1 \in 0 .. n /\ k1 \in 0 .. 4 /\ s1 \in Nat
  BY MeasurePartsNext DEF Numbers
<1>3. s = 2 * (n - r) + k + open
  BY DEF StepsLeft
<1>4. s1 = 2 * (n - r1) + k1 + open
  BY DEF StepsLeft
<1>5. open \in {0, 1} /\ 2 * r1 - k1 > 2 * r - k
  OBVIOUS
<1>6. s1 < s
  <2> HIDE DEF n, r, r1, k, k1, open, s, s1
  <2> QED BY <1>1, <1>2, <1>3, <1>4, <1>5
<1> QED BY <1>6

\* A shorter way for the task is worth the update it may leave behind.
LEMMA TaskStepShortens ==
  ASSUME ShapeInv, Updates, ShapeInv', Updates', UNCHANGED ui,
         StepsLeft' < StepsLeft, Len(channel') <= Len(channel) + 1
  PROVE  Measure' < Measure
<1> DEFINE c == Len(channel)
           c1 == Len(channel')
           s == StepsLeft
           s1 == StepsLeft'
           up == IF ui = "running" THEN 1 ELSE 0
           m == Measure
           m1 == Measure'
<1>1. c \in Nat /\ s \in Nat /\ c1 \in Nat /\ s1 \in Nat
  BY MeasureParts, MeasurePartsNext DEF Numbers
<1>2. m = 2 * s + c + up /\ m1 = 2 * s1 + c1 + up /\ up \in {0, 1}
  BY DEF Measure
<1>3. s1 < s /\ c1 <= c + 1
  OBVIOUS
<1>4. m1 < m
  <2> HIDE DEF c, c1, s, s1, up, m, m1
  <2> QED BY <1>1, <1>2, <1>3
<1> QED BY <1>4

\* What Send leaves in the channel.
LEMMA SendLength ==
  ASSUME ShapeInv, Updates, NEW u, Send(u)
  PROVE  Len(channel') <= Len(channel) + 1
<1>1. Len(channel) \in Nat /\ channel \in Seq(Range(channel))
  BY MeasureParts DEF Numbers, Updates, ChannelInv
<1>2. CASE ui = "running"
  <2>1. Len(channel') = Len(channel) + 1
    BY <1>1, <1>2, SendStep
  <2> QED BY <1>1, <2>1
<1>3. CASE ui # "running"
  BY <1>1, <1>3 DEF Send
<1> QED BY <1>2, <1>3

\* Every step of a replay leaves it nearer to its end.
LEMMA StepShortens ==
  ASSUME IInv, IInv', Playing, [Next]_vars, vars' # vars
  PROVE  Measure' < Measure
<1>0. ShapeInv /\ Updates /\ ShapeInv' /\ Updates' /\ FileInv
  BY DEF IInv
<1> DEFINE r == reader.frames
<1>1. r \in Nat
  BY <1>0, MeasureParts DEF Numbers
<1>2. CASE Attach
  <2>1. UNCHANGED <<story, reader, hungUp, ui>> /\ Rank = 4 /\ Rank' = 2
    BY <1>2 DEF Attach, record, Rank
  <2>2. Len(channel') <= Len(channel) + 1
    BY <1>0, <1>2, SendLength DEF Attach
  <2>3. StepsLeft' < StepsLeft
    BY <1>0, <1>1, <2>1, TaskShortens
  <2> QED BY <1>0, <2>1, <2>2, <2>3, TaskStepShortens
<1>3. CASE ReadFrame
  <2>1. UNCHANGED <<story, channel, hungUp, ui>> /\ Rank = 2
    BY <1>3 DEF ReadFrame, record, Rank
  <2>2. \/ reader' = reader /\ at' \in {"finished", "failed"}
        \/ reader.frames' = r + 1 /\ at' \in {"finished", "read", "deliver"}
    BY <1>3 DEF ReadFrame
  <2>3. 2 * reader.frames' - Rank' > 2 * r - Rank
    <3>1. CASE reader' = reader /\ at' \in {"finished", "failed"}
      <4>1. reader.frames' = r /\ Rank' = 1
        BY <3>1 DEF Rank
      <4> QED BY <1>1, <2>1, <4>1
    <3>2. CASE reader.frames' = r + 1 /\ at' \in {"finished", "read", "deliver"}
      <4>1. Rank' \in {1, 2, 3}
        BY <3>2 DEF Rank
      <4> QED BY <1>1, <2>1, <3>2, <4>1
    <3> QED BY <2>2, <3>1, <3>2
  <2>4. StepsLeft' < StepsLeft
    BY <1>0, <2>1, <2>3, TaskShortens
  <2>5. Len(channel') <= Len(channel) + 1
    BY <1>0, <2>1, MeasureParts DEF Numbers
  <2> QED BY <1>0, <2>1, <2>4, <2>5, TaskStepShortens
<1>4. CASE EndOfFile
  <2>1. UNCHANGED <<story, reader, channel, hungUp, ui>> /\ Rank = 2 /\ Rank' = 1
    BY <1>4 DEF EndOfFile, record, replayVars, Rank
  <2>2. StepsLeft' < StepsLeft
    BY <1>0, <1>1, <2>1, TaskShortens
  <2>3. Len(channel') <= Len(channel) + 1
    BY <1>0, <2>1, MeasureParts DEF Numbers
  <2> QED BY <1>0, <2>1, <2>2, <2>3, TaskStepShortens
<1>5. CASE Deliver
  <2>1. UNCHANGED <<story, reader, hungUp, ui>> /\ Rank = 3 /\ Rank' \in {0, 2}
    BY <1>5 DEF Deliver, record, Rank
  <2>2. Len(channel') <= Len(channel) + 1
    BY <1>0, <1>5, SendLength DEF Deliver
  <2>3. StepsLeft' < StepsLeft
    BY <1>0, <1>1, <2>1, TaskShortens
  <2> QED BY <1>0, <2>1, <2>2, <2>3, TaskStepShortens
<1>6. CASE Close
  <2>1. UNCHANGED <<story, reader, hungUp, ui>> /\ Rank = 1 /\ Rank' = 0
    BY <1>6 DEF Close, record, Rank
  <2>2. Len(channel') <= Len(channel) + 1
    BY <1>0, <1>6, SendLength DEF Close
  <2>3. StepsLeft' < StepsLeft
    BY <1>0, <1>1, <2>1, TaskShortens
  <2> QED BY <1>0, <2>1, <2>2, <2>3, TaskStepShortens
<1>7. CASE HangUp
  <2>1. UNCHANGED <<story, reader, at, channel, ui>> /\ ~hungUp /\ hungUp'
    BY <1>7 DEF HangUp, captureVars
  <2>2. StepsLeft' < StepsLeft
    <3> DEFINE n == Len(story)
               k == Rank
               left == 2 * (n - r) + k
    <3>1. left \in Int
      <4>1. n \in Nat /\ k \in 0 .. 4
        BY <1>0, MeasureParts DEF Numbers
      <4> HIDE DEF n, k, r
      <4> QED BY <1>1, <4>1
    <3>2. StepsLeft = left + 1 /\ StepsLeft' = left + 0
      BY <2>1 DEF StepsLeft, Rank
    <3> HIDE DEF left
    <3> QED BY <3>1, <3>2
  <2>3. Len(channel') <= Len(channel) + 1
    BY <1>0, <2>1, MeasureParts DEF Numbers
  <2> QED BY <1>0, <2>1, <2>2, <2>3, TaskStepShortens
<1>8. ASSUME Apply \/ Closed \/ Quit
      PROVE  Measure' < Measure
  <2>1. UNCHANGED <<at, story, reader, hungUp>> /\ ui = "running"
    BY <1>8 DEF Apply, Closed, Quit, captureVars
  <2>2. StepsLeft' = StepsLeft /\ StepsLeft \in Nat /\ Len(channel) \in Nat
    BY <1>0, <2>1, MeasureParts DEF Numbers, StepsLeft, Rank
  <2>3. Measure = 2 * StepsLeft + Len(channel) + 1
    BY <2>1 DEF Measure
  <2>4. CASE Apply
    <3>1. Len(channel') = Len(channel) - 1
      BY <1>0, <2>4, TailShape DEF Apply, Updates, ChannelInv
    <3>2. Measure' = 2 * StepsLeft' + Len(channel') + 1
      BY <2>1, <2>4 DEF Apply, Measure
    <3> HIDE DEF r
    <3> QED BY <2>2, <2>3, <3>1, <3>2
  <2>5. CASE Closed \/ Quit
    <3>1. Measure' = 2 * StepsLeft' + Len(channel') + 0
      BY <2>5 DEF Closed, Quit, Measure
    <3>2. Len(channel') \in Nat /\ Len(channel') <= Len(channel)
      BY <2>2, <2>5, EmptyShape DEF Closed, Quit
    <3> QED BY <2>2, <2>3, <3>1, <3>2
  <2> QED BY <1>8, <2>4, <2>5
<1>9. ~Open /\ ~Recording
  BY DEF Playing, Open, Recording, Shake, Create, Hear, BreakOff, Lost, Redial, Leave, Damage
<1> QED
  BY <1>2, <1>3, <1>4, <1>5, <1>6, <1>7, <1>8, <1>9 DEF Next, Task, Stopped

\* A measure that is a number and gets smaller with every step bounds a replay, however
\* the task, the UI and the user take turns (run_replay, the loop of main.rs): behind the
\* header come at most four steps for every frame and eleven for the rest.
THEOREM ReplayShortens ==
  Spec => /\ [](Playing => Measure \in Nat)
          /\ [](at = "attach" => Measure <= 4 * Len(story) + 11)
          /\ [][Playing => Measure' < Measure]_vars
<1>1. IInv => (Playing => Measure \in Nat)
  BY MeasureParts DEF Numbers, IInv
<1>2. IInv => (at = "attach" => Measure <= 4 * Len(story) + 11)
  <2> SUFFICES ASSUME IInv, at = "attach" PROVE Measure <= 4 * Len(story) + 11
    OBVIOUS
  <2> DEFINE n == Len(story)
             up == IF ui = "running" THEN 1 ELSE 0
  <2>1. n \in Nat /\ Fresh
    BY MeasureParts DEF Numbers, IInv, Updates, ReaderInv, Waiting
  <2>2. StepsLeft = 2 * (n - 0) + 4 + 1 /\ Len(channel) = 0
    BY <2>1, EmptyShape DEF StepsLeft, Rank, Fresh
  <2>3. Measure = 2 * StepsLeft + Len(channel) + up /\ up \in {0, 1}
    BY DEF Measure
  <2> HIDE DEF n, up
  <2>4. Measure <= 4 * n + 11
    BY <2>1, <2>2, <2>3
  <2> QED BY <2>4 DEF n
<1>3. IInv /\ IInv' /\ [Next]_vars => [Playing => Measure' < Measure]_vars
  BY StepShortens
<1> QED BY <1>1, <1>2, <1>3, IInvHolds, PTL DEF Spec

\* Where the task or the UI can go on by itself: the task reads, or has room to send, or
\* returns; the UI has an update to apply or sees the channel closed.
CanStep ==
  \/ at \in {"attach", "deliver", "finished", "failed"} /\ CanSend
  \/ at = "read" /\ (reader.pos + FrameHeader > file.size \/ FramesAt(reader.pos) # {})
  \/ at = "done" /\ ~hungUp
  \/ ui = "running" /\ (channel # <<>> \/ hungUp)

\* A replay never gets stuck before its end: neither is the task left waiting for room in
\* a channel the UI has emptied, nor between two frames of the file, nor the UI waiting on
\* a task that has returned.  With ReplayShortens and the fairness of FairSpec this is
\* what ReplayEnds rests on.
THEOREM ReplayNeverSticks ==
  Spec => [](Playing /\ ~(hungUp /\ ui # "running") => CanStep)
<1>1. IInv /\ Playing /\ ~(hungUp /\ ui # "running") => CanStep
  <2> SUFFICES ASSUME IInv, Playing, ~(hungUp /\ ui # "running")
               PROVE  CanStep
    OBVIOUS
  <2>1. CASE at \in {"attach", "deliver", "finished", "failed"}
    <3>1. CASE ui = "running" /\ channel = <<>>
      <4>1. Len(channel) = 0 /\ Capacity > 0
        BY <3>1, EmptyShape, ReplayAssumption
      <4> QED BY <2>1, <4>1, ReplayAssumption DEF CanSend, CanStep
    <3>2. CASE ~(ui = "running" /\ channel = <<>>)
      BY <2>1, <3>2 DEF CanSend, CanStep
    <3> QED BY <3>1, <3>2
  <2>2. CASE at = "read" /\ reader.pos + FrameHeader <= file.size
    <3>1. CASE reader.frames < Len(story)
      BY <2>2, <3>1, FrameAtReader DEF IInv, Updates, CanStep
    <3>2. CASE ~(reader.frames < Len(story))
      <4> DEFINE i == reader.frames + 1
      <4>1. /\ reader.frames \in Nat /\ Len(file.frames) \in Nat
            /\ DOMAIN file.frames = 1 .. Len(file.frames) /\ file.size \in Nat
            /\ reader.pos = BeginOf(file, i)
        BY MeasureParts, SeqShape DEF Numbers, IInv, Updates, ReaderInv, ShapeInv
      <4>2. i <= Len(file.frames)
        <5>1. CASE reader.pos = file.size
          BY <2>2, <4>1, <5>1 DEF FrameHeader
        <5> QED BY <4>1, <5>1 DEF BeginOf
      <4>3. i \in DOMAIN file.frames /\ file.frames[i].begin = reader.pos
        BY <4>1, <4>2 DEF BeginOf
      <4>4. file.frames[i].frame \in FramesAt(reader.pos)
        BY <4>3 DEF FramesAt
      <4> QED BY <2>2, <4>4 DEF CanStep
    <3> QED BY <3>1, <3>2
  <2>3. CASE at = "read" /\ ~(reader.pos + FrameHeader <= file.size)
    <3>1. reader.pos \in Nat /\ file.size \in Nat
      <4>1. BeginOf(file, reader.frames + 1) \in Nat /\ file.size \in Nat
        <5>1. reader.frames \in Nat /\ DOMAIN file.frames = 1 .. Len(file.frames)
          BY MeasureParts, SeqShape DEF Numbers, IInv, ShapeInv
        <5>2. CASE reader.frames + 1 <= Len(file.frames)
          <6>1. reader.frames + 1 \in DOMAIN file.frames
            BY <5>1, <5>2
          <6> QED BY <5>2, <6>1 DEF BeginOf, IInv, ShapeInv
        <5>3. CASE ~(reader.frames + 1 <= Len(file.frames))
          BY <5>3 DEF BeginOf, IInv, ShapeInv
        <5> QED BY <5>2, <5>3
      <4> QED BY <4>1 DEF IInv, Updates, ReaderInv
    <3> QED BY <2>3, <3>1 DEF CanStep, FrameHeader
  <2>4. CASE at = "done"
    BY <2>4 DEF CanStep
  <2> QED BY <2>1, <2>2, <2>3, <2>4 DEF Playing
<1> QED BY <1>1, IInvHolds, PTL

=============================================================================
