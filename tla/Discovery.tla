------------------------------ MODULE Discovery ------------------------------
(***************************************************************************)
(* Finding a scheduler (icecc-proto/src/discover.rs): the arguments become *)
(* a plan (module Resolve), and a plan without a host becomes a broadcast. *)
(* Answers come in any order until the deadline, some of them bogus, some  *)
(* for other networks, the same scheduler perhaps more than once over      *)
(* different interfaces, and the best one is kept; or the socket fails,    *)
(* and whatever was kept with it.                                          *)
(*                                                                         *)
(* An answer is what the reply's bytes are told apart by: the mark of its  *)
(* layout, whether its length is one of the known ones, the words a layout *)
(* reads, the netname it carries and the address it came from.             *)
(***************************************************************************)
EXTENDS Resolve

CONSTANTS
  Addresses,   \* where a reply may come from
  Loopback,    \* those that only mean this machine
  Versions,    \* protocol words a reply may carry
  StartTimes,  \* start times a reply may carry, u64
  Nobody       \* Option::None

Netnames == Names \cup {DefaultName}

Answer == [target : Addresses, protocol : Nat, start : Nat, netname : Netnames]

ASSUME AddressAssumption == Loopback \subseteq Addresses
ASSUME WordAssumption == Versions \subseteq Nat /\ StartTimes \subseteq Nat
ASSUME NobodyAssumption == Nobody \notin [target : Addresses, protocol : Nat, start : Nat,
                                           netname : Netnames]

VARIABLES
  args,   \* what was given where
  plan,   \* the plan, once resolved
  best,   \* the best answer so far
  heard,  \* history variable: every answer that was considered
  search  \* whether the search is "open", or how it ended: "ended", "failed"

vars == <<args, plan, best, heard, search>>

\* The three layouts get_broad_data knows, and anything else.
Marks == {"plus1", "plus2", "plus3", "other"}

Reply == [mark : Marks, knownLength : BOOLEAN, version : Versions,
          start : StartTimes, netname : Netnames, from : Addresses]

\* Before protocol 33 a reply carried neither version nor start time.
Version(r)   == IF r.mark = "plus1" THEN 32 ELSE r.version
StartTime(r) == IF r.mark = "plus1" THEN 0 ELSE r.start

\* Mutant: any version is taken at its word.
Valid_Trusting(r) == r.knownLength /\ r.mark # "other"

\* parse_answer returns Some
Valid(r) ==
  /\ r.knownLength
  /\ r.mark # "other"
  /\ Version(r) # 0 /\ Version(r) < 128

Parsed(r) == [target |-> r.from, protocol |-> Version(r), start |-> StartTime(r),
              netname |-> r.netname]

\* Mutant: the scheduler that started last wins.
Better_Youngest(a, b) ==
  \/ a.protocol > b.protocol
  \/ a.protocol = b.protocol /\ a.start > b.start
  \/ /\ a.protocol = b.protocol /\ a.start = b.start
     /\ b.target \in Loopback /\ a.target \notin Loopback

\* Highest protocol, then running longest, then an address others can use.
Better(a, b) ==
  \/ a.protocol > b.protocol
  \/ a.protocol = b.protocol /\ a.start < b.start
  \/ /\ a.protocol = b.protocol /\ a.start = b.start
     /\ b.target \in Loopback /\ a.target \notin Loopback

NoPlan == [kind |-> "none"]

Init ==
  /\ args \in Given
  /\ plan = NoPlan
  /\ best = Nobody /\ heard = {} /\ search = "open"

\* resolve, once, at start-up
Choose ==
  /\ plan = NoPlan
  /\ plan' = PlanOf(args)
  /\ UNCHANGED <<args, best, heard, search>>

Searching == plan.kind = "Broadcast" /\ search = "open"

\* One datagram.
Receive(r) ==
  /\ Searching
  /\ IF Valid(r) /\ r.netname = plan.netname
     THEN /\ heard' = heard \cup {Parsed(r)}
          /\ best' = IF best = Nobody THEN Parsed(r)
                     ELSE IF Better(Parsed(r), best) THEN Parsed(r) ELSE best
     ELSE UNCHANGED <<best, heard>>
  /\ UNCHANGED <<args, plan, search>>

\* The deadline passes; Ok(best) is returned.
Deadline == Searching /\ search' = "ended" /\ UNCHANGED <<args, plan, best, heard>>

\* There is no socket, no interface took the probe, or recv_from fails at any time: an
\* error is returned, and the best answer so far is not.
Fail ==
  /\ Searching
  /\ search' = "failed" /\ best' = Nobody
  /\ UNCHANGED <<args, plan, heard>>

Next == Choose \/ (\E r \in Reply : Receive(r)) \/ Deadline \/ Fail

Spec == Init /\ [][Next]_vars

-----------------------------------------------------------------------------
(* Properties. *)

\* The answers considered are answers, and the best is one of them.
TypeOK ==
  /\ heard \subseteq Answer
  /\ best \in heard \cup {Nobody}
  /\ search \in {"open", "ended", "failed"}

\* "Highest protocol wins; among equals, the one running longest", and of a
\* scheduler heard over two interfaces the address that is not loopback: in
\* whatever order the answers came, nothing that answered is preferred to the
\* one that was kept, and one was kept if any came before a search that did not fail.
BestAnswerWins ==
  search # "failed" /\ heard # {} =>
    /\ best # Nobody
    /\ \A a \in heard :
         /\ a.protocol <= best.protocol
         /\ a.protocol = best.protocol => a.start >= best.start
         /\ a.protocol = best.protocol /\ a.start = best.start
              /\ best.target \in Loopback => a.target \in Loopback

\* Who wins a search is a scheduler of the network the arguments ask for, with a
\* version a scheduler can have: "upstream rejects these outright rather than
\* trusting a bogus reply".
NoBogusWinner ==
  best # Nobody =>
    /\ best.protocol \in 1 .. 127
    /\ plan.kind = "Broadcast" /\ best.netname = plan.netname

Resolved == plan # NoPlan

\* The argument that counts: "an explicit argument wins, then $ICECC_SCHEDULER,
\* then $USE_SCHEDULER".
Winning ==
  CHOOSE s \in Specs :
    \/ s = args.cli
    \/ args.cli = Unset /\ s = args.icecc
    \/ args.cli = Unset /\ args.icecc = Unset /\ s = args.use
    \/ args.cli = Unset /\ args.icecc = Unset /\ args.use = Unset /\ s = <<>>

\* A broadcast always asks for somebody: never for the empty netname, and for
\* the one on the command line whenever it is not empty.
BroadcastHasName ==
  Resolved /\ plan.kind = "Broadcast" =>
    /\ plan.netname \in Netnames
    /\ args.netname \in Names => plan.netname = args.netname
    /\ args.netname = EmptyName => plan.netname = DefaultName

\* "A value of the form host:port sets both; a bare :port means broadcast, but on
\* this port": what the winning argument says, in every form it documents, is in
\* the plan, and the other two sources leave no trace; and a network is searched by
\* the name that was asked for.
PlanFollowsArgument ==
  Resolved =>
    LET s == Winning
    IN /\ Len(s) = 1 /\ s[1] # ":" =>
            plan = [kind |-> "Explicit", host |-> s, port |-> DefaultPort]
       /\ Len(s) = 3 /\ s[1] # ":" /\ s[3] # ":" =>
            /\ plan.kind = "Explicit" /\ plan.host = <<s[1]>>
            /\ plan.port = IF s[3] = PortPiece THEN PortPiece ELSE DefaultPort
       /\ Len(s) = 2 /\ s[1] = ":" /\ s[2] # ":" =>
            /\ plan.kind = "Broadcast"
            /\ plan.port = IF s[2] = PortPiece THEN PortPiece ELSE DefaultPort
       /\ BroadcastHasName

\* "rfind, so an IPv6 literal without a port is not split apart".  A literal
\* ends in a group or in "::"; one whose last group is a number in the range of
\* ports is one such.
Ipv6LiteralStaysWhole ==
  Resolved =>
    LET s == Winning
    IN Cardinality(Colons(s)) >= 2 /\ s[1] # ":" /\ s[2] = ":" /\ s[3] = ":" =>
         plan = [kind |-> "Explicit", host |-> s, port |-> DefaultPort]

=============================================================================
