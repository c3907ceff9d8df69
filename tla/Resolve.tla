------------------------------- MODULE Resolve -------------------------------
(***************************************************************************)
(* How the command line and the environment become a discovery plan        *)
(* (discover::resolve in icecc-proto/src/discover.rs).                     *)
(*                                                                         *)
(* A scheduler argument is a sequence of pieces: ":" is a colon, PortPiece *)
(* text that parses as a port above 0, and any other piece text that does  *)
(* not (a name, a group of an address, a port that is 0 or out of range).  *)
(* Netnames that differ in case only are one netname.                      *)
(***************************************************************************)
EXTENDS Integers, Sequences, SequencesExt, FiniteSetsExt

CONSTANTS
  TextPieces,   \* pieces that are not a port
  PortPiece,    \* a piece that is a port
  DefaultPort,  \* DEFAULT_SCHEDULER_PORT
  Names,        \* netnames one may ask for
  EmptyName,    \* the empty netname
  DefaultName,  \* DEFAULT_NETNAME
  Unset,        \* an option or a variable that is not given
  MaxPieces     \* bound: pieces in an argument

ASSUME PieceAssumption ==
  /\ PortPiece \notin TextPieces /\ ":" \notin TextPieces \cup {PortPiece}
  /\ DefaultPort # PortPiece
  /\ MaxPieces \in Nat
ASSUME NameAssumption ==
  /\ EmptyName \notin Names \cup {DefaultName}
  /\ Unset \notin Names \cup {EmptyName}

Pieces == TextPieces \cup {PortPiece, ":"}

\* Two texts side by side are one text.
Specs ==
  {s \in BoundedSeq(Pieces, MaxPieces) :
     \A i \in 1 .. Len(s) - 1 : s[i] = ":" \/ s[i + 1] = ":"}

\* Option::None is no argument, not even an empty one.
ASSUME UnsetAssumption == Unset \notin Specs

Given == [cli : Specs \cup {Unset}, icecc : Specs \cup {Unset},
          use : Specs \cup {Unset},
          netname : Names \cup {EmptyName, Unset},
          icenet : Names \cup {EmptyName, Unset}]

\* Option::or_else: the first that is given at all, empty or not.
First(a, b) == IF a # Unset THEN a ELSE b

\* Mutant: the environment overrides the command line.
SpecOf_EnvFirst(g) == First(First(g.icecc, g.use), First(g.cli, <<>>))

\* No argument reads as an empty one: no host, no port.
SpecOf(g) == First(g.cli, First(g.icecc, First(g.use, <<>>)))

Colons(s) == {i \in DOMAIN s : s[i] = ":"}

\* rsplit_once(':')
HostOf(s) == IF Colons(s) = {} THEN s ELSE SubSeq(s, 1, Max(Colons(s)) - 1)

PortOf(s) ==
  LET p == SubSeq(s, Max(Colons(s)) + 1, Len(s))
  IN IF Colons(s) # {} /\ p = <<PortPiece>> THEN PortPiece ELSE DefaultPort

\* The empty name is filtered out only after a source was chosen.
NameOf(g) ==
  LET n == First(g.netname, g.icenet)
  IN IF n \in {Unset, EmptyName} THEN DefaultName ELSE n

\* enum Discovery
PlanOf(g) ==
  LET s == SpecOf(g)
  IN IF HostOf(s) = <<>>
     THEN [kind |-> "Broadcast", netname |-> NameOf(g), port |-> PortOf(s)]
     ELSE [kind |-> "Explicit", host |-> HostOf(s), port |-> PortOf(s)]

=============================================================================
