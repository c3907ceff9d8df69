--------------------------- MODULE DiscoveryProofs ---------------------------
(***************************************************************************)
(* The best answer wins for every set of addresses, versions and start     *)
(* times and every order of answers, and a broadcast asks for a name for   *)
(* whatever was given where.                                               *)
(***************************************************************************)
EXTENDS Discovery, TLAPS

USE AddressAssumption, WordAssumption, NobodyAssumption

\* What parse_answer lets through is an answer with a version a scheduler has.
LEMMA ParsedType ==
  ASSUME NEW r \in Reply, Valid(r)
  PROVE  /\ Parsed(r) \in Answer
         /\ Parsed(r).protocol \in 1 .. 127
         /\ Parsed(r).netname = r.netname
<1>1. /\ Version(r) \in Nat /\ StartTime(r) \in Nat
      /\ r.from \in Addresses /\ r.netname \in Netnames
  BY DEF Reply, Version, StartTime
<1>2. Version(r) \in 1 .. 127
  BY <1>1 DEF Valid
<1>3. QED
  BY <1>1, <1>2 DEF Parsed, Answer

\* The preference is a strict order: what is not preferred to the old best is
\* not preferred to a better one either.
LEMMA BetterOrder ==
  ASSUME NEW a \in Answer, NEW b \in Answer, NEW c \in Answer,
         ~Better(a, b), Better(c, b)
  PROVE  ~Better(a, c) /\ ~Better(c, c) /\ ~Better(b, c)
  BY DEF Better, Answer

\* The heart of BestAnswerWins: nothing heard is preferred to what was kept.
Undefeated ==
  search # "failed" =>
    /\ heard # {} => best # Nobody
    /\ \A a \in heard : ~Better(a, best)

\* With it, what the order of answers leaves alone.
Inv ==
  /\ TypeOK
  /\ Undefeated
  /\ \A a \in heard : a.protocol \in 1 .. 127 /\ a.netname = plan.netname
  /\ heard # {} => plan.kind = "Broadcast"

\* Nothing is planned or heard at first.
LEMMA InvInit == Init => Inv
  BY DEF Init, NoPlan, Inv, TypeOK, Undefeated

\* Choosing a plan, a reply, the deadline and a failure keep the best answer.
LEMMA InvNext ==
  ASSUME Inv, [Next]_vars
  PROVE  Inv'
<1>1. ASSUME NEW r \in Reply, Receive(r), Valid(r), r.netname = plan.netname
      PROVE  Inv'
  <2> DEFINE p == Parsed(r)
  <2>1. p \in Answer /\ p.protocol \in 1 .. 127 /\ p.netname = plan.netname
    BY <1>1, ParsedType
  <2> HIDE DEF p
  <2>2. /\ heard' = heard \cup {p} /\ search' = search /\ plan' = plan
        /\ plan.kind = "Broadcast" /\ search = "open"
    BY <1>1 DEF Receive, Searching, p
  <2>3. heard \subseteq Answer /\ Nobody \notin Answer
    BY DEF Inv, TypeOK, Answer
  <2>4. ~Better(p, p)
    BY <2>1 DEF Better, Answer
  <2>5. CASE best = Nobody
    <3>1. best' = p /\ heard = {}
      BY <1>1, <2>2, <2>5 DEF Receive, p, Inv, Undefeated
    <3>2. QED
      BY <2>1, <2>2, <2>3, <2>4, <3>1 DEF Inv, TypeOK, Undefeated
  <2>6. CASE best # Nobody /\ Better(p, best)
    <3>1. best' = p
      BY <1>1, <2>6 DEF Receive, p
    <3>2. best \in Answer
      BY <2>3, <2>6 DEF Inv, TypeOK
    <3>3. \A a \in heard : ~Better(a, p)
      BY <2>1, <2>2, <2>3, <2>6, <3>2, BetterOrder DEF Inv, Undefeated
    <3>4. QED
      BY <2>1, <2>2, <2>3, <2>4, <3>1, <3>3 DEF Inv, TypeOK, Undefeated
  <2>7. CASE best # Nobody /\ ~Better(p, best)
    <3>1. best' = best
      BY <1>1, <2>7 DEF Receive, p
    <3>2. QED
      BY <2>1, <2>2, <2>3, <2>7, <3>1 DEF Inv, TypeOK, Undefeated
  <2>8. QED
    BY <2>5, <2>6, <2>7
<1>2. ASSUME NEW r \in Reply, Receive(r), ~(Valid(r) /\ r.netname = plan.netname)
      PROVE  Inv'
  BY <1>2 DEF Receive, Inv, TypeOK, Undefeated
<1>3. CASE Deadline
  BY <1>3 DEF Deadline, Searching, Inv, TypeOK, Undefeated
<1>4. CASE Fail
  BY <1>4 DEF Fail, Inv, TypeOK, Undefeated
<1>5. CASE UNCHANGED vars
  BY <1>5 DEF vars, Inv, TypeOK, Undefeated
<1>6. CASE Choose
  <2>1. heard = {}
    BY <1>6 DEF Choose, NoPlan, Inv
  <2>2. QED
    BY <1>6, <2>1 DEF Choose, Inv, TypeOK, Undefeated
<1>7. QED
  BY <1>1, <1>2, <1>3, <1>4, <1>5, <1>6 DEF Next

\* The answer kept is never one that another answer heard defeats.
THEOREM InvAlways == Spec => []Inv
  BY InvInit, InvNext, PTL DEF Spec

\* Whatever order the answers come in, the one kept has the highest protocol,
\* among those the earliest start, and a loopback address only if nothing better
\* was heard of that scheduler.
THEOREM TheBestAnswerWins == Spec => []BestAnswerWins
<1>1. Inv => BestAnswerWins
  <2> SUFFICES ASSUME Inv, search # "failed", heard # {} PROVE BestAnswerWins
    BY DEF BestAnswerWins
  <2>1. ASSUME NEW a \in heard
        PROVE  /\ a.protocol <= best.protocol
               /\ a.protocol = best.protocol => a.start >= best.start
               /\ a.protocol = best.protocol /\ a.start = best.start
                    /\ best.target \in Loopback => a.target \in Loopback
    <3>1. best \in Answer /\ a \in Answer /\ ~Better(a, best)
      BY <2>1 DEF Inv, TypeOK, Undefeated
    <3>2. QED
      BY <3>1 DEF Better, Answer
  <2>2. QED
    BY <2>1 DEF BestAnswerWins, Inv, Undefeated
<1>2. QED
  BY <1>1, InvAlways, PTL

\* A bogus version, or a scheduler of another network, never wins a search.
THEOREM BogusNeverWins == Spec => []NoBogusWinner
<1>1. Inv => NoBogusWinner
  BY DEF Inv, TypeOK, NoBogusWinner
<1>2. QED
  BY <1>1, InvAlways, PTL

\* The plan, once there is one, is the plan of the arguments.
PlanInv == args \in Given /\ (plan # NoPlan => plan = PlanOf(args))

\* A plan is made once and is never changed.
LEMMA PlanInvAlways == Spec => []PlanInv
<1>1. Init => PlanInv
  BY DEF Init, PlanInv
<1>2. PlanInv /\ [Next]_vars => PlanInv'
  BY DEF PlanInv, Next, Choose, Receive, Deadline, Fail, vars
<1>3. QED
  BY <1>1, <1>2, PTL DEF Spec

\* Whatever is given where, a broadcast asks for a network by name, and for the
\* one on the command line if that is a name.
THEOREM BroadcastsByName == Spec => []BroadcastHasName
<1>1. PlanInv => BroadcastHasName
  <2> SUFFICES ASSUME PlanInv, Resolved, plan.kind = "Broadcast"
               PROVE  /\ plan.netname \in Netnames
                      /\ args.netname \in Names => plan.netname = args.netname
                      /\ args.netname = EmptyName => plan.netname = DefaultName
    BY DEF BroadcastHasName
  <2>1. plan.netname = NameOf(args)
    BY DEF PlanInv, Resolved, PlanOf
  <2>2. /\ args.netname \in Names \cup {EmptyName, Unset}
        /\ args.icenet \in Names \cup {EmptyName, Unset}
    BY DEF PlanInv, Given
  <2>3. QED
    BY <2>1, <2>2, NameAssumption DEF NameOf, First, Netnames
<1>2. QED
  BY <1>1, PlanInvAlways, PTL

-----------------------------------------------------------------------------
(* The argument that counts. *)

\* What is resolved is the first argument that is given.
LEMMA WinningIsResolved ==
  ASSUME args \in Given
  PROVE  Winning = SpecOf(args) /\ Winning \in Specs
<1> DEFINE Counts(s) ==
             \/ s = args.cli
             \/ args.cli = Unset /\ s = args.icecc
             \/ args.cli = Unset /\ args.icecc = Unset /\ s = args.use
             \/ args.cli = Unset /\ args.icecc = Unset /\ args.use = Unset /\ s = <<>>
<1>1. /\ args.cli \in Specs \cup {Unset} /\ args.icecc \in Specs \cup {Unset}
      /\ args.use \in Specs \cup {Unset}
  BY DEF Given
<1>2. <<>> \in Specs
  <2>1. <<>> \in BoundedSeq(Pieces, MaxPieces)
    BY PieceAssumption DEF BoundedSeq, SeqOf
  <2> QED BY <2>1 DEF Specs
<1>3. SpecOf(args) \in Specs /\ Counts(SpecOf(args))
  BY <1>1, <1>2 DEF SpecOf, First
<1>4. ASSUME NEW s \in Specs, Counts(s)
      PROVE  s = SpecOf(args)
  BY <1>1, <1>4, UnsetAssumption DEF SpecOf, First
<1>5. Winning = CHOOSE s \in Specs : Counts(s)
  BY DEF Winning
<1> HIDE DEF Counts
<1>6. Winning \in Specs /\ Counts(Winning)
  BY <1>3, <1>5
<1> QED BY <1>4, <1>6

\* An argument is a short sequence without two texts side by side.
LEMMA SpecShape ==
  ASSUME NEW s \in Specs
  PROVE  /\ s \in Seq(Pieces)
         /\ \A i \in 1 .. Len(s) - 1 : s[i] = ":" \/ s[i + 1] = ":"
  BY DEF Specs, BoundedSeq, SeqOf

\* A set of one number.
LEMMA OnlyOne == ASSUME NEW n \in Int PROVE Max({n}) = n
  BY DEF Max

\* A piece of a sequence, and no piece.
LEMMA PieceOf ==
  ASSUME NEW S, NEW s \in Seq(S), NEW n \in 1 .. Len(s)
  PROVE  SubSeq(s, n, n) = <<s[n]>> /\ SubSeq(s, n, n - 1) = <<>>
<1> DEFINE t == SubSeq(s, n, n)
           u == SubSeq(s, n, n - 1)
<1>1. t \in Seq(S) /\ Len(t) = 1 /\ t[1] = s[n]
  OBVIOUS
<1>2. u \in Seq(S) /\ Len(u) = 0
  OBVIOUS
<1> HIDE DEF t, u
<1>3. t = <<s[n]>>
  BY <1>1
<1>4. u = <<>>
  BY <1>2
<1> QED BY <1>3, <1>4 DEF t, u

\* What the documented forms of an argument are split into.
LEMMA FormsAreSplit ==
  ASSUME NEW s \in Specs
  PROVE  /\ Len(s) = 1 /\ s[1] # ":" => HostOf(s) = s /\ PortOf(s) = DefaultPort /\ s # <<>>
         /\ Len(s) = 3 /\ s[1] # ":" /\ s[3] # ":" =>
              /\ HostOf(s) = <<s[1]>> /\ HostOf(s) # <<>>
              /\ PortOf(s) = IF s[3] = PortPiece THEN PortPiece ELSE DefaultPort
         /\ Len(s) = 2 /\ s[1] = ":" /\ s[2] # ":" =>
              /\ HostOf(s) = <<>>
              /\ PortOf(s) = IF s[2] = PortPiece THEN PortPiece ELSE DefaultPort
<1>1. s \in Seq(Pieces) /\ \A i \in 1 .. Len(s) - 1 : s[i] = ":" \/ s[i + 1] = ":"
  BY SpecShape
<1>2. CASE Len(s) = 1 /\ s[1] # ":"
  <2>1. Colons(s) = {}
    BY <1>1, <1>2 DEF Colons
  <2> QED BY <1>1, <1>2, <2>1 DEF HostOf, PortOf
<1>3. CASE Len(s) = 3 /\ s[1] # ":" /\ s[3] # ":"
  <2>1. Colons(s) = {2}
    BY <1>1, <1>3 DEF Colons
  <2>2. Max(Colons(s)) = 2
    BY <2>1, OnlyOne
  <2>3. SubSeq(s, 1, 1) = <<s[1]>> /\ SubSeq(s, 3, 3) = <<s[3]>>
    BY <1>1, <1>3, PieceOf
  <2>4. HostOf(s) = <<s[1]>>
    BY <2>1, <2>2, <2>3 DEF HostOf
  <2>5. PortOf(s) = IF <<s[3]>> = <<PortPiece>> THEN PortPiece ELSE DefaultPort
    BY <1>3, <2>1, <2>2, <2>3 DEF PortOf
  <2> QED BY <1>3, <2>4, <2>5
<1>4. CASE Len(s) = 2 /\ s[1] = ":" /\ s[2] # ":"
  <2>1. Colons(s) = {1}
    BY <1>1, <1>4 DEF Colons
  <2>2. Max(Colons(s)) = 1
    BY <2>1, OnlyOne
  <2>3. SubSeq(s, 1, 1 - 1) = <<>> /\ SubSeq(s, 2, 2) = <<s[2]>>
    BY <1>1, <1>4, PieceOf
  <2>4. HostOf(s) = <<>>
    BY <2>1, <2>2, <2>3 DEF HostOf
  <2>5. PortOf(s) = IF <<s[2]>> = <<PortPiece>> THEN PortPiece ELSE DefaultPort
    BY <1>4, <2>1, <2>2, <2>3 DEF PortOf
  <2> QED BY <1>4, <2>4, <2>5
<1> QED BY <1>2, <1>3, <1>4

\* Whatever is given where: the plan is what the first argument that is given says,
\* in every form it documents, and nothing of the others is in it (resolve).
THEOREM PlanIsTheArguments == Spec => []PlanFollowsArgument
<1>1. PlanInv /\ BroadcastHasName => PlanFollowsArgument
  <2> SUFFICES ASSUME PlanInv, BroadcastHasName, Resolved PROVE PlanFollowsArgument
    BY DEF PlanFollowsArgument
  <2> DEFINE s == Winning
  <2>1. /\ s \in Specs
        /\ plan = IF HostOf(s) = <<>>
                  THEN [kind |-> "Broadcast", netname |-> NameOf(args), port |-> PortOf(s)]
                  ELSE [kind |-> "Explicit", host |-> HostOf(s), port |-> PortOf(s)]
    BY WinningIsResolved DEF PlanInv, Resolved, PlanOf
  <2> HIDE DEF s
  <2>2. Len(s) = 1 /\ s[1] # ":" => plan = [kind |-> "Explicit", host |-> s, port |-> DefaultPort]
    BY <2>1, FormsAreSplit
  <2>3. Len(s) = 3 /\ s[1] # ":" /\ s[3] # ":" =>
          /\ plan.kind = "Explicit" /\ plan.host = <<s[1]>>
          /\ plan.port = IF s[3] = PortPiece THEN PortPiece ELSE DefaultPort
    BY <2>1, FormsAreSplit
  <2>4. Len(s) = 2 /\ s[1] = ":" /\ s[2] # ":" =>
          /\ plan.kind = "Broadcast"
          /\ plan.port = IF s[2] = PortPiece THEN PortPiece ELSE DefaultPort
    BY <2>1, FormsAreSplit
  <2> QED BY <2>2, <2>3, <2>4 DEF PlanFollowsArgument, s
<1> QED BY <1>1, PlanInvAlways, BroadcastsByName, PTL

=============================================================================
