---------------------------- MODULE ClusterProofs ----------------------------
(***************************************************************************)
(* What holds of the cluster model for every set of ids, every timeout and *)
(* every behaviour of the remote.                                          *)
(***************************************************************************)
EXTENDS Cluster, Sums

USE IdsAssumption, HostsAssumption, TargetsAssumption, BoundsAssumption

-----------------------------------------------------------------------------
(* Maps keep their types. *)

\* Inserting a value of the right type keeps a map a map.
LEMMA PutType ==
  ASSUME NEW K, NEW V, NEW f, DOMAIN f \subseteq K, f \in [DOMAIN f -> V],
         NEW k \in K, NEW v \in V
  PROVE  /\ DOMAIN Put(f, k, v) = DOMAIN f \cup {k}
         /\ DOMAIN Put(f, k, v) \subseteq K
         /\ Put(f, k, v) \in [DOMAIN Put(f, k, v) -> V]
  BY DEF Put

\* Removing keys keeps a map a map and the values of the other keys.
LEMMA DropType ==
  ASSUME NEW K, NEW V, NEW f, DOMAIN f \subseteq K, f \in [DOMAIN f -> V], NEW S
  PROVE  /\ DOMAIN Drop(f, S) = DOMAIN f \ S
         /\ DOMAIN Drop(f, S) \subseteq K
         /\ Drop(f, S) \in [DOMAIN Drop(f, S) -> V]
         /\ \A x \in DOMAIN Drop(f, S) : Drop(f, S)[x] = f[x]
  BY DEF Drop, Restrict

\* Updating a row that may not exist adds none.
LEMMA SetNodeType ==
  ASSUME NEW ns, DOMAIN ns \subseteq Hosts, ns \in [DOMAIN ns -> Node],
         NEW h, NEW n, h \in DOMAIN ns => n \in Node
  PROVE  /\ DOMAIN SetNode(ns, h, n) = DOMAIN ns
         /\ SetNode(ns, h, n) \in [DOMAIN ns -> Node]
  BY DEF SetNode

\* A bounded queue of numbers stays one.
LEMMA PushType ==
  ASSUME NEW s \in Seq(Nat), NEW x \in Nat, NEW size \in Nat \ {0}
  PROVE  Push(s, x, size) \in Seq(Nat)
<1>1. CASE Len(s) = size
  <2>1. s # <<>>
    BY <1>1
  <2>2. Tail(s) \in Seq(Nat)
    BY <2>1
  <2>3. QED
    BY <1>1, <2>2 DEF Push
<1>2. CASE Len(s) # size
  BY <1>2 DEF Push
<1>3. QED
  BY <1>1, <1>2

\* What an event does to a node leaves a node.
LEMMA NodeOps ==
  ASSUME NEW n \in Node, NEW j \in JobIds
  PROVE  /\ TakeJob(n, j) \in Node
         /\ TakeLocal(n, j) \in Node
         /\ CreditClient(n) \in Node
         /\ ReleaseJob(n, j) \in Node
         /\ ReleaseLocal(n, j) \in Node
         /\ CountFile(n) \in Node
         /\ Measure(n) \in Node
         /\ Idled(n) \in Node
<1> n.jobsIn + 1 \in Nat /\ n.jobsOut + 1 \in Nat /\ n.jobsLocal + 1 \in Nat
      /\ n.total + 1 \in Nat
  BY DEF Node
<1>1. /\ TakeJob(n, j) \in Node
      /\ TakeLocal(n, j) \in Node
      /\ CreditClient(n) \in Node
  BY DEF Node, TakeJob, TakeLocal, CreditClient
<1>2. /\ ReleaseJob(n, j) \in Node
      /\ ReleaseLocal(n, j) \in Node
      /\ Idled(n) \in Node
  BY DEF Node, ReleaseJob, ReleaseLocal, Idled
<1>3. CountFile(n) \in Node
  BY DEF Node, CountFile
<1>4. Measure(n) \in Node
  <2>1. n.samples < ThroughputSamples => n.samples + 1 \in 0 .. ThroughputSamples
    <3> DEFINE s == n.samples
    <3>1. s \in 0 .. ThroughputSamples
      BY DEF Node
    <3> HIDE DEF s
    <3>2. s < ThroughputSamples => s + 1 \in 0 .. ThroughputSamples
      BY ONLY <3>1, BoundsAssumption
    <3> QED BY <3>2 DEF s
  <2>2. QED
    BY <2>1 DEF Node, Measure
<1>5. QED
  BY <1>1, <1>2, <1>3, <1>4

\* So does what a tick does to it.
LEMMA TickNodeType ==
  ASSUME NEW n \in Node, NEW h, NEW lost
  PROVE  TickNode(Freed(n, h, lost)) \in Node
<1> DEFINE m == Freed(n, h, lost)
<1>1. m \in Node
  BY DEF Freed, Node
<1>2. Minus(m.total, m.totalAtLastTick) \in Nat
  BY <1>1 DEF Minus, Node
<1>3. Push(m.perTick, Minus(m.total, m.totalAtLastTick), CompletionWindow) \in Seq(Nat)
  BY <1>1, <1>2, PushType DEF Node
<1>4. QED
  BY <1>1, <1>3 DEF TickNode, Node

\* Aging a job leaves a job.
LEMMA AgedType ==
  ASSUME NEW js, DOMAIN js \subseteq JobIds, js \in [DOMAIN js -> Job], NEW d \in Nat
  PROVE  /\ DOMAIN Aged(js, d) = DOMAIN js
         /\ Aged(js, d) \in [DOMAIN js -> Job]
         /\ \A j \in DOMAIN js : /\ Aged(js, d)[j].host = js[j].host
                                 /\ Aged(js, d)[j].state = js[j].state
<1>1. \A j \in DOMAIN js : Older(js[j].age, d) \in Nat
  BY DEF Older, Job
<1>2. QED
  BY <1>1 DEF Aged, Job

\* Jobs and rows in use are finitely many.
LEMMA FiniteState ==
  ASSUME TypeOK
  PROVE  /\ IsFiniteSet(DOMAIN jobs)
         /\ IsFiniteSet(DOMAIN nodes)
  BY FS_Subset DEF TypeOK

\* A subset of the jobs has a natural number of elements.
LEMMA CountJobs ==
  ASSUME NEW S \in SUBSET JobIds
  PROVE  IsFiniteSet(S) /\ Cardinality(S) \in Nat
  BY FS_Subset, FS_CardinalityType

-----------------------------------------------------------------------------
(* Type correctness. *)

\* The model of a cluster starts empty, and with its type.
LEMMA TypeInit == Init => TypeOK
  BY DEF Init, TypeOK, Nothing, NoTotals, Totals, Connection, LinkState, NoSample,
         NoBuild, BuildRun, BuildPhase, NoLedger

\* Connecting, being connected and losing the scheduler keep the type.
LEMMA TypeSession ==
  ASSUME TypeOK, Session
  PROVE  TypeOK'
<1>1. CASE Connecting
  BY <1>1 DEF TypeOK, Connecting, Connection, LinkState, historyVars, buildVars
<1>2. ASSUME NEW t \in Targets, Connected(t) PROVE TypeOK'
  BY <1>2 DEF TypeOK, Connected, Reset, Connection, LinkState, Nothing, NoTotals,
     Totals, NoSample, NoBuild, BuildRun, BuildPhase, NoLedger
<1>3. CASE Disconnected
  <2>1. nodes' \in [DOMAIN nodes -> Node] /\ DOMAIN nodes' = DOMAIN nodes
    <3>1. \A h \in DOMAIN nodes : Idled(nodes[h]) \in Node
      <4>1. \A n \in Node : Idled(n) \in Node
        BY DEF Idled, Node
      <4> QED BY <4>1 DEF TypeOK
    <3>2. nodes' = [h \in DOMAIN nodes |-> Idled(nodes[h])]
      BY <1>3 DEF Disconnected
    <3> QED BY ONLY <3>1, <3>2
  <2>2. Cardinality(DOMAIN jobs) \in Nat
    BY CountJobs DEF TypeOK
  <2>3. ledger' \in [told : Nat, dropped : Nat, uncredited : Nat]
    <3> DEFINE kept == Cardinality(DOMAIN jobs)
    <3>1. ledger \in [told : Nat, dropped : Nat, uncredited : Nat]
          /\ ledger' = [ledger EXCEPT !.dropped = @ + kept]
      BY <1>3 DEF Disconnected, TypeOK
    <3>2. kept \in Nat
      BY <2>2
    <3> HIDE DEF kept
    <3> QED BY ONLY <3>1, <3>2
  <2>4. QED
    BY <1>3, <2>1, <2>3 DEF TypeOK, Disconnected, Connection, LinkState, Nothing,
       historyVars, buildVars
<1>4. QED
  BY <1>1, <1>2, <1>3 DEF Session

\* What an event may change, typed.
JobsOK   == DOMAIN jobs \subseteq JobIds /\ jobs \in [DOMAIN jobs -> Job]
NodesOK  == DOMAIN nodes \subseteq Hosts /\ nodes \in [DOMAIN nodes -> Node]
LedgerOK == ledger \in [told : Nat, dropped : Nat, uncredited : Nat]

\* An event that leaves the link and the history alone keeps the type, if what it
\* changes has its own.
LEMMA TypeStep ==
  ASSUME TypeOK, JobsOK', NodesOK', totals' \in Totals, LedgerOK',
         unknown' \subseteq MsgTypes,
         UNCHANGED <<linkVars, historyVars, buildVars>>
  PROVE  TypeOK'
<1>1. UNCHANGED <<connection, firstTarget, rate, sample, lastCompleted, build, lastBuild>>
  BY DEF linkVars, historyVars, buildVars
<1>2. QED
  BY <1>1 DEF TypeOK, JobsOK, NodesOK, LedgerOK

\* The maps, one by one.
LEMMA JobMap ==
  ASSUME JobsOK
  PROVE  /\ \A j \in JobIds, r \in Job : jobs' = Put(jobs, j, r) => JobsOK'
         /\ \A S : jobs' = Drop(jobs, S) => JobsOK'
<1>1. ASSUME NEW j \in JobIds, NEW r \in Job, jobs' = Put(jobs, j, r)
      PROVE  JobsOK'
  <2>1. /\ DOMAIN Put(jobs, j, r) \subseteq JobIds
        /\ Put(jobs, j, r) \in [DOMAIN Put(jobs, j, r) -> Job]
    BY PutType DEF JobsOK
  <2>2. QED
    BY <1>1, <2>1 DEF JobsOK
<1>2. ASSUME NEW S, jobs' = Drop(jobs, S)
      PROVE  JobsOK'
  <2>1. /\ DOMAIN Drop(jobs, S) \subseteq JobIds
        /\ Drop(jobs, S) \in [DOMAIN Drop(jobs, S) -> Job]
    BY DropType DEF JobsOK
  <2>2. QED
    BY <1>2, <2>1 DEF JobsOK
<1>3. QED
  BY <1>1, <1>2

\* Removing rows leaves rows.
LEMMA NodeMap ==
  ASSUME NodesOK, NEW S, nodes' = Drop(nodes, S)
  PROVE  NodesOK'
<1>1. /\ DOMAIN Drop(nodes, S) \subseteq Hosts
      /\ Drop(nodes, S) \in [DOMAIN Drop(nodes, S) -> Node]
  BY DropType DEF NodesOK
<1>2. QED
  BY <1>1 DEF NodesOK

\* Hearing of a job keeps the ledger typed.
LEMMA TypeTold ==
  ASSUME TypeOK, NEW j, NEW h, NEW c
  PROVE  /\ Told(j) \in [told : Nat, dropped : Nat, uncredited : Nat]
         /\ Begun(j, h, c) \in [told : Nat, dropped : Nat, uncredited : Nat]
<1> DEFINE L == [told : Nat, dropped : Nat, uncredited : Nat]
<1>1. ledger \in L /\ ledger.told + 1 \in Nat
  BY DEF TypeOK
<1>2. Told(j) \in L
  BY <1>1 DEF Told
<1>3. Told(j).uncredited + 1 \in Nat
  BY <1>2
<1> HIDE DEF L
<1>4. \A l \in L, n \in Nat : [l EXCEPT !.uncredited = n] \in L
  BY DEF L
<1>5. \A l \in L : l.uncredited \in Nat
  BY DEF L
<1>6. Begun(j, h, c) \in L
  BY <1>2, <1>3, <1>4, <1>5 DEF Begun
<1>7. QED
  BY <1>2, <1>6 DEF L

\* A request for a compile server keeps the type.
LEMMA TypeGetCs ==
  ASSUME TypeOK, NEW j \in JobIds, NEW h \in Hosts, GetCs(j, h)
  PROVE  TypeOK'
<1>j. JobsOK
  BY DEF TypeOK, JobsOK
<1>1. [state |-> "Pending", host |-> NoHost, client |-> h, age |-> 0] \in Job
  BY DEF Job, JobState
<1>2. JobsOK'
  BY <1>1, <1>j, JobMap DEF GetCs
<1>3. LedgerOK'
  BY TypeTold DEF GetCs, LedgerOK
<1>4. NodesOK' /\ totals' \in Totals /\ unknown' \subseteq MsgTypes
  BY DEF GetCs, TypeOK, NodesOK
<1>5. QED
  BY <1>2, <1>3, <1>4, TypeStep DEF GetCs

\* The begin of a job keeps the type.
LEMMA TypeJobBegin ==
  ASSUME TypeOK, NEW j \in JobIds, NEW h \in Hosts, JobBegin(j, h)
  PROVE  TypeOK'
<1>j. JobsOK
  BY DEF TypeOK, JobsOK
<1> DEFINE c == ClientOf(j)
           placed == SetNode(nodes, h, TakeJob(nodes[h], j))
           rec == [state |-> "Active", host |-> h, client |-> c, age |-> 0]
<1>1. c \in Hosts \cup {NoHost}
  BY DEF ClientOf, TypeOK, Job
<1>2. rec \in Job
  BY <1>1 DEF Job, JobState
<1>3. JobsOK'
  BY <1>2, <1>j, JobMap DEF JobBegin
<1>4. DOMAIN placed = DOMAIN nodes /\ placed \in [DOMAIN nodes -> Node]
  BY NodeOps, SetNodeType DEF TypeOK
<1>5. c \in DOMAIN placed => CreditClient(placed[c]) \in Node
  BY <1>4, NodeOps
<1>6. NodesOK'
  <2>1. nodes' = SetNode(placed, c, CreditClient(placed[c]))
    BY DEF JobBegin
  <2>2. DOMAIN placed \subseteq Hosts
    BY <1>4 DEF TypeOK
  <2> HIDE DEF placed, c
  <2>3. DOMAIN nodes' = DOMAIN placed /\ nodes' \in [DOMAIN placed -> Node]
    BY <1>4, <1>5, <2>1, <2>2, SetNodeType
  <2>4. QED
    BY <2>2, <2>3 DEF NodesOK
<1>7. LedgerOK' /\ totals' \in Totals /\ unknown' \subseteq MsgTypes
  BY TypeTold DEF JobBegin, TypeOK, LedgerOK
<1>8. QED
  BY <1>3, <1>6, <1>7, TypeStep DEF JobBegin

\* The begin of a local job keeps the type.
LEMMA TypeLocalJobBegin ==
  ASSUME TypeOK, NEW j \in JobIds, NEW h \in Hosts, LocalJobBegin(j, h)
  PROVE  TypeOK'
<1>j. JobsOK
  BY DEF TypeOK, JobsOK
<1>1. [state |-> "Local", host |-> h, client |-> h, age |-> 0] \in Job
  BY DEF Job, JobState
<1>2. JobsOK'
  BY <1>1, <1>j, JobMap DEF LocalJobBegin
<1>3. NodesOK'
  BY NodeOps, SetNodeType DEF TypeOK, LocalJobBegin, NodesOK
<1>4. LedgerOK' /\ totals' \in Totals /\ unknown' \subseteq MsgTypes
  BY TypeTold DEF LocalJobBegin, TypeOK, LedgerOK
<1>5. QED
  BY <1>2, <1>3, <1>4, TypeStep DEF LocalJobBegin

\* Counting an end keeps the totals typed.
LEMMA TypeCount ==
  ASSUME TypeOK, NEW state, NEW ok
  PROVE  /\ CountDone(totals, state, ok) \in Totals
         /\ [totals EXCEPT !.unmatched = @ + 1] \in Totals
         /\ [totals EXCEPT !.local = @ + 1] \in Totals
         /\ [totals EXCEPT !.left = @ + 1] \in Totals
<1>1. totals \in Totals
  BY DEF TypeOK
<1>2. /\ totals.local + 1 \in Nat /\ totals.remote + 1 \in Nat
      /\ totals.failed + 1 \in Nat /\ totals.unmatched + 1 \in Nat
      /\ totals.left + 1 \in Nat
  BY <1>1 DEF Totals
<1>3. QED
  BY <1>1, <1>2 DEF CountDone, Totals

\* The end of a job keeps the type, whether or not it was tracked.
LEMMA TypeJobDone ==
  ASSUME TypeOK, NEW j \in JobIds, NEW ok \in BOOLEAN, NEW timed \in BOOLEAN,
         JobDone(j, ok, timed)
  PROVE  TypeOK'
<1>j. JobsOK
  BY DEF TypeOK, JobsOK
<1> DEFINE h == jobs[j].host
           freed == CountFile(ReleaseJob(nodes[h], j))
<1>1. h \in DOMAIN nodes => (IF ok /\ timed THEN Measure(freed) ELSE freed) \in Node
  <2>1. ASSUME h \in DOMAIN nodes PROVE freed \in Node /\ Measure(freed) \in Node
    <3>1. ReleaseJob(nodes[h], j) \in Node
      BY <2>1, NodeOps DEF TypeOK
    <3>2. QED
      BY <3>1, NodeOps
  <2>2. QED
    BY <2>1
<1>2. NodesOK'
  BY <1>1, SetNodeType DEF TypeOK, JobDone, Unmatched, NodesOK
<1>3. JobsOK'
  BY <1>j, JobMap DEF JobDone, Unmatched, JobsOK
<1>4. totals' \in Totals
  BY TypeCount DEF JobDone, Unmatched
<1>5. LedgerOK' /\ unknown' \subseteq MsgTypes
  BY DEF JobDone, TypeOK, LedgerOK
<1>6. QED
  BY <1>2, <1>3, <1>4, <1>5, TypeStep DEF JobDone

\* The end of a local job keeps the type.
LEMMA TypeLocalJobDone ==
  ASSUME TypeOK, NEW j \in JobIds, LocalJobDone(j)
  PROVE  TypeOK'
<1>j. JobsOK
  BY DEF TypeOK, JobsOK
<1> DEFINE h == jobs[j].host
<1>1. h \in DOMAIN nodes => CountFile(ReleaseLocal(nodes[h], j)) \in Node
  <2>1. h \in DOMAIN nodes => ReleaseLocal(nodes[h], j) \in Node
    BY NodeOps DEF TypeOK
  <2>2. QED
    BY <2>1, NodeOps
<1>2. NodesOK'
  BY <1>1, SetNodeType DEF TypeOK, LocalJobDone, Unmatched, NodesOK
<1>3. JobsOK'
  BY <1>j, JobMap DEF LocalJobDone, Unmatched, JobsOK
<1>4. totals' \in Totals
  BY TypeCount DEF LocalJobDone, Unmatched
<1>5. LedgerOK' /\ unknown' \subseteq MsgTypes
  BY DEF LocalJobDone, TypeOK, LedgerOK
<1>6. QED
  BY <1>2, <1>3, <1>4, <1>5, TypeStep DEF LocalJobDone

\* A message that is not known is only counted.
LEMMA TypeOther ==
  ASSUME TypeOK, NEW ty \in MsgTypes, Other(ty)
  PROVE  TypeOK'
<1>1. JobsOK' /\ NodesOK' /\ LedgerOK' /\ totals' \in Totals
  BY DEF Other, TypeOK, JobsOK, NodesOK, LedgerOK
<1>2. unknown' \subseteq MsgTypes
  BY DEF Other, TypeOK
<1>3. QED
  BY <1>1, <1>2, TypeStep DEF Other

\* Statistics make a row or change one.
LEMMA TypeStats ==
  ASSUME TypeOK, NEW h \in Hosts, Stats(h)
  PROVE  TypeOK'
<1>1. FreshNode \in Node
  BY DEF FreshNode, Node
<1>2. NodesOK'
  <2>1. DOMAIN nodes \subseteq Hosts /\ nodes \in [DOMAIN nodes -> Node]
    BY DEF TypeOK
  <2>2. CASE h \in DOMAIN nodes
    BY <2>1, <2>2 DEF Stats, NodesOK
  <2>3. CASE h \notin DOMAIN nodes
    <3>1. nodes' = Put(nodes, h, FreshNode)
      BY <2>3 DEF Stats
    <3> QED BY <1>1, <2>1, <3>1, PutType DEF NodesOK
  <2> QED BY <2>2, <2>3
<1>3. JobsOK' /\ LedgerOK' /\ totals' \in Totals /\ unknown' \subseteq MsgTypes
  BY DEF Stats, TypeOK, JobsOK, LedgerOK
<1>4. QED
  BY <1>2, <1>3, TypeStep DEF Stats

\* A host that goes offline leaves no row.
LEMMA TypeOffline ==
  ASSUME TypeOK, NEW h \in Hosts, Offline(h)
  PROVE  TypeOK'
<1>1. CASE h \in DOMAIN nodes
  <2>1. Taken(h) \subseteq JobIds
    BY DEF Taken, TypeOK
  <2>2. Cardinality(Taken(h)) \in Nat
    BY <2>1, CountJobs
  <2>3. LedgerOK'
    <3>1. ledger.dropped + Cardinality(Taken(h)) \in Nat
      BY <2>2 DEF TypeOK
    <3> DEFINE n == ledger.dropped + Cardinality(Taken(h))
    <3>2. ledger' = [ledger EXCEPT !.dropped = n]
      BY <1>1 DEF Offline
    <3> HIDE DEF n
    <3>3. QED
      BY <3>1, <3>2 DEF TypeOK, LedgerOK, n
  <2>4. JobsOK'
    <3>1. JobsOK /\ jobs' = Drop(jobs, Taken(h))
      BY <1>1 DEF Offline, TypeOK, JobsOK
    <3>2. QED
      BY <3>1, JobMap
  <2>5. NodesOK'
    <3>1. NodesOK /\ nodes' = Drop(nodes, {h})
      BY <1>1 DEF Offline, TypeOK, NodesOK
    <3>2. QED
      BY <3>1, NodeMap
  <2>6. totals' \in Totals
    BY <1>1, TypeCount DEF Offline
  <2>7. unknown' \subseteq MsgTypes
    BY <1>1 DEF Offline, TypeOK
  <2>8. QED
    BY <1>1, <2>3, <2>4, <2>5, <2>6, <2>7, TypeStep DEF Offline
<1>2. CASE h \notin DOMAIN nodes
  <2>1. UNCHANGED vars
    BY <1>2 DEF Offline
  <2>2. QED
    BY <2>1 DEF TypeOK, vars, linkVars, historyVars, buildVars
<1>3. QED
  BY <1>1, <1>2

\* A tick keeps the record of builds typed.
LEMMA TypeTrackBuild ==
  ASSUME build \in BuildRun, lastBuild \in BuildRun, NEW busy \in BOOLEAN,
         NEW completed \in Nat, NEW d \in Nat, TrackBuild(busy, completed, d)
  PROVE  build' \in BuildRun /\ lastBuild' \in BuildRun
<1> DEFINE run == [build EXCEPT !.done = Minus(completed, build.before)]
           quiet == run.idle + d
<1>1. Minus(completed, build.before) \in Nat
  BY DEF Minus, BuildRun
<1>2. run \in BuildRun /\ run.phase = build.phase
  BY <1>1 DEF BuildRun
<1>3. quiet \in Nat
  BY <1>2 DEF BuildRun
<1>4. NoBuild \in BuildRun
      /\ [phase |-> "busy", before |-> completed, done |-> 0, idle |-> 0] \in BuildRun
  BY DEF NoBuild, BuildRun, BuildPhase
<1>5. /\ [run EXCEPT !.phase = "busy", !.idle = 0] \in BuildRun
      /\ [run EXCEPT !.phase = "quiet", !.idle = 0] \in BuildRun
      /\ [run EXCEPT !.idle = quiet] \in BuildRun
  <2> HIDE DEF run, quiet
  <2>1. QED
    BY <1>2, <1>3 DEF BuildRun, BuildPhase
<1>6. build.phase \in BuildPhase
  BY DEF BuildRun
<1>7. CASE build.phase = "none"
  BY <1>4, <1>7 DEF TrackBuild
<1>8. CASE build.phase # "none" /\ busy
  BY <1>5, <1>8 DEF TrackBuild
<1>9. CASE build.phase = "busy" /\ ~busy
  BY <1>5, <1>9 DEF TrackBuild
<1>10. CASE build.phase = "quiet" /\ ~busy
  BY <1>4, <1>5, <1>10 DEF TrackBuild
<1>11. QED
  BY <1>6, <1>7, <1>8, <1>9, <1>10 DEF BuildPhase

\* Pairs of a row and a job are finitely many.
LEMMA PairsFinite ==
  ASSUME NEW D \in SUBSET Hosts, NEW P \in SUBSET (D \X JobIds)
  PROVE  IsFiniteSet(P) /\ Cardinality(P) \in Nat
<1>1. IsFiniteSet(D) /\ IsFiniteSet(JobIds)
  BY FS_Subset
<1>2. IsFiniteSet(D \X JobIds)
  BY <1>1, FS_Product, Zenon
<1>3. IsFiniteSet(P)
  BY <1>2, FS_Subset, Zenon
<1>4. QED
  BY <1>3, FS_CardinalityType

\* Slots in use are a natural number.
LEMMA UsedSlotsType ==
  ASSUME NEW ns, DOMAIN ns \in SUBSET Hosts
  PROVE  UsedSlots(ns) \in Nat
<1> DEFINE P == {p \in (DOMAIN ns) \X JobIds : p[2] \in ns[p[1]].active}
<1>1. P \in SUBSET ((DOMAIN ns) \X JobIds)
  BY Zenon
<1>2. Cardinality(P) \in Nat
  BY <1>1, PairsFinite, Zenon
<1>3. QED
  BY <1>2 DEF UsedSlots

\* A tick keeps the type: what it expires, samples and rotates.
LEMMA TypeTick ==
  ASSUME TypeOK, NEW d \in TickGaps, Tick(d)
  PROVE  TypeOK'
<1> DEFINE aged == Aged(jobs, d)
           lost == Expired(aged)
           kept == Drop(aged, lost)
           held == [h \in DOMAIN nodes |-> Freed(nodes[h], h, lost)]
           completed == CompletedBy(totals)
<1>1. d \in Nat
  OBVIOUS
<1>2. DOMAIN aged = DOMAIN jobs /\ aged \in [DOMAIN jobs -> Job]
  BY <1>1, AgedType DEF TypeOK
<1>3. lost \subseteq JobIds
  BY <1>2 DEF Expired, TypeOK
<1>4. DOMAIN kept \subseteq JobIds /\ kept \in [DOMAIN kept -> Job]
  <2>1. DOMAIN aged \subseteq JobIds /\ aged \in [DOMAIN aged -> Job]
    BY <1>2 DEF TypeOK
  <2> HIDE DEF aged, lost
  <2>2. QED
    BY <2>1, DropType
<1>5. DOMAIN jobs' \subseteq JobIds /\ jobs' \in [DOMAIN jobs' -> Job]
  BY <1>4 DEF Tick
<1>6. DOMAIN nodes' \subseteq Hosts /\ nodes' \in [DOMAIN nodes' -> Node]
  <2>1. \A h \in DOMAIN nodes : TickNode(held[h]) \in Node
    BY TickNodeType DEF TypeOK
  <2>2. nodes' = [h \in DOMAIN nodes |-> TickNode(held[h])]
    BY DEF Tick
  <2> HIDE DEF held
  <2>3. DOMAIN nodes' = DOMAIN nodes /\ nodes' \in [DOMAIN nodes -> Node]
    BY <2>1, <2>2
  <2>4. QED
    BY <2>3 DEF TypeOK
<1>7. completed \in Nat /\ Minus(completed, lastCompleted) \in Nat
  <2>1. totals \in Totals /\ lastCompleted \in Nat
    BY DEF TypeOK
  <2>2. completed \in Nat
    BY <2>1 DEF CompletedBy, Totals
  <2> HIDE DEF completed
  <2>3. QED
    BY <2>1, <2>2 DEF Minus
<1>8. rate' \in Seq(Nat) /\ lastCompleted' \in Nat
  <2>1. rate' = Push(rate, Minus(completed, lastCompleted), RateWindow)
    BY DEF Tick
  <2>2. rate \in Seq(Nat)
    BY DEF TypeOK
  <2>3. rate' \in Seq(Nat)
    <3>1. RateWindow \in Nat \ {0}
      OBVIOUS
    <3> HIDE DEF completed
    <3>2. QED
      BY <1>7, <2>1, <2>2, <3>1, PushType
  <2>4. QED
    BY <1>7, <2>3 DEF Tick
<1>9. totals' \in Totals
  <2>1. Cardinality(lost) \in Nat
    BY <1>3, CountJobs
  <2>2. totals \in Totals
    BY DEF TypeOK
  <2>3. totals.expired + Cardinality(lost) \in Nat
    BY <2>1, <2>2 DEF Totals
  <2> DEFINE n == totals.expired + Cardinality(lost)
  <2>4. totals' = [totals EXCEPT !.expired = n]
    BY DEF Tick
  <2> HIDE DEF n
  <2>5. QED
    BY <2>2, <2>3, <2>4 DEF Totals, n
<1>10. sample' \in [pending : Nat, used : Nat]
  <2>1. InState(kept, "Pending") \subseteq JobIds
    BY <1>4 DEF InState
  <2>2. Cardinality(InState(kept, "Pending")) \in Nat
    BY <2>1, CountJobs
  <2>3. DOMAIN held \subseteq Hosts
    BY DEF TypeOK
  <2>4. UsedSlots(held) \in Nat
    BY <2>3, UsedSlotsType
  <2>5. QED
    BY <2>2, <2>4 DEF Tick, Sampled
<1>11. build' \in BuildRun /\ lastBuild' \in BuildRun
  <2>1. TrackBuild(Busy(kept), completed, d)
    BY DEF Tick
  <2>2. Busy(kept) \in BOOLEAN
    BY DEF Busy
  <2>3. build \in BuildRun /\ lastBuild \in BuildRun
    BY DEF TypeOK
  <2> HIDE DEF kept, completed
  <2>4. QED
    BY <1>1, <1>7, <2>1, <2>2, <2>3, TypeTrackBuild
<1>12. UNCHANGED <<connection, firstTarget, unknown, ledger>>
  BY DEF Tick, linkVars
<1>13. QED
  BY <1>5, <1>6, <1>8, <1>9, <1>10, <1>11, <1>12 DEF TypeOK

\* So does every step.
LEMMA TypeNext ==
  ASSUME TypeOK, [Next]_vars
  PROVE  TypeOK'
<1>1. CASE Session
  BY <1>1, TypeSession
<1>2. CASE Event
  BY <1>2, TypeGetCs, TypeJobBegin, TypeLocalJobBegin, TypeJobDone,
     TypeLocalJobDone, TypeStats, TypeOffline, TypeOther DEF Event
<1>3. ASSUME NEW d \in TickGaps, Tick(d) PROVE TypeOK'
  BY <1>3, TypeTick
<1>4. CASE UNCHANGED vars
  BY <1>4 DEF TypeOK, vars, linkVars, historyVars, buildVars
<1>5. QED
  BY <1>1, <1>2, <1>3, <1>4 DEF Next

\* The state keeps its shape for every set of ids, every timeout and every
\* behaviour of the remote.
THEOREM TypeCorrect == Spec => []TypeOK
<1>1. Init => TypeOK
  BY TypeInit
<1>2. TypeOK /\ [Next]_vars => TypeOK'
  BY TypeNext
<1>3. QED
  BY <1>1, <1>2, PTL DEF Spec

-----------------------------------------------------------------------------
(* Nothing is in flight between sessions. *)

\* Freeing slots leaves a node with no more than it held.
LEMMA FreedType ==
  ASSUME NEW n \in Node, NEW h, NEW lost
  PROVE  /\ Freed(n, h, lost) \in Node
         /\ Freed(n, h, lost).active \subseteq n.active
         /\ Freed(n, h, lost).local \subseteq n.local
  BY DEF Freed, Node

\* The job map is empty exactly when its domain is, and then nothing expires.
LEMMA TickWhileIdle ==
  ASSUME TypeOK, NEW d \in TickGaps, Tick(d), DOMAIN jobs = {},
         \A h \in DOMAIN nodes : nodes[h].active = {} /\ nodes[h].local = {}
  PROVE  /\ DOMAIN jobs' = {}
         /\ \A h \in DOMAIN nodes' : nodes'[h].active = {} /\ nodes'[h].local = {}
<1> DEFINE aged == Aged(jobs, d)
           lost == Expired(aged)
           held == [h \in DOMAIN nodes |-> Freed(nodes[h], h, lost)]
<1>1. DOMAIN aged = {}
  BY DEF Aged
<1>2. DOMAIN jobs' = {}
  BY <1>1 DEF Tick, Drop, Restrict
<1>3. \A h \in DOMAIN nodes : held[h].active = {} /\ held[h].local = {}
  <2>1. TAKE h \in DOMAIN nodes
  <2>2. nodes[h] \in Node
    BY DEF TypeOK
  <2>3. /\ Freed(nodes[h], h, lost).active \subseteq {}
        /\ Freed(nodes[h], h, lost).local \subseteq {}
    BY <2>2, FreedType
  <2>4. held[h] = Freed(nodes[h], h, lost)
    OBVIOUS
  <2>5. QED
    BY <2>3, <2>4
<1>4. \A h \in DOMAIN nodes : held[h] \in Node
  BY FreedType DEF TypeOK
<1>5. DOMAIN nodes' = DOMAIN nodes
      /\ \A h \in DOMAIN nodes : nodes'[h] = TickNode(held[h])
  BY DEF Tick
<1> HIDE DEF held
<1>6. \A n \in Node : TickNode(n).active = n.active /\ TickNode(n).local = n.local
  BY DEF TickNode, Node
<1>7. QED
  BY <1>2, <1>3, <1>4, <1>5, <1>6

\* Between sessions no job is in flight and no row holds a slot: Disconnected
\* clears both, and only a session's events bring them back.
THEOREM NothingRunsWhileDown == Spec => []NoWorkWhileDown
<1>1. Init => NoWorkWhileDown
  BY DEF Init, NoWorkWhileDown, Nothing
<1>2. ASSUME TypeOK, NoWorkWhileDown, [Next]_vars
      PROVE  NoWorkWhileDown'
  <2>1. CASE connection.state # "Connected" /\ Connecting
    BY <1>2, <2>1 DEF NoWorkWhileDown, Connecting
  <2>2. ASSUME NEW t \in Targets, Connected(t) PROVE NoWorkWhileDown'
    BY <2>2 DEF NoWorkWhileDown, Connected
  <2>3. CASE Disconnected
    <3>1. DOMAIN jobs' = {}
      BY <2>3 DEF Disconnected, Nothing
    <3>2. \A h \in DOMAIN nodes' : nodes'[h].active = {} /\ nodes'[h].local = {}
      BY <1>2, <2>3 DEF Disconnected, Idled, TypeOK, Node
    <3>3. QED
      BY <3>1, <3>2 DEF NoWorkWhileDown
  <2>4. CASE Event
    <3>1. connection.state = "Connected"
      BY <2>4 DEF Event
    <3>2. connection' = connection
      BY <2>4 DEF Event, GetCs, JobBegin, LocalJobBegin, JobDone, LocalJobDone,
         Stats, Offline, Other, vars, linkVars
    <3>3. QED
      BY <3>1, <3>2 DEF NoWorkWhileDown
  <2>5. ASSUME NEW d \in TickGaps, Tick(d) PROVE NoWorkWhileDown'
    <3>1. connection' = connection
      BY <2>5 DEF Tick, linkVars
    <3>2. QED
      BY <1>2, <2>5, <3>1, TickWhileIdle DEF NoWorkWhileDown
  <2>6. CASE UNCHANGED vars
    BY <1>2, <2>6 DEF NoWorkWhileDown, vars, linkVars
  <2>7. QED
    BY <1>2, <2>1, <2>2, <2>3, <2>4, <2>5, <2>6 DEF Next, Session
<1>3. QED
  BY <1>1, <1>2, TypeCorrect, PTL DEF Spec

-----------------------------------------------------------------------------
(* Unfinished jobs expire. *)

\* What a tick keeps is within the timeout.
LEMMA TickKeepsYoung ==
  ASSUME TypeOK, JobTimeout > 0, NEW d \in TickGaps, Tick(d)
  PROVE  \A j \in DOMAIN jobs' : jobs'[j].age <= JobTimeout
<1> DEFINE aged == Aged(jobs, d)
<1>1. DOMAIN aged = DOMAIN jobs /\ aged \in [DOMAIN jobs -> Job]
  BY AgedType DEF TypeOK
<1>3. jobs' = Drop(aged, Expired(aged))
  BY DEF Tick
<1> HIDE DEF aged
<1>4. /\ DOMAIN jobs' = DOMAIN aged \ Expired(aged)
      /\ \A j \in DOMAIN jobs' : jobs'[j] = aged[j]
  BY <1>3 DEF Drop, Restrict
<1>5. \A j \in DOMAIN aged : aged[j].age \in Nat
  BY <1>1 DEF Job
<1>6. QED
  BY <1>4, <1>5 DEF Expired

\* A job younger than the timeout stays so through every step but a tick.
THEOREM UnfinishedJobsExpire == Spec => []JobsExpire
<1>1. Init => JobsExpire
  BY DEF Init, JobsExpire, Nothing
<1>2. ASSUME TypeOK, JobsExpire, [Next]_vars
      PROVE  JobsExpire'
  <2> SUFFICES ASSUME JobTimeout > 0
               PROVE  \A j \in DOMAIN jobs' : jobs'[j].age <= JobTimeout
    BY DEF JobsExpire
  <2> DEFINE Young(js) == \A j \in DOMAIN js : js[j].age <= JobTimeout
  <2>1. Young(jobs)
    BY <1>2 DEF JobsExpire
  <2>2. \A k, r : r.age = 0 /\ jobs' = Put(jobs, k, r) => Young(jobs')
    BY <2>1 DEF Put
  <2>3. \A S : jobs' = Drop(jobs, S) => Young(jobs')
    <3>1. ASSUME NEW S, jobs' = Drop(jobs, S) PROVE Young(jobs')
      BY <2>1, <3>1 DEF Drop, Restrict
    <3>2. QED
      BY <3>1
  <2>4. CASE Session
    BY <2>1, <2>4 DEF Session, Connecting, Connected, Reset, Disconnected, Nothing
  <2>5. CASE Event
    <3>1. \/ jobs' = jobs
          \/ \E k, r : r.age = 0 /\ jobs' = Put(jobs, k, r)
          \/ \E S : jobs' = Drop(jobs, S)
      <4>1. ASSUME NEW j \in JobIds, NEW h \in Hosts,
                   GetCs(j, h) \/ JobBegin(j, h) \/ LocalJobBegin(j, h)
            PROVE  \E k, r : r.age = 0 /\ jobs' = Put(jobs, k, r)
        <5>1. CASE GetCs(j, h)
          <6> DEFINE r == [state |-> "Pending", host |-> NoHost, client |-> h, age |-> 0]
          <6>1. r.age = 0 /\ jobs' = Put(jobs, j, r)
            BY <5>1 DEF GetCs
          <6>2. QED
            BY <6>1
        <5>2. CASE JobBegin(j, h)
          <6> DEFINE r == [state |-> "Active", host |-> h, client |-> ClientOf(j), age |-> 0]
          <6>1. r.age = 0 /\ jobs' = Put(jobs, j, r)
            BY <5>2 DEF JobBegin
          <6>2. QED
            BY <6>1
        <5>3. CASE LocalJobBegin(j, h)
          <6> DEFINE r == [state |-> "Local", host |-> h, client |-> h, age |-> 0]
          <6>1. r.age = 0 /\ jobs' = Put(jobs, j, r)
            BY <5>3 DEF LocalJobBegin
          <6>2. QED
            BY <6>1
        <5>4. QED
          BY <4>1, <5>1, <5>2, <5>3
      <4>2. ASSUME NEW j \in JobIds, NEW ok \in BOOLEAN, NEW timed \in BOOLEAN,
                   JobDone(j, ok, timed) \/ LocalJobDone(j)
            PROVE  jobs' = jobs \/ jobs' = Drop(jobs, {j})
        BY <4>2 DEF JobDone, LocalJobDone, Unmatched
      <4>3. ASSUME NEW h \in Hosts, Stats(h) \/ Offline(h)
            PROVE  jobs' = jobs \/ jobs' = Drop(jobs, Taken(h))
        BY <4>3 DEF Stats, Offline, vars
      <4>4. ASSUME NEW ty \in MsgTypes, Other(ty) PROVE jobs' = jobs
        BY <4>4 DEF Other
      <4>5. QED
        BY <2>5, <4>1, <4>2, <4>3, <4>4 DEF Event
    <3>2. QED
      BY <2>1, <2>2, <2>3, <3>1
  <2>6. ASSUME NEW d \in TickGaps, Tick(d) PROVE Young(jobs')
    BY <1>2, <2>6, TickKeepsYoung
  <2>7. CASE UNCHANGED vars
    BY <2>1, <2>7 DEF vars
  <2>8. QED
    BY <1>2, <2>4, <2>5, <2>6, <2>7 DEF Next
<1>3. QED
  BY <1>1, <1>2, TypeCorrect, PTL DEF Spec

-----------------------------------------------------------------------------
(* No job is counted twice or lost. *)

\* How the number of jobs in flight changes.
LEMMA CountPut ==
  ASSUME TypeOK, NEW j \in JobIds, NEW r, jobs' = Put(jobs, j, r)
  PROVE  Cardinality(DOMAIN jobs') =
           IF j \in DOMAIN jobs THEN Cardinality(DOMAIN jobs)
                                ELSE Cardinality(DOMAIN jobs) + 1
<1>1. IsFiniteSet(DOMAIN jobs)
  BY FiniteState
<1>2. DOMAIN jobs' = DOMAIN jobs \cup {j}
  BY DEF Put
<1>3. QED
  BY <1>1, <1>2, FS_AddElement

\* Dropping some of the jobs takes their number off.
LEMMA CountDrop ==
  ASSUME TypeOK, NEW S, S \subseteq DOMAIN jobs, NEW js, DOMAIN js = DOMAIN jobs,
         jobs' = Drop(js, S)
  PROVE  /\ Cardinality(S) \in Nat
         /\ Cardinality(DOMAIN jobs) \in Nat
         /\ Cardinality(DOMAIN jobs') = Cardinality(DOMAIN jobs) - Cardinality(S)
<1>1. IsFiniteSet(DOMAIN jobs)
  BY FiniteState
<1>2. DOMAIN jobs' = DOMAIN jobs \ S
  BY DEF Drop, Restrict
<1>3. DOMAIN jobs \cap S = S
  OBVIOUS
<1>4. Cardinality(DOMAIN jobs \ S) = Cardinality(DOMAIN jobs) - Cardinality(S)
  BY <1>1, <1>3, FS_Difference
<1>5. IsFiniteSet(S)
  BY <1>1, FS_Subset
<1>6. QED
  BY <1>1, <1>2, <1>4, <1>5, FS_CardinalityType

\* Every job told of since connect is in flight, completed, expired or dropped,
\* each once: the counters on the panel and the job table never disagree, no
\* matter in what order the remote repeats, omits or invents events.
THEOREM JobsAreAccountedFor == Spec => []JobsAccounted
<1>1. Init => JobsAccounted
  BY FS_EmptySet DEF Init, JobsAccounted, Nothing, NoTotals, NoLedger, CompletedBy
<1>2. ASSUME TypeOK, JobsAccounted, [Next]_vars
      PROVE  JobsAccounted'
  <2> DEFINE n == Cardinality(DOMAIN jobs)
  <2>t. /\ totals.remote \in Nat /\ totals.local \in Nat /\ totals.expired \in Nat
        /\ ledger.told \in Nat /\ ledger.dropped \in Nat /\ n \in Nat
    BY <1>2, FiniteState, FS_CardinalityType DEF TypeOK, Totals
  <2>i. ledger.told = n + (totals.remote + totals.local) + totals.expired + ledger.dropped
    BY <1>2 DEF JobsAccounted, CompletedBy
  <2>1. CASE Connecting
    BY <1>2, <2>1 DEF Connecting, JobsAccounted
  <2>2. ASSUME NEW t \in Targets, Connected(t) PROVE JobsAccounted'
    BY <2>2, FS_EmptySet
       DEF Connected, Reset, JobsAccounted, Nothing, NoTotals, NoLedger, CompletedBy
  <2>3. CASE Disconnected
    <3>1. DOMAIN jobs' = {}
      BY <2>3 DEF Disconnected, Nothing
    <3>2. Cardinality(DOMAIN jobs') = 0
      BY <3>1, FS_EmptySet
    <3>3. totals' = totals
      BY <2>3 DEF Disconnected
    <3>4. ledger'.told = ledger.told /\ ledger'.dropped = ledger.dropped + n
      BY <1>2, <2>3 DEF Disconnected, TypeOK
    <3>5. QED
      BY <2>t, <2>i, <3>2, <3>3, <3>4 DEF JobsAccounted, CompletedBy
  <2>4. ASSUME NEW j \in JobIds, NEW h \in Hosts,
               GetCs(j, h) \/ JobBegin(j, h) \/ LocalJobBegin(j, h)
        PROVE  JobsAccounted'
    <3>1. \E r : jobs' = Put(jobs, j, r)
      BY <2>4 DEF GetCs, JobBegin, LocalJobBegin
    <3>2. Cardinality(DOMAIN jobs') = IF j \in DOMAIN jobs THEN n ELSE n + 1
      BY <1>2, <3>1, CountPut
    <3>3. totals' = totals
      BY <2>4 DEF GetCs, JobBegin, LocalJobBegin
    <3>4. /\ ledger'.told = IF j \in DOMAIN jobs THEN ledger.told ELSE ledger.told + 1
          /\ ledger'.dropped = ledger.dropped
      BY <1>2, <2>4 DEF GetCs, JobBegin, LocalJobBegin, Told, Begun, TypeOK
    <3>5. QED
      BY <2>t, <2>i, <3>2, <3>3, <3>4 DEF JobsAccounted, CompletedBy
  <2>5. ASSUME NEW j \in JobIds, NEW ok \in BOOLEAN, NEW timed \in BOOLEAN,
               JobDone(j, ok, timed) \/ LocalJobDone(j)
        PROVE  JobsAccounted'
    <3>1. ledger' = ledger
      BY <2>5 DEF JobDone, LocalJobDone
    <3>2. CASE j \in DOMAIN jobs
      <4>1. jobs' = Drop(jobs, {j})
        BY <2>5, <3>2 DEF JobDone, LocalJobDone
      <4>2. Cardinality(DOMAIN jobs') = n - Cardinality({j})
        BY <1>2, <3>2, <4>1, CountDrop
      <4>3. Cardinality({j}) = 1
        BY FS_Singleton
      <4>4. CompletedBy(totals') = CompletedBy(totals) + 1
            /\ totals'.expired = totals.expired
        <5>1. CASE JobDone(j, ok, timed)
          <6>1. totals' = CountDone(totals, jobs[j].state, ok)
            BY <3>2, <5>1 DEF JobDone
          <6>2. totals \in Totals
            BY <1>2 DEF TypeOK
          <6>3. CASE jobs[j].state = "Local"
            BY <2>t, <6>1, <6>2, <6>3 DEF CountDone, CompletedBy, Totals
          <6>4. CASE jobs[j].state # "Local"
            BY <2>t, <6>1, <6>2, <6>4 DEF CountDone, CompletedBy, Totals
          <6>5. QED
            BY <6>3, <6>4
        <5>2. CASE LocalJobDone(j)
          <6>1. totals' = [totals EXCEPT !.local = @ + 1]
            BY <3>2, <5>2 DEF LocalJobDone
          <6>2. totals \in Totals
            BY <1>2 DEF TypeOK
          <6>3. QED
            BY <2>t, <6>1, <6>2 DEF CompletedBy, Totals
        <5>3. QED
          BY <2>5, <5>1, <5>2
      <4>5. QED
        BY <2>t, <2>i, <3>1, <4>2, <4>3, <4>4 DEF JobsAccounted, CompletedBy
    <3>3. CASE j \notin DOMAIN jobs
      <4>1. Unmatched
        BY <2>5, <3>3 DEF JobDone, LocalJobDone
      <4>2. jobs' = jobs /\ CompletedBy(totals') = CompletedBy(totals)
            /\ totals'.expired = totals.expired
        BY <1>2, <4>1 DEF Unmatched, CompletedBy, TypeOK, Totals
      <4>3. QED
        BY <1>2, <3>1, <4>2 DEF JobsAccounted
    <3>4. QED
      BY <3>2, <3>3
  <2>6. ASSUME NEW h \in Hosts, Offline(h)
        PROVE  JobsAccounted'
    <3>1. CASE h \in DOMAIN nodes
      <4>1. Taken(h) \subseteq DOMAIN jobs /\ jobs' = Drop(jobs, Taken(h))
        BY <2>6, <3>1 DEF Offline, Taken
      <4>2. /\ Cardinality(Taken(h)) \in Nat
            /\ Cardinality(DOMAIN jobs') = n - Cardinality(Taken(h))
        BY <1>2, <4>1, CountDrop
      <4>3. CompletedBy(totals') = CompletedBy(totals)
            /\ totals'.expired = totals.expired
        BY <1>2, <2>6, <3>1 DEF Offline, CompletedBy, TypeOK, Totals
      <4>4. /\ ledger'.told = ledger.told
            /\ ledger'.dropped = ledger.dropped + Cardinality(Taken(h))
        BY <1>2, <2>6, <3>1 DEF Offline, TypeOK
      <4>5. QED
        BY <2>t, <2>i, <4>2, <4>3, <4>4 DEF JobsAccounted, CompletedBy
    <3>2. CASE h \notin DOMAIN nodes
      BY <1>2, <2>6, <3>2 DEF Offline, vars, JobsAccounted
    <3>3. QED
      BY <3>1, <3>2
  <2>7. ASSUME NEW h \in Hosts, Stats(h) PROVE JobsAccounted'
    BY <1>2, <2>7 DEF Stats, JobsAccounted
  <2>8. ASSUME NEW ty \in MsgTypes, Other(ty) PROVE JobsAccounted'
    BY <1>2, <2>8 DEF Other, JobsAccounted
  <2>9. ASSUME NEW d \in TickGaps, Tick(d) PROVE JobsAccounted'
    <3> DEFINE aged == Aged(jobs, d)
               lost == Expired(aged)
    <3>1. DOMAIN aged = DOMAIN jobs /\ lost \subseteq DOMAIN jobs
      BY DEF Aged, Expired
    <3>2. jobs' = Drop(aged, lost)
      BY <2>9 DEF Tick
    <3> HIDE DEF aged
    <3>3. Cardinality(lost) \in Nat /\ Cardinality(DOMAIN jobs') = n - Cardinality(lost)
      BY <1>2, <3>1, <3>2, CountDrop
    <3>4. CompletedBy(totals') = CompletedBy(totals)
          /\ totals'.expired = totals.expired + Cardinality(lost)
      BY <1>2, <2>9 DEF Tick, CompletedBy, TypeOK, Totals, aged
    <3>5. ledger' = ledger
      BY <2>9 DEF Tick
    <3>6. QED
      BY <2>t, <2>i, <3>3, <3>4, <3>5 DEF JobsAccounted, CompletedBy
  <2>10. CASE UNCHANGED vars
    BY <1>2, <2>10 DEF JobsAccounted, vars
  <2>11. QED
    BY <1>2, <2>1, <2>2, <2>3, <2>4, <2>5, <2>6, <2>7, <2>8, <2>9, <2>10
       DEF Next, Session, Event
<1>3. QED
  BY <1>1, <1>2, TypeCorrect, PTL DEF Spec

-----------------------------------------------------------------------------
(* Builds are measured against one session's counters. *)

\* Completions only grow within a session, so builds stay apart.
LEMMA BuildsKept ==
  ASSUME TypeOK, BuildsShareNoFile, UNCHANGED buildVars,
         CompletedBy(totals') \in Nat, CompletedBy(totals') >= CompletedBy(totals)
  PROVE  BuildsShareNoFile'
<1>1. /\ CompletedBy(totals) \in Nat
      /\ build.before + build.done \in Nat
      /\ lastBuild.before + lastBuild.done \in Nat
  <2>1. totals \in Totals /\ build \in BuildRun /\ lastBuild \in BuildRun
    BY DEF TypeOK
  <2>2. CompletedBy(totals) \in Nat
    BY <2>1 DEF Totals, CompletedBy
  <2>3. QED
    BY <2>1, <2>2 DEF BuildRun
<1>2. build' = build /\ lastBuild' = lastBuild
  BY DEF buildVars
<1>3. lastBuild.before + lastBuild.done <= CompletedBy(totals')
  BY <1>1 DEF BuildsShareNoFile
<1>4. build.phase # "none" => build.before + build.done <= CompletedBy(totals')
  BY <1>1 DEF BuildsShareNoFile
<1>5. QED
  BY <1>2, <1>3, <1>4 DEF BuildsShareNoFile

\* A tick starts a build at the files counted so far and measures it against
\* where it started.
LEMMA TrackKeepsBuildsApart ==
  ASSUME build \in BuildRun, lastBuild \in BuildRun, NEW busy \in BOOLEAN,
         NEW completed \in Nat, NEW d \in Nat, TrackBuild(busy, completed, d),
         lastBuild.before + lastBuild.done <= completed,
         build.phase # "none" =>
           /\ lastBuild.before + lastBuild.done <= build.before
           /\ build.before + build.done <= completed
  PROVE  /\ lastBuild'.before + lastBuild'.done <= completed
         /\ build'.phase # "none" =>
              /\ lastBuild'.before + lastBuild'.done <= build'.before
              /\ build'.before + build'.done <= completed
<1> DEFINE run == [build EXCEPT !.done = Minus(completed, build.before)]
           quiet == run.idle + d
           ends == lastBuild.before + lastBuild.done
<1>1. /\ build.before \in Nat /\ build.done \in Nat
      /\ lastBuild.before \in Nat /\ lastBuild.done \in Nat
      /\ build.phase \in BuildPhase
  BY DEF BuildRun
<1>2. ASSUME build.phase # "none" PROVE run.before + run.done = completed
                                        /\ run.before = build.before
  <2>1. build.before <= completed
    BY <1>1, <1>2
  <2>2. Minus(completed, build.before) = completed - build.before
    BY <1>1, <2>1 DEF Minus
  <2>3. run.before = build.before /\ run.done = completed - build.before
    BY <2>2 DEF BuildRun
  <2>4. QED
    BY <1>1, <2>3
<1>3. CASE build.phase = "none" /\ ~busy
  BY <1>3 DEF TrackBuild
<1>4. CASE build.phase = "none" /\ busy
  BY <1>4 DEF TrackBuild
<1>5. CASE build.phase # "none" /\ busy
  <2>1. build'.before = run.before /\ build'.done = run.done /\ lastBuild' = lastBuild
    BY <1>5 DEF TrackBuild, BuildRun
  <2> HIDE DEF run
  <2>2. QED
    BY <1>2, <1>5, <2>1
<1>6. CASE build.phase = "busy" /\ ~busy
  <2>1. build'.before = run.before /\ build'.done = run.done /\ lastBuild' = lastBuild
    BY <1>6 DEF TrackBuild, BuildRun
  <2> HIDE DEF run
  <2>2. QED
    BY <1>2, <1>6, <2>1
<1>7. CASE build.phase = "quiet" /\ ~busy
  <2>1. CASE quiet >= BuildIdle
    <3>1. build' = NoBuild
          /\ lastBuild'.before = run.before /\ lastBuild'.done = run.done
      BY <1>7, <2>1 DEF TrackBuild, BuildRun
    <3> HIDE DEF run
    <3>2. QED
      BY <1>2, <1>7, <3>1 DEF NoBuild
  <2>2. CASE ~(quiet >= BuildIdle)
    <3>1. build'.before = run.before /\ build'.done = run.done /\ lastBuild' = lastBuild
      BY <1>7, <2>2 DEF TrackBuild, BuildRun
    <3> HIDE DEF run
    <3>2. QED
      BY <1>2, <1>7, <3>1
  <2>3. QED
    BY <2>1, <2>2
<1>8. QED
  BY <1>1, <1>3, <1>4, <1>5, <1>6, <1>7 DEF BuildPhase

\* No two builds share a file, and no build outlives the counters it is
\* measured against.
THEOREM BuildsNeverShareAFile == Spec => []BuildsShareNoFile
<1>1. Init => BuildsShareNoFile
  BY DEF Init, BuildsShareNoFile, NoBuild, NoTotals, CompletedBy
<1>2. ASSUME TypeOK, TypeOK', BuildsShareNoFile, [Next]_vars
      PROVE  BuildsShareNoFile'
  <2>t. CompletedBy(totals) \in Nat /\ CompletedBy(totals') \in Nat
    <3>1. totals \in Totals /\ totals' \in Totals
      BY <1>2 DEF TypeOK
    <3>2. QED
      BY <3>1 DEF Totals, CompletedBy
  <2>1. CASE Connecting \/ Disconnected
    BY <1>2, <2>t, <2>1, BuildsKept DEF Connecting, Disconnected
  <2>2. ASSUME NEW t \in Targets, Connected(t) PROVE BuildsShareNoFile'
    BY <2>2 DEF Connected, Reset, BuildsShareNoFile, NoBuild, NoTotals, CompletedBy
  <2>3. CASE Event
    <3>1. UNCHANGED buildVars
      BY <2>3 DEF Event, GetCs, JobBegin, LocalJobBegin, JobDone, LocalJobDone,
         Stats, Offline, Other, vars
    <3>2. \/ totals' = totals
          \/ totals' = [totals EXCEPT !.unmatched = @ + 1]
          \/ totals' = [totals EXCEPT !.left = @ + 1]
          \/ totals' = [totals EXCEPT !.local = @ + 1]
          \/ \E s, ok : totals' = CountDone(totals, s, ok)
      BY <2>3 DEF Event, GetCs, JobBegin, LocalJobBegin, JobDone, LocalJobDone,
         Stats, Offline, Other, vars, Unmatched
    <3>3. totals \in Totals
      BY <1>2 DEF TypeOK
    <3>4. \A s, ok : CompletedBy(CountDone(totals, s, ok)) >= CompletedBy(totals)
      <4>1. TAKE s, ok
      <4>2. CASE s = "Local"
        BY <3>3, <4>2 DEF CountDone, CompletedBy, Totals
      <4>3. CASE s # "Local"
        BY <3>3, <4>3 DEF CountDone, CompletedBy, Totals
      <4>4. QED
        BY <4>2, <4>3
    <3>5. CompletedBy([totals EXCEPT !.unmatched = @ + 1]) >= CompletedBy(totals)
          /\ CompletedBy([totals EXCEPT !.left = @ + 1]) >= CompletedBy(totals)
          /\ CompletedBy([totals EXCEPT !.local = @ + 1]) >= CompletedBy(totals)
      BY <3>3 DEF CompletedBy, Totals
    <3>6. CompletedBy(totals') >= CompletedBy(totals)
      BY <2>t, <3>2, <3>4, <3>5
    <3>7. QED
      BY <1>2, <2>t, <3>1, <3>6, BuildsKept
  <2>4. ASSUME NEW d \in TickGaps, Tick(d) PROVE BuildsShareNoFile'
    <3> DEFINE busy == Busy(Drop(Aged(jobs, d), Expired(Aged(jobs, d))))
    <3>1. busy \in BOOLEAN
      BY DEF Busy
    <3>2. TrackBuild(busy, CompletedBy(totals), d)
      BY <2>4 DEF Tick
    <3>3. CompletedBy(totals') = CompletedBy(totals)
      BY <1>2, <2>4 DEF Tick, CompletedBy, TypeOK, Totals
    <3>4. build \in BuildRun /\ lastBuild \in BuildRun /\ d \in Nat
      BY <1>2 DEF TypeOK
    <3> HIDE DEF busy
    <3>5. QED
      BY <1>2, <2>t, <3>1, <3>2, <3>3, <3>4, TrackKeepsBuildsApart
         DEF BuildsShareNoFile
  <2>5. CASE UNCHANGED vars
    BY <1>2, <2>t, <2>5, BuildsKept DEF vars
  <2>6. QED
    BY <1>2, <2>1, <2>2, <2>3, <2>4, <2>5 DEF Next, Session
<1>3. QED
  BY <1>1, <1>2, TypeCorrect, PTL DEF Spec

-----------------------------------------------------------------------------
(* What the rows say of finished files is within what the headline says.   *)
(*                                                                         *)
(* The invariant compares the two tick by tick: of the files that finished *)
(* k ticks ago, the rows on screen hold no more than the headline does.    *)
(* A row that leaves takes its share away, and a new row has none.  It     *)
(* says the same of the files that no tick has sampled, which is what the  *)
(* next tick turns into the samples of age 0.                              *)

\* The sample s took k ticks ago, 0 if it has none that old.
At(s, k) == IF k < Len(s) THEN s[Len(s) - k] ELSE 0

\* What each row says of the tick k ticks ago, and of the time since the last.
Column(ns, k) == [h \in DOMAIN ns |-> At(ns[h].perTick, k)]
Unsampled(ns) == [h \in DOMAIN ns |-> ns[h].total - ns[h].totalAtLastTick]

WindowsOK ==
  /\ Len(rate) <= RateWindow
  /\ \A h \in DOMAIN nodes : /\ Len(nodes[h].perTick) <= CompletionWindow
                             /\ nodes[h].totalAtLastTick <= nodes[h].total

TicksWithinRate ==
  /\ \A k \in Nat : SumFunction(Column(nodes, k)) <= At(rate, k)
  /\ SumFunction(Unsampled(nodes)) <= CompletedBy(totals) - lastCompleted

\* A sample is a number, and its age is that of its place in the window.
LEMMA AtType == ASSUME NEW s \in Seq(Nat), NEW k \in Nat PROVE At(s, k) \in Nat
  BY DEF At

\* Window t is s one tick later: x is new and every other sample one tick older.
OneTickLater(t, s, x, size) ==
  /\ Len(t) <= size
  /\ At(t, 0) = x
  /\ \A k \in Nat : At(t, k + 1) = IF k + 1 < size THEN At(s, k) ELSE 0

\* That is what pushing a sample into a bounded window does.
LEMMA PushAges ==
  ASSUME NEW s \in Seq(Nat), NEW x \in Nat, NEW size \in Nat \ {0}, Len(s) <= size
  PROVE  OneTickLater(Push(s, x, size), s, x, size)
<1> DEFINE t == Push(s, x, size)
<1>1. CASE Len(s) = size
  <2>1. s # <<>> /\ Tail(s) \in Seq(Nat) /\ Len(Tail(s)) = size - 1
        /\ \A i \in 1 .. size - 1 : Tail(s)[i] = s[i + 1]
    BY <1>1
  <2>2. t = Append(Tail(s), x)
    BY <1>1 DEF Push
  <2>3. /\ Len(t) = size /\ t[size] = x
        /\ \A i \in 1 .. size - 1 : t[i] = s[i + 1]
    BY <2>1, <2>2
  <2> HIDE DEF t
  <2>4. At(t, 0) = x
    BY <2>3 DEF At
  <2>5. ASSUME NEW k \in Nat PROVE At(t, k + 1) = IF k + 1 < size THEN At(s, k) ELSE 0
    <3>1. CASE k + 1 < size
      <4>1. size - (k + 1) \in 1 .. size - 1 /\ size - (k + 1) + 1 = size - k
        BY <3>1
      <4>2. t[size - (k + 1)] = s[size - k]
        BY <2>3, <4>1
      <4>3. QED
        BY <1>1, <2>3, <3>1, <4>2 DEF At
    <3>2. CASE ~(k + 1 < size)
      BY <2>3, <3>2 DEF At
    <3>3. QED
      BY <3>1, <3>2
  <2>6. QED
    BY <2>3, <2>4, <2>5 DEF t, OneTickLater
<1>2. CASE Len(s) # size
  <2> DEFINE n == Len(s)
  <2>1. t = Append(s, x) /\ n \in Nat /\ n < size
    BY <1>2 DEF Push
  <2>2. Len(t) = n + 1 /\ t[n + 1] = x /\ \A i \in 1 .. n : t[i] = s[i]
    BY <2>1
  <2> HIDE DEF t
  <2>3. At(t, 0) = x
    BY <2>1, <2>2 DEF At
  <2>4. ASSUME NEW k \in Nat PROVE At(t, k + 1) = IF k + 1 < size THEN At(s, k) ELSE 0
    <3>1. CASE k < n
      <4>1. n - k \in 1 .. n /\ (n + 1) - (k + 1) = n - k
        BY <2>1, <3>1
      <4>2. t[(n + 1) - (k + 1)] = s[n - k]
        BY <2>2, <4>1
      <4>3. QED
        BY <2>1, <2>2, <3>1, <4>2 DEF At
    <3>2. CASE ~(k < n)
      BY <2>1, <2>2, <3>2 DEF At
    <3>3. QED
      BY <3>1, <3>2
  <2>5. QED
    BY <2>1, <2>2, <2>3, <2>4 DEF t, OneTickLater
<1>3. QED
  BY <1>1, <1>2

\* A window's total is the sum of its samples of each age.
LEMMA SumByAge ==
  ASSUME NEW s \in Seq(Nat), NEW w \in Nat, Len(s) <= w
  PROVE  SumFunction(s) = SumFunctionOnSet([k \in 0 .. w - 1 |-> At(s, k)], 0 .. w - 1)
<1> DEFINE n == Len(s)
           I == 1 .. n
           A == 0 .. n - 1
           B == 0 .. w - 1
           a == [k \in B |-> At(s, k)]
           b == [i \in I |-> n - i]
<1>1. n \in Nat /\ A \in SUBSET B /\ IsFiniteSet(I) /\ IsFiniteSet(B)
  <2>1. n \in Nat /\ A \in SUBSET B /\ w - 1 \in Int /\ 0 \in Int /\ 1 \in Int
    OBVIOUS
  <2> HIDE DEF n
  <2>2. IsFiniteSet(I) /\ IsFiniteSet(B)
    BY <2>1, FS_Interval
  <2>3. QED
    BY <2>1, <2>2
<1>2. SumFunction(s) = SumFunctionOnSet(s, I)
  BY SumOfSeq
<1>3. b \in [I -> A]
  BY <1>1
<1>4. \A x, y \in I : b[x] = b[y] => x = y
  BY <1>1
<1>5. \A z \in A : \E x \in I : b[x] = z
  <2>1. TAKE z \in A
  <2>2. n - z \in I /\ b[n - z] = z
    BY <1>1
  <2>3. QED
    BY <2>2
<1>6. \A k \in B : a[k] \in Int
  BY AtType
<1>7. \A i \in I : s[i] = a[b[i]]
  <2>1. TAKE i \in I
  <2>2. b[i] \in B /\ b[i] < n /\ n - b[i] = i
    BY <1>1
  <2>3. a[b[i]] = At(s, b[i])
    BY <2>2
  <2>4. QED
    BY <2>2, <2>3 DEF At
<1>8. \A k \in B \ A : a[k] = 0
  BY <1>1 DEF At
<1>9. \A k \in A : a[k] \in Int
  BY <1>1, <1>6
<1> HIDE DEF n, I, A, B, a, b
<1>10. SumFunctionOnSet(s, I) = SumFunctionOnSet(a, A)
  BY <1>1, <1>3, <1>4, <1>5, <1>7, <1>9, SumRenamed
<1>11. SumFunctionOnSet(a, B) = SumFunctionOnSet(a, A)
  BY <1>1, <1>6, <1>8, SumOfSome
<1>12. QED
  BY <1>2, <1>10, <1>11 DEF a, B

\* The sums of the invariant are over finitely many rows, of naturals.
LEMMA ColumnTypes ==
  ASSUME NEW ns, DOMAIN ns \subseteq Hosts, ns \in [DOMAIN ns -> Node],
         \A h \in DOMAIN ns : ns[h].totalAtLastTick <= ns[h].total
  PROVE  /\ IsFiniteSet(DOMAIN ns)
         /\ DOMAIN Unsampled(ns) = DOMAIN ns
         /\ \A h \in DOMAIN ns : Unsampled(ns)[h] \in Nat
         /\ \A k \in Nat : /\ DOMAIN Column(ns, k) = DOMAIN ns
                           /\ \A h \in DOMAIN ns : Column(ns, k)[h] \in Nat
<1>1. \A h \in DOMAIN ns : ns[h].perTick \in Seq(Nat)
                           /\ ns[h].total \in Nat /\ ns[h].totalAtLastTick \in Nat
  BY DEF Node
<1>2. \A h \in DOMAIN ns : Unsampled(ns)[h] \in Nat
  BY <1>1 DEF Unsampled
<1>3. \A k \in Nat, h \in DOMAIN ns : Column(ns, k)[h] \in Nat
  BY <1>1, AtType DEF Column
<1>4. IsFiniteSet(DOMAIN ns)
  BY FS_Subset
<1>5. QED
  BY <1>2, <1>3, <1>4 DEF Unsampled, Column

\* Rows that leave, rows that arrive empty and files counted for the cluster
\* alone keep the column within the rate.
LEMMA RowsKeepColumn ==
  ASSUME TypeOK, TypeOK', WindowsOK, TicksWithinRate,
         rate' = rate, lastCompleted' = lastCompleted,
         CompletedBy(totals') >= CompletedBy(totals),
         \A h \in DOMAIN nodes' \ DOMAIN nodes : nodes'[h] = FreshNode,
         \A h \in DOMAIN nodes' \cap DOMAIN nodes :
           /\ nodes'[h].total = nodes[h].total
           /\ nodes'[h].totalAtLastTick = nodes[h].totalAtLastTick
           /\ nodes'[h].perTick = nodes[h].perTick
  PROVE  WindowsOK' /\ TicksWithinRate'
<1> DEFINE S == DOMAIN nodes
           T == DOMAIN nodes'
           f == Unsampled(nodes)
           g == Unsampled(nodes')
<1>1. WindowsOK'
  BY DEF WindowsOK, FreshNode
<1>2. /\ IsFiniteSet(S) /\ DOMAIN f = S /\ \A h \in S : f[h] \in Nat
      /\ IsFiniteSet(T) /\ DOMAIN g = T /\ \A h \in T : g[h] \in Nat
  BY <1>1, ColumnTypes DEF TypeOK, WindowsOK
<1>t. /\ CompletedBy(totals) \in Nat /\ CompletedBy(totals') \in Nat
      /\ lastCompleted \in Nat
  <2>1. totals \in Totals /\ totals' \in Totals /\ lastCompleted \in Nat
    BY DEF TypeOK
  <2>2. QED
    BY <2>1 DEF CompletedBy, Totals
<1>3. \A h \in T \cap S : g[h] <= f[h]
  <2>1. \A h \in T \cap S : g[h] = f[h]
    BY DEF Unsampled
  <2> HIDE DEF f, g
  <2>2. QED
    BY <1>2, <2>1
<1>4. \A h \in T \ S : g[h] = 0
  BY DEF Unsampled, FreshNode
<1>5. SumFunctionOnSet(g, T) <= SumFunctionOnSet(f, S)
  <2> HIDE DEF f, g, S, T
  <2>1. QED
    BY <1>2, <1>3, <1>4, SumShrinks
<1>6. SumFunctionOnSet(g, T) \in Nat /\ SumFunctionOnSet(f, S) \in Nat
  <2> HIDE DEF f, g, S, T
  <2>1. QED
    BY <1>2, SumNat
<1>7. SumFunctionOnSet(f, S) <= CompletedBy(totals) - lastCompleted
  BY <1>2 DEF TicksWithinRate, SumFunction
<1>8. SumFunctionOnSet(g, T) <= CompletedBy(totals') - lastCompleted'
  <2> HIDE DEF f, g, S, T
  <2>1. QED
    BY <1>t, <1>5, <1>6, <1>7
<1>9. ASSUME NEW k \in Nat
      PROVE  SumFunctionOnSet(Column(nodes', k), T) <= At(rate', k)
  <2> DEFINE c == Column(nodes, k)
             e == Column(nodes', k)
  <2>1. /\ DOMAIN c = S /\ \A h \in S : c[h] \in Nat
        /\ DOMAIN e = T /\ \A h \in T : e[h] \in Nat
    BY <1>1, ColumnTypes DEF TypeOK, WindowsOK
  <2>2. \A h \in T \cap S : e[h] = c[h]
    BY DEF Column
  <2>3. \A h \in T \ S : e[h] = 0
    BY DEF Column, FreshNode, At
  <2>4. SumFunctionOnSet(c, S) <= At(rate, k)
    BY <2>1 DEF TicksWithinRate, SumFunction
  <2>5. At(rate, k) \in Nat /\ At(rate', k) = At(rate, k)
    BY AtType DEF TypeOK
  <2> HIDE DEF c, e, S, T
  <2>6. \A h \in T \cap S : e[h] <= c[h]
    BY <2>1, <2>2
  <2>7. SumFunctionOnSet(e, T) <= SumFunctionOnSet(c, S)
    BY <1>2, <2>1, <2>3, <2>6, SumShrinks
  <2>8. SumFunctionOnSet(e, T) \in Nat /\ SumFunctionOnSet(c, S) \in Nat
    BY <1>2, <2>1, SumNat
  <2>9. SumFunctionOnSet(e, T) <= At(rate', k)
    BY <2>4, <2>5, <2>7, <2>8
  <2>10. QED
    BY <2>9 DEF e
<1>10. \A k \in Nat : DOMAIN Column(nodes', k) = T
  BY DEF Column
<1>11. QED
  BY <1>1, <1>2, <1>8, <1>9, <1>10 DEF TicksWithinRate, SumFunction

\* A file counted for a row and for the cluster keeps the column within the rate.
LEMMA FileKeepsColumn ==
  ASSUME TypeOK, TypeOK', WindowsOK, TicksWithinRate,
         rate' = rate, lastCompleted' = lastCompleted,
         CompletedBy(totals') = CompletedBy(totals) + 1,
         DOMAIN nodes' = DOMAIN nodes, NEW p \in DOMAIN nodes,
         \A h \in DOMAIN nodes :
           /\ nodes'[h].total = IF h = p THEN nodes[h].total + 1 ELSE nodes[h].total
           /\ nodes'[h].totalAtLastTick = nodes[h].totalAtLastTick
           /\ nodes'[h].perTick = nodes[h].perTick
  PROVE  WindowsOK' /\ TicksWithinRate'
<1> DEFINE S == DOMAIN nodes
           f == Unsampled(nodes)
           g == Unsampled(nodes')
<1>1. \A h \in S : /\ nodes[h].total \in Nat /\ nodes[h].totalAtLastTick \in Nat
  BY DEF TypeOK, Node
<1>2. WindowsOK'
  BY <1>1 DEF WindowsOK
<1>3. /\ IsFiniteSet(S) /\ DOMAIN f = S /\ \A h \in S : f[h] \in Nat
      /\ DOMAIN g = S
  BY <1>2, ColumnTypes DEF TypeOK, WindowsOK
<1>t. CompletedBy(totals) \in Nat /\ lastCompleted \in Nat
  <2>1. totals \in Totals /\ lastCompleted \in Nat
    BY DEF TypeOK
  <2>2. QED
    BY <2>1 DEF CompletedBy, Totals
<1>4. \A h \in S : g[h] = IF h = p THEN f[h] + 1 ELSE f[h]
  BY <1>1 DEF Unsampled
<1>5. SumFunctionOnSet(g, S) = SumFunctionOnSet(f, S) + 1
  <2>1. p \in S /\ \A h \in S : f[h] \in Int
    BY <1>3
  <2> HIDE DEF f, g, S
  <2>2. QED
    BY <1>3, <1>4, <2>1, SumOneMore
<1>6. SumFunctionOnSet(f, S) \in Nat
  <2> HIDE DEF f, S
  <2>1. QED
    BY <1>3, SumNat
<1>7. SumFunctionOnSet(f, S) <= CompletedBy(totals) - lastCompleted
  BY <1>3 DEF TicksWithinRate, SumFunction
<1>8. SumFunctionOnSet(g, S) <= CompletedBy(totals') - lastCompleted'
  <2> HIDE DEF f, g, S
  <2>1. QED
    BY <1>t, <1>5, <1>6, <1>7
<1>9. \A k \in Nat : Column(nodes', k) = Column(nodes, k)
  BY DEF Column
<1>10. QED
  BY <1>2, <1>3, <1>8, <1>9 DEF TicksWithinRate, SumFunction

\* What the File/s column is computed from.
SameFigures(m, n) == /\ m.total = n.total
                     /\ m.totalAtLastTick = n.totalAtLastTick
                     /\ m.perTick = n.perTick

\* Only a finished file changes what the column is computed from.
LEMMA FiguresOfOps ==
  ASSUME NEW n \in Node, NEW j, NEW h, NEW lost
  PROVE  /\ SameFigures(TakeJob(n, j), n)
         /\ SameFigures(TakeLocal(n, j), n)
         /\ SameFigures(CreditClient(n), n)
         /\ SameFigures(ReleaseJob(n, j), n)
         /\ SameFigures(ReleaseLocal(n, j), n)
         /\ SameFigures(Measure(n), n)
         /\ SameFigures(Idled(n), n)
         /\ SameFigures(Freed(n, h, lost), n)
         /\ SameFigures(n, n)
<1>1. /\ SameFigures(TakeJob(n, j), n)
      /\ SameFigures(TakeLocal(n, j), n)
      /\ SameFigures(CreditClient(n), n)
  BY DEF Node, SameFigures, TakeJob, TakeLocal, CreditClient
<1>2. /\ SameFigures(ReleaseJob(n, j), n)
      /\ SameFigures(ReleaseLocal(n, j), n)
      /\ SameFigures(Measure(n), n)
  BY DEF Node, SameFigures, ReleaseJob, ReleaseLocal, Measure
<1>3. /\ SameFigures(Idled(n), n)
      /\ SameFigures(Freed(n, h, lost), n)
      /\ SameFigures(n, n)
  BY DEF Node, SameFigures, Idled, Freed
<1>4. QED
  BY <1>1, <1>2, <1>3

\* A begin changes no figure of the column.
LEMMA BeginKeepsColumn ==
  ASSUME TypeOK, NEW j \in JobIds, NEW h \in Hosts,
         JobBegin(j, h) \/ LocalJobBegin(j, h)
  PROVE  /\ DOMAIN nodes' = DOMAIN nodes
         /\ \A x \in DOMAIN nodes : SameFigures(nodes'[x], nodes[x])
<1>0. \A x \in DOMAIN nodes : nodes[x] \in Node
  BY DEF TypeOK
<1>1. CASE JobBegin(j, h)
  <2> DEFINE c == ClientOf(j)
             placed == SetNode(nodes, h, TakeJob(nodes[h], j))
  <2>1. nodes' = SetNode(placed, c, CreditClient(placed[c]))
    BY <1>1 DEF JobBegin
  <2>2. DOMAIN placed = DOMAIN nodes
        /\ \A x \in DOMAIN nodes : placed[x] \in Node /\ SameFigures(placed[x], nodes[x])
    <3>1. h \in DOMAIN nodes => TakeJob(nodes[h], j) \in Node
                                /\ SameFigures(TakeJob(nodes[h], j), nodes[h])
      BY <1>0, NodeOps, FiguresOfOps
    <3>2. \A x \in DOMAIN nodes : SameFigures(nodes[x], nodes[x])
      BY DEF SameFigures
    <3>3. QED
      BY <1>0, <3>1, <3>2 DEF SetNode
  <2> HIDE DEF placed, c
  <2>3. c \in DOMAIN placed => SameFigures(CreditClient(placed[c]), placed[c])
    BY <2>2, FiguresOfOps
  <2>4. DOMAIN nodes' = DOMAIN nodes
    BY <2>1, <2>2 DEF SetNode
  <2>5. \A x \in DOMAIN nodes :
          nodes'[x] = placed[x] \/ (x = c /\ nodes'[x] = CreditClient(placed[x]))
    BY <2>1, <2>2 DEF SetNode
  <2>6. \A x \in DOMAIN nodes : SameFigures(nodes'[x], nodes[x])
    BY <2>2, <2>3, <2>5 DEF SameFigures
  <2>7. QED
    BY <2>4, <2>6
<1>2. CASE LocalJobBegin(j, h)
  <2>1. nodes' = SetNode(nodes, h, TakeLocal(nodes[h], j))
    BY <1>2 DEF LocalJobBegin
  <2>2. h \in DOMAIN nodes => SameFigures(TakeLocal(nodes[h], j), nodes[h])
    BY <1>0, FiguresOfOps
  <2>3. QED
    BY <2>1, <2>2 DEF SetNode, SameFigures
<1>3. QED
  BY <1>1, <1>2

\* An end counts a file for the row it ran on, if that is on screen, and for the
\* cluster; or for neither.
LEMMA EndCountsFile ==
  ASSUME TypeOK, NEW j \in JobIds,
         LocalJobDone(j) \/ \E ok, timed \in BOOLEAN : JobDone(j, ok, timed)
  PROVE  /\ DOMAIN nodes' = DOMAIN nodes
         /\ \/ /\ CompletedBy(totals') = CompletedBy(totals) + 1
               /\ \E p \in DOMAIN nodes :
                    \A x \in DOMAIN nodes :
                      /\ nodes'[x].total = IF x = p THEN nodes[x].total + 1
                                                    ELSE nodes[x].total
                      /\ nodes'[x].totalAtLastTick = nodes[x].totalAtLastTick
                      /\ nodes'[x].perTick = nodes[x].perTick
            \/ /\ CompletedBy(totals') >= CompletedBy(totals)
               /\ nodes' = nodes
<1>0. totals \in Totals /\ CompletedBy(totals) \in Nat
      /\ \A x \in DOMAIN nodes : nodes[x] \in Node
  <2>1. totals \in Totals
    BY DEF TypeOK
  <2>2. CompletedBy(totals) \in Nat
    BY <2>1 DEF CompletedBy, Totals
  <2>3. QED
    BY <2>1, <2>2 DEF TypeOK
<1>1. CASE j \notin DOMAIN jobs
  <2>1. Unmatched
    BY <1>1 DEF LocalJobDone, JobDone
  <2>2. CompletedBy(totals') = CompletedBy(totals) /\ nodes' = nodes
    BY <1>0, <2>1 DEF Unmatched, CompletedBy, Totals
  <2>3. QED
    BY <1>0, <2>2
<1>2. CASE j \in DOMAIN jobs
  <2> DEFINE h == jobs[j].host
             Filed == \E n : /\ nodes' = SetNode(nodes, h, n)
                             /\ h \in DOMAIN nodes =>
                                  /\ n.total = nodes[h].total + 1
                                  /\ n.totalAtLastTick = nodes[h].totalAtLastTick
                                  /\ n.perTick = nodes[h].perTick
  <2>1. CompletedBy(totals') = CompletedBy(totals) + 1
    <3>1. CASE LocalJobDone(j)
      BY <1>0, <1>2, <3>1 DEF LocalJobDone, CompletedBy, Totals
    <3>2. ASSUME NEW ok \in BOOLEAN, NEW timed \in BOOLEAN, JobDone(j, ok, timed)
          PROVE  CompletedBy(totals') = CompletedBy(totals) + 1
      <4>1. totals' = CountDone(totals, jobs[j].state, ok)
        BY <1>2, <3>2 DEF JobDone
      <4>2. CASE jobs[j].state = "Local"
        BY <1>0, <4>1, <4>2 DEF CountDone, CompletedBy, Totals
      <4>3. CASE jobs[j].state # "Local"
        BY <1>0, <4>1, <4>3 DEF CountDone, CompletedBy, Totals
      <4>4. QED
        BY <4>2, <4>3
    <3>3. QED
      BY <3>1, <3>2
  <2>2. Filed
    <3>0. ASSUME h \in DOMAIN nodes, NEW m \in Node, SameFigures(m, nodes[h])
          PROVE  /\ CountFile(m).total = nodes[h].total + 1
                 /\ CountFile(m).totalAtLastTick = nodes[h].totalAtLastTick
                 /\ CountFile(m).perTick = nodes[h].perTick
                 /\ SameFigures(Measure(CountFile(m)), CountFile(m))
      <4>1. CountFile(m) \in Node
        BY <3>0, NodeOps
      <4>2. SameFigures(Measure(CountFile(m)), CountFile(m))
        BY <4>1, FiguresOfOps
      <4>3. QED
        BY <3>0, <4>2 DEF CountFile, Node, SameFigures
    <3>1. CASE LocalJobDone(j)
      <4>1. nodes' = SetNode(nodes, h, CountFile(ReleaseLocal(nodes[h], j)))
        BY <1>2, <3>1 DEF LocalJobDone
      <4>2. h \in DOMAIN nodes => ReleaseLocal(nodes[h], j) \in Node
                                  /\ SameFigures(ReleaseLocal(nodes[h], j), nodes[h])
        BY <1>0, NodeOps, FiguresOfOps
      <4>3. QED
        BY <3>0, <4>1, <4>2
    <3>2. ASSUME NEW ok \in BOOLEAN, NEW timed \in BOOLEAN, JobDone(j, ok, timed)
          PROVE  Filed
      <4> DEFINE freed == CountFile(ReleaseJob(nodes[h], j))
      <4>1. \/ nodes' = SetNode(nodes, h, freed)
            \/ nodes' = SetNode(nodes, h, Measure(freed))
        BY <1>2, <3>2 DEF JobDone
      <4>2. h \in DOMAIN nodes => ReleaseJob(nodes[h], j) \in Node
                                  /\ SameFigures(ReleaseJob(nodes[h], j), nodes[h])
        BY <1>0, NodeOps, FiguresOfOps
      <4>3. h \in DOMAIN nodes => /\ freed.total = nodes[h].total + 1
                                  /\ freed.totalAtLastTick = nodes[h].totalAtLastTick
                                  /\ freed.perTick = nodes[h].perTick
                                  /\ SameFigures(Measure(freed), freed)
        BY <3>0, <4>2
      <4> HIDE DEF freed, h
      <4>4. QED
        BY <4>1, <4>3 DEF SameFigures
    <3>3. QED
      BY <3>1, <3>2
  <2>3. QED
    BY <1>0, <2>1, <2>2 DEF SetNode
<1>3. QED
  BY <1>1, <1>2

\* A tick turns what no tick has sampled into the newest samples, on the rows and
\* in the headline, and forgets on the rows first.
LEMMA TickKeepsColumn ==
  ASSUME TypeOK, TypeOK', WindowsOK, TicksWithinRate, WindowsAssumption,
         NEW d \in TickGaps, Tick(d)
  PROVE  WindowsOK' /\ TicksWithinRate'
<1> DEFINE lost == Expired(Aged(jobs, d))
           held == [h \in DOMAIN nodes |-> Freed(nodes[h], h, lost)]
           S == DOMAIN nodes
           done == CompletedBy(totals)
           new(h) == nodes[h].total - nodes[h].totalAtLastTick
<1>1. /\ \A h \in S : nodes[h] \in Node
      /\ done \in Nat /\ lastCompleted \in Nat /\ rate \in Seq(Nat)
      /\ totals \in Totals
  <2>1. totals \in Totals /\ lastCompleted \in Nat
    BY DEF TypeOK
  <2>2. done \in Nat
    BY <2>1 DEF CompletedBy, Totals
  <2>3. QED
    BY <2>1, <2>2 DEF TypeOK
<1>2. /\ IsFiniteSet(S)
      /\ DOMAIN Unsampled(nodes) = S
      /\ \A h \in S : Unsampled(nodes)[h] \in Nat
      /\ \A k \in Nat : /\ DOMAIN Column(nodes, k) = S
                        /\ \A h \in S : Column(nodes, k)[h] \in Nat
  BY ColumnTypes DEF TypeOK, WindowsOK
<1>3. DOMAIN nodes' = S
  BY DEF Tick
<1>4. \A h \in S : /\ nodes'[h].total = nodes[h].total
                   /\ nodes'[h].totalAtLastTick = nodes[h].total
                   /\ nodes'[h].perTick = Push(nodes[h].perTick, new(h), CompletionWindow)
  <2>1. TAKE h \in S
  <2>2. nodes'[h] = TickNode(held[h]) /\ held[h] = Freed(nodes[h], h, lost)
    BY DEF Tick
  <2>3. held[h] \in Node /\ SameFigures(held[h], nodes[h])
    BY <1>1, <2>2, FreedType, FiguresOfOps
  <2>4. nodes[h].total \in Nat /\ nodes[h].totalAtLastTick \in Nat
        /\ nodes[h].totalAtLastTick <= nodes[h].total
    BY <1>1 DEF Node, WindowsOK
  <2> HIDE DEF held
  <2>5. Minus(held[h].total, held[h].totalAtLastTick) = new(h)
    BY <2>3, <2>4 DEF Minus, SameFigures
  <2> HIDE DEF new
  <2>6. QED
    BY <2>2, <2>3, <2>5 DEF TickNode, SameFigures, Node
<1>5. /\ SumFunctionOnSet(Unsampled(nodes), S) <= done - lastCompleted
      /\ SumFunctionOnSet(Unsampled(nodes), S) \in Nat
  <2>1. SumFunctionOnSet(Unsampled(nodes), S) <= done - lastCompleted
    BY <1>2 DEF TicksWithinRate, SumFunction
  <2> HIDE DEF S
  <2>2. QED
    BY <1>2, <2>1, SumNat
<1>6. done >= lastCompleted
  <2> HIDE DEF done
  <2>1. QED
    BY <1>1, <1>5
<1>7. rate' = Push(rate, done - lastCompleted, RateWindow) /\ lastCompleted' = done
      /\ CompletedBy(totals') = done
  <2>1. rate' = Push(rate, Minus(done, lastCompleted), RateWindow) /\ lastCompleted' = done
    BY DEF Tick
  <2>2. CompletedBy(totals') = done
    BY <1>1 DEF Tick, CompletedBy, Totals
  <2> HIDE DEF done
  <2>3. QED
    BY <1>1, <1>6, <2>1, <2>2 DEF Minus
<1>8. \A h \in S : /\ Len(nodes'[h].perTick) <= CompletionWindow
                   /\ At(nodes'[h].perTick, 0) = Unsampled(nodes)[h]
                   /\ \A k \in Nat : At(nodes'[h].perTick, k + 1)
                        = IF k + 1 < CompletionWindow THEN Column(nodes, k)[h] ELSE 0
  <2>1. TAKE h \in S
  <2>2. /\ nodes[h].perTick \in Seq(Nat) /\ Len(nodes[h].perTick) <= CompletionWindow
        /\ new(h) \in Nat /\ new(h) = Unsampled(nodes)[h]
        /\ \A k : Column(nodes, k)[h] = At(nodes[h].perTick, k)
    BY <1>1, <1>2 DEF Node, WindowsOK, Unsampled, Column
  <2>3. CompletionWindow \in Nat \ {0}
    OBVIOUS
  <2> DEFINE s == nodes[h].perTick
             t == nodes'[h].perTick
             x == new(h)
  <2>4. /\ s \in Seq(Nat) /\ Len(s) <= CompletionWindow /\ x \in Nat
        /\ t = Push(s, x, CompletionWindow)
    BY <1>4, <2>2
  <2> HIDE DEF s, t, x
  <2>5. /\ Len(t) <= CompletionWindow /\ At(t, 0) = x
        /\ \A k \in Nat : At(t, k + 1) = IF k + 1 < CompletionWindow THEN At(s, k) ELSE 0
    <3>1. OneTickLater(t, s, x, CompletionWindow)
      BY <2>3, <2>4, PushAges
    <3>2. QED
      BY <3>1 DEF OneTickLater
  <2>6. QED
    BY <2>2, <2>5 DEF s, t, x
<1>9. /\ Len(rate') <= RateWindow
      /\ At(rate', 0) = done - lastCompleted
      /\ \A k \in Nat : At(rate', k + 1) = IF k + 1 < RateWindow THEN At(rate, k) ELSE 0
  <2> DEFINE x == done - lastCompleted
  <2>1. Len(rate) <= RateWindow /\ RateWindow \in Nat \ {0} /\ x \in Nat
    <3> HIDE DEF done
    <3>1. x \in Nat
      BY <1>1, <1>6
    <3>2. QED
      BY <3>1 DEF WindowsOK
  <2>2. rate' = Push(rate, x, RateWindow)
    BY <1>7
  <2> HIDE DEF x
  <2>3. /\ Len(rate') <= RateWindow /\ At(rate', 0) = x
        /\ \A k \in Nat : At(rate', k + 1) = IF k + 1 < RateWindow THEN At(rate, k) ELSE 0
    <3>1. OneTickLater(rate', rate, x, RateWindow)
      BY <1>1, <2>1, <2>2, PushAges
    <3>2. QED
      BY <3>1 DEF OneTickLater
  <2>4. QED
    BY <2>3 DEF x
<1>10. WindowsOK'
  <2>1. \A h \in S : nodes'[h].totalAtLastTick <= nodes'[h].total
    <3>1. \A h \in S : nodes[h].total \in Nat
      BY <1>1 DEF Node
    <3> HIDE DEF new
    <3>2. QED
      BY <1>4, <3>1
  <2>2. (\A h \in S : Len(nodes'[h].perTick) <= CompletionWindow) /\ Len(rate') <= RateWindow
    BY <1>8, <1>9
  <2>3. QED
    BY <1>3, <2>1, <2>2 DEF WindowsOK
<1>11. SumFunctionOnSet(Unsampled(nodes'), S) = 0
  <2>1. \A h \in S : Unsampled(nodes')[h] = 0
    <3>1. \A h \in S : nodes[h].total \in Nat
      BY <1>1 DEF Node
    <3>2. QED
      BY <1>3, <1>4, <3>1 DEF Unsampled
  <2> DEFINE g == Unsampled(nodes')
  <2>2. /\ {} \in SUBSET S /\ \A h \in S : g[h] \in Int
        /\ \A h \in S \ {} : g[h] = 0
    BY <2>1
  <2> HIDE DEF g, S
  <2>3. SumFunctionOnSet(g, S) = SumFunctionOnSet(g, {})
    BY <1>2, <2>2, SumOfSome
  <2>4. SumFunctionOnSet(g, S) = 0
    BY <2>3, SumOfNone
  <2>5. QED
    BY <2>4 DEF g
<1>12. ASSUME NEW k \in Nat
       PROVE  SumFunctionOnSet(Column(nodes', k), S) <= At(rate', k)
  <2> DEFINE c == Column(nodes', k)
  <2>1. \A h \in S : c[h] = At(nodes'[h].perTick, k)
    BY <1>3 DEF Column
  <2>2. CASE k = 0
    <3>1. \A h \in S : c[h] = Unsampled(nodes)[h]
      BY <1>8, <2>1, <2>2
    <3> HIDE DEF c, S, done
    <3>2. SumFunctionOnSet(c, S) = SumFunctionOnSet(Unsampled(nodes), S)
      BY <1>2, <3>1, SumSame
    <3>3. SumFunctionOnSet(c, S) <= At(rate', k)
      BY <1>5, <1>9, <2>2, <3>2
    <3>4. QED
      BY <3>3 DEF c
  <2>3. CASE k # 0
    <3> DEFINE i == k - 1
               f == Column(nodes, i)
    <3>1. i \in Nat /\ k = i + 1
      BY <2>3
    <3> HIDE DEF i
    <3>2. \A h \in S : c[h] = IF k < CompletionWindow THEN f[h] ELSE 0
      BY <1>8, <2>1, <3>1
    <3>3. /\ \A h \in S : f[h] \in Nat
          /\ SumFunctionOnSet(f, S) <= At(rate, i)
      BY <1>2, <3>1 DEF TicksWithinRate, SumFunction
    <3>4. At(rate', k) = IF k < RateWindow THEN At(rate, i) ELSE 0
      BY <1>9, <3>1
    <3>5. At(rate, i) \in Nat
      BY <1>1, <3>1, AtType
    <3> HIDE DEF c, f, S
    <3>6. CASE k < CompletionWindow
      <4>1. SumFunctionOnSet(c, S) = SumFunctionOnSet(f, S)
        BY <1>2, <3>2, <3>6, SumSame
      <4>2. k < RateWindow
        BY <3>6 DEF WindowsAssumption
      <4>3. SumFunctionOnSet(c, S) <= At(rate', k)
        BY <3>3, <3>4, <4>1, <4>2
      <4>4. QED
        BY <4>3 DEF c
    <3>7. CASE ~(k < CompletionWindow)
      <4>1. /\ {} \in SUBSET S /\ \A h \in S : c[h] \in Int
            /\ \A h \in S \ {} : c[h] = 0
        BY <3>2, <3>7
      <4>2. SumFunctionOnSet(c, S) = SumFunctionOnSet(c, {})
        BY <1>2, <4>1, SumOfSome
      <4>3. SumFunctionOnSet(c, S) = 0
        BY <4>2, SumOfNone
      <4>4. At(rate', k) \in Nat
        BY <3>4, <3>5
      <4>5. SumFunctionOnSet(c, S) <= At(rate', k)
        BY <4>3, <4>4
      <4>6. QED
        BY <4>5 DEF c
    <3>8. QED
      BY <3>6, <3>7
  <2>4. QED
    BY <2>2, <2>3
<1>13. DOMAIN Unsampled(nodes') = S /\ \A k \in Nat : DOMAIN Column(nodes', k) = S
  BY <1>3 DEF Unsampled, Column
<1>14. CompletedBy(totals') - lastCompleted' = 0
  <2> HIDE DEF done
  <2>1. QED
    BY <1>1, <1>7
<1>15. QED
  BY <1>10, <1>11, <1>12, <1>13, <1>14 DEF TicksWithinRate, SumFunction

\* Rows that leave the screen keep no figure, and rows that arrive are fresh.
LEMMA RowsComeAndGo ==
  ASSUME TypeOK, NEW h \in Hosts, Stats(h) \/ Offline(h)
  PROVE  /\ \A x \in DOMAIN nodes' \ DOMAIN nodes : nodes'[x] = FreshNode
         /\ \A x \in DOMAIN nodes' \cap DOMAIN nodes : nodes'[x] = nodes[x]
         /\ CompletedBy(totals') = CompletedBy(totals)
         /\ UNCHANGED historyVars
<1>1. CASE Stats(h)
  BY <1>1 DEF Stats, Put
<1>2. CASE Offline(h)
  <2>1. CASE h \notin DOMAIN nodes
    BY <1>2, <2>1 DEF Offline, vars
  <2>2. CASE h \in DOMAIN nodes
    <3>1. /\ nodes' = Drop(nodes, {h}) /\ UNCHANGED historyVars
          /\ totals' = [totals EXCEPT !.left = @ + 1]
      BY <1>2, <2>2 DEF Offline
    <3>2. totals \in Totals
      BY DEF TypeOK
    <3>3. CompletedBy(totals') = CompletedBy(totals)
      BY <3>1, <3>2 DEF CompletedBy, Totals
    <3>4. /\ DOMAIN nodes' \subseteq DOMAIN nodes
          /\ \A x \in DOMAIN nodes' : nodes'[x] = nodes[x]
      BY <3>1 DEF Drop, Restrict
    <3>5. QED
      BY <3>1, <3>3, <3>4
  <2>3. QED
    BY <2>1, <2>2
<1>3. QED
  BY <1>1, <1>2

\* A new connection starts with no row and an empty history.
LEMMA ResetKeepsColumn ==
  ASSUME Reset
  PROVE  WindowsOK' /\ TicksWithinRate'
<1>1. /\ DOMAIN nodes' = {} /\ rate' = <<>> /\ lastCompleted' = 0
      /\ CompletedBy(totals') = 0
  BY DEF Reset, Nothing, NoTotals, CompletedBy
<1>2. WindowsOK'
  BY <1>1 DEF WindowsOK
<1>3. /\ SumFunction(Unsampled(nodes')) = 0
      /\ \A k \in Nat : SumFunction(Column(nodes', k)) = 0
  BY <1>1, SumOfNone DEF Unsampled, Column, SumFunction
<1>4. \A k \in Nat : At(rate', k) = 0
  BY <1>1 DEF At
<1>5. QED
  BY <1>1, <1>2, <1>3, <1>4 DEF TicksWithinRate

\* What dividing by a number of ticks does, for a divisor that is not a literal.
LEMMA FloorBelow ==
  ASSUME NEW t \in Nat, NEW n \in Nat, n > 0
  PROVE  t \div n \in Nat /\ n * (t \div n) <= t
OBVIOUS

LEMMA FloorAbove ==
  ASSUME NEW t \in Nat, NEW n \in Nat, n > 0, NEW a \in Int, n * a <= t
  PROVE  a <= t \div n
OBVIOUS

\* Over the same number of ticks, less files are no more files per second.
LEMMA SettledRows ==
  ASSUME NEW S, IsFiniteSet(S), NEW C \in SUBSET S, NEW w, NEW r \in Seq(Nat),
         \A h \in S : w[h] \in Seq(Nat),
         \A h \in C : Len(w[h]) = Len(r),
         SumFunctionOnSet([h \in S |-> SumFunction(w[h])], S) <= SumFunction(r)
  PROVE  SumFunction([h \in C |-> PerSecond(w[h])]) <= PerSecond(r)
<1> DEFINE files == [h \in S |-> SumFunction(w[h])]
           scaled == [h \in C |-> Scale * files[h]]
           per == [h \in C |-> PerSecond(w[h])]
           n == Len(r)
           total == SumFunction(r)
<1>1. Scale \in Nat /\ n \in Nat /\ IsFiniteSet(C)
  BY FS_Subset DEF Scale
<1>2. total \in Nat /\ \A h \in S : files[h] \in Nat
  <2>1. ASSUME NEW s \in Seq(Nat) PROVE SumFunction(s) \in Nat
    <3>1. s \in Seq(Int) /\ \A i \in 1 .. Len(s) : s[i] \in Nat
      OBVIOUS
    <3>2. QED
      BY <3>1, SumOfSeq, SumNat
  <2>2. QED
    BY <2>1
<1>3. SumFunction(per) = SumFunctionOnSet(per, C)
  BY DEF SumFunction
<1>4. CASE n = 0
  <2>1. \A h \in C : per[h] = 0
    BY <1>4 DEF PerSecond
  <2>2. \A h \in C \ {} : per[h] = 0
    BY <2>1
  <2>3. SumFunctionOnSet(per, C) = SumFunctionOnSet(per, {})
    <3> HIDE DEF per
    <3>1. QED
      BY <1>1, <2>1, <2>2, SumOfSome
  <2>4. PerSecond(r) = 0
    BY <1>4 DEF PerSecond
  <2>5. QED
    BY <1>3, <2>3, <2>4, SumOfNone
<1>5. CASE n > 0
  <2>1. \A h \in C : /\ per[h] \in Int /\ scaled[h] \in Int /\ n * per[h] \in Int
                     /\ n * per[h] <= scaled[h]
    <3>1. TAKE h \in C
    <3>2. per[h] = scaled[h] \div n /\ scaled[h] \in Nat
      <4>1. w[h] # <<>> /\ Len(w[h]) = n
        BY <1>5
      <4>2. per[h] = (Scale * SumFunction(w[h])) \div n
        BY <4>1 DEF PerSecond
      <4>3. files[h] \in Nat /\ scaled[h] = Scale * files[h] /\ files[h] = SumFunction(w[h])
        BY <1>2
      <4> HIDE DEF files, scaled, per, n
      <4>4. QED
        BY <1>1, <4>2, <4>3
    <3> HIDE DEF scaled, per, n, files
    <3>3. per[h] \in Nat /\ n * per[h] <= scaled[h]
      BY <1>1, <1>5, <3>2, FloorBelow
    <3>4. QED
      BY <1>1, <3>2, <3>3
  <2> DEFINE times == [h \in C |-> n * per[h]]
  <2>2. SumFunctionOnSet(times, C) = n * SumFunctionOnSet(per, C)
    <3>1. \A h \in C : per[h] \in Int /\ times[h] = n * per[h]
      BY <2>1
    <3>2. n \in Int
      BY <1>1
    <3> HIDE DEF times, per, n, files, scaled
    <3>3. QED
      BY <1>1, <3>1, <3>2, SumScaled
  <2>3. SumFunctionOnSet(times, C) <= SumFunctionOnSet(scaled, C)
    <3>1. \A h \in C : times[h] \in Int /\ scaled[h] \in Int /\ times[h] <= scaled[h]
      BY <2>1
    <3> HIDE DEF times, scaled
    <3>2. QED
      BY <1>1, <3>1, SumMonotone
  <2>4. SumFunctionOnSet(scaled, C) = Scale * SumFunctionOnSet(files, C)
    <3>1. \A h \in C : files[h] \in Int /\ scaled[h] = Scale * files[h]
      BY <1>2
    <3> HIDE DEF files, scaled
    <3>2. QED
      BY <1>1, <3>1, SumScaled
  <2>5. SumFunctionOnSet(files, C) <= SumFunctionOnSet(files, S)
    <3>1. /\ \A h \in C : files[h] \in Nat
          /\ \A h \in C \cap S : files[h] <= files[h]
          /\ \A h \in C \ S : files[h] = 0
      BY <1>2
    <3> HIDE DEF files
    <3>2. QED
      BY <1>1, <1>2, <3>1, SumShrinks
  <2>6. SumFunctionOnSet(per, C) \in Int /\ SumFunctionOnSet(files, C) \in Nat
    <3>1. \A h \in C : files[h] \in Nat
      BY <1>2
    <3> HIDE DEF per, files
    <3>2. QED
      BY <1>1, <2>1, <3>1, SumType, SumNat
  <2>7. PerSecond(r) = (Scale * total) \div n
    BY <1>5 DEF PerSecond
  <2>8. SumFunctionOnSet(files, S) <= total /\ SumFunctionOnSet(files, S) \in Nat
    <3>1. SumFunctionOnSet(files, S) <= total
      OBVIOUS
    <3> HIDE DEF files, total
    <3>2. QED
      BY <1>2, <3>1, SumNat
  <2> DEFINE a == SumFunctionOnSet(per, C)
             b == SumFunctionOnSet(files, C)
  <2>9. n * a <= Scale * b /\ b <= total
    <3> DEFINE c == SumFunctionOnSet(times, C)
               e == SumFunctionOnSet(scaled, C)
               g == SumFunctionOnSet(files, S)
    <3>1. /\ c = n * a /\ c <= e /\ e = Scale * b
          /\ b <= g /\ g <= total
      BY <2>2, <2>3, <2>4, <2>5, <2>8
    <3>2. /\ a \in Int /\ b \in Nat /\ g \in Nat /\ total \in Nat
          /\ n * a \in Int /\ Scale * b \in Int
      BY <1>1, <1>2, <2>6, <2>8
    <3> HIDE DEF a, b, c, e, g, files, scaled, per, times, n, total
    <3>3. QED
      BY ONLY <3>1, <3>2
  <2>10. a \in Int /\ b \in Nat
    BY <2>6
  <2>p. Scale \in Nat /\ n \in Nat /\ n > 0 /\ total \in Nat
    BY <1>1, <1>2, <1>5
  <2> HIDE DEF a, b, n, total, files, scaled, per, times
  <2>11. Scale * b <= Scale * total
    BY <2>p, <2>9, <2>10 DEF Scale
  <2>12. a <= (Scale * total) \div n
    <3> DEFINE top == Scale * total
    <3>1. top \in Nat /\ n * a <= top
      <4>1. top \in Nat /\ Scale * b \in Nat /\ n * a \in Int
        BY <2>p, <2>10
      <4> HIDE DEF top
      <4>2. n * a <= Scale * b /\ Scale * b <= top
        BY <2>9, <2>11 DEF top
      <4>3. QED
        BY <4>1, <4>2
    <3> HIDE DEF top
    <3>2. a <= top \div n
      BY <2>p, <2>10, <3>1, FloorAbove
    <3>3. QED
      BY <3>2 DEF top
  <2>13. QED
    BY <1>3, <2>7, <2>12 DEF a, per, n, total
<1>6. QED
  BY <1>1, <1>4, <1>5

\* The bounds tick by tick bound what the column shows.
LEMMA TicksBoundColumn ==
  ASSUME TypeOK, WindowsOK, TicksWithinRate, WindowsAssumption
  PROVE  ColumnWithinRate
<1> DEFINE S == DOMAIN nodes
           B == 0 .. RateWindow - 1
           F == [h \in S |-> [k \in B |-> At(nodes[h].perTick, k)]]
           r == [k \in B |-> At(rate, k)]
           windowed == [h \in S |-> SumFunction(nodes[h].perTick)]
<1>1. IsFiniteSet(S) /\ IsFiniteSet(B) /\ rate \in Seq(Nat) /\ RateWindow \in Nat
  <2>1. 0 \in Int /\ RateWindow - 1 \in Int
    OBVIOUS
  <2>2. IsFiniteSet(B)
    BY <2>1, FS_Interval
  <2>3. QED
    BY <2>2, FiniteState DEF TypeOK
<1>2. \A h \in S : nodes[h].perTick \in Seq(Nat) /\ Len(nodes[h].perTick) <= RateWindow
  <2>1. \A h \in S : nodes[h].perTick \in Seq(Nat)
    BY DEF TypeOK, Node
  <2>2. \A h \in S : Len(nodes[h].perTick) <= CompletionWindow
    BY DEF WindowsOK
  <2>3. QED
    BY <2>1, <2>2 DEF WindowsAssumption
<1>3. \A h \in S, k \in B : F[h][k] \in Int
  BY <1>2, AtType
<1>4. \A k \in B : r[k] \in Int /\ SumFunctionOnSet([h \in S |-> F[h][k]], S) <= r[k]
  <2>1. TAKE k \in B
  <2>2. k \in Nat
    BY <1>1
  <2>3. [h \in S |-> F[h][k]] = Column(nodes, k)
    BY DEF Column
  <2>4. SumFunctionOnSet(Column(nodes, k), S) <= At(rate, k)
    BY <2>2 DEF TicksWithinRate, SumFunction, Column
  <2>5. r[k] = At(rate, k) /\ At(rate, k) \in Int
    BY <1>1, <2>2, AtType
  <2> HIDE DEF F, r, S
  <2>6. QED
    BY <2>3, <2>4, <2>5
<1>5. SumFunction(rate) = SumFunctionOnSet(r, B)
  BY <1>1, SumByAge DEF WindowsOK
<1>6. \A h \in S : windowed[h] = SumFunctionOnSet(F[h], B)
  BY <1>1, <1>2, SumByAge
<1> DEFINE rows == [h \in S |-> SumFunctionOnSet(F[h], B)]
<1>7. windowed = rows
  BY <1>6
<1>8. SumFunctionOnSet(rows, S) <= SumFunctionOnSet(r, B)
  <2> HIDE DEF F, r, S, B
  <2>1. QED
    BY <1>1, <1>3, <1>4, SumByColumns
<1>9. SumFunction(windowed) = SumFunctionOnSet(rows, S)
  BY <1>7 DEF SumFunction
<1>10. SumFunction(windowed) <= SumFunction(rate)
  <2> HIDE DEF rows, r, windowed
  <2>1. QED
    BY <1>5, <1>8, <1>9
<1>11. SumFunction(Unsampled(nodes)) <= CompletedBy(totals) - lastCompleted
  BY DEF TicksWithinRate
<1>12. SumFunction([h \in {x \in S : Len(nodes[x].perTick) = Len(rate)} |->
                      PerSecond(nodes[h].perTick)]) <= PerSecond(rate)
  <2> DEFINE C == {x \in S : Len(nodes[x].perTick) = Len(rate)}
             w == [h \in S |-> nodes[h].perTick]
  <2>1. /\ C \in SUBSET S
        /\ \A h \in S : w[h] \in Seq(Nat)
        /\ \A h \in C : Len(w[h]) = Len(rate)
    BY <1>2
  <2>2. [h \in S |-> SumFunction(w[h])] = windowed
    OBVIOUS
  <2>3. SumFunctionOnSet([h \in S |-> SumFunction(w[h])], S) <= SumFunction(rate)
    BY <1>10, <2>2 DEF SumFunction
  <2>4. [h \in C |-> PerSecond(w[h])] = [h \in C |-> PerSecond(nodes[h].perTick)]
    OBVIOUS
  <2>5. SumFunction([h \in C |-> PerSecond(w[h])]) <= PerSecond(rate)
    <3> HIDE DEF S, C, w
    <3>1. QED
      BY <1>1, <2>1, <2>3, SettledRows
  <2>6. QED
    BY <2>4, <2>5
<1>13. QED
  BY <1>10, <1>11, <1>12 DEF ColumnWithinRate, Unsampled

\* Rows come and go, a job ends for the cluster and for no row, a reconnect restarts the
\* counters, and the rows hold no file that the cluster did not count over the same
\* ticks; those that have seen all the ticks of the headline show no more files per
\* second together than it does (Completions::per_second, History::mean_recent).
THEOREM RowsHoldNoMoreThanTheHeadline == Spec => []ColumnWithinRate
<1>1. Init => WindowsOK /\ TicksWithinRate
  <2>1. SUFFICES ASSUME Init PROVE WindowsOK /\ TicksWithinRate
    OBVIOUS
  <2>2. /\ DOMAIN nodes = {} /\ rate = <<>> /\ lastCompleted = 0
        /\ CompletedBy(totals) = 0
    BY <2>1 DEF Init, Nothing, NoTotals, CompletedBy
  <2>3. /\ SumFunction(Unsampled(nodes)) = 0
        /\ \A k \in Nat : SumFunction(Column(nodes, k)) = 0
    BY <2>2, SumOfNone DEF Unsampled, Column, SumFunction
  <2>4. \A k \in Nat : At(rate, k) = 0
    BY <2>2 DEF At
  <2>5. QED
    BY <2>2, <2>3, <2>4 DEF WindowsOK, TicksWithinRate
<1>2. ASSUME TypeOK, TypeOK', WindowsOK, TicksWithinRate, [Next]_vars
      PROVE  WindowsOK' /\ TicksWithinRate'
  <2> DEFINE Goal == WindowsOK' /\ TicksWithinRate'
  <2>0. CompletedBy(totals) \in Nat /\ \A h \in DOMAIN nodes : nodes[h] \in Node
    <3>1. totals \in Totals
      BY <1>2 DEF TypeOK
    <3>2. CompletedBy(totals) \in Nat
      BY <3>1 DEF CompletedBy, Totals
    <3>3. QED
      BY <1>2, <3>2 DEF TypeOK
  <2>1. ASSUME UNCHANGED <<totals, historyVars>>, DOMAIN nodes' = DOMAIN nodes,
               \A h \in DOMAIN nodes : SameFigures(nodes'[h], nodes[h])
        PROVE  Goal
    <3>1. rate' = rate /\ lastCompleted' = lastCompleted
          /\ CompletedBy(totals') >= CompletedBy(totals)
      BY <2>0, <2>1 DEF historyVars
    <3>2. QED
      BY <1>2, <2>1, <3>1, RowsKeepColumn DEF SameFigures
  <2>2. ASSUME UNCHANGED <<nodes, totals, historyVars>> PROVE Goal
    BY <2>1, <2>2 DEF SameFigures
  <2>3. CASE Session
    <3>1. CASE Connecting
      BY <2>2, <3>1 DEF Connecting
    <3>2. ASSUME NEW t \in Targets, Connected(t) PROVE Goal
      BY <3>2, ResetKeepsColumn DEF Connected
    <3>3. CASE Disconnected
      <4>1. /\ UNCHANGED <<totals, historyVars>> /\ DOMAIN nodes' = DOMAIN nodes
            /\ \A h \in DOMAIN nodes : nodes'[h] = Idled(nodes[h])
        BY <3>3 DEF Disconnected
      <4>2. \A h \in DOMAIN nodes : SameFigures(nodes'[h], nodes[h])
        BY <2>0, <4>1, FiguresOfOps
      <4>3. QED
        BY <2>1, <4>1, <4>2
    <3>4. QED
      BY <2>3, <3>1, <3>2, <3>3 DEF Session
  <2>4. ASSUME NEW j \in JobIds, NEW h \in Hosts,
               GetCs(j, h) \/ JobBegin(j, h) \/ LocalJobBegin(j, h)
        PROVE  Goal
    <3>1. CASE GetCs(j, h)
      BY <2>2, <3>1 DEF GetCs
    <3>2. CASE JobBegin(j, h) \/ LocalJobBegin(j, h)
      <4>1. UNCHANGED <<totals, historyVars>>
        BY <3>2 DEF JobBegin, LocalJobBegin
      <4>2. QED
        BY <1>2, <2>1, <3>2, <4>1, BeginKeepsColumn
    <3>3. QED
      BY <2>4, <3>1, <3>2
  <2>5. ASSUME NEW j \in JobIds,
               LocalJobDone(j) \/ \E ok, timed \in BOOLEAN : JobDone(j, ok, timed)
        PROVE  Goal
    <3>1. rate' = rate /\ lastCompleted' = lastCompleted
      BY <2>5 DEF LocalJobDone, JobDone, historyVars
    <3>2. CASE /\ CompletedBy(totals') >= CompletedBy(totals)
               /\ nodes' = nodes
      BY <1>2, <3>1, <3>2, RowsKeepColumn
    <3>3. ASSUME CompletedBy(totals') = CompletedBy(totals) + 1,
                 DOMAIN nodes' = DOMAIN nodes, NEW p \in DOMAIN nodes,
                 \A x \in DOMAIN nodes :
                   /\ nodes'[x].total = IF x = p THEN nodes[x].total + 1
                                                 ELSE nodes[x].total
                   /\ nodes'[x].totalAtLastTick = nodes[x].totalAtLastTick
                   /\ nodes'[x].perTick = nodes[x].perTick
          PROVE  Goal
      BY <1>2, <3>1, <3>3, FileKeepsColumn
    <3>4. QED
      BY <1>2, <2>5, <3>2, <3>3, EndCountsFile
  <2>6. ASSUME NEW h \in Hosts, Stats(h) \/ Offline(h)
        PROVE  Goal
    <3>1. /\ \A x \in DOMAIN nodes' \ DOMAIN nodes : nodes'[x] = FreshNode
          /\ \A x \in DOMAIN nodes' \cap DOMAIN nodes : nodes'[x] = nodes[x]
          /\ CompletedBy(totals') >= CompletedBy(totals)
          /\ rate' = rate /\ lastCompleted' = lastCompleted
      BY <1>2, <2>0, <2>6, RowsComeAndGo DEF historyVars
    <3>2. QED
      BY <1>2, <3>1, RowsKeepColumn
  <2>7. ASSUME NEW ty \in MsgTypes, Other(ty) PROVE Goal
    BY <2>2, <2>7 DEF Other
  <2>8. CASE Event
    BY <2>4, <2>5, <2>6, <2>7, <2>8 DEF Event
  <2>9. ASSUME NEW d \in TickGaps, Tick(d) PROVE Goal
    BY <1>2, <2>9, WindowsAssumption, TickKeepsColumn
  <2>10. CASE UNCHANGED vars
    BY <2>2, <2>10 DEF vars
  <2>11. QED
    BY <1>2, <2>3, <2>8, <2>9, <2>10 DEF Next
<1>3. TypeOK /\ WindowsOK /\ TicksWithinRate => ColumnWithinRate
  BY WindowsAssumption, TicksBoundColumn
<1>4. QED
  BY <1>1, <1>2, <1>3, TypeCorrect, PTL DEF Spec
=============================================================================
