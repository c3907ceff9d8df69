------------------------------- MODULE Cluster -------------------------------
(***************************************************************************)
(* The cluster model of icecc-model/src/lib.rs: what the monitor believes  *)
(* about the compile cluster, rebuilt from the stream of updates the       *)
(* connection task hands it and aged by a timer.                           *)
(*                                                                         *)
(* One action per arm of Cluster::apply and Cluster::apply_event, plus     *)
(* Cluster::tick_history.  The environment of Next is an arbitrary remote: *)
(* inside a session any event may name any job and any host, in any order. *)
(* The order of the session updates themselves is what the connection task *)
(* promises (module Session).  Module Scheduler narrows the environment to *)
(* a scheduler that keeps its own books.                                   *)
(*                                                                         *)
(* Time is counted in seconds, the period of the history timer.  An        *)
(* Instant is kept as its age, and an age stops growing once it is past    *)
(* the only threshold it is compared with.  Names, statistics and the      *)
(* values of throughput samples are data these properties do not tell      *)
(* apart and are left out.                                                 *)
(***************************************************************************)
EXTENDS Integers, Sequences, FiniteSets, Functions

CONSTANTS
  Hosts,              \* host ids a scheduler may hand out
  JobIds,             \* job ids a scheduler may hand out
  Targets,            \* scheduler addresses a session may attach to
  MsgTypes,           \* message types the monitor does not model
  NoHost,             \* Option::None for a job's host or client
  NoTarget,           \* Option::None for a scheduler address
  JobTimeout,         \* seconds before an unfinished job is dropped, 0 = never
  BuildIdle,          \* BUILD_IDLE, in seconds
  CompletionWindow,   \* COMPLETION_WINDOW, ticks a node's rate is averaged over
  RateWindow,         \* RATE_WINDOW, ticks the headline rate is averaged over
  ThroughputSamples,  \* THROUGHPUT_SAMPLES, jobs a node's throughput is kept for
  TickGaps            \* seconds that may pass between two history ticks

\* Ids are u32.
ASSUME IdsAssumption == IsFiniteSet(Hosts) /\ IsFiniteSet(JobIds)
ASSUME HostsAssumption == NoHost \notin Hosts
ASSUME TargetsAssumption == NoTarget \notin Targets
\* Both are ten ticks, so no row remembers a tick the headline has forgotten.
ASSUME WindowsAssumption == CompletionWindow <= RateWindow
ASSUME BoundsAssumption ==
  /\ JobTimeout \in Nat
  /\ BuildIdle \in Nat
  /\ CompletionWindow \in Nat \ {0}
  /\ RateWindow \in Nat \ {0}
  /\ ThroughputSamples \in Nat \ {0}
  /\ TickGaps \subseteq Nat \ {0}

VARIABLES
  nodes,          \* host id -> what has been counted for that node
  jobs,           \* job id -> the job in flight under that id
  totals,         \* counters over completed work, since connect
  connection,     \* what the header line shows
  firstTarget,    \* the first scheduler this process attached to
  unknown,        \* message types seen that are not modelled
  rate,           \* the newest RateWindow samples of rate_history
  sample,         \* the newest samples of pending_history and slots_history
  lastCompleted,  \* completion total at the previous tick
  build,          \* the build in progress
  lastBuild,      \* the build before it
  ledger          \* history variable: since connect, the jobs told of, the jobs
                  \* dropped, and the begins that could not credit both ends

historyVars == <<rate, sample, lastCompleted>>
buildVars   == <<build, lastBuild>>
linkVars    == <<connection, firstTarget>>
vars == <<nodes, jobs, totals, linkVars, unknown, historyVars, buildVars, ledger>>

-----------------------------------------------------------------------------
(* The shape of the state. *)

JobState   == {"Pending", "Active", "Local"}
LinkState  == {"Connecting", "Connected", "Disconnected"}
BuildPhase == {"none", "busy", "quiet"}

Job == [state : JobState, host : Hosts \cup {NoHost},
        client : Hosts \cup {NoHost}, age : Nat]

Node == [active : SUBSET JobIds, local : SUBSET JobIds,
         jobsIn : Nat, jobsOut : Nat, jobsLocal : Nat,
         total : Nat, totalAtLastTick : Nat, perTick : Seq(Nat),
         samples : 0 .. ThroughputSamples]

Totals == [remote : Nat, local : Nat, failed : Nat, unmatched : Nat,
           expired : Nat, left : Nat]

Connection == [state : LinkState, target : Targets \cup {NoTarget}]

\* quiet_since is kept as the seconds since it (idle) in phase "quiet".
BuildRun == [phase : BuildPhase, before : Nat, done : Nat, idle : Nat]

FreshNode == [active |-> {}, local |-> {}, jobsIn |-> 0, jobsOut |-> 0,
              jobsLocal |-> 0, total |-> 0, totalAtLastTick |-> 0,
              perTick |-> <<>>, samples |-> 0]

NoTotals == [remote |-> 0, local |-> 0, failed |-> 0, unmatched |-> 0,
             expired |-> 0, left |-> 0]

NoBuild  == [phase |-> "none", before |-> 0, done |-> 0, idle |-> 0]
NoSample == [pending |-> 0, used |-> 0]
NoLedger == [told |-> 0, dropped |-> 0, uncredited |-> 0]
Nothing  == [x \in {} |-> x]

-----------------------------------------------------------------------------
(* Maps, as BTreeMap and HashMap use them. *)

Put(f, k, v) == [x \in DOMAIN f \cup {k} |-> IF x = k THEN v ELSE f[x]]
Drop(f, S)   == Restrict(f, DOMAIN f \ S)

\* A bounded VecDeque: the oldest element makes room for the newest.
Push(s, x, size) == IF Len(s) = size THEN Append(Tail(s), x) ELSE Append(s, x)

\* u64::saturating_sub
Minus(a, b) == IF a >= b THEN a - b ELSE 0

-----------------------------------------------------------------------------
(* What one event does to one node. *)

\* node.active_jobs.insert and node.jobs_in += 1
TakeJob(n, j) == [n EXCEPT !.active = @ \cup {j}, !.jobsIn = @ + 1]

TakeLocal(n, j) == [n EXCEPT !.local = @ \cup {j}, !.jobsLocal = @ + 1]

CreditClient(n) == [n EXCEPT !.jobsOut = @ + 1]

\* MON_JOB_DONE names a job, not a kind of job, so both sets give it up.
ReleaseJob(n, j) == [n EXCEPT !.active = @ \ {j}, !.local = @ \ {j}]

ReleaseLocal(n, j) == [n EXCEPT !.local = @ \ {j}]

CountFile(n) == [n EXCEPT !.total = @ + 1]

\* Throughput::push; only the number of samples kept is modelled.
Measure(n) == [n EXCEPT !.samples = IF @ < ThroughputSamples THEN @ + 1 ELSE @]

\* Mutant: the mark is not moved, so a tick counts the files of every one before.
TickNode_NoMark(n) ==
  [n EXCEPT !.perTick = Push(@, Minus(n.total, n.totalAtLastTick),
                             CompletionWindow)]

\* Completions::tick
TickNode(n) ==
  [n EXCEPT !.perTick = Push(@, Minus(n.total, n.totalAtLastTick),
                             CompletionWindow),
            !.totalAtLastTick = n.total]

Idled(n) == [n EXCEPT !.active = {}, !.local = {}]

\* if let Some(node) = self.nodes.get_mut(&h) { *node = n }
SetNode(ns, h, n) == IF h \in DOMAIN ns THEN [ns EXCEPT ![h] = n] ELSE ns

-----------------------------------------------------------------------------
(* Figures computed on demand. *)

CompletedBy(t) == t.remote + t.local

InState(js, s) == {j \in DOMAIN js : js[j].state = s}

\* Cluster::summary
UsedSlots(ns) ==
  Cardinality({p \in (DOMAIN ns) \X JobIds : p[2] \in ns[p[1]].active})

\* Mutant: the sample is taken before the jobs that expire are dropped.
Sampled_First(js, ns) ==
  [pending |-> Cardinality(InState(jobs, "Pending")), used |-> UsedSlots(nodes)]

\* The points a tick adds to the queue and the slots graph.
Sampled(js, ns) ==
  [pending |-> Cardinality(InState(js, "Pending")), used |-> UsedSlots(ns)]

Busy(js) == DOMAIN js # {}

\* History::mean_recent and Completions::per_second, in units of 1/Scale of a
\* file so that every window up to ten ticks divides evenly.
Scale == 2520
PerSecond(s) == IF s = <<>> THEN 0 ELSE (Scale * SumFunction(s)) \div Len(s)

-----------------------------------------------------------------------------
(* Cluster::new *)

Init ==
  /\ nodes = Nothing
  /\ jobs = Nothing
  /\ totals = NoTotals
  /\ connection = [state |-> "Connecting", target |-> NoTarget]
  /\ firstTarget = NoTarget
  /\ unknown = {}
  /\ rate = <<>>
  /\ sample = NoSample
  /\ lastCompleted = 0
  /\ build = NoBuild
  /\ lastBuild = NoBuild
  /\ ledger = NoLedger

-----------------------------------------------------------------------------
(* Cluster::apply *)

Connecting ==
  /\ connection' = [state |-> "Connecting", target |-> NoTarget]
  /\ UNCHANGED <<nodes, jobs, totals, firstTarget, unknown, historyVars,
                 buildVars, ledger>>

\* Mutant: the build outlives the counters it is measured against.
Reset_KeepsBuild ==
  /\ nodes' = Nothing
  /\ jobs' = Nothing
  /\ totals' = NoTotals
  /\ rate' = <<>>
  /\ sample' = NoSample
  /\ lastCompleted' = 0
  /\ ledger' = NoLedger
  /\ UNCHANGED <<unknown, buildVars>>

\* Mutant: rows outlive the session that announced them.
Reset_KeepsRows ==
  /\ jobs' = Nothing
  /\ totals' = NoTotals
  /\ rate' = <<>>
  /\ sample' = NoSample
  /\ lastCompleted' = 0
  /\ build' = NoBuild
  /\ lastBuild' = NoBuild
  /\ ledger' = NoLedger
  /\ UNCHANGED <<unknown, nodes>>

\* Cluster::reset.  The list of unmodelled message types outlives it.
Reset ==
  /\ nodes' = Nothing
  /\ jobs' = Nothing
  /\ totals' = NoTotals
  /\ rate' = <<>>
  /\ sample' = NoSample
  /\ lastCompleted' = 0
  /\ build' = NoBuild
  /\ lastBuild' = NoBuild
  /\ ledger' = NoLedger
  /\ UNCHANGED unknown

Connected(t) ==
  /\ Reset
  /\ firstTarget' = IF firstTarget = NoTarget THEN t ELSE firstTarget
  /\ connection' = [state |-> "Connected", target |-> t]

\* Mutant: jobs are kept for the next session to sort out.
Disconnected_KeepsJobs ==
  /\ connection' = [state |-> "Disconnected", target |-> NoTarget]
  /\ UNCHANGED <<nodes, jobs, totals, firstTarget, unknown, historyVars,
                 buildVars, ledger>>

Disconnected ==
  /\ connection' = [state |-> "Disconnected", target |-> NoTarget]
  /\ jobs' = Nothing
  /\ nodes' = [h \in DOMAIN nodes |-> Idled(nodes[h])]
  /\ ledger' = [ledger EXCEPT !.dropped = @ + Cardinality(DOMAIN jobs)]
  /\ UNCHANGED <<totals, firstTarget, unknown, historyVars, buildVars>>

-----------------------------------------------------------------------------
(* Cluster::apply_event *)

Told(j) == [ledger EXCEPT !.told = IF j \in DOMAIN jobs THEN @ ELSE @ + 1]

GetCs(j, c) ==
  /\ jobs' = Put(jobs, j, [state |-> "Pending", host |-> NoHost,
                           client |-> c, age |-> 0])
  /\ ledger' = Told(j)
  /\ UNCHANGED <<nodes, totals, linkVars, unknown, historyVars, buildVars>>

\* The submitter is only known when the MON_GET_CS was seen.
ClientOf(j) == IF j \in DOMAIN jobs THEN jobs[j].client ELSE NoHost

Begun(j, h, c) ==
  [Told(j) EXCEPT !.uncredited = IF {h, c} \subseteq DOMAIN nodes THEN @ ELSE @ + 1]

\* Mutant: only a job compiled elsewhere counts as one sent.
JobBegin_Elsewhere(j, h) ==
  LET c == ClientOf(j)
      placed == SetNode(nodes, h, TakeJob(nodes[h], j))
  IN /\ jobs' = Put(jobs, j, [state |-> "Active", host |-> h,
                              client |-> c, age |-> 0])
     /\ nodes' = IF c = h THEN placed ELSE SetNode(placed, c, CreditClient(placed[c]))
     /\ ledger' = Begun(j, h, c)
     /\ UNCHANGED <<totals, linkVars, unknown, historyVars, buildVars>>

JobBegin(j, h) ==
  LET c == ClientOf(j)
      placed == SetNode(nodes, h, TakeJob(nodes[h], j))
  IN /\ jobs' = Put(jobs, j, [state |-> "Active", host |-> h,
                              client |-> c, age |-> 0])
     /\ nodes' = SetNode(placed, c, CreditClient(placed[c]))
     /\ ledger' = Begun(j, h, c)
     /\ UNCHANGED <<totals, linkVars, unknown, historyVars, buildVars>>

LocalJobBegin(j, h) ==
  /\ jobs' = Put(jobs, j, [state |-> "Local", host |-> h,
                           client |-> h, age |-> 0])
  /\ nodes' = SetNode(nodes, h, TakeLocal(nodes[h], j))
  /\ ledger' = Told(j)
  /\ UNCHANGED <<totals, linkVars, unknown, historyVars, buildVars>>

\* An end for a job never seen to begin is counted and nothing else.
Unmatched ==
  /\ totals' = [totals EXCEPT !.unmatched = @ + 1]
  /\ UNCHANGED <<nodes, jobs>>

\* Mutant: a local job counts as a remote one too.
CountDone_Both(t, state, ok) ==
  [t EXCEPT !.local  = IF state = "Local" THEN @ + 1 ELSE @,
            !.remote = @ + 1,
            !.failed = IF ok THEN @ ELSE @ + 1]

\* The counters finish_remote advances for a job that was in flight.
CountDone(t, state, ok) ==
  [t EXCEPT !.local  = IF state = "Local" THEN @ + 1 ELSE @,
            !.remote = IF state = "Local" THEN @ ELSE @ + 1,
            !.failed = IF ok THEN @ ELSE @ + 1]

\* Cluster::finish_remote.  timed says whether the report carries CPU time.
JobDone(j, ok, timed) ==
  /\ IF j \in DOMAIN jobs
     THEN LET h == jobs[j].host
              freed == CountFile(ReleaseJob(nodes[h], j))
          IN /\ jobs' = Drop(jobs, {j})
             /\ totals' = CountDone(totals, jobs[j].state, ok)
             /\ nodes' = SetNode(nodes, h,
                                 IF ok /\ timed THEN Measure(freed) ELSE freed)
     ELSE Unmatched
  /\ UNCHANGED <<linkVars, unknown, historyVars, buildVars, ledger>>

LocalJobDone(j) ==
  /\ IF j \in DOMAIN jobs
     THEN LET h == jobs[j].host
          IN /\ jobs' = Drop(jobs, {j})
             /\ totals' = [totals EXCEPT !.local = @ + 1]
             /\ nodes' = SetNode(nodes, h, CountFile(ReleaseLocal(nodes[h], j)))
     ELSE Unmatched
  /\ UNCHANGED <<linkVars, unknown, historyVars, buildVars, ledger>>

\* Event::Other.  MON_END and pings change nothing and have no action.
Other(ty) ==
  /\ unknown' = unknown \cup {ty}
  /\ UNCHANGED <<nodes, jobs, totals, linkVars, historyVars, buildVars, ledger>>

\* Cluster::apply_stats for a record that is not State:Offline
Stats(h) ==
  /\ nodes' = IF h \in DOMAIN nodes THEN nodes ELSE Put(nodes, h, FreshNode)
  /\ UNCHANGED <<jobs, totals, linkVars, unknown, historyVars, buildVars, ledger>>

\* Mutant: only the row goes.
Taken_None(h) == {}

\* The jobs a departing node takes with it: those its row lists.
Taken(h) == (nodes[h].active \cup nodes[h].local) \cap DOMAIN jobs

Offline(h) ==
  IF h \in DOMAIN nodes
  THEN /\ jobs' = Drop(jobs, Taken(h))
       /\ nodes' = Drop(nodes, {h})
       /\ totals' = [totals EXCEPT !.left = @ + 1]
       /\ ledger' = [ledger EXCEPT !.dropped = @ + Cardinality(Taken(h))]
       /\ UNCHANGED <<linkVars, unknown, historyVars, buildVars>>
  ELSE UNCHANGED vars

-----------------------------------------------------------------------------
(* Cluster::tick_history *)

Older(age, d) == IF age + d > JobTimeout THEN JobTimeout + 1 ELSE age + d

Aged(js, d) == [j \in DOMAIN js |-> [js[j] EXCEPT !.age = Older(@, d)]]

\* Mutant: only remote work times out.
Expired_Active(js) ==
  {j \in DOMAIN js : JobTimeout > 0 /\ js[j].age > JobTimeout /\ js[j].state = "Active"}

\* Cluster::expire: what it drops, and the slots it gives back.
Expired(js) == {j \in DOMAIN js : JobTimeout > 0 /\ js[j].age > JobTimeout}

\* Mutant: the slot is looked for on the submitter's row.
Freed_AtClient(n, h, lost) ==
  LET here == {j \in lost : jobs[j].client = h}
  IN [n EXCEPT !.active = @ \ here, !.local = @ \ here]

Freed(n, h, lost) ==
  LET here == {j \in lost : jobs[j].host = h}
  IN [n EXCEPT !.active = @ \ here, !.local = @ \ here]

\* Cluster::track_build
TrackBuild(busy, completed, d) ==
  LET run == [build EXCEPT !.done = Minus(completed, build.before)]
      quiet == run.idle + d
  IN CASE build.phase = "none" ->
            /\ build' = IF busy THEN [phase |-> "busy", before |-> completed,
                                      done |-> 0, idle |-> 0]
                                ELSE build
            /\ UNCHANGED lastBuild
       [] build.phase # "none" /\ busy ->
            /\ build' = [run EXCEPT !.phase = "busy", !.idle = 0]
            /\ UNCHANGED lastBuild
       [] build.phase = "busy" /\ ~busy ->
            /\ build' = [run EXCEPT !.phase = "quiet", !.idle = 0]
            /\ UNCHANGED lastBuild
       [] build.phase = "quiet" /\ ~busy ->
            IF quiet >= BuildIdle
            THEN /\ lastBuild' = [run EXCEPT !.idle = quiet]
                 /\ build' = NoBuild
            ELSE /\ build' = [run EXCEPT !.idle = quiet]
                 /\ UNCHANGED lastBuild

\* d seconds have passed since the previous tick.
Tick(d) ==
  LET aged == Aged(jobs, d)
      lost == Expired(aged)
      kept == Drop(aged, lost)
      held == [h \in DOMAIN nodes |-> Freed(nodes[h], h, lost)]
      completed == CompletedBy(totals)
  IN /\ jobs' = kept
     /\ totals' = [totals EXCEPT !.expired = @ + Cardinality(lost)]
     /\ sample' = Sampled(kept, held)
     /\ rate' = Push(rate, Minus(completed, lastCompleted), RateWindow)
     /\ lastCompleted' = completed
     /\ nodes' = [h \in DOMAIN nodes |-> TickNode(held[h])]
     /\ TrackBuild(Busy(kept), completed, d)
     /\ UNCHANGED <<linkVars, unknown, ledger>>

-----------------------------------------------------------------------------
(* The environment: a connection task that keeps the order of module       *)
(* Session, in front of a remote that may say anything.                    *)

Session ==
  \/ connection.state # "Connected" /\ Connecting
  \/ connection.state = "Connecting" /\ \E t \in Targets : Connected(t)
  \/ connection.state # "Disconnected" /\ Disconnected

Event ==
  /\ connection.state = "Connected"
  /\ \/ \E j \in JobIds, h \in Hosts :
          GetCs(j, h) \/ JobBegin(j, h) \/ LocalJobBegin(j, h)
     \/ \E j \in JobIds, ok, timed \in BOOLEAN : JobDone(j, ok, timed)
     \/ \E j \in JobIds : LocalJobDone(j)
     \/ \E h \in Hosts : Stats(h) \/ Offline(h)
     \/ \E ty \in MsgTypes : Other(ty)

Next == Session \/ Event \/ \E d \in TickGaps : Tick(d)

Spec == Init /\ [][Next]_vars

-----------------------------------------------------------------------------
(* Properties. *)

\* The state has the shape the declarations of Cluster, Node and Job give it.
TypeOK ==
  /\ DOMAIN nodes \subseteq Hosts
  /\ nodes \in [DOMAIN nodes -> Node]
  /\ DOMAIN jobs \subseteq JobIds
  /\ jobs \in [DOMAIN jobs -> Job]
  /\ totals \in Totals
  /\ connection \in Connection
  /\ firstTarget \in Targets \cup {NoTarget}
  /\ unknown \subseteq MsgTypes
  /\ rate \in Seq(Nat)
  /\ sample \in [pending : Nat, used : Nat]
  /\ lastCompleted \in Nat
  /\ build \in BuildRun
  /\ lastBuild \in BuildRun
  /\ ledger \in [told : Nat, dropped : Nat, uncredited : Nat]

\* Whatever the remote says, every job the monitor was told of since connect is
\* in flight, completed once, expired once, or went with its node or with the
\* connection: no order of repeated, missing or contradictory events makes
\* finish_remote, expire, apply_stats or Disconnected count one job twice or
\* lose it.
JobsAccounted ==
  ledger.told = Cardinality(DOMAIN jobs) + CompletedBy(totals)
                + totals.expired + ledger.dropped

\* Between sessions the screen shows no work: rows stay, but no job is in flight
\* and no row holds a slot, until the next session rebuilds everything.
NoWorkWhileDown ==
  connection.state # "Connected" =>
    /\ DOMAIN jobs = {}
    /\ \A h \in DOMAIN nodes : nodes[h].active = {} /\ nodes[h].local = {}

\* A job whose end never arrives is gone by the first tick after its timeout, so
\* the queue depth stays right however long the monitor runs (job_timeout).
JobsExpire ==
  JobTimeout > 0 => \A j \in DOMAIN jobs : jobs[j].age <= JobTimeout

\* What the rows say of finished files is part of what the headline says.  The rows
\* that have seen every tick the headline averages show no more files per second
\* together than it does; and whatever their age, the rows hold no file, sampled or
\* not yet, that the cluster did not count over the same ticks.  A row that is younger
\* divides by the ticks it has seen, so its files per second may exceed the headline's.
ColumnWithinRate ==
  LET settled   == {h \in DOMAIN nodes : Len(nodes[h].perTick) = Len(rate)}
      windowed  == [h \in DOMAIN nodes |-> SumFunction(nodes[h].perTick)]
      unsampled == [h \in DOMAIN nodes |-> nodes[h].total - nodes[h].totalAtLastTick]
  IN /\ SumFunction([h \in settled |-> PerSecond(nodes[h].perTick)]) <= PerSecond(rate)
     /\ SumFunction(windowed) <= SumFunction(rate)
     /\ SumFunction(unsampled) <= CompletedBy(totals) - lastCompleted

\* Builds are measured against one session's counters and share no file: what
\* the last build counted precedes what the current one counts, and a build
\* never survives the reset that restarts its counter.
BuildsShareNoFile ==
  /\ lastBuild.before + lastBuild.done <= CompletedBy(totals)
  /\ build.phase # "none" =>
       /\ lastBuild.before + lastBuild.done <= build.before
       /\ build.before + build.done <= CompletedBy(totals)

\* "The column adds up to Rate in the band above": the rows' files per second
\* sum to the headline figure.
ColumnAddsUp ==
  SumFunction([h \in DOMAIN nodes |-> PerSecond(nodes[h].perTick)]) = PerSecond(rate)

=============================================================================
