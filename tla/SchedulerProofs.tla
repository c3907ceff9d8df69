---------------------------- MODULE SchedulerProofs ----------------------------
(***************************************************************************)
(* What the monitor's books show of a scheduler that keeps its own, for    *)
(* every set of hosts and ids, every timeout and any number of reconnects  *)
(* and restarts.                                                           *)
(*                                                                         *)
(* The inductive invariant is built up in the order it is needed.  The     *)
(* rows follow the login replay (RowsFollow), so the replay only speaks    *)
(* within a session and a step of the two together is a step of Cluster:   *)
(* its theorems hold here.  Between sessions no job is tracked             *)
(* (NoWorkWhileDown), so ids that a restart uses again meet nothing old    *)
(* (JobsAreReal), and then rows and jobs agree (SlotsAreJobs with          *)
(* NoWorkWithoutRow, which need each other when a host leaves).            *)
(***************************************************************************)
EXTENDS Scheduler, ClusterProofs

USE RestartsAssumption

-----------------------------------------------------------------------------
(* The scheduler's own state. *)

Phases == {"new", "queued", "running", "local", "over"}

SchedTypeOK ==
  /\ phase \in [JobIds -> Phases]
  /\ place \in [JobIds -> Hosts \cup {NoHost}]
  /\ attached \subseteq Hosts
  /\ gone \subseteq Hosts
  /\ restarts \in 0 .. MaxRestarts

\* What any step does to a job's phase at the scheduler.
LEMMA MoveType ==
  ASSUME SchedTypeOK, NEW j \in JobIds, NEW from, NEW to \in Phases, Move(j, from, to)
  PROVE  phase' \in [JobIds -> Phases]
  BY DEF SchedTypeOK, Move

\* The scheduler's books keep their shape.
THEOREM SchedTypeCorrect == WorldSpec => []SchedTypeOK
<1>1. WorldInit => SchedTypeOK
  BY DEF WorldInit, SchedInit, SchedTypeOK, Phases
<1>2. ASSUME SchedTypeOK, [WorldNext]_allVars
      PROVE  SchedTypeOK'
  <2>1. ASSUME NEW j \in JobIds, NEW h \in Hosts,
               Submit(j, h) \/ Place(j, h) \/ StartLocal(j, h)
        PROVE  SchedTypeOK'
    <3>1. phase' \in [JobIds -> Phases]
      BY <1>2, <2>1, MoveType DEF Submit, Place, StartLocal, Phases
    <3>2. place' \in [JobIds -> Hosts \cup {NoHost}]
      BY <1>2, <2>1 DEF Submit, Place, StartLocal, SchedTypeOK
    <3>3. UNCHANGED <<attached, gone, restarts>>
      BY <2>1 DEF Submit, Place, StartLocal, Send
    <3>4. QED
      BY <1>2, <3>1, <3>2, <3>3 DEF SchedTypeOK
  <2>2. ASSUME NEW j \in JobIds, NEW ok \in BOOLEAN, NEW timed \in BOOLEAN,
               Finish(j, ok, timed) \/ FinishLocal(j) \/ LoseEnd(j)
        PROVE  SchedTypeOK'
    <3>1. phase' \in [JobIds -> Phases]
      BY <1>2, <2>2, MoveType DEF Finish, FinishLocal, LoseEnd, Phases
    <3>2. UNCHANGED <<place, attached, gone, restarts>>
      BY <2>2 DEF Finish, FinishLocal, LoseEnd, Send
    <3>3. QED
      BY <1>2, <3>1, <3>2 DEF SchedTypeOK
  <2>3. ASSUME NEW h \in Hosts, Attach(h) \/ Detach(h) \/ Announce(h)
        PROVE  SchedTypeOK'
    <3>1. UNCHANGED <<phase, place, restarts>>
      BY <2>3 DEF Attach, Detach, Announce, Send, schedVars
    <3>2. attached' \subseteq Hosts /\ gone' \subseteq Hosts
      BY <1>2, <2>3 DEF Attach, Detach, Announce, schedVars, SchedTypeOK
    <3>3. QED
      BY <1>2, <3>1, <3>2 DEF SchedTypeOK
  <2>4. CASE Restart
    BY <1>2, <2>4 DEF Restart, SchedTypeOK, Phases
  <2>5. ASSUME UNCHANGED <<schedVars, restarts>> PROVE SchedTypeOK'
    BY <1>2, <2>5 DEF schedVars, SchedTypeOK
  <2>6. CASE Link \/ (\E t \in Targets : Login(t)) \/ (\E d \in TickGaps : Second(d))
    BY <2>5, <2>6 DEF Link, Login, Second
  <2>7. CASE UNCHANGED allVars
    BY <2>5, <2>7 DEF allVars
  <2>8. QED
    BY <1>2, <2>1, <2>2, <2>3, <2>4, <2>6, <2>7 DEF WorldNext
<1>3. QED
  BY <1>1, <1>2, PTL DEF WorldSpec

-----------------------------------------------------------------------------
(* The rows follow the login replay. *)

\* A session's rows are the hosts named so far, and nothing is named outside one.
RowsFollow ==
  /\ toAnnounce \subseteq attached
  /\ Listening => DOMAIN nodes = attached \ toAnnounce
  /\ ~Listening => toAnnounce = {}

\* What an event can do to the set of rows, and that it leaves the link alone.
LEMMA RowsOfEvents ==
  /\ \A j \in JobIds, h \in Hosts :
       GetCs(j, h) \/ JobBegin(j, h) \/ LocalJobBegin(j, h) =>
         DOMAIN nodes' = DOMAIN nodes /\ connection' = connection
  /\ \A j \in JobIds, ok, timed \in BOOLEAN :
       JobDone(j, ok, timed) \/ LocalJobDone(j) =>
         DOMAIN nodes' = DOMAIN nodes /\ connection' = connection
  /\ \A h \in Hosts :
       /\ Stats(h) => /\ DOMAIN nodes' = DOMAIN nodes \cup {h}
                      /\ connection' = connection
       /\ Offline(h) => /\ DOMAIN nodes' = DOMAIN nodes \ {h}
                        /\ connection' = connection
  /\ \A d \in TickGaps : Tick(d) =>
         DOMAIN nodes' = DOMAIN nodes /\ connection' = connection
<1>1. \A ns, h, n : DOMAIN SetNode(ns, h, n) = DOMAIN ns
  BY DEF SetNode
<1>2. ASSUME NEW j \in JobIds, NEW h \in Hosts,
             GetCs(j, h) \/ JobBegin(j, h) \/ LocalJobBegin(j, h)
      PROVE  DOMAIN nodes' = DOMAIN nodes /\ connection' = connection
  BY <1>1, <1>2 DEF GetCs, JobBegin, LocalJobBegin, linkVars
<1>3. ASSUME NEW j \in JobIds, NEW ok \in BOOLEAN, NEW timed \in BOOLEAN,
             JobDone(j, ok, timed) \/ LocalJobDone(j)
      PROVE  DOMAIN nodes' = DOMAIN nodes /\ connection' = connection
  BY <1>1, <1>3 DEF JobDone, LocalJobDone, Unmatched, linkVars
<1>4. ASSUME NEW h \in Hosts, Stats(h)
      PROVE  DOMAIN nodes' = DOMAIN nodes \cup {h} /\ connection' = connection
  BY <1>4 DEF Stats, Put, linkVars
<1>5. ASSUME NEW h \in Hosts, Offline(h)
      PROVE  DOMAIN nodes' = DOMAIN nodes \ {h} /\ connection' = connection
  BY <1>5 DEF Offline, Drop, Restrict, linkVars, vars
<1>6. ASSUME NEW d \in TickGaps, Tick(d)
      PROVE  DOMAIN nodes' = DOMAIN nodes /\ connection' = connection
  BY <1>6 DEF Tick, linkVars
<1>7. QED
  BY <1>2, <1>3, <1>4, <1>5, <1>6

\* The login replay names the attached hosts one by one, and an attach or a
\* departure is told at once: the rows are never behind once it is complete.
THEOREM RowsFollowReplay == WorldSpec => []RowsFollow
<1>1. WorldInit => RowsFollow
  BY DEF WorldInit, Init, RowsFollow, Listening, SchedInit
<1>2. ASSUME RowsFollow, [WorldNext]_allVars
      PROVE  RowsFollow'
  <2>1. ASSUME DOMAIN nodes' = DOMAIN nodes, connection' = connection,
               UNCHANGED <<attached, toAnnounce>>
        PROVE  RowsFollow'
    BY <1>2, <2>1 DEF RowsFollow, Listening
  <2>2. ASSUME NEW j \in JobIds, NEW h \in Hosts,
               Submit(j, h) \/ Place(j, h) \/ StartLocal(j, h)
        PROVE  RowsFollow'
    BY <2>1, <2>2, RowsOfEvents DEF Submit, Place, StartLocal, Send, vars, linkVars
  <2>3. ASSUME NEW j \in JobIds, NEW ok \in BOOLEAN, NEW timed \in BOOLEAN,
               Finish(j, ok, timed) \/ FinishLocal(j) \/ LoseEnd(j)
        PROVE  RowsFollow'
    BY <2>1, <2>3, RowsOfEvents DEF Finish, FinishLocal, LoseEnd, Send, vars, linkVars
  <2>4. ASSUME NEW h \in Hosts, Attach(h)
        PROVE  RowsFollow'
    BY <1>2, <2>4, RowsOfEvents DEF Attach, Send, RowsFollow, Listening, vars, linkVars
  <2>5. ASSUME NEW h \in Hosts, Detach(h)
        PROVE  RowsFollow'
    BY <1>2, <2>5, RowsOfEvents DEF Detach, Send, RowsFollow, Listening, vars, linkVars
  <2>6. ASSUME NEW h \in Hosts, Announce(h)
        PROVE  RowsFollow'
    BY <1>2, <2>6, RowsOfEvents DEF Announce, RowsFollow, Listening, schedVars
  <2>7. ASSUME NEW t \in Targets, Login(t)
        PROVE  RowsFollow'
    BY <2>7 DEF Login, Connected, Reset, Nothing, RowsFollow, Listening, schedVars
  <2>8. CASE Restart
    BY <1>2, <2>8 DEF Restart, RowsFollow, Listening, vars, linkVars
  <2>9. CASE Link
    BY <2>9 DEF Link, Connecting, Disconnected, RowsFollow, Listening
  <2>10. ASSUME NEW d \in TickGaps, Second(d)
         PROVE  RowsFollow'
    BY <2>1, <2>10, RowsOfEvents DEF Second, schedVars
  <2>11. CASE UNCHANGED allVars
    BY <2>1, <2>11 DEF allVars, vars, linkVars, schedVars
  <2>12. QED
    BY <1>2, <2>2, <2>3, <2>4, <2>5, <2>6, <2>7, <2>8, <2>9, <2>10, <2>11
       DEF WorldNext
<1>3. QED
  BY <1>1, <1>2, PTL DEF WorldSpec

\* Once the login replay is complete the rows are the attached hosts.
THEOREM RowsAreTheHosts == WorldSpec => []RowsAreHosts
<1>1. RowsFollow => RowsAreHosts
  BY DEF RowsFollow, RowsAreHosts
<1>2. QED
  BY <1>1, RowsFollowReplay, PTL

-----------------------------------------------------------------------------
(* A scheduler that keeps books is one of the remotes module Cluster allows. *)

\* An event of Cluster's remote.
LEMMA EventStep ==
  ASSUME Listening
  PROVE  /\ \A j \in JobIds, h \in Hosts :
              GetCs(j, h) \/ JobBegin(j, h) \/ LocalJobBegin(j, h) => Next
         /\ \A j \in JobIds, ok, timed \in BOOLEAN : JobDone(j, ok, timed) => Next
         /\ \A j \in JobIds : LocalJobDone(j) => Next
         /\ \A h \in Hosts : Stats(h) \/ Offline(h) => Next
  BY DEF Listening, Next, Event

\* Every step the two take together is one Cluster's remote may take, or leaves
\* the monitor alone.
LEMMA WorldStep ==
  ASSUME RowsFollow, [WorldNext]_allVars
  PROVE  [Next]_vars
<1>1. ASSUME NEW j \in JobIds, NEW h \in Hosts,
             Submit(j, h) \/ Place(j, h) \/ StartLocal(j, h)
      PROVE  Next \/ UNCHANGED vars
  BY <1>1, EventStep DEF Submit, Place, StartLocal, Send
<1>2. ASSUME NEW j \in JobIds, NEW ok \in BOOLEAN, NEW timed \in BOOLEAN,
             Finish(j, ok, timed) \/ FinishLocal(j) \/ LoseEnd(j)
      PROVE  Next \/ UNCHANGED vars
  BY <1>2, EventStep DEF Finish, FinishLocal, LoseEnd, Send
<1>3. ASSUME NEW h \in Hosts, Attach(h) \/ Detach(h) \/ Announce(h)
      PROVE  Next \/ UNCHANGED vars
  BY <1>3, EventStep DEF Attach, Detach, Announce, Send, RowsFollow
<1>4. ASSUME NEW t \in Targets, Login(t)
      PROVE  Next
  BY <1>4 DEF Login, Next, Session
<1>5. CASE Link
  BY <1>5 DEF Link, Listening, Next, Session
<1>6. ASSUME NEW d \in TickGaps, Second(d)
      PROVE  Next
  BY <1>6 DEF Second, Next
<1>7. CASE Restart \/ UNCHANGED allVars
  BY <1>7 DEF Restart, allVars
<1>8. QED
  BY <1>1, <1>2, <1>3, <1>4, <1>5, <1>6, <1>7 DEF WorldNext

\* The scheduler implements the arbitrary remote of module Cluster: what is
\* proved of the monitor in front of any remote holds in front of this one.
THEOREM SchedulerIsARemote == WorldSpec => Spec
<1>1. WorldInit => Init
  BY DEF WorldInit
<1>2. RowsFollow /\ [WorldNext]_allVars => [Next]_vars
  BY WorldStep
<1>3. QED
  BY <1>1, <1>2, RowsFollowReplay, PTL DEF WorldSpec, Spec

\* In particular the model's state keeps its shape and nothing is in flight
\* between sessions.
LEMMA ClusterHolds == WorldSpec => [](TypeOK /\ NoWorkWhileDown)
  BY SchedulerIsARemote, TypeCorrect, NothingRunsWhileDown, PTL

-----------------------------------------------------------------------------
(* What the monitor shows is real. *)

\* JobsAreReal for one job.
RealJob(j) ==
  \/ phase[j] = "over"
  \/ jobs[j].state = "Pending" /\ phase[j] = "queued"
  \/ jobs[j].state = "Active" /\ phase[j] = "running" /\ jobs[j].host = place[j]
  \/ jobs[j].state = "Local" /\ phase[j] = "local" /\ jobs[j].host = place[j]

\* A tick keeps some of the jobs, as they were but for their age.
LEMMA TickJobs ==
  ASSUME TypeOK, NEW d \in TickGaps, Tick(d)
  PROVE  /\ DOMAIN jobs' \subseteq DOMAIN jobs
         /\ \A k \in DOMAIN jobs' : /\ jobs'[k].state = jobs[k].state
                                    /\ jobs'[k].host = jobs[k].host
<1> DEFINE aged == Aged(jobs, d)
<1>1. /\ DOMAIN aged = DOMAIN jobs
      /\ \A j \in DOMAIN jobs : aged[j].host = jobs[j].host /\ aged[j].state = jobs[j].state
  <2>1. d \in Nat
    BY BoundsAssumption
  <2>2. QED
    BY <2>1, AgedType DEF TypeOK
<1>2. jobs' = Drop(aged, Expired(aged))
  BY DEF Tick
<1> HIDE DEF aged
<1>3. QED
  BY <1>1, <1>2 DEF Drop, Restrict

\* A step that touches neither a job nor, but to end it, what the scheduler
\* holds of it, keeps it real.
LEMMA StaysReal ==
  ASSUME JobsAreReal,
         NEW k \in DOMAIN jobs, jobs'[k].state = jobs[k].state,
         jobs'[k].host = jobs[k].host,
         phase'[k] = phase[k] \/ phase'[k] = "over", place'[k] = place[k]
  PROVE  RealJob(k)'
  BY DEF JobsAreReal, RealJob

\* Jobs on screen are the scheduler's, in its state and on its host: between
\* sessions there are none, so a restart never meets an id it will use again.
THEOREM EveryJobIsReal == WorldSpec => []JobsAreReal
<1>1. WorldInit => JobsAreReal
  BY DEF WorldInit, Init, Nothing, JobsAreReal
<1>2. ASSUME SchedTypeOK, TypeOK, NoWorkWhileDown, JobsAreReal, [WorldNext]_allVars
      PROVE  JobsAreReal'
  <2>t. phase \in [JobIds -> Phases] /\ DOMAIN jobs \subseteq JobIds
    BY <1>2 DEF SchedTypeOK, TypeOK
  <2>1. ASSUME DOMAIN jobs' = {} PROVE JobsAreReal'
    BY <2>1 DEF JobsAreReal
  <2>2. ASSUME DOMAIN jobs' \subseteq DOMAIN jobs,
               \A k \in DOMAIN jobs' : /\ jobs'[k].state = jobs[k].state
                                       /\ jobs'[k].host = jobs[k].host,
               \A k \in JobIds : phase'[k] = phase[k] \/ phase'[k] = "over",
               place' = place
        PROVE  JobsAreReal'
    <3>1. \A k \in DOMAIN jobs' : RealJob(k)'
      BY <1>2, <2>t, <2>2, StaysReal
    <3>2. QED
      BY <3>1 DEF JobsAreReal, RealJob
  <2>3. \A S : jobs' = Drop(jobs, S) =>
           /\ DOMAIN jobs' \subseteq DOMAIN jobs
           /\ \A k \in DOMAIN jobs' : jobs'[k] = jobs[k]
    BY DEF Drop, Restrict
  <2>4. ASSUME ~Listening, UNCHANGED vars PROVE JobsAreReal'
    BY <1>2, <2>1, <2>4 DEF NoWorkWhileDown, Listening, vars
  <2>5. ASSUME NEW j \in JobIds, NEW from, NEW to, Move(j, from, to)
        PROVE  /\ phase'[j] = to
               /\ \A k \in JobIds \ {j} : phase'[k] = phase[k]
    BY <2>t, <2>5 DEF Move
  <2>6. ASSUME NEW j \in JobIds, NEW h \in Hosts, Submit(j, h)
        PROVE  JobsAreReal'
    <3>1. phase'[j] = "queued" /\ place' = place
          /\ \A k \in JobIds \ {j} : phase'[k] = phase[k]
      BY <2>5, <2>6 DEF Submit
    <3>2. CASE Listening
      <4>1. GetCs(j, h)
        BY <2>6, <3>2 DEF Submit, Send
      <4>2. DOMAIN jobs' = DOMAIN jobs \cup {j} /\ jobs'[j].state = "Pending"
            /\ \A k \in DOMAIN jobs \ {j} : jobs'[k] = jobs[k]
        BY <4>1 DEF GetCs, Put
      <4>3. \A k \in DOMAIN jobs' \ {j} : RealJob(k)'
        BY <1>2, <2>t, <3>1, <4>2, StaysReal
      <4>4. QED
        BY <3>1, <4>2, <4>3 DEF JobsAreReal, RealJob
    <3>3. QED
      BY <2>4, <2>6, <3>2 DEF Submit, Send
  <2>7. ASSUME NEW j \in JobIds, NEW h \in Hosts, Place(j, h)
        PROVE  JobsAreReal'
    <3>1. /\ phase'[j] = "running"
          /\ \A k \in JobIds \ {j} : phase'[k] = phase[k] /\ place'[k] = place[k]
          /\ place'[j] = h
      BY <1>2, <2>5, <2>7 DEF Place, SchedTypeOK
    <3>2. CASE Listening
      <4>1. JobBegin(j, h)
        BY <2>7, <3>2 DEF Place, Send
      <4>2. /\ DOMAIN jobs' = DOMAIN jobs \cup {j}
            /\ jobs'[j].state = "Active" /\ jobs'[j].host = h
            /\ \A k \in DOMAIN jobs \ {j} : jobs'[k] = jobs[k]
        BY <4>1 DEF JobBegin, Put
      <4>3. \A k \in DOMAIN jobs' \ {j} : RealJob(k)'
        BY <1>2, <2>t, <3>1, <4>2, StaysReal
      <4>4. QED
        BY <3>1, <4>2, <4>3 DEF JobsAreReal, RealJob
    <3>3. QED
      BY <2>4, <2>7, <3>2 DEF Place, Send
  <2>8. ASSUME NEW j \in JobIds, NEW h \in Hosts, StartLocal(j, h)
        PROVE  JobsAreReal'
    <3>1. /\ phase'[j] = "local"
          /\ \A k \in JobIds \ {j} : phase'[k] = phase[k] /\ place'[k] = place[k]
          /\ place'[j] = h
      BY <1>2, <2>5, <2>8 DEF StartLocal, SchedTypeOK
    <3>2. CASE Listening
      <4>1. LocalJobBegin(j, h)
        BY <2>8, <3>2 DEF StartLocal, Send
      <4>2. /\ DOMAIN jobs' = DOMAIN jobs \cup {j}
            /\ jobs'[j].state = "Local" /\ jobs'[j].host = h
            /\ \A k \in DOMAIN jobs \ {j} : jobs'[k] = jobs[k]
        BY <4>1 DEF LocalJobBegin, Put
      <4>3. \A k \in DOMAIN jobs' \ {j} : RealJob(k)'
        BY <1>2, <2>t, <3>1, <4>2, StaysReal
      <4>4. QED
        BY <3>1, <4>2, <4>3 DEF JobsAreReal, RealJob
    <3>3. QED
      BY <2>4, <2>8, <3>2 DEF StartLocal, Send
  <2>9. ASSUME NEW j \in JobIds, NEW ok \in BOOLEAN, NEW timed \in BOOLEAN,
               Finish(j, ok, timed) \/ FinishLocal(j) \/ LoseEnd(j)
        PROVE  JobsAreReal'
    <3>1. /\ place' = place
          /\ \A k \in JobIds : phase'[k] = phase[k] \/ phase'[k] = "over"
      <4>1. \E from : Move(j, from, "over")
        BY <2>9 DEF Finish, FinishLocal, LoseEnd
      <4>2. QED
        BY <2>5, <2>9, <4>1 DEF Finish, FinishLocal, LoseEnd
    <3>2. jobs' = jobs \/ jobs' = Drop(jobs, {j})
      BY <2>9 DEF Finish, FinishLocal, LoseEnd, Send, JobDone, LocalJobDone,
         Unmatched, vars
    <3>3. QED
      BY <2>2, <2>3, <3>1, <3>2
  <2>10. ASSUME NEW h \in Hosts, Attach(h) \/ Detach(h) \/ Announce(h)
         PROVE  JobsAreReal'
    <3>1. phase' = phase /\ place' = place
      BY <2>10 DEF Attach, Detach, Announce, schedVars
    <3>2. jobs' = jobs \/ jobs' = Drop(jobs, Taken(h))
      BY <2>10 DEF Attach, Detach, Announce, Send, Stats, Offline, vars
    <3>3. QED
      BY <2>2, <2>3, <3>1, <3>2
  <2>11. CASE Restart
    BY <2>4, <2>11 DEF Restart
  <2>12. ASSUME NEW t \in Targets, Login(t)
         PROVE  JobsAreReal'
    BY <2>1, <2>12 DEF Login, Connected, Reset, Nothing
  <2>13. CASE Link
    <3>1. CASE Connecting
      <4>1. UNCHANGED <<jobs, phase, place>>
        BY <2>13, <3>1 DEF Link, Connecting, schedVars
      <4>2. QED
        BY <2>2, <4>1
    <3>2. CASE Disconnected
      BY <2>1, <3>2 DEF Disconnected, Nothing
    <3>3. QED
      BY <2>13, <3>1, <3>2 DEF Link
  <2>14. ASSUME NEW d \in TickGaps, Second(d)
         PROVE  JobsAreReal'
    <3>1. phase' = phase /\ place' = place /\ Tick(d)
      BY <2>14 DEF Second, schedVars
    <3>2. QED
      BY <1>2, <2>2, <3>1, TickJobs
  <2>15. CASE UNCHANGED allVars
    <3>1. UNCHANGED <<jobs, phase, place>>
      BY <2>15 DEF allVars, vars, schedVars
    <3>2. QED
      BY <2>2, <3>1
  <2>16. QED
    BY <1>2, <2>6, <2>7, <2>8, <2>9, <2>10, <2>11, <2>12, <2>13, <2>14, <2>15
       DEF WorldNext
<1>3. QED
  BY <1>1, <1>2, SchedTypeCorrect, ClusterHolds, PTL DEF WorldSpec

-----------------------------------------------------------------------------
(* Rows and jobs agree. *)

\* What each operation on a node does to its slots.
LEMMA SlotsOfOps ==
  ASSUME NEW n \in Node, NEW j
  PROVE  /\ TakeJob(n, j).active = n.active \cup {j} /\ TakeJob(n, j).local = n.local
         /\ TakeLocal(n, j).local = n.local \cup {j} /\ TakeLocal(n, j).active = n.active
         /\ CreditClient(n).active = n.active /\ CreditClient(n).local = n.local
         /\ ReleaseJob(n, j).active = n.active \ {j}
         /\ ReleaseJob(n, j).local = n.local \ {j}
         /\ ReleaseLocal(n, j).active = n.active
         /\ ReleaseLocal(n, j).local = n.local \ {j}
         /\ CountFile(n).active = n.active /\ CountFile(n).local = n.local
         /\ Measure(n).active = n.active /\ Measure(n).local = n.local
         /\ TickNode(n).active = n.active /\ TickNode(n).local = n.local
<1>1. /\ TakeJob(n, j).active = n.active \cup {j} /\ TakeJob(n, j).local = n.local
      /\ TakeLocal(n, j).local = n.local \cup {j} /\ TakeLocal(n, j).active = n.active
      /\ CreditClient(n).active = n.active /\ CreditClient(n).local = n.local
  BY DEF Node, TakeJob, TakeLocal, CreditClient
<1>2. /\ ReleaseJob(n, j).active = n.active \ {j}
      /\ ReleaseJob(n, j).local = n.local \ {j}
      /\ ReleaseLocal(n, j).active = n.active
      /\ ReleaseLocal(n, j).local = n.local \ {j}
  BY DEF Node, ReleaseJob, ReleaseLocal
<1>3. /\ CountFile(n).active = n.active /\ CountFile(n).local = n.local
      /\ Measure(n).active = n.active /\ Measure(n).local = n.local
      /\ TickNode(n).active = n.active /\ TickNode(n).local = n.local
  BY DEF Node, CountFile, Measure, TickNode
<1>4. QED
  BY <1>1, <1>2, <1>3

\* A job that begins takes one slot, on the row of the host it runs on.
LEMMA SlotsOfBegin ==
  ASSUME TypeOK, NEW j \in JobIds, NEW h \in Hosts, JobBegin(j, h)
  PROVE  /\ DOMAIN nodes' = DOMAIN nodes
         /\ \A g \in DOMAIN nodes :
              /\ nodes'[g].active = nodes[g].active \cup (IF g = h THEN {j} ELSE {})
              /\ nodes'[g].local = nodes[g].local
<1> DEFINE c == ClientOf(j)
           placed == SetNode(nodes, h, TakeJob(nodes[h], j))
<1>1. \A g \in DOMAIN nodes : nodes[g] \in Node
  BY DEF TypeOK
<1>2. \A ns, g, n : /\ DOMAIN SetNode(ns, g, n) = DOMAIN ns
                    /\ \A x \in DOMAIN ns : SetNode(ns, g, n)[x] = IF x = g THEN n ELSE ns[x]
  BY DEF SetNode
<1>3. /\ DOMAIN placed = DOMAIN nodes
      /\ \A g \in DOMAIN nodes : placed[g] = IF g = h THEN TakeJob(nodes[h], j) ELSE nodes[g]
  BY <1>2
<1>4. \A g \in DOMAIN nodes : placed[g] \in Node
  BY <1>1, <1>3, NodeOps
<1>5. nodes' = SetNode(placed, c, CreditClient(placed[c]))
  BY DEF JobBegin
<1> HIDE DEF placed, c
<1>6. /\ DOMAIN nodes' = DOMAIN nodes
      /\ \A g \in DOMAIN nodes :
           nodes'[g] = IF g = c THEN CreditClient(placed[c]) ELSE placed[g]
  BY <1>2, <1>3, <1>5
<1>7. ASSUME NEW g \in DOMAIN nodes
      PROVE  nodes'[g].active = placed[g].active /\ nodes'[g].local = placed[g].local
  <2>1. CASE g = c
    <3>1. nodes'[g] = CreditClient(placed[g]) /\ placed[g] \in Node
      BY <1>4, <1>6, <2>1
    <3> QED BY <3>1, SlotsOfOps
  <2>2. CASE g # c
    BY <1>6, <2>2
  <2> QED BY <2>1, <2>2
<1>8. \A g \in DOMAIN nodes :
        /\ placed[g].active = nodes[g].active \cup (IF g = h THEN {j} ELSE {})
        /\ placed[g].local = nodes[g].local
  BY <1>1, <1>3, SlotsOfOps
<1>9. QED
  BY <1>6, <1>7, <1>8

\* The begin of a local job takes one local slot of its host.
LEMMA SlotsOfLocalBegin ==
  ASSUME TypeOK, NEW j \in JobIds, NEW h \in Hosts, LocalJobBegin(j, h)
  PROVE  /\ DOMAIN nodes' = DOMAIN nodes
         /\ \A g \in DOMAIN nodes :
              /\ nodes'[g].active = nodes[g].active
              /\ nodes'[g].local = nodes[g].local \cup (IF g = h THEN {j} ELSE {})
<1>1. \A g \in DOMAIN nodes : nodes[g] \in Node
  BY DEF TypeOK
<1>2. /\ DOMAIN nodes' = DOMAIN nodes
      /\ \A g \in DOMAIN nodes :
           nodes'[g] = IF g = h THEN TakeLocal(nodes[h], j) ELSE nodes[g]
  BY DEF LocalJobBegin, SetNode
<1>3. QED
  BY <1>1, <1>2, SlotsOfOps

\* An end gives back the slots on the row of the host the job ran on.
LEMMA SlotsOfDone ==
  ASSUME TypeOK, NEW j \in DOMAIN jobs, NEW ok, NEW timed, JobDone(j, ok, timed)
  PROVE  /\ DOMAIN nodes' = DOMAIN nodes
         /\ \A g \in DOMAIN nodes :
              LET freed == IF g = jobs[j].host THEN {j} ELSE {}
              IN  /\ nodes'[g].active = nodes[g].active \ freed
                  /\ nodes'[g].local = nodes[g].local \ freed
<1> DEFINE h == jobs[j].host
           freed == CountFile(ReleaseJob(nodes[h], j))
           n == IF ok /\ timed THEN Measure(freed) ELSE freed
<1>1. \A g \in DOMAIN nodes : nodes[g] \in Node
  BY DEF TypeOK
<1>2. j \in JobIds
  BY DEF TypeOK
<1>3. h \in DOMAIN nodes => /\ n.active = nodes[h].active \ {j}
                            /\ n.local = nodes[h].local \ {j}
  <2> SUFFICES ASSUME h \in DOMAIN nodes
               PROVE  /\ n.active = nodes[h].active \ {j}
                      /\ n.local = nodes[h].local \ {j}
    OBVIOUS
  <2>1. ReleaseJob(nodes[h], j) \in Node
    BY <1>1, <1>2, NodeOps
  <2>2. freed \in Node
    BY <1>2, <2>1, NodeOps
  <2>3. freed.active = nodes[h].active \ {j} /\ freed.local = nodes[h].local \ {j}
    BY <1>1, <2>1, SlotsOfOps
  <2> HIDE DEF freed
  <2>4. QED
    BY <2>2, <2>3, SlotsOfOps
<1>4. nodes' = SetNode(nodes, h, n)
  BY DEF JobDone
<1> HIDE DEF n, h
<1>5. /\ DOMAIN nodes' = DOMAIN nodes
      /\ \A g \in DOMAIN nodes : nodes'[g] = IF g = h THEN n ELSE nodes[g]
  BY <1>4 DEF SetNode
<1>6. QED
  BY <1>3, <1>5 DEF h

\* The end of a local job frees its slot and no other.
LEMMA SlotsOfLocalDone ==
  ASSUME TypeOK, NEW j \in DOMAIN jobs, LocalJobDone(j)
  PROVE  /\ DOMAIN nodes' = DOMAIN nodes
         /\ \A g \in DOMAIN nodes :
              /\ nodes'[g].active = nodes[g].active
              /\ nodes'[g].local = nodes[g].local \ (IF g = jobs[j].host THEN {j} ELSE {})
<1> DEFINE h == jobs[j].host
           n == CountFile(ReleaseLocal(nodes[h], j))
<1>1. \A g \in DOMAIN nodes : nodes[g] \in Node
  BY DEF TypeOK
<1>2. j \in JobIds
  BY DEF TypeOK
<1>3. h \in DOMAIN nodes => /\ n.active = nodes[h].active
                            /\ n.local = nodes[h].local \ {j}
  <2>1. h \in DOMAIN nodes => ReleaseLocal(nodes[h], j) \in Node
    BY <1>1, <1>2, NodeOps
  <2>2. QED
    BY <1>1, <2>1, SlotsOfOps
<1>4. nodes' = SetNode(nodes, h, n)
  BY DEF LocalJobDone
<1> HIDE DEF n, h
<1>5. /\ DOMAIN nodes' = DOMAIN nodes
      /\ \A g \in DOMAIN nodes : nodes'[g] = IF g = h THEN n ELSE nodes[g]
  BY <1>4 DEF SetNode
<1>6. QED
  BY <1>3, <1>5 DEF h

\* A tick gives back the slots of the jobs it drops, each on its own row.
LEMMA SlotsOfTick ==
  ASSUME TypeOK, NEW d \in TickGaps, Tick(d)
  PROVE  /\ DOMAIN nodes' = DOMAIN nodes
         /\ \A g \in DOMAIN nodes :
              LET lost == {k \in DOMAIN jobs \ DOMAIN jobs' : jobs[k].host = g}
              IN  /\ nodes'[g].active = nodes[g].active \ lost
                  /\ nodes'[g].local = nodes[g].local \ lost
<1> DEFINE aged == Aged(jobs, d)
           dropped == Expired(aged)
<1>1. \A g \in DOMAIN nodes : nodes[g] \in Node
  BY DEF TypeOK
<1>2. /\ DOMAIN aged = DOMAIN jobs
      /\ \A j \in DOMAIN jobs : aged[j].host = jobs[j].host
  <2>1. d \in Nat /\ DOMAIN jobs \subseteq JobIds /\ jobs \in [DOMAIN jobs -> Job]
    BY BoundsAssumption DEF TypeOK
  <2>2. QED
    BY ONLY <2>1, AgedType DEF aged
<1>3. dropped \subseteq DOMAIN jobs
  BY <1>2 DEF Expired
<1>4. jobs' = Drop(aged, dropped)
  BY DEF Tick
<1>5. /\ DOMAIN nodes' = DOMAIN nodes
      /\ \A g \in DOMAIN nodes : nodes'[g] = TickNode(Freed(nodes[g], g, dropped))
  BY DEF Tick
<1>6. \A g \in DOMAIN nodes :
        /\ Freed(nodes[g], g, dropped) \in Node
        /\ Freed(nodes[g], g, dropped).active =
             nodes[g].active \ {k \in dropped : jobs[k].host = g}
        /\ Freed(nodes[g], g, dropped).local =
             nodes[g].local \ {k \in dropped : jobs[k].host = g}
  <2>1. TAKE g \in DOMAIN nodes
  <2>2. Freed(nodes[g], g, dropped) \in Node
    BY <1>1, FreedType
  <2>3. /\ Freed(nodes[g], g, dropped).active =
             nodes[g].active \ {k \in dropped : jobs[k].host = g}
        /\ Freed(nodes[g], g, dropped).local =
             nodes[g].local \ {k \in dropped : jobs[k].host = g}
    BY <1>1 DEF Freed, Node
  <2>4. QED
    BY <2>2, <2>3
<1> HIDE DEF aged, dropped
<1>7. DOMAIN jobs \ DOMAIN jobs' = dropped
  BY <1>2, <1>3, <1>4 DEF Drop, Restrict
<1>8. \A g \in DOMAIN nodes :
        /\ nodes'[g].active = nodes[g].active \ {k \in dropped : jobs[k].host = g}
        /\ nodes'[g].local = nodes[g].local \ {k \in dropped : jobs[k].host = g}
  BY <1>5, <1>6, SlotsOfOps
<1>9. QED
  BY <1>5, <1>7, <1>8

\* SlotsAreJobs, job by job, of given books.
Agree(ns, js) ==
  \A h \in DOMAIN ns : \A k :
    /\ k \in ns[h].active <=> k \in DOMAIN js /\ js[k].state = "Active" /\ js[k].host = h
    /\ k \in ns[h].local <=> k \in DOMAIN js /\ js[k].state = "Local" /\ js[k].host = h

\* NoWorkWithoutRow of given books.
Rooted(ns, js) == \A k \in DOMAIN js : js[k].state # "Pending" => js[k].host \in DOMAIN ns

\* Equal sets have equal members.
LEMMA AgreeIsSlots ==
  ASSUME NEW ns, NEW js
  PROVE  Agree(ns, js) <=>
           \A h \in DOMAIN ns :
             /\ ns[h].active = {j \in InState(js, "Active") : js[j].host = h}
             /\ ns[h].local = {j \in InState(js, "Local") : js[j].host = h}
  BY DEF Agree, InState

\* The books of the two sides, as the monitor keeps them.
BooksAgree == Agree(nodes, jobs) /\ Rooted(nodes, jobs)

\* A job that begins on a row there is keeps the two books in agreement.
LEMMA BooksOfBegin ==
  ASSUME TypeOK, BooksAgree, NEW j \in JobIds, NEW h \in DOMAIN nodes, h \in Hosts,
         \A g \in DOMAIN nodes : j \notin nodes[g].active \cup nodes[g].local,
         JobBegin(j, h)
  PROVE  BooksAgree'
<1>1. /\ DOMAIN jobs' = DOMAIN jobs \cup {j}
      /\ jobs'[j].state = "Active" /\ jobs'[j].host = h
      /\ \A k \in DOMAIN jobs \ {j} : jobs'[k] = jobs[k]
  BY DEF JobBegin, Put
<1>2. /\ DOMAIN nodes' = DOMAIN nodes
      /\ \A g \in DOMAIN nodes :
           /\ nodes'[g].active = nodes[g].active \cup (IF g = h THEN {j} ELSE {})
           /\ nodes'[g].local = nodes[g].local
  BY SlotsOfBegin
<1>3. Agree(nodes', jobs')
  BY <1>1, <1>2 DEF BooksAgree, Agree
<1>4. Rooted(nodes', jobs')
  BY <1>1, <1>2 DEF BooksAgree, Rooted
<1>5. QED
  BY <1>3, <1>4 DEF BooksAgree

\* So does a local one.
LEMMA BooksOfLocalBegin ==
  ASSUME TypeOK, BooksAgree, NEW j \in JobIds, NEW h \in DOMAIN nodes, h \in Hosts,
         \A g \in DOMAIN nodes : j \notin nodes[g].active \cup nodes[g].local,
         LocalJobBegin(j, h)
  PROVE  BooksAgree'
<1>1. /\ DOMAIN jobs' = DOMAIN jobs \cup {j}
      /\ jobs'[j].state = "Local" /\ jobs'[j].host = h
      /\ \A k \in DOMAIN jobs \ {j} : jobs'[k] = jobs[k]
  BY DEF LocalJobBegin, Put
<1>2. /\ DOMAIN nodes' = DOMAIN nodes
      /\ \A g \in DOMAIN nodes :
           /\ nodes'[g].active = nodes[g].active
           /\ nodes'[g].local = nodes[g].local \cup (IF g = h THEN {j} ELSE {})
  BY SlotsOfLocalBegin
<1>3. Agree(nodes', jobs')
  BY <1>1, <1>2 DEF BooksAgree, Agree
<1>4. Rooted(nodes', jobs')
  BY <1>1, <1>2 DEF BooksAgree, Rooted
<1>5. QED
  BY <1>3, <1>4 DEF BooksAgree

\* A job queued under an id that holds no slot takes none.
LEMMA BooksOfGetCs ==
  ASSUME BooksAgree, NEW j, NEW c,
         \A g \in DOMAIN nodes : j \notin nodes[g].active \cup nodes[g].local,
         GetCs(j, c)
  PROVE  BooksAgree'
<1>1. /\ DOMAIN jobs' = DOMAIN jobs \cup {j} /\ jobs'[j].state = "Pending"
      /\ \A k \in DOMAIN jobs \ {j} : jobs'[k] = jobs[k]
      /\ nodes' = nodes
  BY DEF GetCs, Put
<1>2. Agree(nodes', jobs')
  BY <1>1 DEF BooksAgree, Agree
<1>3. Rooted(nodes', jobs')
  BY <1>1 DEF BooksAgree, Rooted
<1>4. QED
  BY <1>2, <1>3 DEF BooksAgree

\* An end gives back exactly the slots of the job it ends: MON_JOB_DONE those of
\* either kind, a local end those of a job that is local.
LEMMA BooksOfDone ==
  ASSUME TypeOK, BooksAgree, NEW j, NEW ok, NEW timed,
         \/ JobDone(j, ok, timed)
         \/ LocalJobDone(j) /\ (j \in DOMAIN jobs => jobs[j].state = "Local")
  PROVE  BooksAgree'
<1>1. CASE j \notin DOMAIN jobs
  <2>1. nodes' = nodes /\ jobs' = jobs
    BY <1>1 DEF JobDone, LocalJobDone, Unmatched
  <2>2. QED
    BY <2>1 DEF BooksAgree
<1>2. CASE j \in DOMAIN jobs
  <2>1. /\ DOMAIN jobs' = DOMAIN jobs \ {j}
        /\ \A k \in DOMAIN jobs' : jobs'[k] = jobs[k]
    BY <1>2 DEF JobDone, LocalJobDone, Drop, Restrict
  <2>2. DOMAIN nodes' = DOMAIN nodes
    BY <1>2, SlotsOfDone, SlotsOfLocalDone
  <2>3. Rooted(nodes', jobs')
    BY <2>1, <2>2 DEF BooksAgree, Rooted
  <2>4. CASE JobDone(j, ok, timed)
    <3>1. \A g \in DOMAIN nodes :
            /\ nodes'[g].active = nodes[g].active \ (IF g = jobs[j].host THEN {j} ELSE {})
            /\ nodes'[g].local = nodes[g].local \ (IF g = jobs[j].host THEN {j} ELSE {})
      BY <1>2, <2>4, SlotsOfDone
    <3>2. Agree(nodes', jobs')
      BY <2>1, <2>2, <3>1 DEF BooksAgree, Agree
    <3>3. QED
      BY <2>3, <3>2 DEF BooksAgree
  <2>5. CASE LocalJobDone(j) /\ jobs[j].state = "Local"
    <3>1. \A g \in DOMAIN nodes :
            /\ nodes'[g].active = nodes[g].active
            /\ nodes'[g].local = nodes[g].local \ (IF g = jobs[j].host THEN {j} ELSE {})
      BY <1>2, <2>5, SlotsOfLocalDone
    <3>2. Agree(nodes', jobs')
      BY <2>1, <2>2, <2>5, <3>1 DEF BooksAgree, Agree
    <3>3. QED
      BY <2>3, <3>2 DEF BooksAgree
  <2>6. QED
    BY <1>2, <2>4, <2>5
<1>3. QED
  BY <1>1, <1>2

\* A host that leaves takes its row and the jobs the row lists, which are all
\* the jobs that run there.
LEMMA BooksOfOffline ==
  ASSUME TypeOK, BooksAgree, NEW h, Offline(h)
  PROVE  BooksAgree'
<1>1. CASE h \notin DOMAIN nodes
  <2>1. nodes' = nodes /\ jobs' = jobs
    BY <1>1 DEF Offline, vars
  <2>2. QED
    BY <2>1 DEF BooksAgree
<1>2. CASE h \in DOMAIN nodes
  <2>1. /\ DOMAIN nodes' = DOMAIN nodes \ {h}
        /\ \A g \in DOMAIN nodes' : nodes'[g] = nodes[g]
        /\ DOMAIN jobs' = DOMAIN jobs \ (nodes[h].active \cup nodes[h].local)
        /\ \A k \in DOMAIN jobs' : jobs'[k] = jobs[k]
    BY <1>2 DEF Offline, Drop, Restrict, Taken
  <2>2. Agree(nodes', jobs')
    BY <1>2, <2>1 DEF BooksAgree, Agree
  <2>3. Rooted(nodes', jobs')
    <3>1. SUFFICES ASSUME NEW k \in DOMAIN jobs', jobs'[k].state # "Pending"
                   PROVE  jobs'[k].host \in DOMAIN nodes'
      BY DEF Rooted
    <3>2. k \in DOMAIN jobs /\ jobs'[k] = jobs[k]
      BY <2>1
    <3>3. jobs[k].host \in DOMAIN nodes
      BY <3>1, <3>2 DEF BooksAgree, Rooted
    <3>4. jobs[k].state \in {"Active", "Local"}
      BY <3>1, <3>2 DEF TypeOK, Job, JobState
    <3>5. jobs[k].host # h
      BY <1>2, <2>1, <3>2, <3>4 DEF BooksAgree, Agree
    <3>6. QED
      BY <2>1, <3>2, <3>3, <3>5
  <2>4. QED
    BY <2>2, <2>3 DEF BooksAgree
<1>3. QED
  BY <1>1, <1>2

\* Stats adds an idle row, and no job ran where there was none.
LEMMA BooksOfStats ==
  ASSUME BooksAgree, NEW h, h \notin DOMAIN nodes, Stats(h)
  PROVE  BooksAgree'
<1>1. /\ DOMAIN nodes' = DOMAIN nodes \cup {h}
      /\ \A g \in DOMAIN nodes : nodes'[g] = nodes[g]
      /\ nodes'[h].active = {} /\ nodes'[h].local = {}
      /\ jobs' = jobs
  BY DEF Stats, Put, FreshNode
<1>2. Agree(nodes', jobs')
  BY <1>1 DEF BooksAgree, Agree, Rooted
<1>3. Rooted(nodes', jobs')
  BY <1>1 DEF BooksAgree, Rooted
<1>4. QED
  BY <1>2, <1>3 DEF BooksAgree

\* A tick gives back the slots of what it drops.
LEMMA BooksOfTick ==
  ASSUME TypeOK, BooksAgree, NEW d \in TickGaps, Tick(d)
  PROVE  BooksAgree'
<1>1. /\ DOMAIN jobs' \subseteq DOMAIN jobs
      /\ \A k \in DOMAIN jobs' : /\ jobs'[k].state = jobs[k].state
                                 /\ jobs'[k].host = jobs[k].host
  BY TickJobs
<1>2. /\ DOMAIN nodes' = DOMAIN nodes
      /\ \A g \in DOMAIN nodes :
           LET lost == {k \in DOMAIN jobs \ DOMAIN jobs' : jobs[k].host = g}
           IN  /\ nodes'[g].active = nodes[g].active \ lost
               /\ nodes'[g].local = nodes[g].local \ lost
  BY SlotsOfTick
<1>3. Agree(nodes', jobs')
  BY <1>1, <1>2 DEF BooksAgree, Agree
<1>4. Rooted(nodes', jobs')
  BY <1>1, <1>2 DEF BooksAgree, Rooted
<1>5. QED
  BY <1>3, <1>4 DEF BooksAgree

\* An id the scheduler has not begun a job under holds no slot.
LEMMA IdleIds ==
  ASSUME BooksAgree, JobsAreReal, NEW j, phase[j] \in {"new", "queued"}
  PROVE  \A g \in DOMAIN nodes : j \notin nodes[g].active \cup nodes[g].local
<1>1. j \in DOMAIN jobs => jobs[j].state = "Pending"
  BY DEF JobsAreReal
<1>2. QED
  BY <1>1 DEF BooksAgree, Agree

\* The rows and the job list describe the same work at every step: expiry, late
\* ends, departures and reconnects leak no slot and give none back twice.
LEMMA BooksStep ==
  ASSUME TypeOK, SchedTypeOK, RowsFollow, JobsAreReal, BooksAgree, [WorldNext]_allVars
  PROVE  BooksAgree'
<1>1. ASSUME UNCHANGED <<nodes, jobs>> PROVE BooksAgree'
  BY <1>1 DEF BooksAgree
<1>2. ASSUME toAnnounce = {}, Listening PROVE DOMAIN nodes = attached
  BY <1>2 DEF RowsFollow
<1>3. ASSUME NEW j \in JobIds, NEW h \in Hosts, Submit(j, h)
      PROVE  BooksAgree'
  <2>1. \A g \in DOMAIN nodes : j \notin nodes[g].active \cup nodes[g].local
    BY <1>3, IdleIds DEF Submit, Move
  <2>2. CASE Listening
    BY <1>3, <2>1, <2>2, BooksOfGetCs DEF Submit, Send
  <2>3. QED
    BY <1>1, <1>3, <2>2 DEF Submit, Send, vars
<1>4. ASSUME NEW j \in JobIds, NEW h \in Hosts, Place(j, h)
      PROVE  BooksAgree'
  <2>1. \A g \in DOMAIN nodes : j \notin nodes[g].active \cup nodes[g].local
    BY <1>4, IdleIds DEF Place, Move
  <2>2. CASE Listening
    BY <1>2, <1>4, <2>1, <2>2, BooksOfBegin DEF Place, Send
  <2>3. QED
    BY <1>1, <1>4, <2>2 DEF Place, Send, vars
<1>5. ASSUME NEW j \in JobIds, NEW h \in Hosts, StartLocal(j, h)
      PROVE  BooksAgree'
  <2>1. \A g \in DOMAIN nodes : j \notin nodes[g].active \cup nodes[g].local
    BY <1>5, IdleIds DEF StartLocal, Move
  <2>2. CASE Listening
    BY <1>2, <1>5, <2>1, <2>2, BooksOfLocalBegin DEF StartLocal, Send
  <2>3. QED
    BY <1>1, <1>5, <2>2 DEF StartLocal, Send, vars
<1>6. ASSUME NEW j \in JobIds, NEW ok \in BOOLEAN, NEW timed \in BOOLEAN,
             Finish(j, ok, timed)
      PROVE  BooksAgree'
  BY <1>1, <1>6, BooksOfDone DEF Finish, Send, vars
<1>7. ASSUME NEW j \in JobIds, FinishLocal(j)
      PROVE  BooksAgree'
  <2>1. j \in DOMAIN jobs => jobs[j].state = "Local"
    BY <1>7 DEF FinishLocal, Move, JobsAreReal
  <2>2. QED
    BY <1>1, <1>7, <2>1, BooksOfDone DEF FinishLocal, Send, vars
<1>8. ASSUME NEW h \in Hosts, Attach(h)
      PROVE  BooksAgree'
  <2>1. Listening => h \notin DOMAIN nodes
    BY <1>2, <1>8 DEF Attach, Send
  <2>2. QED
    BY <1>1, <1>8, <2>1, BooksOfStats DEF Attach, Send, vars
<1>9. ASSUME NEW h \in Hosts, Detach(h)
      PROVE  BooksAgree'
  BY <1>1, <1>9, BooksOfOffline DEF Detach, Send, vars
<1>10. ASSUME NEW h \in Hosts, Announce(h)
       PROVE  BooksAgree'
  <2>1. h \notin DOMAIN nodes
    BY <1>10 DEF Announce, RowsFollow
  <2>2. QED
    BY <1>10, <2>1, BooksOfStats DEF Announce
<1>11. ASSUME NEW t \in Targets, Login(t)
       PROVE  BooksAgree'
  BY <1>11 DEF Login, Connected, Reset, Nothing, BooksAgree, Agree, Rooted
<1>12. CASE Link
  <2>1. CASE Connecting
    BY <1>1, <2>1 DEF Connecting
  <2>2. CASE Disconnected
    <3>1. /\ DOMAIN jobs' = {} /\ DOMAIN nodes' = DOMAIN nodes
          /\ \A g \in DOMAIN nodes : nodes'[g].active = {} /\ nodes'[g].local = {}
      BY <2>2 DEF Disconnected, Idled, Nothing, TypeOK, Node
    <3>2. QED
      BY <3>1 DEF BooksAgree, Agree, Rooted
  <2>3. QED
    BY <1>12, <2>1, <2>2 DEF Link
<1>13. ASSUME NEW d \in TickGaps, Second(d)
       PROVE  BooksAgree'
  BY <1>13, BooksOfTick DEF Second
<1>14. ASSUME UNCHANGED vars PROVE BooksAgree'
  BY <1>1, <1>14 DEF vars
<1>15. CASE Restart \/ (\E j \in JobIds : LoseEnd(j)) \/ UNCHANGED allVars
  BY <1>14, <1>15 DEF Restart, LoseEnd, allVars
<1>16. QED
  BY <1>3, <1>4, <1>5, <1>6, <1>7, <1>8, <1>9, <1>10, <1>11, <1>12, <1>13, <1>15
     DEF WorldNext

\* The books agree in every state: the induction over the steps above.
LEMMA BooksAlwaysAgree == WorldSpec => []BooksAgree
<1>1. WorldInit => BooksAgree
  BY DEF WorldInit, Init, Nothing, BooksAgree, Agree, Rooted
<1>2. /\ TypeOK /\ SchedTypeOK /\ RowsFollow /\ JobsAreReal /\ BooksAgree
      /\ [WorldNext]_allVars
      => BooksAgree'
  BY BooksStep
<1>3. QED
  BY <1>1, <1>2, SchedTypeCorrect, RowsFollowReplay, ClusterHolds, EveryJobIsReal, PTL
     DEF WorldSpec

\* A row's occupied slots are exactly the jobs the monitor has running there.
THEOREM NoSlotLeaks == WorldSpec => []SlotsAreJobs
<1>1. BooksAgree => SlotsAreJobs
  BY AgreeIsSlots DEF BooksAgree, SlotsAreJobs
<1>2. QED
  BY <1>1, BooksAlwaysAgree, PTL

\* Work on a host that left is off the screen with its row.
THEOREM WorkHasARow == WorldSpec => []NoWorkWithoutRow
<1>1. BooksAgree => NoWorkWithoutRow
  BY DEF BooksAgree, Rooted, NoWorkWithoutRow
<1>2. QED
  BY <1>1, BooksAlwaysAgree, PTL

-----------------------------------------------------------------------------
(* Receive is send.                                                        *)
(*                                                                         *)
(* This needs no scheduler: it holds in front of any remote, of which the  *)
(* scheduler is one.                                                       *)

Ins(ns)  == [h \in DOMAIN ns |-> ns[h].jobsIn]
Outs(ns) == [h \in DOMAIN ns |-> ns[h].jobsOut]

SameFlow(m, n) == m.jobsIn = n.jobsIn /\ m.jobsOut = n.jobsOut

\* Both columns sum naturals over finitely many rows.
LEMMA FlowTypes ==
  ASSUME TypeOK
  PROVE  /\ IsFiniteSet(DOMAIN nodes)
         /\ \A h \in DOMAIN nodes : /\ nodes[h] \in Node
                                    /\ Ins(nodes)[h] \in Nat /\ Outs(nodes)[h] \in Nat
  BY FiniteState DEF TypeOK, Node, Ins, Outs

\* Fresh rows and rows that keep their figures keep both sums.
LEMMA FlowKept ==
  ASSUME TypeOK, DOMAIN nodes \subseteq DOMAIN nodes', DOMAIN nodes' \subseteq Hosts,
         \A h \in DOMAIN nodes : SameFlow(nodes'[h], nodes[h]),
         \A h \in DOMAIN nodes' \ DOMAIN nodes : nodes'[h] = FreshNode
  PROVE  Received' = Received /\ Sent' = Sent
<1> DEFINE S == DOMAIN nodes
           T == DOMAIN nodes'
<1>1. ASSUME NEW f, NEW g, \A h \in S : f[h] \in Nat /\ g[h] = f[h],
             \A h \in T \ S : g[h] = 0
      PROVE  SumFunctionOnSet(g, T) = SumFunctionOnSet(f, S)
  <2>1. /\ IsFiniteSet(S) /\ IsFiniteSet(T) /\ S \in SUBSET T
        /\ \A h \in T : g[h] \in Int
    <3>1. IsFiniteSet(S) /\ IsFiniteSet(T)
      BY FlowTypes, FS_Subset, IdsAssumption
    <3>2. \A h \in T : g[h] \in Int
      BY <1>1
    <3>3. QED
      BY <3>1, <3>2
  <2> HIDE DEF S, T
  <2>2. SumFunctionOnSet(g, T) = SumFunctionOnSet(g, S)
    BY <1>1, <2>1, SumOfSome
  <2>3. SumFunctionOnSet(g, S) = SumFunctionOnSet(f, S)
    BY <1>1, <2>1, SumSame
  <2>4. QED
    BY <2>2, <2>3
<1>2. /\ \A h \in S : Ins(nodes)[h] \in Nat /\ Ins(nodes')[h] = Ins(nodes)[h]
      /\ \A h \in S : Outs(nodes)[h] \in Nat /\ Outs(nodes')[h] = Outs(nodes)[h]
      /\ \A h \in T \ S : Ins(nodes')[h] = 0 /\ Outs(nodes')[h] = 0
  BY FlowTypes DEF SameFlow, Ins, Outs, FreshNode
<1>3. /\ Received = SumFunctionOnSet(Ins(nodes), S)
      /\ Received' = SumFunctionOnSet(Ins(nodes'), T)
      /\ Sent = SumFunctionOnSet(Outs(nodes), S)
      /\ Sent' = SumFunctionOnSet(Outs(nodes'), T)
  BY DEF Received, Sent, Ins, Outs, SumFunction
<1>4. SumFunctionOnSet(Ins(nodes'), T) = SumFunctionOnSet(Ins(nodes), S)
  <2> HIDE DEF S, T
  <2>1. QED
    BY <1>1, <1>2
<1>5. SumFunctionOnSet(Outs(nodes'), T) = SumFunctionOnSet(Outs(nodes), S)
  <2> HIDE DEF S, T
  <2>1. QED
    BY <1>1, <1>2
<1>6. QED
  BY <1>3, <1>4, <1>5

\* A begin that credits both ends adds one to each sum, on one row or on two.
LEMMA BeginCreditsBoth ==
  ASSUME TypeOK, NEW j \in JobIds, NEW h \in DOMAIN nodes, JobBegin(j, h),
         ClientOf(j) \in DOMAIN nodes
  PROVE  Received' = Received + 1 /\ Sent' = Sent + 1
<1> DEFINE c == ClientOf(j)
           S == DOMAIN nodes
           placed == [nodes EXCEPT ![h] = TakeJob(nodes[h], j)]
<1>1. nodes' = [placed EXCEPT ![c] = CreditClient(placed[c])]
  <2>1. SetNode(nodes, h, TakeJob(nodes[h], j)) = placed
    BY DEF SetNode
  <2>2. nodes' = SetNode(placed, c, CreditClient(placed[c]))
    BY <2>1 DEF JobBegin
  <2>3. DOMAIN placed = S
    OBVIOUS
  <2> HIDE DEF placed
  <2>4. QED
    BY <2>2, <2>3 DEF SetNode
<1>2. \A n \in Node : /\ TakeJob(n, j) \in Node
                      /\ TakeJob(n, j).jobsIn = n.jobsIn + 1
                      /\ TakeJob(n, j).jobsOut = n.jobsOut
                      /\ CreditClient(n).jobsIn = n.jobsIn
                      /\ CreditClient(n).jobsOut = n.jobsOut + 1
  <2>1. TAKE n \in Node
  <2>2. TakeJob(n, j) \in Node
    BY NodeOps
  <2>3. /\ TakeJob(n, j).jobsIn = n.jobsIn + 1
        /\ TakeJob(n, j).jobsOut = n.jobsOut
    BY DEF TakeJob, Node
  <2>4. /\ CreditClient(n).jobsIn = n.jobsIn
        /\ CreditClient(n).jobsOut = n.jobsOut + 1
    BY DEF CreditClient, Node
  <2>5. QED
    BY <2>2, <2>3, <2>4
<1>3. \A x \in S : /\ placed[x] \in Node
                   /\ placed[x].jobsIn = nodes[x].jobsIn + (IF x = h THEN 1 ELSE 0)
                   /\ placed[x].jobsOut = nodes[x].jobsOut
  <2>1. \A x \in S : nodes[x] \in Node /\ nodes[x].jobsIn \in Nat
    BY FlowTypes DEF Node
  <2>2. \A x \in S : placed[x] = IF x = h THEN TakeJob(nodes[x], j) ELSE nodes[x]
    OBVIOUS
  <2> HIDE DEF placed
  <2>3. QED
    BY <1>2, <2>1, <2>2
<1>4. DOMAIN placed = S
  OBVIOUS
<1> HIDE DEF placed
<1>5. DOMAIN nodes' = S
      /\ \A x \in S : nodes'[x] = IF x = c THEN CreditClient(placed[x]) ELSE placed[x]
  BY <1>1, <1>4
<1>6. \A x \in S : /\ nodes[x].jobsIn \in Nat /\ nodes[x].jobsOut \in Nat
                   /\ nodes'[x].jobsIn = placed[x].jobsIn
                   /\ nodes'[x].jobsOut = IF x = c THEN placed[x].jobsOut + 1
                                                   ELSE placed[x].jobsOut
  BY <1>2, <1>3, <1>5, FlowTypes DEF Node
<1> DEFINE i == Ins(nodes)
           o == Outs(nodes)
           ip == Ins(nodes')
           op == Outs(nodes')
<1>7. /\ \A x \in S : i[x] \in Int /\ ip[x] = IF x = h THEN i[x] + 1 ELSE i[x]
      /\ \A x \in S : o[x] \in Int /\ op[x] = IF x = c THEN o[x] + 1 ELSE o[x]
      /\ IsFiniteSet(S) /\ h \in S /\ c \in S
  BY <1>3, <1>5, <1>6, FlowTypes DEF Ins, Outs
<1>8. /\ Received = SumFunctionOnSet(i, S) /\ Received' = SumFunctionOnSet(ip, S)
      /\ Sent = SumFunctionOnSet(o, S) /\ Sent' = SumFunctionOnSet(op, S)
  BY <1>5 DEF Received, Sent, Ins, Outs, SumFunction
<1> HIDE DEF S, c, i, o, ip, op
<1>9. SumFunctionOnSet(ip, S) = SumFunctionOnSet(i, S) + 1
  BY <1>7, SumOneMore
<1>10. SumFunctionOnSet(op, S) = SumFunctionOnSet(o, S) + 1
  BY <1>7, SumOneMore
<1>11. QED
  BY <1>8, <1>9, <1>10

\* What a begin leaves in the ledger when it could not credit both ends.
LEMMA BegunCounts ==
  ASSUME TypeOK, NEW j, NEW h, NEW c
  PROVE  /\ Told(j).uncredited = ledger.uncredited
         /\ {h, c} \subseteq DOMAIN nodes => Begun(j, h, c).uncredited = ledger.uncredited
         /\ ~({h, c} \subseteq DOMAIN nodes) => Begun(j, h, c).uncredited # 0
<1> DEFINE L == [told : Nat, dropped : Nat, uncredited : Nat]
<1>1. Told(j) \in L /\ Told(j).uncredited = ledger.uncredited
      /\ ledger.uncredited \in Nat
  BY TypeTold DEF TypeOK, Told
<1> DEFINE t == Told(j)
<1>2. \A n \in Nat : [t EXCEPT !.uncredited = n].uncredited = n
  BY <1>1
<1>3. t.uncredited + 1 \in Nat /\ t.uncredited + 1 # 0
  <2>1. t.uncredited \in Nat
    BY <1>1
  <2> HIDE DEF t
  <2>2. QED
    BY <2>1
<1>4. Begun(j, h, c) = [t EXCEPT !.uncredited = IF {h, c} \subseteq DOMAIN nodes
                                                THEN t.uncredited ELSE t.uncredited + 1]
  BY DEF Begun
<1> HIDE DEF t
<1>5. t.uncredited \in Nat
  BY <1>1 DEF t
<1>6. Begun(j, h, c).uncredited = IF {h, c} \subseteq DOMAIN nodes
                                  THEN t.uncredited ELSE t.uncredited + 1
  BY <1>2, <1>3, <1>4, <1>5
<1>7. QED
  BY <1>1, <1>3, <1>6 DEF t

\* The columns agree in front of any remote: a begin credits both ends or is
\* counted as one that could not, and a departure is counted.
LEMMA FlowStep ==
  ASSUME TypeOK, TypeOK', ReceiveIsSend, [Next]_vars
  PROVE  ReceiveIsSend'
<1>0. totals \in Totals /\ \A h \in DOMAIN nodes : nodes[h] \in Node
  BY DEF TypeOK
<1>1. ASSUME ledger'.uncredited = ledger.uncredited, totals'.left = totals.left,
             DOMAIN nodes \subseteq DOMAIN nodes',
             \A h \in DOMAIN nodes : SameFlow(nodes'[h], nodes[h]),
             \A h \in DOMAIN nodes' \ DOMAIN nodes : nodes'[h] = FreshNode
      PROVE  ReceiveIsSend'
  BY <1>1, FlowKept DEF ReceiveIsSend, TypeOK
<1>2. ASSUME ledger'.uncredited = ledger.uncredited, totals'.left = totals.left,
             nodes' = nodes
      PROVE  ReceiveIsSend'
  BY <1>1, <1>2 DEF SameFlow
<1>3. CASE Session
  <2>1. CASE Connecting
    BY <1>2, <2>1 DEF Connecting
  <2>2. ASSUME NEW t \in Targets, Connected(t) PROVE ReceiveIsSend'
    <3>1. DOMAIN nodes' = {}
      BY <2>2 DEF Connected, Reset, Nothing
    <3>2. Received' = 0 /\ Sent' = 0
      BY <3>1, SumOfNone DEF Received, Sent, SumFunction
    <3>3. QED
      BY <3>2 DEF ReceiveIsSend
  <2>3. CASE Disconnected
    <3>1. /\ DOMAIN nodes' = DOMAIN nodes /\ totals' = totals
          /\ \A h \in DOMAIN nodes : nodes'[h] = Idled(nodes[h])
          /\ ledger' = [ledger EXCEPT !.dropped = @ + Cardinality(DOMAIN jobs)]
      BY <2>3 DEF Disconnected
    <3>2. ledger'.uncredited = ledger.uncredited
      BY <3>1 DEF TypeOK
    <3>3. \A h \in DOMAIN nodes : SameFlow(nodes'[h], nodes[h])
      BY <1>0, <3>1 DEF Idled, SameFlow, Node
    <3>4. QED
      BY <1>1, <3>1, <3>2, <3>3
  <2>4. QED
    BY <1>3, <2>1, <2>2, <2>3 DEF Session
<1>4. ASSUME NEW j \in JobIds, NEW h \in Hosts, GetCs(j, h) PROVE ReceiveIsSend'
  BY <1>2, <1>4, BegunCounts DEF GetCs
<1>5. ASSUME NEW j \in JobIds, NEW h \in Hosts, JobBegin(j, h) PROVE ReceiveIsSend'
  <2>1. ledger' = Begun(j, h, ClientOf(j)) /\ totals' = totals
    BY <1>5 DEF JobBegin
  <2>2. CASE {h, ClientOf(j)} \subseteq DOMAIN nodes
    <3>1. Received' = Received + 1 /\ Sent' = Sent + 1
      BY <1>5, <2>2, BeginCreditsBoth
    <3>2. ledger'.uncredited = ledger.uncredited
      BY <2>1, <2>2, BegunCounts
    <3>3. QED
      BY <2>1, <3>1, <3>2 DEF ReceiveIsSend
  <2>3. CASE ~({h, ClientOf(j)} \subseteq DOMAIN nodes)
    <3>1. ledger'.uncredited # 0
      BY <2>1, <2>3, BegunCounts
    <3>2. QED
      BY <3>1 DEF ReceiveIsSend
  <2>4. QED
    BY <2>2, <2>3
<1>6. ASSUME NEW j \in JobIds, NEW h \in Hosts, LocalJobBegin(j, h)
      PROVE  ReceiveIsSend'
  <2>1. nodes' = SetNode(nodes, h, TakeLocal(nodes[h], j)) /\ totals' = totals
        /\ ledger'.uncredited = ledger.uncredited
    BY <1>6, BegunCounts DEF LocalJobBegin
  <2>2. h \in DOMAIN nodes => SameFlow(TakeLocal(nodes[h], j), nodes[h])
    BY <1>0 DEF TakeLocal, SameFlow, Node
  <2>3. DOMAIN nodes' = DOMAIN nodes
        /\ \A x \in DOMAIN nodes : SameFlow(nodes'[x], nodes[x])
    BY <2>1, <2>2 DEF SetNode, SameFlow
  <2>4. QED
    BY <1>1, <2>1, <2>3
<1>7. ASSUME NEW j \in JobIds,
             LocalJobDone(j) \/ \E ok, timed \in BOOLEAN : JobDone(j, ok, timed)
      PROVE  ReceiveIsSend'
  <2>1. ledger' = ledger
    BY <1>7 DEF LocalJobDone, JobDone
  <2>2. totals'.left = totals.left
    BY <1>0, <1>7 DEF LocalJobDone, JobDone, Unmatched, CountDone, Totals
  <2>3. \/ nodes' = nodes
        \/ \E h, n : nodes' = SetNode(nodes, h, n)
                     /\ (h \in DOMAIN nodes => SameFlow(n, nodes[h]))
    <3>1. \A n \in Node : /\ SameFlow(CountFile(ReleaseJob(n, j)), n)
                          /\ SameFlow(Measure(CountFile(ReleaseJob(n, j))), n)
                          /\ SameFlow(CountFile(ReleaseLocal(n, j)), n)
      BY DEF SameFlow, CountFile, ReleaseJob, ReleaseLocal, Measure, Node
    <3>2. CASE j \notin DOMAIN jobs
      BY <1>7, <3>2 DEF LocalJobDone, JobDone, Unmatched
    <3>3. CASE j \in DOMAIN jobs
      <4> DEFINE h == jobs[j].host
      <4>1. \E n : /\ nodes' = SetNode(nodes, h, n)
                   /\ n \in {CountFile(ReleaseJob(nodes[h], j)),
                             Measure(CountFile(ReleaseJob(nodes[h], j))),
                             CountFile(ReleaseLocal(nodes[h], j))}
        BY <1>7, <3>3 DEF LocalJobDone, JobDone
      <4> HIDE DEF h
      <4>2. QED
        BY <1>0, <3>1, <4>1
    <3>4. QED
      BY <3>2, <3>3
  <2>4. DOMAIN nodes' = DOMAIN nodes
        /\ \A x \in DOMAIN nodes : SameFlow(nodes'[x], nodes[x])
    BY <2>3 DEF SetNode, SameFlow
  <2>5. QED
    BY <1>1, <2>1, <2>2, <2>4
<1>8. ASSUME NEW h \in Hosts, Stats(h) PROVE ReceiveIsSend'
  BY <1>1, <1>8 DEF Stats, Put, SameFlow
<1>9. ASSUME NEW h \in Hosts, Offline(h) PROVE ReceiveIsSend'
  <2>1. CASE h \in DOMAIN nodes
    <3>1. totals' = [totals EXCEPT !.left = @ + 1]
      BY <1>9, <2>1 DEF Offline
    <3>2. totals'.left # 0
      BY <1>0, <3>1 DEF Totals
    <3>3. QED
      BY <3>2 DEF ReceiveIsSend
  <2>2. CASE h \notin DOMAIN nodes
    BY <1>2, <1>9, <2>2 DEF Offline, vars
  <2>3. QED
    BY <2>1, <2>2
<1>10. ASSUME NEW ty \in MsgTypes, Other(ty) PROVE ReceiveIsSend'
  BY <1>2, <1>10 DEF Other
<1>11. CASE Event
  BY <1>4, <1>5, <1>6, <1>7, <1>8, <1>9, <1>10, <1>11 DEF Event
<1>12. ASSUME NEW d \in TickGaps, Tick(d) PROVE ReceiveIsSend'
  <2> DEFINE lost == Expired(Aged(jobs, d))
             held == [h \in DOMAIN nodes |-> Freed(nodes[h], h, lost)]
  <2>1. DOMAIN nodes' = DOMAIN nodes /\ ledger' = ledger
        /\ \A h \in DOMAIN nodes : nodes'[h] = TickNode(held[h])
    BY <1>12 DEF Tick
  <2>2. totals'.left = totals.left
    BY <1>0, <1>12 DEF Tick, Totals
  <2>3. \A h \in DOMAIN nodes : held[h] \in Node /\ SameFlow(held[h], nodes[h])
    BY <1>0 DEF Freed, SameFlow, Node
  <2> HIDE DEF held
  <2>4. \A n \in Node : SameFlow(TickNode(n), n)
    BY DEF TickNode, SameFlow, Node
  <2>5. \A h \in DOMAIN nodes : SameFlow(nodes'[h], nodes[h])
    BY <2>1, <2>3, <2>4 DEF SameFlow
  <2>6. QED
    BY <1>1, <2>1, <2>2, <2>5
<1>13. CASE UNCHANGED vars
  BY <1>2, <1>13 DEF vars
<1>14. QED
  BY <1>3, <1>11, <1>12, <1>13 DEF Next

\* As long as every begin could credit both ends and no host has left, Receive
\* sums to Send, a job placed back on its submitter included.
THEOREM ReceiveEqualsSend == WorldSpec => []ReceiveIsSend
<1>1. Init => ReceiveIsSend
  <2>1. DOMAIN nodes = {} => Received = 0 /\ Sent = 0
    BY SumOfNone DEF Received, Sent, SumFunction
  <2>2. QED
    BY <2>1 DEF Init, Nothing, ReceiveIsSend
<1>2. TypeOK /\ TypeOK' /\ ReceiveIsSend /\ [Next]_vars => ReceiveIsSend'
  BY FlowStep
<1>3. QED
  BY <1>1, <1>2, TypeCorrect, SchedulerIsARemote, PTL DEF Spec

-----------------------------------------------------------------------------
(* The headline.                                                           *)
(*                                                                         *)
(* Cluster::summary counts the slots in use from the rows and the jobs     *)
(* compiling remotely from the job list; track_build, the band and the     *)
(* history mix the two.                                                    *)

\* The slots the rows hold are as many as the jobs compiling remotely.
HeadlineAddsUp == UsedSlots(nodes) = Cardinality(InState(jobs, "Active"))

\* Every slot in use is one job's, and every job compiling remotely uses one.
LEMMA SlotsCountJobs ==
  ASSUME TypeOK, SlotsAreJobs, NoWorkWithoutRow
  PROVE  HeadlineAddsUp
<1> DEFINE P == {p \in (DOMAIN nodes) \X JobIds : p[2] \in nodes[p[1]].active}
           A == InState(jobs, "Active")
           f == [p \in P |-> p[2]]
<1>1. \A h \in DOMAIN nodes : \A j : j \in nodes[h].active <=> j \in A /\ jobs[j].host = h
  BY DEF SlotsAreJobs
<1>2. \A j \in A : j \in JobIds /\ jobs[j].host \in DOMAIN nodes
  BY DEF TypeOK, NoWorkWithoutRow, InState
<1>3. f \in Bijection(P, A)
  <2>1. f \in [P -> A]
    BY <1>1
  <2>2. \A p, q \in P : f[p] = f[q] => p = q
    <3>1. \A p \in P : p = <<jobs[p[2]].host, p[2]>>
      BY <1>1
    <3>2. QED
      BY <3>1
  <2>3. ASSUME NEW j \in A PROVE \E p \in P : f[p] = j
    <3>1. <<jobs[j].host, j>> \in P
      BY <1>1, <1>2
    <3>2. QED
      BY <3>1
  <2> HIDE DEF f, P, A
  <2>4. QED
    BY <2>1, <2>2, <2>3 DEF Bijection, Injection, Surjection, IsInjective
<1>4. IsFiniteSet(P)
  <2>1. P \in SUBSET ((DOMAIN nodes) \X JobIds) /\ DOMAIN nodes \in SUBSET Hosts
    BY DEF TypeOK
  <2>2. QED
    BY <2>1, PairsFinite, Zenon
<1>5. ExistsBijection(P, A)
  BY <1>3 DEF ExistsBijection
<1>6. Cardinality(P) = Cardinality(A)
  BY <1>4, <1>5, FS_Bijection
<1>7. QED
  BY <1>6 DEF HeadlineAddsUp, UsedSlots

\* What the band reports as slots in use and what it reports as jobs compiling is one
\* number, although summary reads them off the rows and off the job list: through
\* expiry, departures and reconnects neither count drifts from the other.
THEOREM TheHeadlineAddsUp == WorldSpec => []HeadlineAddsUp
<1>1. TypeOK /\ SlotsAreJobs /\ NoWorkWithoutRow => HeadlineAddsUp
  BY SlotsCountJobs
<1>2. QED
  BY <1>1, NoSlotLeaks, WorkHasARow, ClusterHolds, PTL

\* What a tick does to a row leaves the slots it holds.
LEMMA TickKeepsSlots ==
  ASSUME TypeOK, NEW d \in TickGaps, Tick(d)
  PROVE  sample' = [pending |-> Cardinality(InState(jobs', "Pending")),
                    used    |-> UsedSlots(nodes')]
<1> DEFINE aged == Aged(jobs, d)
           lost == Expired(aged)
           held == [h \in DOMAIN nodes |-> Freed(nodes[h], h, lost)]
<1>1. /\ jobs' = Drop(aged, lost)
      /\ nodes' = [h \in DOMAIN nodes |-> TickNode(held[h])]
      /\ sample' = [pending |-> Cardinality(InState(Drop(aged, lost), "Pending")),
                    used |-> UsedSlots(held)]
  BY DEF Tick, Sampled
<1>2. \A h \in DOMAIN nodes : held[h] \in Node
  BY FreedType DEF TypeOK
<1>3. DOMAIN held = DOMAIN nodes
  OBVIOUS
<1> HIDE DEF aged, lost, held
<1>4. DOMAIN nodes' = DOMAIN held /\ \A h \in DOMAIN held : nodes'[h].active = held[h].active
  BY <1>1, <1>2, <1>3, SlotsOfOps
<1>5. UsedSlots(nodes') = UsedSlots(held)
  BY <1>4 DEF UsedSlots
<1>6. QED
  BY <1>1, <1>5

\* What waits is what is in flight and on no row.
LEMMA QueueIsOnNoRow ==
  ASSUME TypeOK, SlotsAreJobs, NoWorkWithoutRow
  PROVE  InState(jobs, "Pending") = DOMAIN jobs \ OnRows
<1>1. \A j : j \in OnRows <=>
        \E h \in DOMAIN nodes : j \in nodes[h].active \cup nodes[h].local
  BY DEF OnRows
<1>2. ASSUME NEW j \in DOMAIN jobs PROVE jobs[j].state = "Pending" <=> j \notin OnRows
  <2>1. jobs[j].state \in {"Pending", "Active", "Local"}
    BY DEF TypeOK, Job, JobState
  <2>2. CASE jobs[j].state = "Pending"
    BY <1>1, <2>2 DEF SlotsAreJobs, InState
  <2>3. CASE jobs[j].state # "Pending"
    <3>1. jobs[j].host \in DOMAIN nodes
      BY <2>3 DEF NoWorkWithoutRow
    <3>2. j \in nodes[jobs[j].host].active \/ j \in nodes[jobs[j].host].local
      BY <2>1, <2>3, <3>1 DEF SlotsAreJobs, InState
    <3>3. QED
      BY <1>1, <2>3, <3>1, <3>2
  <2>4. QED
    BY <2>2, <2>3
<1>3. QED
  BY <1>2 DEF InState

\* Every point of the slots and queue graphs is of the jobs on screen after that tick:
\* what it expired is in neither, although the slots are counted on the rows and the
\* queue in the job list (tick_history, expire, summary).
THEOREM SamplesAreOfTheJobs == WorldSpec => SamplesAgree
<1> DEFINE Agrees(d) ==
      Second(d) => /\ sample'.used = Cardinality(InState(jobs', "Active"))
                   /\ sample'.pending = Cardinality(DOMAIN jobs' \ OnRows')
           WaitingOK == InState(jobs, "Pending") = DOMAIN jobs \ OnRows
<1>1. ASSUME TypeOK, HeadlineAddsUp', WaitingOK', NEW d \in TickGaps, Second(d)
      PROVE  Agrees(d)
  <2>1. sample' = [pending |-> Cardinality(InState(jobs', "Pending")),
                   used    |-> UsedSlots(nodes')]
    BY <1>1, TickKeepsSlots DEF Second
  <2>2. InState(jobs', "Pending") = DOMAIN jobs' \ OnRows'
    BY <1>1
  <2>3. UsedSlots(nodes') = Cardinality(InState(jobs', "Active"))
    BY <1>1 DEF HeadlineAddsUp
  <2>4. QED
    BY <2>1, <2>2, <2>3
<1>2. TypeOK /\ HeadlineAddsUp' /\ WaitingOK' => [\A d \in TickGaps : Agrees(d)]_allVars
  BY <1>1
<1>3. TypeOK /\ SlotsAreJobs /\ NoWorkWithoutRow => WaitingOK
  BY QueueIsOnNoRow
<1>4. QED
  BY <1>2, <1>3, NoSlotLeaks, WorkHasARow, ClusterHolds, TheHeadlineAddsUp, PTL
     DEF SamplesAgree

-----------------------------------------------------------------------------
(* A job leaves: the step half of EveryJobLeaves.                          *)
(*                                                                         *)
(* A job on screen has a time left that no step adds to and every tick     *)
(* takes from, whatever the scheduler says of it; it never falls below     *)
(* nothing, so the history timer, which always fires again, ends it.       *)

\* The seconds a job may still be on screen.  A queued job is given a second
\* life by the begin that restarts its age; nothing gives it a third.
SecondsLeft(j) ==
  (IF jobs[j].state = "Pending" THEN JobTimeout + 1 ELSE 0) + JobTimeout - jobs[j].age

InTime == \A j \in DOMAIN jobs : SecondsLeft(j) \in 0 .. 2 * JobTimeout + 1

\* Over one step: time is never won, and a tick takes as much as has passed.
TimeRuns ==
  \A j \in DOMAIN jobs \cap DOMAIN jobs' :
    /\ SecondsLeft(j)' <= SecondsLeft(j)
    /\ \A d \in TickGaps : Second(d) => SecondsLeft(j)' = SecondsLeft(j) - d

\* A step that leaves a tracked job its state and age leaves it its time.
LEMMA SameTime ==
  ASSUME JobTimeout \in Nat, NEW j, jobs[j].age \in Nat,
         jobs'[j].state = jobs[j].state, jobs'[j].age = jobs[j].age
  PROVE  SecondsLeft(j)' <= SecondsLeft(j)
<1>1. SecondsLeft(j)' = SecondsLeft(j)
  BY DEF SecondsLeft
<1>2. SecondsLeft(j) \in Int
  BY DEF SecondsLeft
<1>3. QED
  BY <1>1, <1>2

\* The scheduler does not announce a job anew while it is on screen.
LEMMA NewIdsUntracked ==
  ASSUME JobsAreReal, NEW j, phase[j] = "new"
  PROVE  j \notin DOMAIN jobs
  BY DEF JobsAreReal

\* A tick leaves each job it keeps older by what has passed.
LEMMA TickAges ==
  ASSUME TypeOK, JobTimeout > 0, NEW d \in TickGaps, Tick(d), NEW j \in DOMAIN jobs'
  PROVE  /\ j \in DOMAIN jobs
         /\ jobs'[j].state = jobs[j].state
         /\ jobs'[j].age = jobs[j].age + d
<1>1. j \in DOMAIN jobs /\ jobs'[j].state = jobs[j].state
  BY TickJobs
<1>2. jobs[j].age \in Nat /\ d \in Nat /\ JobTimeout \in Nat
  BY <1>1, BoundsAssumption DEF TypeOK, Job
<1>3. jobs'[j].age = Older(jobs[j].age, d)
  <2>1. jobs' = Drop(Aged(jobs, d), Expired(Aged(jobs, d)))
    BY DEF Tick
  <2>2. jobs'[j] = Aged(jobs, d)[j]
    BY <2>1 DEF Drop, Restrict
  <2>3. Aged(jobs, d)[j] = [jobs[j] EXCEPT !.age = Older(jobs[j].age, d)]
    BY <1>1 DEF Aged
  <2>4. jobs[j] \in Job
    BY <1>1 DEF TypeOK
  <2>5. QED
    BY <2>2, <2>3, <2>4 DEF Job
<1>4. jobs'[j].age <= JobTimeout
  BY TickKeepsYoung
<1>5. QED
  BY <1>1, <1>2, <1>3, <1>4 DEF Older

\* A job on screen is never told of anew; a job that begins was queued, and its age
\* starts again.
LEMMA EventsWinNoTime ==
  ASSUME TypeOK, JobsAreReal, JobsExpire, JobTimeout > 0,
         NEW j \in JobIds, NEW h \in Hosts,
         Submit(j, h) \/ Place(j, h) \/ StartLocal(j, h),
         NEW k \in DOMAIN jobs \cap DOMAIN jobs'
  PROVE  SecondsLeft(k)' <= SecondsLeft(k)
<1>1. JobTimeout \in Nat /\ jobs[k].age \in Nat /\ jobs[k].age <= JobTimeout
  BY BoundsAssumption DEF TypeOK, Job, JobsExpire
<1>2. ASSUME jobs'[k].state = jobs[k].state, jobs'[k].age = jobs[k].age
      PROVE  SecondsLeft(k)' <= SecondsLeft(k)
  BY <1>1, <1>2, SameTime
<1>3. CASE Submit(j, h)
  <2>1. k # j
    BY <1>3, NewIdsUntracked DEF Submit, Move
  <2>2. jobs' = jobs \/ GetCs(j, h)
    BY <1>3 DEF Submit, Send, vars
  <2>3. jobs'[k] = jobs[k]
    BY <2>1, <2>2 DEF GetCs, Put
  <2>4. QED
    BY <1>2, <2>3
<1>4. CASE StartLocal(j, h)
  <2>1. k # j
    BY <1>4, NewIdsUntracked DEF StartLocal, Move
  <2>2. jobs' = jobs \/ LocalJobBegin(j, h)
    BY <1>4 DEF StartLocal, Send, vars
  <2>3. jobs'[k] = jobs[k]
    BY <2>1, <2>2 DEF LocalJobBegin, Put
  <2>4. QED
    BY <1>2, <2>3
<1>5. CASE Place(j, h)
  <2>1. jobs' = jobs \/ JobBegin(j, h)
    BY <1>5 DEF Place, Send, vars
  <2>2. CASE jobs' = jobs \/ k # j
    <3>1. jobs'[k] = jobs[k]
      BY <2>1, <2>2 DEF JobBegin, Put
    <3>2. QED
      BY <1>2, <3>1
  <2>3. CASE JobBegin(j, h) /\ k = j
    <3>1. jobs[k].state = "Pending"
      BY <1>5, <2>3 DEF Place, Move, JobsAreReal
    <3>2. jobs'[k].state = "Active" /\ jobs'[k].age = 0
      BY <2>3 DEF JobBegin, Put
    <3>3. SecondsLeft(k)' = JobTimeout /\ SecondsLeft(k) = 2 * JobTimeout + 1 - jobs[k].age
      BY <1>1, <3>1, <3>2 DEF SecondsLeft
    <3>4. QED
      BY <1>1, <3>3
  <2>4. QED
    BY <2>1, <2>2, <2>3
<1>6. QED
  BY <1>3, <1>4, <1>5

\* Every other step but a tick keeps jobs as they are or takes them off the screen.
LEMMA EndsWinNoTime ==
  ASSUME TypeOK, JobTimeout > 0,
         NEW k \in DOMAIN jobs \cap DOMAIN jobs',
         \/ jobs' = jobs
         \/ \E S : jobs' = Drop(jobs, S)
  PROVE  SecondsLeft(k)' <= SecondsLeft(k)
<1>1. JobTimeout \in Nat /\ jobs[k].age \in Nat
  BY BoundsAssumption DEF TypeOK, Job
<1>2. jobs'[k] = jobs[k]
  BY DEF Drop, Restrict
<1>3. QED
  BY <1>1, <1>2, SameTime

\* A tick takes from each job it keeps what has passed.
LEMMA TicksTakeTime ==
  ASSUME TypeOK, JobTimeout > 0, NEW d \in TickGaps, Second(d),
         NEW k \in DOMAIN jobs \cap DOMAIN jobs'
  PROVE  /\ SecondsLeft(k)' = SecondsLeft(k) - d
         /\ SecondsLeft(k)' <= SecondsLeft(k)
<1>1. JobTimeout \in Nat /\ jobs[k].age \in Nat /\ d \in Nat
  BY BoundsAssumption DEF TypeOK, Job
<1>2. jobs'[k].state = jobs[k].state /\ jobs'[k].age = jobs[k].age + d
  BY TickAges DEF Second
<1>3. SecondsLeft(k)' = SecondsLeft(k) - d
  BY <1>1, <1>2 DEF SecondsLeft
<1>4. SecondsLeft(k) \in Int
  BY <1>1 DEF SecondsLeft
<1>5. QED
  BY <1>1, <1>3, <1>4

\* No step of the two together gives a job on screen more time.
LEMMA TimeStep ==
  ASSUME TypeOK, JobsAreReal, JobsExpire, JobTimeout > 0, [WorldNext]_allVars
  PROVE  TimeRuns
<1> SUFFICES ASSUME NEW k \in DOMAIN jobs \cap DOMAIN jobs'
             PROVE  SecondsLeft(k)' <= SecondsLeft(k)
  BY TicksTakeTime DEF TimeRuns
<1>1. ASSUME \/ jobs' = jobs
             \/ \E S : jobs' = Drop(jobs, S)
      PROVE  SecondsLeft(k)' <= SecondsLeft(k)
  BY <1>1, EndsWinNoTime
<1>2. ASSUME NEW j \in JobIds, NEW h \in Hosts,
             Submit(j, h) \/ Place(j, h) \/ StartLocal(j, h)
      PROVE  SecondsLeft(k)' <= SecondsLeft(k)
  BY <1>2, EventsWinNoTime
<1>3. ASSUME NEW j \in JobIds, NEW ok \in BOOLEAN, NEW timed \in BOOLEAN,
             Finish(j, ok, timed) \/ FinishLocal(j) \/ LoseEnd(j)
      PROVE  SecondsLeft(k)' <= SecondsLeft(k)
  <2>1. jobs' = jobs \/ jobs' = Drop(jobs, {j})
    BY <1>3 DEF Finish, FinishLocal, LoseEnd, Send, JobDone, LocalJobDone,
       Unmatched, vars
  <2>2. QED
    BY <1>1, <2>1
<1>4. ASSUME NEW h \in Hosts, Attach(h) \/ Detach(h) \/ Announce(h)
      PROVE  SecondsLeft(k)' <= SecondsLeft(k)
  <2>1. jobs' = jobs \/ jobs' = Drop(jobs, Taken(h))
    BY <1>4 DEF Attach, Detach, Announce, Send, Stats, Offline, vars
  <2>2. QED
    BY <1>1, <2>1
<1>5. ASSUME NEW t \in Targets PROVE ~Login(t)
  BY DEF Login, Connected, Reset, Nothing
<1>6. CASE Link
  <2>1. ~Disconnected
    BY DEF Disconnected, Nothing
  <2>2. jobs' = jobs
    BY <1>6, <2>1 DEF Link, Connecting
  <2>3. QED
    BY <1>1, <2>2
<1>7. ASSUME NEW d \in TickGaps, Second(d)
      PROVE  SecondsLeft(k)' <= SecondsLeft(k)
  BY <1>7, TicksTakeTime
<1>8. CASE Restart \/ UNCHANGED allVars
  <2>1. jobs' = jobs
    BY <1>8 DEF Restart, allVars, vars
  <2>2. QED
    BY <1>1, <2>1
<1>9. QED
  BY <1>2, <1>3, <1>4, <1>5, <1>6, <1>7, <1>8 DEF WorldNext

\* Every job on screen runs out of time: it has at most two timeouts left, the second
\* one only while it is queued, no report of the scheduler adds to that, and each tick
\* of the history timer takes what has passed.  EveryJobLeaves adds that the timer
\* always fires again.
THEOREM EveryJobRunsOutOfTime ==
  ASSUME JobTimeout > 0
  PROVE  WorldSpec => []InTime /\ [][TimeRuns]_allVars
<1>1. TypeOK /\ JobsExpire => InTime
  <2> SUFFICES ASSUME TypeOK, JobsExpire, NEW j \in DOMAIN jobs
               PROVE  SecondsLeft(j) \in 0 .. 2 * JobTimeout + 1
    BY DEF InTime
  <2>1. JobTimeout \in Nat /\ jobs[j].age \in Nat /\ jobs[j].age <= JobTimeout
    BY BoundsAssumption DEF TypeOK, Job, JobsExpire
  <2>2. QED
    BY <2>1 DEF SecondsLeft
<1>2. TypeOK /\ JobsAreReal /\ JobsExpire /\ [WorldNext]_allVars => TimeRuns
  BY TimeStep
<1>3. WorldSpec => []JobsExpire
  BY SchedulerIsARemote, UnfinishedJobsExpire, PTL
<1>4. QED
  BY <1>1, <1>2, <1>3, EveryJobIsReal, ClusterHolds, PTL DEF WorldSpec

=============================================================================
