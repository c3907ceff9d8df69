------------------------------ MODULE Scheduler ------------------------------
(***************************************************************************)
(* The cluster model in front of a scheduler that keeps its own books.     *)
(*                                                                         *)
(* The scheduler is the icecream daemon at the other end of the socket, so *)
(* it is external: its actions are what the tests and comments of          *)
(* icecc-model say it does.  Ids are used once in its lifetime; jobs go    *)
(* queued, placed, finished, or compile on their submitter; an end may     *)
(* never be reported; a host leaves with work still on it, and the ends of *)
(* that work arrive late or never.  It runs whether or not a monitor       *)
(* listens, it tells a monitor that logs in only about the hosts attached  *)
(* at that moment, and it may be restarted, which starts its ids afresh.   *)
(*                                                                         *)
(* The channel is in order, so an event is applied when it is sent.        *)
(***************************************************************************)
EXTENDS Cluster

CONSTANT MaxRestarts  \* scheduler restarts in one behaviour

ASSUME RestartsAssumption == MaxRestarts \in Nat

VARIABLES
  phase,       \* job id -> new, queued, running, local or over
  place,       \* job id -> host it runs on, NoHost before it is placed
  attached,    \* hosts attached now
  gone,        \* hosts that were attached earlier in this lifetime
  toAnnounce,  \* hosts the login replay has still to name
  restarts     \* how often the scheduler has been restarted

schedVars == <<phase, place, attached, gone>>
allVars   == <<vars, schedVars, toAnnounce, restarts>>

Listening == connection.state = "Connected"

\* An event reaches the monitor only within a session; a login replay is sent
\* in one piece, so nothing else is sent until it is complete.
Send(A) ==
  /\ toAnnounce = {}
  /\ IF Listening THEN A ELSE UNCHANGED vars
  /\ UNCHANGED <<toAnnounce, restarts>>

Move(j, from, to) ==
  /\ phase[j] \in from
  /\ phase' = [phase EXCEPT ![j] = to]

-----------------------------------------------------------------------------

SchedInit ==
  /\ phase = [j \in JobIds |-> "new"]
  /\ place = [j \in JobIds |-> NoHost]
  /\ attached = {}
  /\ gone = {}

Submit(j, c) ==
  /\ c \in attached
  /\ Move(j, {"new"}, "queued")
  /\ Send(GetCs(j, c))
  /\ UNCHANGED <<place, attached, gone>>

Place(j, h) ==
  /\ h \in attached
  /\ Move(j, {"queued"}, "running")
  /\ place' = [place EXCEPT ![j] = h]
  /\ Send(JobBegin(j, h))
  /\ UNCHANGED <<attached, gone>>

StartLocal(j, h) ==
  /\ h \in attached
  /\ Move(j, {"new"}, "local")
  /\ place' = [place EXCEPT ![j] = h]
  /\ Send(LocalJobBegin(j, h))
  /\ UNCHANGED <<attached, gone>>

\* A queued job may be cancelled, which is reported the same way.
Finish(j, ok, timed) ==
  /\ Move(j, {"queued", "running"}, "over")
  /\ Send(JobDone(j, ok, timed))
  /\ UNCHANGED <<place, attached, gone>>

FinishLocal(j) ==
  /\ Move(j, {"local"}, "over")
  /\ Send(LocalJobDone(j))
  /\ UNCHANGED <<place, attached, gone>>

\* handle_job_done returns without notifying monitors.
LoseEnd(j) ==
  /\ Move(j, {"queued", "running", "local"}, "over")
  /\ UNCHANGED <<vars, place, attached, gone, toAnnounce, restarts>>

Attach(h) ==
  /\ h \notin attached \cup gone
  /\ attached' = attached \cup {h}
  /\ Send(Stats(h))
  /\ UNCHANGED <<phase, place, gone>>

Detach(h) ==
  /\ h \in attached
  /\ attached' = attached \ {h}
  /\ gone' = gone \cup {h}
  /\ Send(Offline(h))
  /\ UNCHANGED <<phase, place>>

\* A restart severs the monitor's session first.
Restart ==
  /\ ~Listening
  /\ restarts < MaxRestarts
  /\ restarts' = restarts + 1
  /\ phase' = [j \in JobIds |-> "new"]
  /\ place' = [j \in JobIds |-> NoHost]
  /\ attached' = {}
  /\ gone' = {}
  /\ UNCHANGED <<vars, toAnnounce>>

-----------------------------------------------------------------------------
(* The monitor logs in, is told of every attached host, and loses the link. *)

Login(t) ==
  /\ connection.state = "Connecting"
  /\ Connected(t)
  /\ toAnnounce' = attached
  /\ UNCHANGED <<schedVars, restarts>>

Announce(h) ==
  /\ h \in toAnnounce
  /\ Stats(h)
  /\ toAnnounce' = toAnnounce \ {h}
  /\ UNCHANGED <<schedVars, restarts>>

Link ==
  /\ \/ ~Listening /\ Connecting
     \/ connection.state # "Disconnected" /\ Disconnected
  /\ toAnnounce' = {}
  /\ UNCHANGED <<schedVars, restarts>>

Second(d) == Tick(d) /\ UNCHANGED <<schedVars, toAnnounce, restarts>>

-----------------------------------------------------------------------------

WorldInit == Init /\ SchedInit /\ toAnnounce = {} /\ restarts = 0

WorldNext ==
  \/ \E j \in JobIds, h \in Hosts : Submit(j, h) \/ Place(j, h) \/ StartLocal(j, h)
  \/ \E j \in JobIds, ok, timed \in BOOLEAN : Finish(j, ok, timed)
  \/ \E j \in JobIds : FinishLocal(j) \/ LoseEnd(j)
  \/ \E h \in Hosts : Attach(h) \/ Detach(h) \/ Announce(h)
  \/ \E t \in Targets : Login(t)
  \/ Restart
  \/ Link
  \/ \E d \in TickGaps : Second(d)

WorldSpec == WorldInit /\ [][WorldNext]_allVars

\* The history timer of run_tui always fires again, which ages every job there
\* is; nothing else is fair.
FairWorld == WorldSpec /\ WF_jobs(\E d \in TickGaps : Second(d))

-----------------------------------------------------------------------------
(* Properties. *)

\* A row's occupied slots are exactly the jobs the monitor has running there:
\* through expiry, late ends, departures and reconnects no slot leaks and none
\* is given back twice, so the Jobs column and the job list never disagree.
SlotsAreJobs ==
  \A h \in DOMAIN nodes :
    /\ nodes[h].active = {j \in InState(jobs, "Active") : jobs[j].host = h}
    /\ nodes[h].local  = {j \in InState(jobs, "Local") : jobs[j].host = h}

\* Every job on screen is one the scheduler has in that very state on that very
\* host, or one whose end it never reported: in particular no job of an earlier
\* session or of a host that left can be shown under an id used again.
JobsAreReal ==
  \A j \in DOMAIN jobs :
    \/ phase[j] = "over"
    \/ jobs[j].state = "Pending" /\ phase[j] = "queued"
    \/ jobs[j].state = "Active" /\ phase[j] = "running" /\ jobs[j].host = place[j]
    \/ jobs[j].state = "Local" /\ phase[j] = "local" /\ jobs[j].host = place[j]

\* Once the login replay is complete the rows are the attached hosts: no ghost
\* of a host that left or of an earlier session, and none conjured by a late
\* job event (node_mut is for statistics only).
RowsAreHosts ==
  Listening /\ toAnnounce = {} => DOMAIN nodes = attached

\* Work running on a host that left is not on screen, although its end has not
\* been reported: the row and its jobs go together.
NoWorkWithoutRow ==
  \A j \in DOMAIN jobs :
    jobs[j].state # "Pending" => jobs[j].host \in DOMAIN nodes

\* Every job the monitor tracks is eventually off the screen, whether or not the
\* scheduler ever says another word about it.
EveryJobLeaves ==
  \A j \in JobIds : j \in DOMAIN jobs ~> j \notin DOMAIN jobs

OnRows == UNION {nodes[h].active \cup nodes[h].local : h \in DOMAIN nodes}

\* "An expired job must not be counted into the very sample that its expiry was meant
\* to correct": after every tick, the slots it sampled on the rows are the jobs that
\* compile remotely, and the queue it sampled in the job list is what no row holds.
SamplesAgree ==
  [][\A d \in TickGaps : Second(d) =>
       /\ sample'.used = Cardinality(InState(jobs', "Active"))
       /\ sample'.pending = Cardinality(DOMAIN jobs' \ OnRows')]_allVars

Received == SumFunction([h \in DOMAIN nodes |-> nodes[h].jobsIn])
Sent     == SumFunction([h \in DOMAIN nodes |-> nodes[h].jobsOut])

\* As long as every begin could credit both ends and no host has left, the
\* Receive column sums to the Send column, a job placed back on its submitter
\* included.
ReceiveIsSend ==
  ledger.uncredited = 0 /\ totals.left = 0 => Received = Sent
=============================================================================
