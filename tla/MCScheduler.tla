----------------------------- MODULE MCScheduler -----------------------------
(***************************************************************************)
(* Scheduler for TLC.  Ids are used once, so the state space is finite     *)
(* without a bound on the length of a behaviour.                           *)
(***************************************************************************)
EXTENDS Scheduler, TLC

\* The books of the two sides and what credits the jobs.  The other counters,
\* the samples and the builds neither guard a step nor flow into what the view
\* keeps, so states it identifies have the same futures as far as these
\* properties and the fairness, which is about jobs, see them.
Books ==
  <<[h \in DOMAIN nodes |-> <<nodes[h].active, nodes[h].local,
                              nodes[h].jobsIn, nodes[h].jobsOut>>],
    jobs, connection, schedVars, toAnnounce, restarts,
    totals.left, ledger.uncredited>>
=============================================================================
