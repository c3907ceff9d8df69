-------------------------------- MODULE Node --------------------------------
(***************************************************************************)
(* The figures of one row (icecc-model/src/lib.rs, icecc-proto/src/stats.rs,*)
(* icecc-model/src/history.rs): the record merged from partial ones, the    *)
(* sums over the jobs measured last, and the ring of slot occupancy behind  *)
(* its graph.  Module Cluster has the rest of the row.                      *)
(*                                                                          *)
(* Of a record the model keeps MaxJobs, the one field two are read from: a  *)
(* scheduler that doubts a node negates it.  The other fields are merged    *)
(* the same way.  Occupancy is in whole percent.                            *)
(*                                                                          *)
(* Every series of the program is a History.  The ring modelled is the one  *)
(* of the row, whose samples can be missing; the properties of graphs and   *)
(* trends are stated of it as they would be of any.                         *)
(***************************************************************************)
EXTENDS Series, Peers

CONSTANTS
  Sizes,              \* slots a node may have
  Unsaid,             \* Option::None for a field no record carried
  MaxActive,          \* bound: jobs running here at once
  Outputs,            \* out_uncompressed of a finished job
  Times,              \* user_msec of a finished job
  ThroughputSamples,  \* THROUGHPUT_SAMPLES, 32
  ThroughputMin,      \* THROUGHPUT_MIN, 5
  HistorySize,        \* DEFAULT_CAPACITY, 120
  Widths              \* widths a graph may be drawn at

ASSUME WordsAssumption == Sizes \subseteq Nat /\ Unsaid \notin Int \cup BOOLEAN
ASSUME SizesAssumption ==
  /\ MaxActive \in Nat
  /\ Outputs \subseteq Nat /\ Times \subseteq Nat \ {0}
  /\ ThroughputSamples \in Nat \ {0} /\ ThroughputMin \in Nat \ {0}
  /\ HistorySize \in Nat \ {0}
  /\ Widths \subseteq Nat \ {0}

VARIABLES
  stats,       \* Node::stats
  active,      \* how many jobs active_jobs holds
  throughput,  \* Node::throughput
  slots,       \* Node::slots_history
  said         \* history variable: the last MaxJobs said since the row appeared

vars == <<stats, active, throughput, slots, said>>

\* A doubted node's slots are sent negated.
MaxJobsWords == Sizes \cup {-n : n \in Sizes}

NoRecord     == [maxJobs |-> Unsaid, suspect |-> Unsaid]
NoThroughput == [samples |-> <<>>, outBytes |-> 0, userMs |-> 0]

\* StatsRecord::parse of a record with this MaxJobs line, or without one.
Parsed(word) ==
  IF word = Unsaid THEN NoRecord
  ELSE [maxJobs |-> IF word < 0 THEN -word ELSE word, suspect |-> word < 0]

\* Mutant: the newest record is the row.
MergeInto_Replace(rec, dst) == rec

\* StatsRecord::merge_into
MergeInto(rec, dst) == [f \in DOMAIN dst |-> IF rec[f] # Unsaid THEN rec[f] ELSE dst[f]]

MaxJobs == IF stats.maxJobs = Unsaid THEN 0 ELSE stats.maxJobs

\* Node::slot_pct
SlotPct == IF MaxJobs > 0 THEN Min({(100 * active) \div MaxJobs, 100}) ELSE Gap

\* Mutant: the sums lose the sample that comes, not the one that goes.
PushJob_Newest(t, job) ==
  LET full == Len(t.samples) = ThroughputSamples
  IN [samples  |-> PushSample(t.samples, job, ThroughputSamples),
      outBytes |-> IF full THEN t.outBytes ELSE t.outBytes + job.out,
      userMs   |-> IF full THEN t.userMs ELSE t.userMs + job.user]

\* Throughput::push
PushJob(t, job) ==
  LET full == Len(t.samples) = ThroughputSamples
      gone == IF full THEN Head(t.samples) ELSE [out |-> 0, user |-> 0]
  IN [samples  |-> PushSample(t.samples, job, ThroughputSamples),
      outBytes |-> (t.outBytes - gone.out) + job.out,
      userMs   |-> (t.userMs - gone.user) + job.user]

\* Throughput::rate, in whole bytes of object per second of CPU time.
Rate(t) ==
  IF Len(t.samples) >= ThroughputMin /\ t.userMs > 0
  THEN (1000 * t.outBytes) \div t.userMs
  ELSE NoRate

-----------------------------------------------------------------------------

\* Node::new
Fresh == /\ stats = NoRecord /\ active = 0 /\ throughput = NoThroughput
         /\ slots = <<>> /\ said = Unsaid

Init == Fresh

\* Cluster::apply_stats for a record that is not State:Offline
Record(word) ==
  /\ stats' = MergeInto(Parsed(word), stats)
  /\ said' = IF word = Unsaid THEN said ELSE word
  /\ UNCHANGED <<active, throughput, slots>>

\* The node leaves, or the session is reset, and stats make a row of its own.
Return ==
  /\ stats' = NoRecord /\ active' = 0 /\ throughput' = NoThroughput
  /\ slots' = <<>> /\ said' = Unsaid

\* MON_JOB_BEGIN
Begin ==
  /\ active < MaxActive
  /\ active' = active + 1
  /\ UNCHANGED <<stats, throughput, slots, said>>

\* A job ends without measuring anything: it failed, reports no CPU time, or is
\* given up by an expiry or with the connection.
Finish ==
  /\ active > 0
  /\ active' = active - 1
  /\ UNCHANGED <<stats, throughput, slots, said>>

\* MON_JOB_DONE of a job that measures something.  It may be one of local_jobs.
FinishMeasured(job) ==
  /\ active' \in {active, active - 1} \cap Nat
  /\ throughput' = PushJob(throughput, job)
  /\ UNCHANGED <<stats, slots, said>>

\* The row's part of tick_history
Tick ==
  /\ slots' = PushSample(slots, SlotPct, HistorySize)
  /\ UNCHANGED <<stats, active, throughput, said>>

Next ==
  \/ \E word \in MaxJobsWords \cup {Unsaid} : Record(word)
  \/ Return \/ Begin \/ Finish \/ Tick
  \/ \E job \in [out : Outputs, user : Times] : FinishMeasured(job)

Spec == Init /\ [][Next]_vars

-----------------------------------------------------------------------------
(* Properties. *)

\* "Every record is partial", so the capacity and the doubt on screen are those
\* of the last MaxJobs said, however many records without one came since: a
\* node's doubt ends only when the scheduler says so, and doubting a node does
\* not hide its slots.
CapacityIsLastWord == stats = Parsed(said)

\* The running sums of Throughput are the sums over the samples kept: nothing is
\* subtracted that was not added, in whatever order samples come and go.  So the
\* speed shown is no slower than the slowest job kept and no faster than the
\* fastest, and what it is compared with is fair.
SpeedIsMeasured ==
  LET kept == throughput.samples
  IN /\ throughput.outBytes = SumFunction([k \in DOMAIN kept |-> kept[k].out])
     /\ throughput.userMs = SumFunction([k \in DOMAIN kept |-> kept[k].user])
     /\ Rate(throughput) # NoRate =>
          \E slow, fast \in Range(kept) :
            /\ (1000 * slow.out) \div slow.user <= Rate(throughput)
            /\ Rate(throughput) <= (1000 * fast.out) \div fast.user
     /\ ComparisonIsFair

\* "A gap in measurement must not look like a measured zero", in graphs of dots of
\* any width and height: the ground is drawn under the very columns behind which
\* something was measured; where a column has one sample, what reaches the top is
\* full to within half a dot, and nothing else does.
GapsStayGaps ==
  \A width \in Widths, rows \in {1, 3} :
    LET values  == Stretched(slots, CELL_COLS * width, HistorySize)
        picture == Area(values, 100, rows)
        dots    == rows * CELL_ROWS
    IN /\ {x \in DOMAIN values : <<x, dots - 1>> \in picture}
            = {x \in DOMAIN values : values[x].n > 0}
       /\ \A x \in DOMAIN values :
            values[x].n = 1 =>
              (<<x, 0>> \in picture <=> 2 * dots * (100 - values[x].sum) <= 100)

\* "The time axis is fixed ... at every width", "averages rather than drops": at
\* every width the drawn columns are the share of the axis the history has
\* earned, within half a column and never none; every sample is behind some
\* column, columns are in order of time, and the newest sample is in the last.
\* The graph has dots for what was measured and for nothing else.  The word beside
\* it says the same: the trend of the samples played backwards is the opposite one.
AxisIsTime ==
  LET have == Len(slots)
      back == [k \in DOMAIN slots |-> slots[have + 1 - k]]
  IN /\ have > 0 =>
          \A width \in Widths :
            LET columns == Earned(have, width, HistorySize)
                Behind(i) == Bucket(i, columns, have)
                off == 2 * (HistorySize * columns - width * have)
            IN /\ columns = 1 \/ (off <= HistorySize /\ off >= -HistorySize)
               /\ UNION {Behind(i) : i \in 0 .. columns - 1} = 1 .. have
               /\ have \in Behind(columns - 1)
               /\ \A i \in 1 .. columns - 1 : Min(Behind(i - 1)) <= Min(Behind(i))
     /\ GapsStayGaps
     /\ Trend(slots) = "Rising" <=> Trend(back) = "Falling"
     /\ Trend(slots) = "Steady" <=> Trend(back) = "Steady"

\* "So a spike is not silently skipped": the bucket bounds of the block sparklines
\* come from floating point, and whichever way a product at a whole number
\* rounds, no bucket is empty and no sample is left out; whatever was measured
\* above zero is under a glyph above the one for zero, however wide the bucket.
SparklineCoversHistory ==
  LET have == Len(slots)
  IN \A width \in Widths :
       LET Certain(c) == {k \in 1 .. have :
                            \A b \in WindowColumns(c, width, have) : k \in b}
           Glyphs(c) == {Glyph(Mean(slots, b), Peak(slots)) : b \in WindowColumns(c, width, have)}
           spikes == {k \in Measured(slots) : slots[k] > 0}
       IN /\ UNION {Certain(c) : c \in 1 .. width} = 1 .. have
          /\ have >= width => \A c \in 1 .. width : {} \notin WindowColumns(c, width, have)
          /\ \A k \in spikes : \E c \in 1 .. width : k \in Certain(c) /\ \A g \in Glyphs(c) : g > 1

=============================================================================
