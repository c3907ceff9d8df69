# icecream-watcher in TLA+

icecream-watcher is a terminal monitor for an icecream compile cluster. It logs
in to a scheduler as a monitor, rebuilds what the cluster is doing from the
events the scheduler sends, and shows it. This directory holds a model of that
program: TLA+ modules, configurations that check them with TLC, and theorems
checked by TLAPS. Line numbers refer to the sources under `src/`; `lib.rs` is
`crates/icecc-model/src/lib.rs` and `history.rs` is beside it; `wire.rs`, `msg.rs`,
`stats.rs`, `conn.rs` and `discover.rs` are in `crates/icecc-proto/src`; `main.rs`,
`app.rs` and `ui/*.rs` in `crates/icecream-watcher/src`.

`PROJECT.json` lists, for every definition, the lines it stands for, and for
every property a plausible defect of one definition (an operator named
`<Definition>_<What>` next to it) under which the run must fail.

## 1. The system

One process, one tokio runtime, two tasks and a channel of 1024 updates between
them:

    scheduler  --TCP-->  connection task  --mpsc(1024)-->  UI loop
                          run_live / run_replay             run_tui (or run_dump)
                               ^                              |  owns App, Cluster
                               +------- Retry (Notify) -------+

| component | state it keeps | operations | what makes it correct |
|---|---|---|---|
| **cluster model**, `lib.rs` | rows (`nodes`) with their slots, counters, completion windows; jobs in flight; totals; connection; histories; the current and the last build | `apply` (3 session updates, 8 events), `tick_history` with `expire`, the completion windows and `track_build` | every job is counted once however the remote repeats, omits or contradicts itself; slots and jobs agree; nothing of one session survives into the next; what never ends is aged out; the figures that are said to agree do |
| **connection task**, `conn.rs` | where it is in an attempt, `attempt`, the deadline, the capture file | `run_live`, `connect_once`, `backoff`, `Retry`, `Recorder` | updates come in the order of one grammar, none is lost, it never hangs, it comes back, it stops when the UI does |
| **recording and replay**, `conn.rs` | the capture file; position in it | `Recorder`, `run_replay` | what was heard is played again; a capture is one session; a cut or corrupt one is played up to there; the end comes out |
| **discovery**, `discover.rs` | the best answer so far, a deadline | `resolve`, `broadcast`, `parse_answer` | the winner does not depend on the order of answers; arguments take precedence as documented |
| **wire and messages**, `wire.rs`, `msg.rs` | none | handshake, framing, decoding | the lower version wins, a bad length is refused, a job is the same job whichever version reports it |
| **statistics**, `stats.rs` | none (the record of a node is merged in `lib.rs`) | parsing and merging partial records | a field absent from a record keeps its value |
| **history series**, `history.rs`, `ui/graph.rs` | a ring of samples | `push`, `stretched`, `window`, `trend`, the dots and glyphs drawn of them | columns are in order of time, each sample is behind one, a gap is not a zero |
| **screen state**, `app.rs` | selection, detail view and its scroll, help, prompt, sort, dirty mark | `on_key`, `apply`, `tick_history` | the highlight is always on a node, layers unwind in order, what changed is painted |
| **UI loop**, `main.rs` | timers, the last extent of the detail view | `run_tui`, `run_dump` | drains the channel, paints what is dirty, passes `r` on |
| **rendering**, `ui/*.rs` | the table's offset and `detail_max_scroll` | `draw`, `node_table`, the band, the detail view, the footer | the highlighted row is painted, the table keeps its rows, names fit their column, the last line of a detail view can be reached |
| packaging, demo scripts | none | | out of scope |

What is hard in it:

* The monitor connects in mid-flight, so ends arrive for jobs that never began
  and begins arrive without a submitter; the scheduler does not report every
  end (`handle_job_done` may return early), so jobs also have to time out, and
  the late end of a timed-out job still comes.
* Nodes leave with work on them. Ids are used again by the next session.
* A link that dies silently looks like an idle cluster.
* The UI may be slow, or gone, while the task waits for room in the channel.
* A retry is a *stored* permit, so it can take effect long after the key.
* Two aggregates of the same files (per node, per cluster) are advanced in
  different places.
* Keys act on a list that updates re-sort and shorten between two paints, and
  what a paint finds out (how far a view can be scrolled) is used by keys after
  the next resize.
* The protocol is spoken in more than twenty versions, and a message is spelled
  by the version; a capture is cut off wherever the recorder died.

`PROJECT.json` lists these as hazards, each at the line where it bites and with
the properties that would catch it.

## 2. The modules

    Session   <--refined by--  Connection   (the task, the channel, the drain)
       ^             ^               ^-- ConnectionProofs
       |             +--------- Replay  <-- MCReplay   (the other producer)
       |                          | EXTENDS      ^-- ReplayProofs
       |      Wire <--EXTENDS-- Capture   (a session, as it is recorded)
       |
       +-- is the order of session updates assumed by Cluster.Session
    Cluster   <--EXTENDS--  Scheduler  <-- MCScheduler
       ^-- MCCluster, ClusterProofs  <--EXTENDS--  SchedulerProofs
    Resolve   <--EXTENDS--  Discovery  <-- MCDiscovery, DiscoveryProofs
    App, Layout  <--EXTENDS--  Screen  <-- MCScreen, ScreenProofs   (keys on a terminal)
    Series, Peers  <--EXTENDS--  Node  <-- NodeProofs   (a row's figures, its graphs)
    Sums: what the proofs need of finite sets and of sums over them

### Cluster (`lib.rs`)

One action per arm of `Cluster::apply` (`Connecting`, `Connected`,
`Disconnected`) and of `Cluster::apply_event` (`GetCs`, `JobBegin`,
`LocalJobBegin`, `JobDone`, `LocalJobDone`, `Stats`, `Offline`, `Other`), and
`Tick` for `tick_history`. A handler is one action: `Tick` ages, expires, frees
the slots, samples, advances every completion window and runs `track_build`, in
the order of the code, because the samples must be taken after the expiry.

* An `Instant` is an age in seconds, which stops growing one past
  `job_timeout`, the only threshold it is compared with.
* A `StatsRecord` is reduced to whether it says `State:Offline`.
* `ledger` is a history variable. The program has no such counter: it is what
  allows `JobsAccounted` to be stated at all.
* The environment of `Spec` is an arbitrary remote: in a session any event may
  name any job and any host in any order. This is weaker than any scheduler, so
  what holds here does not depend on the scheduler's honesty.

### Scheduler (external; what the comments of `lib.rs` rely on)

Cluster in front of a scheduler that tells the truth in order but may never
report an end (`LoseEnd`), may lose hosts with work on them (`Detach`) whose
ends arrive late, queues and cancels, and is restarted, which starts the ids
afresh. It runs on while nobody listens, so a monitor that logs in does so in
mid-flight. Modelled from what `src/` says of it, and marked external.

### Session, Connection (`conn.rs`, the receiving end in `main.rs`, `app.rs`)

`Session` is what the task promises: sessions are announced, attached, heard
and lost in that order, and the frames of a session arrive in order, at most
once, within their session. `Cluster` assumes that order and `Connection`
implements it: `KeepsThePromise` is the refinement, through what the UI has
*applied*, so the channel lies between.

`Connection` has one action per stretch of code between two awaits on somebody
else. `at` is the await the task stands at:

| `at` | code |
|---|---|
| `start`, `found` | about to send `Update::Connecting` |
| `search` | `discover::broadcast`, under `discover_timeout` |
| `dial`, `greet` | `TcpStream::connect` and the handshake, each under `handshake_timeout` |
| `login` | `MON_LOGIN` is being written |
| `attached`, `record` | about to send `Connected`; about to create the capture |
| `pump`, `deliver` | `read_frame`; about to send an `Event` |
| `over` | `connect_once` returned; about to send `Disconnected` |
| `wait` | the select of `sleep(backoff)` and `retry.wait()` |

The read, the recording and the decoding of a frame are one action, since a
frame that has arrived is handled without waiting for anyone. A session is
known by a tag modulo `SessionTags`. `asked` is a history variable: whether `r`
was pressed since a wait was last cut short, and whether a wait has ended since.
The guards of the steps that wait for nobody's answer have names (`CanTell`,
`CanTimeOut`, `CanWake`, ...), which the proofs speak of.

### Wire, Capture (`wire.rs`, `msg.rs`, the recorder in `conn.rs`)

`Wire` has no state: `Handshake`, `encode_frame`, `payload_len`, `MsgType` and
`decode` in every arm. The words of the handshake are bytes, in the one place
where the protocol is little-endian; inside a message a payload is a sequence of
words and texts, which is what a `Reader` can tell apart, and `Layout` is the
order of its fields.

`Capture` is one monitor that records, up to the file it leaves: handshakes with
schedulers of any version, a session of frames each recorded and then decoded,
the recorder killed or the disk full in the middle of a frame, a reconnect that
truncates the file, and damage done to the file afterwards. The scheduler's side
(`Filled`, `Spelled`, `Written`) is external: it fills a message in by *its*
version. Of a file the model keeps the byte at which each frame begins and the
number of bytes there are. `story`, a history variable, is what was said and what
the monitor made of it.

### Replay (`conn.rs`, `main.rs`)

`run_replay` over the bytes of that file, `spawn` around it, the drain of
`run_tui`, and the end of the loop when the channel closes. `pos` is the reader's
position: a frame is found only where one begins, so a reader that counts a byte
too few finds none. It refines `Session` with one session. What it plays is
compared with `story`: the session the recording monitor saw.

### Resolve, Discovery (`discover.rs`)

`Resolve` has no state: `PlanOf` is `resolve`. A scheduler argument is a sequence of
pieces, each a colon, a text that parses as a port, or one that does not, since these
are all `rsplit_once` and `parse` tell apart; two texts never stand side by side.
`Discovery` chooses a plan and then, when it is a broadcast, receives datagrams until
the deadline, or until the socket fails (`Fail`: it could not be opened, no interface
took the probe, or a `recv` failed), which returns an error and drops the best answer
so far. A datagram is what its bytes are told apart by: the layout mark, a known
length, the words a layout reads, the netname, the sender.

### App (`app.rs`, the frame timer of `main.rs`)

`on_key` in every arm, `apply` and `prune_selection`, `tick_history`, the paint
with `take_dirty` and `clamp_detail_scroll`. Of the cluster it keeps the rows
and one figure per row to sort by. `scroll` is a `u16` and wraps as one.
`stale`, a history variable, is whether the last paint differs from the state.

### Layout, Screen (`ui/*.rs`)

`Layout` has no state. It is how the screen is divided: the height of the band
and the lines of its series, the columns of the table by breakpoint and what is
spare, the length of the cells that are cut to fit, the extent of the detail view. A
text is its length; a digit count is the one property of a figure it has. `fit`, `elide`
and `path_tail` are modelled by the length they leave. `count_cell` and `rate_cell`
only pad to the width of their column, and are left out.

`Screen` composes App and Layout on a terminal that changes size: `Draw` is App's
`Paint` with the extent the layout gives and the offset the table scrolls to,
`ResizeTo` is a resize. The figure of a node is the number of its jobs, so that
the detail view grows and shrinks as jobs do. The keys of the footer are
`Offered`. That every step of Screen is one of App is proved (`ScreenIsApp`).

### Series, Peers, Node (`history.rs`, `ui/graph.rs`, `stats.rs`, the row in `lib.rs`)

`Series` has no state: a ring is a sequence, and what `stretched` and `window`
put behind a column is the *set of positions* it averages, because what can go
wrong there is which samples a column takes. `stretched` computes its bounds in
integers. `window` computes them as `floor` and `ceil` of a product in floating
point, which at a whole number may round to either side, so a bound is one of
two (`Floors`, `Ceils`) and a property has to hold for each. On top of a column
is what is drawn of it: the mean of the samples it has (`Mean`, none if it has
none), the peak the graph is scaled to, the dots (`Level`) and the glyph of the
sparkline (`Glyph`). A mean is kept as a sum and a count, so the scaling is exact
where the code divides in floating point: a dot may be one off where a value is on
the edge of two.

`Peers` has no state: the median rate on a node's platform, and the verdict on a
slow node (`lib.rs:583`). A rate is a number there, and the median is what is at a
place of the sorted rates, said by how many are below and at it. `ComparisonIsFair`
speaks of every assignment of rates and platforms to a group, so it is checked once
and not in every state.

`Node` is one row: partial records merged into `stats` (`Record`), jobs that
begin, end and measure something (`Begin`, `Finish`, `FinishMeasured`), the
row's part of `tick_history` (`Tick`), and the new row a host gets when it comes
back or the session is reset (`Return`). Of a record it keeps `MaxJobs`, the one
line that carries two fields: a negated value is a node the scheduler doubts.
`said`, a history variable, is the last such line. `Cluster` keeps of the same
row what jobs and ticks do to the rest of the cluster. Every series of the
program is a `History`; the row's is the one modelled since its samples can be
missing (a node that offers no slots), and the graphs and the trend, which the
screen draws from the cluster's own rings, are checked on it.

## 3. The runs

| run | question | states |
|---|---|---|
| `cluster` | Can any remote make the model lose or double-count a job, show more finished files in the rows than the headline counts, or mix two builds? | symmetry, 8 steps |
| `scheduler` | In front of a truthful scheduler: are rows, slots and jobs on screen the scheduler's, are a tick's samples of the jobs it leaves there, and does every job leave? | 0.11 M |
| `connection` | Whatever the remote, the network, the disk and the UI do: is the grammar of `Session` kept, is nothing lost, is the capture complete, is the wait bounded, and does a press of `r` cut short one wait and no other? | 1.8 M |
| `connection_live` | Does every attempt end, is a severed link noticed, does the task stop, does the screen come back? | 0.10 M |
| `replay` | With a scheduler of any version: is what is decoded what was said, and does every capture, whole, cut off or damaged, replay the session it recorded, once, and end? | 0.53 M |
| `discovery` | Does every combination of arguments give the documented plan, and does the best answer win in every order, unless the search fails? | 0.26 M |
| `screen` | Do keys, updates, ticks, resizes and paints in any order keep highlight, layers and the repaint mark consistent, the highlighted row on screen, the detail view readable, the table in its rows and cells, and the footer honest? | 0.56 M |
| `node` | Is the capacity on screen the last one said, is the speed that of the jobs kept and fairly compared, and does a graph of any width cover its samples in order of time? | 69 k |
| `column_adds_up`, `stale_silence`, `resolve_ipv6` | three statements of the documentation that the code does not keep (section 6) | counterexamples |

### Bounds, and why they are enough

* **cluster**: two hosts, two jobs, one target, one unmodelled message type, and
  behaviours of at most `MaxSteps` = 8 updates and ticks. Eight reach a session
  with two rows, a job begun twice on different hosts, its expiry and its late
  end, a departure, a reconnect, and a build that ends and is followed by
  another. `JobTimeout` = 1 and `TickGaps` = {1} make a job expire at its second
  tick; `CompletionWindow` = `RateWindow` = 2 and `ThroughputSamples` = 1 make
  every bounded queue overflow. Hosts and jobs are interchangeable in `Spec` and
  the properties of this run, so symmetry is sound; it has no liveness. All
  properties of the run are proved without these bounds.
* **scheduler**: two hosts, two jobs, one restart. An id is used once in a
  lifetime of the scheduler, so behaviours need no bound. The counters that
  neither guard a step nor appear in the properties are left out by the view
  `Books`: they flow into nothing it keeps, so states it identifies have the
  same futures; `EveryJobLeaves` and the fairness, which is stated on `jobs`,
  only concern what it keeps. No symmetry, because of liveness. Two jobs are
  what it takes to use a slot wrongly given back; two hosts to have a
  submitter and a builder.
* **connection**: a channel of two, so that it is full between `Connected`
  and an event and between two events; three session tags,
  one more than updates of different sessions fit in the channel at once, so
  that a stale update is never mistaken for a new one; two frames a session;
  `MaxShift` = 2 and `AttemptMax` = 4, so that the attempt count passes the shift
  limit and saturates; `MinDelay` 2, `MaxDelay` 3, so that doubling overshoots
  the ceiling. Both kinds of plan, with recording. No second passes while a wait has
  a wake-up stored (`CanTick`): a task that can go on is polled long before a second
  is over. `RetryIsHonouredOnce` counts in seconds and rests on it; it is what "cut
  short" means, and that the wake-up is stored at all, for one wait, is the property.
* **connection_live**: a channel of one (every send may block), no recording,
  two tags and one frame.
* **replay**: versions 20 (refused), 28 (before `MON_GET_CS` has its form), 38
  (before the client count) and 50 (newer than the monitor); nine messages: a text
  that is one and one that is not, a job done as unknown and as known, the end of
  a session, a type nobody knows; two frames a session and two attempts, so that
  the second scheduler may have another version than the first; frames cut off
  after 11 and 17 bytes, inside the header and behind it; a channel of one, so
  that every send may block.
* **discovery**: arguments of up to three pieces, the longest documented form
  (`host:port`) and the shortest IPv6 literals; one netname besides the
  default; versions 0 and 128 just outside the valid range, 32 (the oldest
  layout's) and 42 inside it; two start times; two addresses and loopback. The
  view `PlanOnly` forgets the arguments once an answer was heard: from then on
  only the plan is read, and the properties about arguments have seen every
  plan before its first answer.
* **screen**: a terminal of 50 x 7 (no band, two rows of table, the least columns)
  and one of 108 x 24 (a tall band, all columns, wide names); three hosts, one with
  no badge and one with each, with names of 7, 28 and 63 letters, so that one fits
  everywhere, one in the wide column and one nowhere; no jobs or two; a page of
  two, so that it overshoots; a detail view of one line of fields in place of
  eighteen, so that its extent is beyond the small pane and within the large one;
  `ScrollSize` = 6 in place of 2^16, so that wrapping would show. What `Layout`
  computes for *every* terminal is proved (section 5).
  The low band, which neither terminal has, is checked for widths about those at which its
  graph begins to grow and stops (`CompactLinesUp`).
* **node**: capacities 0 (no occupancy can be measured) and 1, doubted or not; up
  to two jobs, so that occupancy exceeds 100 % and is capped; a window of two
  measured jobs, two outputs, so that the sum of what is kept tells which one was
  dropped; a ring of six, the shortest a trend is computed from; widths below
  it, equal to it and above it, multiples of it and not. `MinDelta` is scaled to
  occupancy in percent: with a third of two samples, a change of one of them is
  below it and a change of both above. Groups of four nodes on two platforms, with
  five rates or none: four is the least even number a verdict is reached for.

`CHECK_DEADLOCK FALSE` stands where the program really stops: Screen after the
quit, Discovery once a search has ended or without a broadcast, and MCCluster at its
bound.

## 4. Fairness

* **Scheduler.** Only the history timer of `run_tui` is fair, and only in that a
  tick that ages a job comes again (`WF_jobs`). The scheduler may fall silent for
  ever. `EveryJobLeaves` therefore rests on `expire` alone.
* **Connection.** The clock, the task wherever it waits for nobody, the timeouts,
  `OpenCapture` (an open returns, with an error or without), keepalive probes
  failing on a link that is dead, and the UI loop's `recv` (`Apply`). Not fair:
  the remote's answers (`Dial`, `Greet`, `Refused`, `ReadFrame`, `HangUp`), the
  cable (`Sever`), the keys. `QuitStopsTheTask` says that after a quit the task
  ends or sits in `read_frame`, which is what the code does: it learns of the
  dropped receiver at the next send, and the process exits under it.
  `WF(login: Login or Refused)` is there because writing four bytes to a socket
  that just finished its handshake does not wait for the peer.
* `Reconnects` is stated as `Reachable => []<>...`: attempts that keep being made
  do not all fail. Nothing the monitor does can give that; it is a premise and
  not part of the fairness of the program, so the other properties do not have it.
* **Replay.** The disk, the task wherever it waits for nobody, and the drain.
  Nothing of the recording is fair, nor is `Quit`: `ReplayEnds` begins where a file
  is opened.
* **Screen, Node, Discovery, Cluster** have safety only, and state no fairness.

## 5. The proofs

tlapm proves these for every value of the constants that satisfies the named
assumptions. Those are what the types and the constants of the code give: `Hosts`
and `JobIds` finite (ids are `u32`), values that stand for "none" not among what
they are none of (`HostsAssumption`, `NoneAssumption`, `UnsetAssumption`, ...),
limits in Nat, windows not empty. Four say more:

* `WindowsAssumption`: a row's completion window is not longer than the cluster's
  (both are ten ticks). The rows are only within the headline because of it.
* `TrendAssumption`: a trend is computed from three samples at the least (6), since
  a shorter third is empty, and its threshold is not zero.
* `MessagesAssumption`: a scheduler fills in the fields of its message, and one that
  spells an unknown job as an exit code means nothing else by that code;
  `CaptureAssumption`: its version fits in a `u32`.
* `ExtentAssumption`: `Viewports` has every extent the layout computes.

### The cluster and the scheduler

**ClusterProofs**, for any remote, any number of hosts and jobs, and behaviours of
any length:

| theorem | statement | argument |
|---|---|---|
| `TypeCorrect` | `Spec => []TypeOK` | inductive as it stands. Rows and jobs are functions with a changing domain, so each way a handler updates them (`Put`, `Drop`, `SetNode`, `Push`, one node's operations) has a lemma of its own |
| `NothingRunsWhileDown` | `Spec => []NoWorkWhileDown` | with `TypeOK`; a tick can happen while disconnected, so `TickWhileIdle` shows that it makes no work out of none |
| `UnfinishedJobsExpire` | `Spec => []JobsExpire` | every event starts a job at age 0; `TickKeepsYoung`: what a tick keeps is at most the timeout old |
| `JobsAreAccountedFor` | `Spec => []JobsAccounted` | the equation is inductive with `TypeOK`, which makes the job map finite; `CountPut` and `CountDrop` give the cardinality of the map after an update, and each handler is one of them paired with one counter |
| `BuildsNeverShareAFile` | `Spec => []BuildsShareNoFile` | inductive with `TypeOK`: completions never fall within a session, and `Reset` clears builds and totals in one step; the case analysis of `track_build` is `TrackKeepsBuildsApart` |
| `RowsHoldNoMoreThanTheHeadline` | `Spec => []ColumnWithinRate` | from `TicksWithinRate`, below |

`ColumnWithinRate` says two things of what the rows show. Their *counts* of files, in all
and not yet sampled, never exceed those the headline has; and the *rates* of the rows
that have seen every tick the headline averages come to no more than the headline's.
A younger row averages over fewer ticks (`per_second`, `lib.rs:229`), so it may
show three files a second where the headline, over ten ticks, shows 0.3: its rate is not
bounded and the property does not say so. From the counts to the rates it takes the
rounding of a quotient (`FloorBelow`, `FloorAbove`, `SettledRows`).

The property compares totals, and these are not inductive: when the window
moves on, what drops out of the rows and what drops out of the headline have to be
compared. `TicksWithinRate` compares them tick by tick instead: of the files that
finished *k* ticks ago the rows on screen hold no more than the headline, and no more
of those no tick has sampled yet. A file is added to both, a tick makes the
unsampled ones those of age 0 and the rest a tick older (`PushAges`), a row that
leaves takes its share along. `SumByAge` and `SumByColumns` turn the sum over rows
of sums over ticks round.

**SchedulerProofs**, for any number of hosts, jobs, reconnects and restarts. The
invariant is built up in the order it is needed:

1. `RowsFollowReplay`: the rows on screen are the hosts the login replay has told
   of, hence `RowsAreTheHosts`.
2. With it a step of the scheduler and the monitor together is a step of `Cluster`:
   `SchedulerIsARemote` (`WorldSpec => Spec`), so the theorems above hold here.
3. `EveryJobIsReal`: since no job is tracked between two sessions
   (`NoWorkWhileDown`), ids that a restart uses again meet nothing of the old life.
4. `NoSlotLeaks` and `WorkHasARow`, from `BooksAgree`: the slots of a row are the jobs
   tracked there, *and* each job has a row to be on. Neither is inductive without
   the other: a host that leaves takes its jobs along only if they are in its
   slots, and a begin fills a slot only if the host has a row. Each handler has a
   lemma about the slots it touches.
5. `ReceiveEqualsSend`: until a begin misses an end or a host leaves, what nodes
   received sums to what they sent. This part needs no scheduler.
6. `TheHeadlineAddsUp`: `summary` counts the slots in use on the rows and the jobs
   compiling in the job list, and 4. makes a bijection of the two. Hence
   `SamplesAreOfTheJobs` (`SamplesAgree`): a tick that expires jobs samples, on the
   rows, as many slots as it leaves jobs compiling, and a queue that is the jobs on no
   row (`QueueIsOnNoRow`). A sample of the rows or the job list as they were before the
   expiry would not agree with what the tick leaves.
7. `EveryJobRunsOutOfTime`, the step half of `EveryJobLeaves`: a job on screen has
   `SecondsLeft`, at most one timeout to be queued and one to compile. No report adds to
   it: an id is not told of anew while it is tracked (`NewIdsUntracked`, from 3.), and
   only a queued job begins. A tick takes off what has passed.

**Sums** has no state. The library's sum over a set is a fold, a `CHOOSE` among
functions on the subsets, so the first part shows that there is exactly one such
function. The induction this takes (`SubsetInduction`) has its property as a *set* of
subsets, which the provers can instantiate where they cannot an operator; sums,
counts and medians are proved about by it, over sets of any size.

### The connection and the replay

**ConnectionProofs**, for every capacity of the channel, delay, number of session
tags and frames, and behaviours of any length:

| theorem | statement | argument |
|---|---|---|
| `ConnectionTypes` | `Spec => []TypeOK` | inductive as it stands; that a backoff is a number needs `ShiftAssumption` (two to a power of at most `MaxShift` is one), since the prover knows nothing of exponents |
| `TheWaitIsBounded` | `Spec => []WaitWithinCeiling` | inductive with `TypeOK` |
| `EverythingIsRecorded` | `Spec => []CaptureIsComplete` | inductive once it also covers `record` |
| `NothingIsLost` | `Spec => []NoEventLost` | from `TaskInv` |
| `TheTaskKeepsThePromise` | `Spec => KeepsThePromise` | step simulation: each update applied is a step of `Session`, each other step a stutter, from `TaskInv` |
| `ZeroMeansItWasUp` | `Spec => AttemptTellsFlappingFromDown` | from `TaskInv` |
| `RetryIsNeitherLostNorDoubled` | `Spec => RetryIsHonouredOnce` | from `RetryInv`: a key no wait has ended since is stored, and what is stored was pressed after the last wait that was cut short |
| `AttemptShortens` | a step of the task or a second lowers `Effort`, a number, until the next attempt begins; nothing else changes it | `Effort` is the steps ahead plus the deadlines that may still be set; `StepShortens` has a case per step |
| `AttemptNeverSticks` | `Spec => [](Underway => CanGoOn)` | by the places an attempt can stand at: `CanGoOn` is a disjunction of the guards the actions themselves have, so a `greet` without its timeout would falsify it; a full channel has an update to apply |

`NothingIsLost`, `TheTaskKeepsThePromise` and `ZeroMeansItWasUp` are not inductive:
each is of what the UI has *applied*, and what it will apply next is in the channel.
`TaskInv` says what may be there. `Orderly`: each update in the channel may follow the
one before it, the first may follow what is on screen, in the order of `Session`.
`Told`: what the screen will be once the channel is drained (`Newest`) is what the
task last told, which is determined by where it stands (`at`). With that, a send
extends an orderly channel at its end, and an apply takes its head.

**ReplayProofs**, for every version of a scheduler, everything it may say, and
captures of any number of frames:

| theorem | statement | argument |
|---|---|---|
| `HearsAsSaid` | `Spec => []HeardAsSaid` | `HearInv`: the handshake settles on the version of the scheduler or on nothing, since the words come back from their bytes (`FromLeOfLe`). In one version the order a message is filled in is the order it is read in (`ReadOfWritten`), and the two ways of saying that a job is unknown mean the same (`JobDoneIsUnderstood`) |
| `ReplayTells` | `Spec => []ReplayTellsTheSession` | from the invariants below |
| `ReplayRefinesSession` | `Spec => ReplayKeepsThePromise` | step simulation: only an apply shows anything, and what it shows is next in `Session` |
| `ReplayShortens` | each step of a replay lowers `Measure`, a number, and at the start it is at most `4 * Len(story) + 11` | the frames left count four each, an update in the channel one; a reader at a frame that is there goes on to the next (`FrameAtReader`) |
| `ReplayNeverSticks` | until the UI and the task are both gone, one of them has a step to take | from `ReaderInv`: where the task reads, the file has a frame or ends |

`ShapeInv` and `FileInv`: the file holds the frames of `story` one behind the other,
and what a cut or a damaged length leaves behind them is no whole frame; so a
reader that stands at a frame of the story (`ReaderInv`) finds the next one, and the
end where the story ends. `ShownInv` and `ChannelInv`: what the UI has applied, and
behind it what is in the channel, is what was read. Pings and frames that do not
decode are read and not told, so the place of an event is counted: `Ordinal` is the
number of frames up to it that are told. A channel that is empty and closed then
leaves nothing untold.

### Discovery

**DiscoveryProofs**: `TheBestAnswerWins` and `BogusNeverWins` from the invariant
`Inv`, which says that every answer considered is valid and of the plan's network
and that, unless the search has failed, none of them is `Better` than the one kept
(`Undefeated`). `BestAnswerWins`
alone says what is preferred without using `Better`, so the strengthening is needed
to go from one comparison at a time to all of them; `BetterOrder` is the
transitivity this takes. `BroadcastsByName` from `PlanInv`: the plan, once there,
is `PlanOf(args)`. `PlanIsTheArguments` is `PlanFollowsArgument` for every set of pieces and
names: the argument that wins is the one that is resolved (`WinningIsResolved`), and
each documented form is split at the one colon it has (`OnlyOne`, `FormsAreSplit`).

### The screen

**ScreenProofs**, for every terminal, any number of nodes, and names and figures of any
length:

* The keys. `AppTypes` is the type invariant; that an offset stays a `u16` is
  the wrap of `ScrollDetail` (`ScrollWraps`). `PromptIsLast` is inductive, by what each
  key does behind the prompt and what an update may do to the selection.
  `EverythingIsPainted` is inductive once `KeyMarks` shows, arm by arm, that a key which
  changes anything on screen marks it. `HighlightStays` and `DownIsDown` are about the
  rows in their order: `BeforeIsOrder` (the comparison is a strict total order),
  `SamePlace` and `RowIsNode` (each index is of exactly one node, by cardinality),
  `TargetIsThere` (a move lands on a row). The inductive invariant `HighlightInv` adds
  that the rows are finitely many.
* The layout. `TableKeepsPriority`, `BandFillsItsFrame`, `ColumnsFit` (from width 25;
  below it the fixed columns are wider than the terminal and the table is cut) and
  `NameFits`.
* Both. `ScreenIsApp`: `ScreenSpec` implements `Spec` of App with the same variables, by
  step simulation, where `ExtentAssumption` sees to it that a paint is never held up for
  want of an extent. Hence `AppOnScreen`, what is proved of App. `BandInPlace` and
  `RowsAreWithin` follow from the layout, the second from `ColumnsFit`, `NameFits`, the
  length of a count behind a file (`FilesAreIn`) and the order of divisions (`BarsInOrder`).
  `HighlightIsPainted` and `DetailIsReadable` take invariants relating what the last paint
  found to the state while nothing is marked, and `HighlightInv`.
* The footer. `OfferedKeysAct`: over a list with rows and with no question asked, a key
  that `Offered` has marks the screen or ends the session. Enter on a fresh screen is the
  case that needs an invariant: it opens the first row, which is there (`TargetIsThere`).

`RowFits` does not say that the table is within a terminal narrower than 25 columns,
that an empty name is not given up, or that a figure is within its column: each would be
false. The table is cut there, an elided nothing is nothing, and a count or rate of more
digits than its column is wide is cut by the table.

### A row and its graphs

**NodeProofs**, for every ring, window, width and group of peers:

| theorem | argument |
|---|---|
| `TheLastWordStands` | inductive with the type of `said`: partial records in any order leave the capacity and the doubt of the last that had the line |
| `SpeedHolds` (`SpeedIsMeasured`) | `SumsKept`: the running sums are the sums of the queue, since a push adds at one end what `SumTail` takes off at the other. A quotient of sums is between the least and the greatest of its parts (`RateIsBetween`). The verdict on a slow node (`Fairness`) is a count: at a median there is a rate (`PlaceIsTaken`), less than half of a platform is below it, and nodes of other platforms are not counted |
| `AxisHolds` (`AxisIsTime`) | from `Ring`, the shape of the history: columns cover the samples in order (`ColumnsInOrder`) and are the share of the axis earned to within half a column (`EarnedShare`); a column without samples draws nothing, at any height (`GapsAreGaps`); the thirds of a reversed series change places (`TrendReverses`) |
| `EverySampleIsDrawn` | the buckets of `stretched` cover all samples, none is empty, and the newest sample is in the last one; it rests on the bounds of integer division (`DivBounds`) |
| `SparklineHolds` (`SparklineCoversHistory`) | for both roundings of a bound (`FloorsAndCeils`) buckets overlap or touch (`WindowBucketBounds`), hence cover (`WindowCovers`); a value above zero is at least a glyph above it (`SpikeShows`) |

That a column *reaches the top* only when it is full is not so in general: a column whose
level rounds up reaches it half a dot short. `GapsStayGaps` therefore says "full to
within half a dot".

`JobsExpire`, `NoWorkWhileDown`, `TypeOK`, `EverySampleIsDrawn` and the theorems about the
layout are proved and not properties of a run; TLC checks what follows from the first with
a fair tick, `EveryJobLeaves`, and what the second is for, `SlotsAreJobs` and `JobsAreReal`
over a session that is lost.

### Only model-checked

* Liveness: `EveryJobLeaves`, `ReplayEnds` and the properties of `connection_live`, and
  the fairness they rest on, which is out of the prover's reach. What does not take
  fairness is proved, for instances of any size: that every step counts towards the end
  (`EveryJobRunsOutOfTime`, `ReplayShortens`, `AttemptShortens`) and that before it
  there is a step to take (`ReplayNeverSticks`, `AttemptNeverSticks`). These say of a
  step that it is possible by its guard (`CanStep`, `CanGoOn`); in Connection the guards are
  the operators the actions use. That nothing else disables an action is by reading,
  since `ENABLED` is out of reach as well; on small instances TLC finds no difference. `Reconnects` and
  `SeveredIsNoticed` depend on the remote and have no such half.
* `FooterTellsTheTruth`, which says of a key on the footer that it is `ENABLED`;
  `OfferedKeysAct` is the rest of it.
* The three statements of section 6, which are false.

## 6. What disagrees with the documentation

Three runs exist to show that the code does not do what a document says of it.

* `column_adds_up`: the `File/s` column does not always sum to `Rate`
  (`docs/screen.md:179`, `lib.rs:191`): completions of a job without a host, and
  those of a node that left, are in the headline and in no row. What does hold is
  `ColumnWithinRate`, of the counts and of rows as old as the headline's window. A row
  attached a moment ago may show a higher rate than the headline, since it
  averages the ticks it has seen.
* `stale_silence`: `last_event` survives a reconnect, where `app.rs:126` says
  `None` before the first event of a session.
* `resolve_ipv6`: an IPv6 literal without a port is split at its last colon,
  where `discover.rs:73` says it is not.

Noticed while reading and not made a run:

* `--record` creates the capture file once per session (`conn.rs:393`), so a
  reconnect discards what the session before recorded, where `conn.rs:84` says
  append. `CaptureIsComplete` and `ReplayTellsTheSession` are of the last session.
* A frame is stamped in milliseconds since the file was created, where
  `contrib/capture/README.md:29` says since the first recorded frame.
* A job that begins on two hosts (which a truthful scheduler never says) leaves
  its slot in the first row when it ends or expires: `finish_remote` and
  `expire` (`lib.rs:518`) look at the host it was last told of. `SlotsAreJobs`
  is therefore a property of Scheduler and not of Cluster.
* `docs/screen.md:42` relates the `Receive` and `Send` columns; they part when a
  node leaves with its counters (`lib.rs:789`). `ReceiveIsSend` states the case
  in which they agree.
* `docs/screen.md:172` says that offline rows strike through and sink; a node that
  leaves leaves the list.
* A job that starts and ends between two ticks does not restart the quiet
  period of a build (`lib.rs:911`).
* `run_tui` takes a closed channel for a panic of the task (`main.rs:219`), but a
  replay that ends closes it too.
* `run_dump` never ticks (`main.rs:145`), so nothing is aged out there.
* `band_height` says that a node arriving does not resize the band; on a terminal
  of 30 lines the fifth does, and each after it. Its `SERIES_ROWS_MAX` of 12 is exceeded by
  one where the floor is 3, and the jobs series loses that row again on a terminal
  that is higher. A terminal high enough for the tall band and narrower than 64
  columns shows the three compact lines in it.
* The `Compiling` column is there at width 59 and not at 60.
* Below 25 columns the fixed columns are wider than the terminal. In a narrow
  pane, for a job without a name or one that runs for 100 minutes, the detail view
  cuts "whose job is this" (`RowFits` states where it does not). A count
  of more digits than its column is cut there; notes of the band are elided from figures of
  two digits on, its figures never.
* The bar of one job among 64 slots rounds to an empty one, and a dot graph
  draws a small mean like a zero where the sparkline lifts it above.
* The footer offers its keys behind the quit prompt and over an empty list, where
  they do nothing; the help overlay has 26 lines and does not scroll, so a terminal
  of 24 cuts it.
* A terminal that grows keeps the table's offset, which may leave rows blank below
  the last one until the highlight moves.

## 7. Not modelled, and the plan

Not modelled, and not planned: logging, terminal setup, packaging, the demo
scripts, wording and colour. Dump mode is `Cluster` without `Tick`, the recv arm
of the TUI loop with a line printed per update; it has no state of its own to
state anything of.

Not modelled yet, in the order of the plan:

1. `Summary` as a whole, and what the header says of the session (`moved_from`;
   `firstTarget`, which it reads, is in Cluster).
2. The overlays of `ui/mod.rs` and the header on a narrow terminal.
3. Captures of more than one session, should the recorder append.

Proofs: every safety invariant and action property of a passing run has a theorem, but
for `FooterTellsTheTruth`, and liveness has its step halves. What is left is to prove
more than the runs ask:

1. A refinement for the screen's table: that what is painted is, row by row, what an
   abstract list of nodes with one highlight shows.
2. `NoEventLost` composed with `Capture`: that what the UI applied of a live session
   and what it applies of its replay are the same events.
