----------------------------- MODULE NodeProofs -----------------------------
(***************************************************************************)
(* What holds of a row whatever records come, and of a graph at every      *)
(* width and for every number of samples.                                  *)
(***************************************************************************)
EXTENDS Node, Sums, SequenceTheorems

-----------------------------------------------------------------------------
(* Partial records. *)

\* What was said last is a word a record may carry, or nothing was said.
LastWordInv == said \in MaxJobsWords \cup {Unsaid} /\ CapacityIsLastWord

\* A record with the line replaces both fields, one without it neither.
LEMMA MergeTakesTheLine ==
  ASSUME NEW word \in MaxJobsWords \cup {Unsaid}, NEW before \in MaxJobsWords \cup {Unsaid}
  PROVE  MergeInto(Parsed(word), Parsed(before)) =
           Parsed(IF word = Unsaid THEN before ELSE word)
<1>1. \A w \in MaxJobsWords : w \in Int /\ w # Unsaid
  BY WordsAssumption DEF MaxJobsWords
<1>2. DOMAIN Parsed(before) = {"maxJobs", "suspect"}
  BY DEF Parsed, NoRecord
<1>3. CASE word = Unsaid
  <2>1. Parsed(word).maxJobs = Unsaid /\ Parsed(word).suspect = Unsaid
    BY <1>3 DEF Parsed, NoRecord
  <2>2. MergeInto(Parsed(word), Parsed(before)) = [f \in DOMAIN Parsed(before) |-> Parsed(before)[f]]
    BY <1>2, <2>1 DEF MergeInto
  <2>3. [f \in DOMAIN Parsed(before) |-> Parsed(before)[f]] = Parsed(before)
    BY DEF Parsed, NoRecord
  <2> QED BY <1>3, <2>2, <2>3
<1>4. CASE word # Unsaid
  <2>1. /\ Parsed(word) = [maxJobs |-> IF word < 0 THEN -word ELSE word, suspect |-> word < 0]
        /\ word \in Int
    BY <1>1, <1>4 DEF Parsed
  <2>2. Parsed(word).maxJobs # Unsaid /\ Parsed(word).suspect # Unsaid
    <3>1. Parsed(word).maxJobs \in Int
      BY <2>1
    <3>2. Parsed(word).suspect \in BOOLEAN
      BY <2>1
    <3> QED BY <3>1, <3>2, WordsAssumption
  <2>3. MergeInto(Parsed(word), Parsed(before)) = [f \in {"maxJobs", "suspect"} |-> Parsed(word)[f]]
    BY <1>2, <2>2 DEF MergeInto
  <2>4. [f \in {"maxJobs", "suspect"} |-> Parsed(word)[f]] = Parsed(word)
    BY <2>1
  <2> QED BY <1>4, <2>3, <2>4
<1> QED BY <1>3, <1>4

\* Every step keeps it.
LEMMA NextLastWord == LastWordInv /\ [Next]_vars => LastWordInv'
<1> SUFFICES ASSUME LastWordInv, [Next]_vars PROVE LastWordInv'
  OBVIOUS
<1> USE DEF LastWordInv, CapacityIsLastWord
<1>1. ASSUME NEW word \in MaxJobsWords \cup {Unsaid}, Record(word) PROVE LastWordInv'
  BY <1>1, MergeTakesTheLine DEF Record
<1>2. CASE Return
  BY <1>2 DEF Return, Parsed
<1>3. CASE Begin \/ Finish \/ Tick \/ UNCHANGED vars
  BY <1>3 DEF Begin, Finish, Tick, vars
<1>4. ASSUME NEW job \in [out : Outputs, user : Times], FinishMeasured(job) PROVE LastWordInv'
  BY <1>4 DEF FinishMeasured
<1> QED BY <1>1, <1>2, <1>3, <1>4 DEF Next

\* However partial the records, the capacity and the doubt on screen are those of
\* the last record that had the line.
THEOREM TheLastWordStands == Spec => []CapacityIsLastWord
<1>1. Init => LastWordInv
  BY DEF Init, Fresh, LastWordInv, CapacityIsLastWord, Parsed
<1>2. LastWordInv => CapacityIsLastWord
  BY DEF LastWordInv
<1> QED BY <1>1, <1>2, NextLastWord, PTL DEF Spec

-----------------------------------------------------------------------------
(* The columns of a graph. *)

\* What div is, for a divisor that is not a literal.
LEMMA DivBounds ==
  ASSUME NEW a \in Nat, NEW b \in Nat \ {0}
  PROVE  /\ a \div b \in Nat
         /\ (a \div b) * b <= a
         /\ a < (a \div b + 1) * b
OBVIOUS

\* The lesser of two is one of them.
LEMMA MinOfTwo ==
  ASSUME NEW a \in Int, NEW b \in Int
  PROVE  /\ Min({a, b}) \in {a, b}
         /\ Min({a, b}) <= a /\ Min({a, b}) <= b
<1>1. \E x \in {a, b} : \A y \in {a, b} : x <= y
  <2>1. CASE a <= b
    BY <2>1
  <2>2. CASE ~(a <= b)
    BY <2>2
  <2> QED BY <2>1, <2>2
<1> QED BY <1>1 DEF Min

\* The greater of two is one of them.
LEMMA MaxOfTwo ==
  ASSUME NEW a \in Int, NEW b \in Int
  PROVE  /\ Max({a, b}) \in {a, b}
         /\ Max({a, b}) >= a /\ Max({a, b}) >= b
<1>1. \E x \in {a, b} : \A y \in {a, b} : x >= y
  <2>1. CASE a <= b
    BY <2>1
  <2>2. CASE ~(a <= b)
    BY <2>2
  <2> QED BY <2>1, <2>2
<1> QED BY <1>1 DEF Max

\* The bounds of a bucket: it begins before the last sample and is never empty.
LEMMA BucketBounds ==
  ASSUME NEW have \in Nat \ {0}, NEW columns \in Nat \ {0}, NEW i \in 0 .. columns - 1
  PROVE  \E start, end \in Nat :
           /\ Bucket(i, columns, have) = start + 1 .. end
           /\ start = (i * have) \div columns
           /\ start < end /\ end <= have
           /\ \/ end >= ((i + 1) * have) \div columns
              \/ end = have
<1> DEFINE start == (i * have) \div columns
           next  == ((i + 1) * have) \div columns
           long  == Max({next, start + 1})
           end   == Min({long, have})
<1>1. i * have \in Nat /\ (i + 1) * have \in Nat
  OBVIOUS
<1>2. start \in Nat /\ next \in Nat /\ start * columns <= i * have
  BY <1>1, DivBounds
<1>3. i * have < columns * have
  OBVIOUS
<1>4. start < have
  <2>1. start * columns < have * columns
    BY <1>2, <1>3
  <2> HIDE DEF start
  <2> QED BY <1>2, <2>1
<1>5. Bucket(i, columns, have) = start + 1 .. end
  BY DEF Bucket
<1> HIDE DEF start, next
<1>6. long \in Nat /\ long >= next /\ long >= start + 1
  BY <1>2, MaxOfTwo
<1> HIDE DEF long
<1>7. end \in {long, have} /\ end <= have /\ end <= long
  <2>1. long \in Int /\ have \in Int
    BY <1>6
  <2> QED BY <2>1, MinOfTwo
<1> HIDE DEF end
<1>8. start < end /\ end \in Nat /\ (end >= next \/ end = have)
  BY <1>2, <1>4, <1>6, <1>7
<1> QED BY <1>2, <1>5, <1>7, <1>8 DEF start, next

\* Averaging drops nothing: at every width and for every number of samples, each
\* sample is behind some column, no column is empty, and the newest sample is
\* behind the last one.
THEOREM EverySampleIsDrawn ==
  ASSUME NEW have \in Nat \ {0}, NEW columns \in Nat \ {0}
  PROVE  /\ UNION {Bucket(i, columns, have) : i \in 0 .. columns - 1} = 1 .. have
         /\ \A i \in 0 .. columns - 1 : Bucket(i, columns, have) # {}
         /\ have \in Bucket(columns - 1, columns, have)
<1>1. ASSUME NEW i \in 0 .. columns - 1
      PROVE  Bucket(i, columns, have) # {} /\ Bucket(i, columns, have) \subseteq 1 .. have
  <2>1. PICK start, end \in Nat :
          /\ Bucket(i, columns, have) = start + 1 .. end
          /\ start = (i * have) \div columns
          /\ start < end /\ end <= have
          /\ \/ end >= ((i + 1) * have) \div columns
             \/ end = have
    BY BucketBounds
  <2>2. start + 1 \in Bucket(i, columns, have)
    BY <2>1
  <2>3. Bucket(i, columns, have) \subseteq 1 .. have
    BY <2>1
  <2> QED BY <2>2, <2>3
<1>2. ASSUME NEW k \in 1 .. have
      PROVE  \E i \in 0 .. columns - 1 : k \in Bucket(i, columns, have)
  <2> DEFINE i == (k * columns - 1) \div have
  <2>1. k * columns - 1 \in Nat
    OBVIOUS
  <2>2. i \in Nat /\ i * have <= k * columns - 1 /\ k * columns - 1 < (i + 1) * have
    BY <2>1, DivBounds
  <2>3. k * columns <= have * columns
    OBVIOUS
  <2> HIDE DEF i
  <2>4. i \in 0 .. columns - 1
    BY <2>2, <2>3
  <2>5. PICK start, end \in Nat :
          /\ Bucket(i, columns, have) = start + 1 .. end
          /\ start = (i * have) \div columns
          /\ start < end /\ end <= have
          /\ \/ end >= ((i + 1) * have) \div columns
             \/ end = have
    BY <2>4, BucketBounds
  <2>6. start < k
    <3>1. start * columns <= i * have
      BY <2>2, <2>5, DivBounds
    <3>2. start * columns < k * columns
      BY <2>2, <3>1
    <3> QED BY <3>2
  <2>7. k <= ((i + 1) * have) \div columns
    <3> DEFINE next == ((i + 1) * have) \div columns
    <3>1. (i + 1) * have \in Nat
      BY <2>2
    <3>2. next \in Nat /\ (i + 1) * have < (next + 1) * columns
      BY <3>1, DivBounds
    <3> HIDE DEF next
    <3>3. k * columns < (next + 1) * columns
      BY <2>2, <3>2
    <3>4. k < next + 1
      BY <3>2, <3>3
    <3> QED BY <3>2, <3>4 DEF next
  <2>8. k \in start + 1 .. end
    <3>1. ((i + 1) * have) \div columns \in Nat
      BY <2>2, DivBounds
    <3> QED BY <2>5, <2>6, <2>7, <3>1
  <2> QED BY <2>4, <2>5, <2>8
<1>3. have \in Bucket(columns - 1, columns, have)
  <2>1. columns - 1 \in 0 .. columns - 1 /\ (columns - 1) + 1 = columns
    OBVIOUS
  <2>2. PICK start, end \in Nat :
          /\ Bucket(columns - 1, columns, have) = start + 1 .. end
          /\ start = ((columns - 1) * have) \div columns
          /\ start < end /\ end <= have
          /\ \/ end >= (((columns - 1) + 1) * have) \div columns
             \/ end = have
    BY <2>1, BucketBounds
  <2>3. (columns * have) \div columns = have
    <3> DEFINE q == (columns * have) \div columns
    <3>1. columns * have \in Nat
      OBVIOUS
    <3>2. q \in Nat /\ q * columns <= columns * have /\ columns * have < (q + 1) * columns
      BY <3>1, DivBounds
    <3> HIDE DEF q
    <3>3. q <= have /\ have < q + 1
      BY <3>2
    <3> QED BY <3>2, <3>3 DEF q
  <2> QED BY <2>2, <2>3
<1> QED BY <1>1, <1>2, <1>3

-----------------------------------------------------------------------------
(* The sums behind the speed. *)

Jobs == [out : Nat, user : Nat \ {0}]

\* One field of every job kept.
Outs(s)  == [k \in DOMAIN s |-> s[k].out]
Users(s) == [k \in DOMAIN s |-> s[k].user]

\* What the running sums of a Throughput promise.
SumsKept(t) ==
  /\ t.samples \in Seq(Jobs) /\ Len(t.samples) <= ThroughputSamples
  /\ t.outBytes = SumFunction(Outs(t.samples))
  /\ t.userMs = SumFunction(Users(t.samples))

\* The figures of jobs are sequences of numbers, and follow the jobs as they come
\* and go.
LEMMA FieldsOfJobs ==
  ASSUME NEW s \in Seq(Jobs), NEW job \in Jobs
  PROVE  /\ Outs(s) \in Seq(Int) /\ Users(s) \in Seq(Int)
         /\ Append(s, job) \in Seq(Jobs)
         /\ Outs(Append(s, job)) = Append(Outs(s), job.out)
         /\ Users(Append(s, job)) = Append(Users(s), job.user)
         /\ s # <<>> =>
              /\ Tail(s) \in Seq(Jobs) /\ Head(s) \in Jobs
              /\ Outs(s) # <<>> /\ Users(s) # <<>>
              /\ Outs(Tail(s)) = Tail(Outs(s)) /\ Head(Outs(s)) = Head(s).out
              /\ Users(Tail(s)) = Tail(Users(s)) /\ Head(Users(s)) = Head(s).user
<1>1. /\ DOMAIN s = 1 .. Len(s) /\ Len(s) \in Nat
      /\ \A k \in 1 .. Len(s) : s[k] \in Jobs
  OBVIOUS
<1>2. /\ Outs(s) \in Seq(Int) /\ Users(s) \in Seq(Int)
      /\ Len(Outs(s)) = Len(s) /\ Len(Users(s)) = Len(s)
      /\ \A k \in 1 .. Len(s) : Outs(s)[k] = s[k].out /\ Users(s)[k] = s[k].user
  BY <1>1 DEF Outs, Users, Jobs
<1>3. /\ Append(s, job) \in Seq(Jobs)
      /\ Outs(Append(s, job)) = Append(Outs(s), job.out)
      /\ Users(Append(s, job)) = Append(Users(s), job.user)
  BY <1>1 DEF Outs, Users, Jobs
<1>4. ASSUME s # <<>>
      PROVE  /\ Tail(s) \in Seq(Jobs) /\ Head(s) \in Jobs
             /\ Outs(s) # <<>> /\ Users(s) # <<>>
             /\ Head(Outs(s)) = Head(s).out
             /\ Head(Users(s)) = Head(s).user
  BY <1>1, <1>2, <1>4
<1>5. ASSUME s # <<>>
      PROVE  /\ Outs(Tail(s)) = Tail(Outs(s))
             /\ Users(Tail(s)) = Tail(Users(s))
  <2>1. /\ Outs(s) \in Seq(Int) /\ Outs(s) # <<>>
        /\ Users(s) \in Seq(Int) /\ Users(s) # <<>>
    BY <1>2, <1>4, <1>5
  <2>2. Tail(s) \in Seq(Jobs) /\ Len(Tail(s)) = Len(s) - 1
        /\ \A k \in 1 .. Len(s) - 1 : Tail(s)[k] = s[k + 1]
    BY <1>5
  <2>3. \A o \in Seq(Int) : o # <<>> /\ Len(o) = Len(s) =>
          /\ Tail(o) \in Seq(Int) /\ Len(Tail(o)) = Len(s) - 1
          /\ \A k \in 1 .. Len(s) - 1 : Tail(o)[k] = o[k + 1]
    OBVIOUS
  <2> DEFINE t == Tail(s)
  <2> HIDE DEF t
  <2>4. /\ Outs(t) \in Seq(Int) /\ Users(t) \in Seq(Int)
        /\ Len(Outs(t)) = Len(s) - 1 /\ Len(Users(t)) = Len(s) - 1
        /\ \A k \in 1 .. Len(s) - 1 : Outs(t)[k] = s[k + 1].out /\ Users(t)[k] = s[k + 1].user
    <3>1. t \in Seq(Jobs) /\ Len(t) = Len(s) - 1 /\ Len(s) - 1 \in Nat
          /\ \A k \in 1 .. Len(s) - 1 : t[k] = s[k + 1] /\ t[k] \in Jobs
      BY <2>2, <1>1, <1>5 DEF t
    <3>2. DOMAIN t = 1 .. Len(s) - 1
      BY <3>1
    <3> DEFINE n == Len(s) - 1
    <3>3. \A k \in 1 .. n : t[k].out \in Int /\ t[k].user \in Int
      <4>1. \A j \in Jobs : j.out \in Int /\ j.user \in Int
        BY DEF Jobs
      <4> QED BY <3>1, <4>1
    <3>4. /\ Outs(t) = [k \in 1 .. n |-> t[k].out] /\ Users(t) = [k \in 1 .. n |-> t[k].user]
      BY <3>2 DEF Outs, Users
    <3>5. n \in Nat /\ \A k \in 1 .. n : t[k] = s[k + 1]
      BY <3>1
    <3> HIDE DEF n
    <3>6. Outs(t) \in Seq(Int) /\ Len(Outs(t)) = n /\ Users(t) \in Seq(Int) /\ Len(Users(t)) = n
      BY <3>3, <3>4, <3>5
    <3>7. \A k \in 1 .. n : Outs(t)[k] = s[k + 1].out /\ Users(t)[k] = s[k + 1].user
      BY <3>4, <3>5
    <3> QED BY <3>6, <3>7 DEF n
  <2>0. \A k \in 1 .. Len(s) - 1 : k + 1 \in 1 .. Len(s)
    BY <1>1
  <2>5. \A k \in 1 .. Len(s) - 1 :
          Tail(Outs(s))[k] = Outs(t)[k] /\ Tail(Users(s))[k] = Users(t)[k]
    <3>1. TAKE k \in 1 .. Len(s) - 1
    <3>2. Tail(Outs(s))[k] = Outs(s)[k + 1] /\ Tail(Users(s))[k] = Users(s)[k + 1]
      BY <1>2, <2>1, <2>3
    <3> QED BY <1>2, <2>4, <2>0, <3>2
  <2>6. Tail(Outs(s)) = Outs(t)
    BY <1>2, <2>1, <2>3, <2>4, <2>5, SeqEqual
  <2>7. Tail(Users(s)) = Users(t)
    BY <1>2, <2>1, <2>3, <2>4, <2>5, SeqEqual
  <2> QED BY <2>6, <2>7 DEF t
<1> QED BY <1>2, <1>3, <1>4, <1>5

\* The figures of jobs have sums.
LEMMA SumOfJobs ==
  ASSUME NEW s \in Seq(Jobs)
  PROVE  SumFunction(Outs(s)) \in Int /\ SumFunction(Users(s)) \in Int
<1>1. /\ DOMAIN s = 1 .. Len(s) /\ Len(s) \in Nat
      /\ \A k \in 1 .. Len(s) : s[k] \in Jobs
  OBVIOUS
<1>2. /\ Outs(s) \in Seq(Int) /\ Users(s) \in Seq(Int)
  BY <1>1 DEF Outs, Users, Jobs
<1>3. \A f \in Seq(Int) : SumFunction(f) \in Int
  <2>1. TAKE f \in Seq(Int)
  <2>2. \A i \in 1 .. Len(f) : f[i] \in Int
    OBVIOUS
  <2> QED BY <2>2, SumOfSeq, SumType
<1> QED BY <1>2, <1>3

\* A job comes and, where there is no room, the oldest goes: the sums are still
\* those of the jobs kept.
LEMMA PushKeepsSums ==
  ASSUME NEW t, SumsKept(t), NEW job \in Jobs
  PROVE  SumsKept(PushJob(t, job))
<1> DEFINE s == t.samples
           full == Len(s) = ThroughputSamples
           gone == IF full THEN Head(s) ELSE [out |-> 0, user |-> 0]
           left == IF full THEN Tail(s) ELSE s
<1>1. s \in Seq(Jobs) /\ Len(s) \in Nat /\ Len(s) <= ThroughputSamples
      /\ ThroughputSamples \in Nat \ {0}
  BY SizesAssumption DEF SumsKept
<1>2. /\ PushJob(t, job).samples = Append(left, job)
      /\ PushJob(t, job).outBytes = (t.outBytes - gone.out) + job.out
      /\ PushJob(t, job).userMs = (t.userMs - gone.user) + job.user
  BY DEF PushJob, PushSample
<1>3. full => s # <<>>
  BY <1>1
<1>4. /\ SumFunction(Outs(s)) \in Int /\ SumFunction(Users(s)) \in Int
  BY <1>1, SumOfJobs
<1>5. /\ left \in Seq(Jobs) /\ Len(left) < ThroughputSamples
      /\ SumFunction(Outs(left)) = SumFunction(Outs(s)) - gone.out
      /\ SumFunction(Users(left)) = SumFunction(Users(s)) - gone.user
      /\ gone.out \in Int /\ gone.user \in Int
  <2>1. CASE full
    <3>1. s # <<>> /\ gone = Head(s) /\ left = Tail(s) /\ s \in Seq(Jobs)
      BY <1>1, <1>3, <2>1
    <3> HIDE DEF s, gone, left
    <3>2. Len(Tail(s)) < ThroughputSamples
      BY <1>1, <3>1
    <3>3. /\ Tail(s) \in Seq(Jobs) /\ Head(s) \in Jobs
          /\ Outs(s) \in Seq(Int) /\ Outs(s) # <<>> /\ Outs(Tail(s)) = Tail(Outs(s))
          /\ Users(s) \in Seq(Int) /\ Users(s) # <<>> /\ Users(Tail(s)) = Tail(Users(s))
          /\ Head(Outs(s)) = Head(s).out /\ Head(Users(s)) = Head(s).user
      BY <3>1, FieldsOfJobs
    <3>4. /\ SumFunction(Outs(s)) = Head(s).out + SumFunction(Outs(Tail(s)))
          /\ SumFunction(Users(s)) = Head(s).user + SumFunction(Users(Tail(s)))
      BY <3>3, SumTail
    <3>5. SumFunction(Outs(Tail(s))) \in Int /\ SumFunction(Users(Tail(s))) \in Int
      BY <3>3, SumOfJobs
    <3>6. Head(s).out \in Int /\ Head(s).user \in Int
      <4>1. \A x \in Jobs : x.out \in Int /\ x.user \in Int
        BY DEF Jobs
      <4> QED BY ONLY <3>3, <4>1
    <3>7. left \in Seq(Jobs) /\ Len(left) < ThroughputSamples /\ gone.out \in Int /\ gone.user \in Int
      BY <3>1, <3>2, <3>3, <3>6
    <3>8. /\ SumFunction(Outs(Tail(s))) = SumFunction(Outs(s)) - Head(s).out
          /\ SumFunction(Users(Tail(s))) = SumFunction(Users(s)) - Head(s).user
      BY <3>4, <3>5, <3>6
    <3>9. QED
      BY <3>1, <3>7, <3>8
  <2>2. CASE ~full
    BY <1>1, <1>4, <2>2
  <2> QED BY <2>1, <2>2
<1> HIDE DEF left, gone, s
<1>6. /\ Append(left, job) \in Seq(Jobs) /\ Len(Append(left, job)) = Len(left) + 1
      /\ SumFunction(Outs(Append(left, job))) = SumFunction(Outs(left)) + job.out
      /\ SumFunction(Users(Append(left, job))) = SumFunction(Users(left)) + job.user
  <2>1. /\ Outs(left) \in Seq(Int) /\ Users(left) \in Seq(Int)
        /\ Append(left, job) \in Seq(Jobs)
        /\ Outs(Append(left, job)) = Append(Outs(left), job.out)
        /\ Users(Append(left, job)) = Append(Users(left), job.user)
    BY <1>5, FieldsOfJobs
  <2>2. job.out \in Int /\ job.user \in Int
    BY DEF Jobs
  <2> QED BY <1>5, <2>1, <2>2, SumAppend
<1>7. t.outBytes = SumFunction(Outs(s)) /\ t.userMs = SumFunction(Users(s))
  BY DEF SumsKept, s
<1>8. job.out \in Int /\ job.user \in Int /\ Len(left) \in Nat
  BY <1>5 DEF Jobs
<1>9. Len(PushJob(t, job).samples) <= ThroughputSamples
  BY <1>1, <1>2, <1>5, <1>6, <1>8
<1>10. /\ PushJob(t, job).outBytes = SumFunction(Outs(Append(left, job)))
       /\ PushJob(t, job).userMs = SumFunction(Users(Append(left, job)))
  BY <1>2, <1>4, <1>5, <1>6, <1>7, <1>8
<1> QED BY <1>2, <1>6, <1>9, <1>10 DEF SumsKept

\* A quotient of sums lies between the least and the greatest of the quotients.
LEMMA RateIsBetween ==
  ASSUME NEW t, SumsKept(t), Rate(t) # NoRate
  PROVE  \E slow, fast \in Range(t.samples) :
            /\ (1000 * slow.out) \div slow.user <= Rate(t)
            /\ Rate(t) <= (1000 * fast.out) \div fast.user
<1> DEFINE s == t.samples
           S == 1 .. Len(s)
           o == Outs(s)
           u == Users(s)
           O == SumFunctionOnSet(o, S)
           U == SumFunctionOnSet(u, S)
           R == (1000 * O) \div U
<1>1. /\ s \in Seq(Jobs) /\ Len(s) >= ThroughputMin /\ ThroughputMin \in Nat \ {0}
      /\ t.userMs > 0 /\ Rate(t) = (1000 * t.outBytes) \div t.userMs
  BY SizesAssumption DEF SumsKept, Rate
<1>2. /\ Len(s) \in Nat \ {0} /\ DOMAIN s = S /\ DOMAIN o = S /\ DOMAIN u = S
      /\ \A k \in S : /\ s[k] \in Jobs /\ s[k] \in Range(s)
                      /\ o[k] = s[k].out /\ u[k] = s[k].user
                      /\ o[k] \in Nat /\ u[k] \in Nat \ {0}
  <2>1. Len(s) \in Nat /\ DOMAIN s = S /\ \A k \in S : s[k] \in Jobs
    BY <1>1
  <2>2. \A x \in Jobs : x.out \in Nat /\ x.user \in Nat \ {0}
    BY DEF Jobs
  <2>3. \A k \in S : s[k] \in Range(s) /\ o[k] = s[k].out /\ u[k] = s[k].user
    BY <2>1 DEF Outs, Users, Range
  <2>4. DOMAIN o = S /\ DOMAIN u = S
    BY <2>1 DEF Outs, Users
  <2>5. Len(s) # 0
    BY <1>1, <2>1
  <2> HIDE DEF s, S, o, u
  <2> QED BY <2>1, <2>2, <2>3, <2>4, <2>5
<1>3. IsFiniteSet(S) /\ S # {}
  <2> DEFINE n == Len(s)
  <2>1. n \in Nat \ {0}
    BY <1>2
  <2> HIDE DEF n
  <2>2. IsFiniteSet(1 .. n) /\ n \in 1 .. n
    BY <2>1, FS_Interval
  <2> QED BY <2>2 DEF n
<1>4. t.outBytes = O /\ t.userMs = U
  BY <1>2 DEF SumsKept, SumFunction
<1> HIDE DEF o, u, S
<1>5. O \in Nat /\ U \in Nat
  BY <1>2, <1>3, SumNat
<1> HIDE DEF O, U
<1>6. R \in Nat /\ R * U <= 1000 * O /\ 1000 * O < (R + 1) * U /\ R = Rate(t)
  <2>1. 1000 * O \in Nat /\ U \in Nat \ {0}
    BY <1>1, <1>4, <1>5
  <2>2. Rate(t) = (1000 * O) \div U
    BY <1>1, <1>4
  <2> DEFINE a == 1000 * O
  <2>3. R = a \div U
    OBVIOUS
  <2> HIDE DEF a, R
  <2>4. R \in Nat /\ R * U <= a /\ a < (R + 1) * U
    BY ONLY <2>1, <2>3 DEF a
  <2> QED BY <2>2, <2>3, <2>4 DEF a
<1> HIDE DEF R
<1> DEFINE f == [k \in S |-> 1000 * o[k]]
           low == [k \in S |-> R * u[k]]
           high == [k \in S |-> (R + 1) * u[k]]
<1>7. /\ \A k \in S : /\ f[k] = 1000 * o[k] /\ low[k] = R * u[k] /\ high[k] = (R + 1) * u[k]
                      /\ f[k] \in Int /\ low[k] \in Int /\ high[k] \in Int
  BY <1>2, <1>6
<1> HIDE DEF f, low, high
<1>8. /\ SumFunctionOnSet(f, S) = 1000 * O
      /\ SumFunctionOnSet(low, S) = R * U
      /\ SumFunctionOnSet(high, S) = (R + 1) * U
  <2>1. \A k \in S : o[k] \in Int /\ u[k] \in Int
    BY <1>2
  <2>2. 1000 \in Int /\ R \in Int /\ R + 1 \in Int
    BY <1>6
  <2>3. SumFunctionOnSet(f, S) = 1000 * SumFunctionOnSet(o, S)
    BY <1>3, <1>7, <2>1, <2>2, SumScaled
  <2>4. SumFunctionOnSet(low, S) = R * SumFunctionOnSet(u, S)
    BY <1>3, <1>7, <2>1, <2>2, SumScaled
  <2>5. SumFunctionOnSet(high, S) = (R + 1) * SumFunctionOnSet(u, S)
    <3> DEFINE c == R + 1
    <3>1. \A k \in S : high[k] = c * u[k]
      BY <1>7
    <3>2. c \in Int
      BY <2>2
    <3> HIDE DEF c
    <3>3. SumFunctionOnSet(high, S) = c * SumFunctionOnSet(u, S)
      BY <1>3, <2>1, <3>1, <3>2, SumScaled
    <3> QED BY <3>3 DEF c
  <2> QED BY <2>3, <2>4, <2>5 DEF O, U
<1>9. PICK a \in S : f[a] < high[a]
  <2> SUFFICES ASSUME \A k \in S : ~(f[k] < high[k]) PROVE FALSE
    OBVIOUS
  <2>1. \A k \in S : high[k] \in Int /\ f[k] \in Int /\ high[k] <= f[k]
    BY <1>7
  <2>2. SumFunctionOnSet(high, S) <= SumFunctionOnSet(f, S)
    BY <1>3, <2>1, SumMonotone
  <2> QED BY <1>5, <1>6, <1>8, <2>2
<1>10. PICK b \in S : low[b] <= f[b]
  <2> SUFFICES ASSUME \A k \in S : ~(low[k] <= f[k]) PROVE FALSE
    OBVIOUS
  <2>1. \A k \in S : low[k] \in Int /\ f[k] \in Int /\ f[k] < low[k]
    BY <1>7
  <2>2. SumFunctionOnSet(f, S) < SumFunctionOnSet(low, S)
    BY <1>3, <2>1, SumBelow
  <2> QED BY <1>5, <1>6, <1>8, <2>2
<1>11. (1000 * s[a].out) \div s[a].user <= R
  <2> DEFINE x == o[a]
             y == u[a]
             z == 1000 * x
             q == z \div y
  <2>1. x \in Nat /\ y \in Nat \ {0} /\ 1000 * x < (R + 1) * y /\ x = s[a].out /\ y = s[a].user
    BY <1>2, <1>7, <1>9
  <2> HIDE DEF x, y
  <2>2. z \in Nat /\ y \in Nat \ {0}
    BY <2>1
  <2> HIDE DEF z
  <2>3. q \in Nat /\ q * y <= z
    BY <2>2, DivBounds
  <2>4. q \in Nat /\ q * y <= 1000 * x
    BY <2>3 DEF z
  <2> HIDE DEF q
  <2>5. q * y < (R + 1) * y
    BY <1>6, <2>1, <2>4
  <2>6. q < R + 1
    BY <1>6, <2>1, <2>4, <2>5
  <2> QED BY <1>6, <2>1, <2>4, <2>6 DEF q, z
<1>12. R <= (1000 * s[b].out) \div s[b].user
  <2> DEFINE x == o[b]
             y == u[b]
             z == 1000 * x
             q == z \div y
  <2>1. x \in Nat /\ y \in Nat \ {0} /\ R * y <= 1000 * x /\ x = s[b].out /\ y = s[b].user
    BY <1>2, <1>7, <1>10
  <2> HIDE DEF x, y
  <2>2. z \in Nat /\ y \in Nat \ {0}
    BY <2>1
  <2> HIDE DEF z
  <2>3. q \in Nat /\ z < (q + 1) * y
    BY <2>2, DivBounds
  <2>4. q \in Nat /\ 1000 * x < (q + 1) * y
    BY <2>3 DEF z
  <2> HIDE DEF q
  <2>5. R * y < (q + 1) * y
    BY <1>6, <2>1, <2>4
  <2>6. R < q + 1
    BY <1>6, <2>1, <2>4, <2>5
  <2> QED BY <1>6, <2>1, <2>4, <2>6 DEF q, z
<1>13. s[a] \in Range(s) /\ s[b] \in Range(s)
  BY <1>2, <1>9, <1>10
<1> HIDE DEF R
<1> QED BY <1>6, <1>11, <1>12, <1>13

-----------------------------------------------------------------------------
(* The comparison with peers. *)

Values(rate, P) == {rate[n] : n \in P}
Below(rate, P, r) == {n \in P : rate[n] < r}
UpTo(rate, P, r)  == {n \in P : rate[n] <= r}

\* The sorted rates have an element at every place: its CHOOSE names one.
LEMMA PlaceIsTaken ==
  ASSUME NEW P, IsFiniteSet(P), NEW rate, \A n \in P : rate[n] \in Nat,
         NEW i \in Nat, i < Cardinality(P)
  PROVE  /\ Place(rate, P, i) \in Values(rate, P)
         /\ Cardinality(Below(rate, P, Place(rate, P, i))) <= i
         /\ i < Cardinality(UpTo(rate, P, Place(rate, P, i)))
<1> DEFINE V == Values(rate, P)
           Good == {r \in V : i < Cardinality(UpTo(rate, P, r))}
<1>1. IsFiniteSet(V) /\ V \in SUBSET Int
  <2>1. IsFiniteSet(V)
    <3> DEFINE f == [n \in P |-> rate[n]]
    <3>1. f \in Surjection(P, V)
      BY DEF Surjection, Values
    <3> QED BY <3>1, FS_Surjection
  <2> QED BY <2>1 DEF Values
<1>2. P # {}
  BY FS_EmptySet
<1>3. V # {} /\ \A n \in P : rate[n] \in V
  BY <1>2 DEF Values
<1> HIDE DEF V
<1>4. PICK top \in V : \A r \in V : r <= top
  BY <1>1, <1>3, GreatestOf
<1>5. UpTo(rate, P, top) = P
  BY <1>3, <1>4 DEF UpTo
<1>6. Good # {} /\ Good \in SUBSET Int /\ IsFiniteSet(Good)
  <2>1. top \in Good
    BY <1>4, <1>5
  <2>2. Good \in SUBSET V
    OBVIOUS
  <2> HIDE DEF Good
  <2> QED BY <1>1, <2>1, <2>2, FS_Subset
<1>7. PICK r \in Good : \A g \in Good : r <= g
  <2> HIDE DEF Good
  <2> QED BY <1>6, LeastOf
<1>8. Cardinality(Below(rate, P, r)) <= i
  <2>1. CASE Below(rate, P, r) = {}
    BY <2>1, FS_EmptySet
  <2>2. CASE Below(rate, P, r) # {}
    <3> DEFINE W == {q \in V : q < r}
    <3>1. W # {}
      BY <1>3, <2>2 DEF Below
    <3>2. W \in SUBSET V /\ W \in SUBSET Int
      BY <1>1
    <3>3. IsFiniteSet(W)
      BY <1>1, <3>2, FS_Subset
    <3>4. PICK q \in W : \A w \in W : w <= q
      <4> HIDE DEF W
      <4> QED BY <3>1, <3>2, <3>3, GreatestOf
    <3>5. q \in V /\ q < r /\ q \in Int /\ r \in Int
      BY <1>1, <1>7, <3>4
    <3>6. q \notin Good
      BY <1>7, <3>5
    <3>7. UpTo(rate, P, q) = Below(rate, P, r)
      <4>1. ASSUME NEW n \in P PROVE rate[n] <= q <=> rate[n] < r
        <5>1. rate[n] \in V /\ rate[n] \in Int
          BY <1>3
        <5>2. rate[n] < r => rate[n] <= q
          BY <3>4, <5>1
        <5> QED BY <3>5, <5>1, <5>2
      <4> QED BY <4>1 DEF UpTo, Below
    <3>8. ~(i < Cardinality(Below(rate, P, r)))
      BY <3>5, <3>6, <3>7
    <3>9. Cardinality(Below(rate, P, r)) \in Nat
      BY FS_Subset, FS_CardinalityType DEF Below
    <3> QED BY <3>8, <3>9
  <2> QED BY <2>1, <2>2
<1>9. r \in V /\ i < Cardinality(UpTo(rate, P, r))
  BY <1>7
<1>10. \E x \in {rate[n] : n \in P} :
         /\ Cardinality({n \in P : rate[n] < x}) <= i
         /\ i < Cardinality({n \in P : rate[n] <= x})
  BY <1>8, <1>9 DEF V, Values, Below, UpTo
<1> QED BY <1>10 DEF Place, Values, Below, UpTo

\* The rates and platforms a comparison is made over.
Compared(rate, platform) ==
  /\ IsFiniteSet(DOMAIN rate)
  /\ \A n \in DOMAIN rate : rate[n] \in Nat \cup {NoRate}

\* Peers are finitely many, have rates, and have the same peers.
LEMMA PeersAreMeasured ==
  ASSUME NEW rate, NEW platform, Compared(rate, platform), NEW n
  PROVE  /\ IsFiniteSet(PeersOf(rate, platform, n))
         /\ Cardinality(PeersOf(rate, platform, n)) \in Nat
         /\ \A m \in PeersOf(rate, platform, n) :
              /\ rate[m] \in Nat
              /\ PeersOf(rate, platform, m) = PeersOf(rate, platform, n)
<1>1. PeersOf(rate, platform, n) \subseteq DOMAIN rate
  BY DEF PeersOf
<1>2. IsFiniteSet(PeersOf(rate, platform, n))
  BY <1>1, FS_Subset DEF Compared
<1> QED BY <1>1, <1>2, FS_CardinalityType DEF Compared, PeersOf

\* The median is the rate of a peer, and at most half of the peers are below it.
LEMMA MedianIsARate ==
  ASSUME NEW rate, NEW platform, Compared(rate, platform), NEW n,
         Cardinality(PeersOf(rate, platform, n)) >= 2
  PROVE  LET P == PeersOf(rate, platform, n)
             median == MedianRateAmongPeers(rate, platform, n)
         IN /\ median \in Values(rate, P)
            /\ 2 * Cardinality(Below(rate, P, median)) <= Cardinality(P)
<1> DEFINE P == PeersOf(rate, platform, n)
           c == Cardinality(P)
           median == MedianRateAmongPeers(rate, platform, n)
<1>1. IsFiniteSet(P) /\ c \in Nat /\ \A m \in P : rate[m] \in Nat
  BY PeersAreMeasured
<1>2. c >= 2
  OBVIOUS
<1>3. median = Place(rate, P, c \div 2)
  BY <1>1 DEF MedianRateAmongPeers
<1> HIDE DEF P
<1>4. c \div 2 \in Nat /\ c \div 2 < c /\ 2 * (c \div 2) <= c
  BY <1>1, <1>2
<1> DEFINE i == c \div 2
<1>5. /\ Place(rate, P, i) \in Values(rate, P)
      /\ Cardinality(Below(rate, P, Place(rate, P, i))) <= i
  <2>1. i \in Nat /\ i < Cardinality(P)
    BY <1>4
  <2> HIDE DEF i
  <2> QED BY <1>1, <2>1, PlaceIsTaken
<1>6. Cardinality(Below(rate, P, median)) \in Nat
  BY <1>1, FS_Subset, FS_CardinalityType DEF Below
<1> HIDE DEF c, median
<1>7. Cardinality(Below(rate, P, median)) <= i /\ median \in Values(rate, P)
  BY <1>3, <1>5
<1>8. 2 * Cardinality(Below(rate, P, median)) <= Cardinality(P)
  BY <1>1, <1>4, <1>6, <1>7 DEF c
<1> QED BY <1>7, <1>8 DEF P, median

\* Who is slow of one's peers is below the median they share.
LEMMA SlowIsBelow ==
  ASSUME NEW rate, NEW platform, Compared(rate, platform), NEW n,
         NEW m \in PeersOf(rate, platform, n), IsSlowOutlier(rate, platform, m)
  PROVE  LET P == PeersOf(rate, platform, n)
             median == MedianRateAmongPeers(rate, platform, n)
         IN Cardinality(P) >= 2 /\ median \in Nat /\ 2 * rate[m] < median
<1> DEFINE P == PeersOf(rate, platform, n)
           median == MedianRateAmongPeers(rate, platform, n)
<1>1. /\ IsFiniteSet(P) /\ Cardinality(P) \in Nat
      /\ \A k \in P : rate[k] \in Nat
      /\ PeersOf(rate, platform, m) = P
  BY PeersAreMeasured
<1>2. MedianRateAmongPeers(rate, platform, m) = median
  BY <1>1 DEF MedianRateAmongPeers
<1>3. Cardinality(P) >= 3 /\ 2 * rate[m] < median
  BY <1>1, <1>2 DEF IsSlowOutlier, OUTLIER_PEERS
<1> HIDE DEF median
<1>4. Cardinality(P) >= 2
  BY <1>1, <1>3
<1>5. median \in Values(rate, P)
  BY <1>4, MedianIsARate DEF median
<1>6. median \in Nat
  BY <1>1, <1>5 DEF Values
<1> QED BY <1>3, <1>4, <1>6 DEF median

\* The slow are at most half of their platform.
LEMMA SlowAreFew ==
  ASSUME NEW rate, NEW platform, Compared(rate, platform), NEW n, NEW Slow,
         \A m \in Slow : IsSlowOutlier(rate, platform, m)
  PROVE  2 * Cardinality(Slow \cap PeersOf(rate, platform, n))
           <= Cardinality(PeersOf(rate, platform, n))
<1> DEFINE P == PeersOf(rate, platform, n)
           median == MedianRateAmongPeers(rate, platform, n)
           S == Slow \cap P
<1>1. IsFiniteSet(P) /\ Cardinality(P) \in Nat /\ \A m \in P : rate[m] \in Nat
  BY PeersAreMeasured
<1>2. CASE S = {}
  BY <1>1, <1>2, FS_EmptySet
<1>3. CASE S # {}
  <2>1. \A m \in S : Cardinality(P) >= 2 /\ median \in Nat /\ 2 * rate[m] < median
    BY SlowIsBelow
  <2>2. Cardinality(P) >= 2 /\ median \in Nat
    BY <1>3, <2>1
  <2>3. 2 * Cardinality(Below(rate, P, median)) <= Cardinality(P)
    BY <2>2, MedianIsARate
  <2> HIDE DEF median, P
  <2>4. S \in SUBSET Below(rate, P, median)
    <3>1. ASSUME NEW m \in S PROVE m \in P /\ rate[m] < median
      BY <1>1, <2>1, <2>2
    <3> QED BY <3>1 DEF Below
  <2> HIDE DEF S
  <2>5. IsFiniteSet(Below(rate, P, median))
    BY <1>1, FS_Subset DEF Below
  <2>6. Cardinality(S) <= Cardinality(Below(rate, P, median)) /\ IsFiniteSet(S)
    BY <2>4, <2>5, FS_Subset
  <2>7. Cardinality(S) \in Nat /\ Cardinality(Below(rate, P, median)) \in Nat
    BY <2>5, <2>6, FS_CardinalityType
  <2>8. 2 * Cardinality(S) <= Cardinality(P)
    BY <1>1, <2>3, <2>6, <2>7
  <2> QED BY <2>8 DEF S, P
<1> QED BY <1>2, <1>3

\* A slow node has a peer that is more than twice as fast.
LEMMA SlowHasABetter ==
  ASSUME NEW rate, NEW platform, Compared(rate, platform), NEW n \in DOMAIN rate,
         IsSlowOutlier(rate, platform, n)
  PROVE  \E m \in PeersOf(rate, platform, n) : rate[m] > 2 * rate[n]
<1> DEFINE P == PeersOf(rate, platform, n)
           median == MedianRateAmongPeers(rate, platform, n)
<1>1. n \in P
  BY DEF IsSlowOutlier, PeersOf
<1>2. Cardinality(P) >= 2 /\ 2 * rate[n] < median
  BY <1>1, SlowIsBelow
<1>3. median \in Values(rate, P)
  BY <1>2, MedianIsARate
<1>4. PICK m \in P : rate[m] = median
  BY <1>3 DEF Values
<1>5. rate[m] \in Nat /\ rate[n] \in Nat
  BY <1>1, PeersAreMeasured
<1> QED BY <1>2, <1>4, <1>5

\* Nodes that are all alike are their own median.
LEMMA AlikeAreMedian ==
  ASSUME NEW rate, NEW platform, Compared(rate, platform), NEW n \in DOMAIN rate,
         Cardinality(PeersOf(rate, platform, n)) >= 2,
         \A m \in PeersOf(rate, platform, n) : rate[m] = rate[n]
  PROVE  /\ ~IsSlowOutlier(rate, platform, n)
         /\ MedianRateAmongPeers(rate, platform, n) = rate[n]
<1> DEFINE P == PeersOf(rate, platform, n)
           median == MedianRateAmongPeers(rate, platform, n)
<1>1. median \in Values(rate, P)
  BY MedianIsARate
<1>2. median = rate[n] /\ \E m \in P : rate[m] = rate[n]
  BY <1>1 DEF Values
<1>3. rate[n] \in Nat
  BY <1>2, PeersAreMeasured
<1>4. ~(2 * rate[n] < rate[n])
  BY <1>3
<1> QED BY <1>2, <1>4 DEF IsSlowOutlier

\* What a node of another platform measures changes no verdict.
LEMMA OthersDoNotCount ==
  ASSUME NEW rate, NEW platform, NEW n \in DOMAIN rate, NEW m \in DOMAIN rate,
         platform[m] # platform[n], NEW r
  PROVE  IsSlowOutlier([rate EXCEPT ![m] = r], platform, n)
           <=> IsSlowOutlier(rate, platform, n)
<1> DEFINE new == [rate EXCEPT ![m] = r]
           P == PeersOf(rate, platform, n)
<1>1. /\ DOMAIN new = DOMAIN rate /\ n # m
      /\ \A k \in DOMAIN rate : k # m => new[k] = rate[k]
  OBVIOUS
<1> HIDE DEF new
<1>2. PeersOf(new, platform, n) = P /\ \A k \in P : new[k] = rate[k]
  BY <1>1 DEF PeersOf
<1> HIDE DEF P
<1>3. ASSUME NEW i PROVE Place(new, P, i) = Place(rate, P, i)
  <2>1. {new[k] : k \in P} = {rate[k] : k \in P}
    BY <1>2
  <2>2. \A x : {k \in P : new[k] < x} = {k \in P : rate[k] < x}
    BY <1>2
  <2>3. \A x : {k \in P : new[k] <= x} = {k \in P : rate[k] <= x}
    BY <1>2
  <2> QED BY <2>1, <2>2, <2>3 DEF Place
<1>4. MedianRateAmongPeers(new, platform, n) = MedianRateAmongPeers(rate, platform, n)
  BY <1>2, <1>3 DEF MedianRateAmongPeers, P
<1>5. new[n] = rate[n]
  BY <1>1
<1>6. IsSlowOutlier(new, platform, n) <=> IsSlowOutlier(rate, platform, n)
  BY <1>2, <1>4, <1>5 DEF IsSlowOutlier, P
<1> QED BY <1>6 DEF new

\* The comparison is fair whatever the group, the platforms and the rates.
LEMMA Fairness == ComparisonIsFair
<1> SUFFICES ASSUME NEW platform \in [Group -> Platforms],
                    NEW rate \in [Group -> Speeds \cup {NoRate}],
                    NEW n \in Group
             PROVE  LET Slow  == {k \in Group : IsSlowOutlier(rate, platform, k)}
                        peers == PeersOf(rate, platform, n)
                    IN /\ 2 * Cardinality(Slow \cap peers) <= Cardinality(peers)
                       /\ n \in Slow => \E m \in peers : rate[m] > 2 * rate[n]
                       /\ Cardinality(peers) >= 2 /\ (\A m \in peers : rate[m] = rate[n]) =>
                            n \notin Slow /\ MedianRateAmongPeers(rate, platform, n) = rate[n]
                       /\ \A m \in {k \in Group : platform[k] # platform[n]}, r \in Speeds :
                            n \in Slow <=> IsSlowOutlier([rate EXCEPT ![m] = r], platform, n)
  BY DEF ComparisonIsFair
<1> DEFINE Slow  == {k \in Group : IsSlowOutlier(rate, platform, k)}
           peers == PeersOf(rate, platform, n)
<1>1. DOMAIN rate = Group /\ Compared(rate, platform)
  BY PeersAssumption DEF Compared
<1>2. 2 * Cardinality(Slow \cap peers) <= Cardinality(peers)
  BY <1>1, SlowAreFew
<1>3. n \in Slow => \E m \in peers : rate[m] > 2 * rate[n]
  BY <1>1, SlowHasABetter
<1>4. Cardinality(peers) >= 2 /\ (\A m \in peers : rate[m] = rate[n]) =>
        n \notin Slow /\ MedianRateAmongPeers(rate, platform, n) = rate[n]
  BY <1>1, AlikeAreMedian
<1>5. \A m \in {k \in Group : platform[k] # platform[n]}, r \in Speeds :
        n \in Slow <=> IsSlowOutlier([rate EXCEPT ![m] = r], platform, n)
  BY <1>1, OthersDoNotCount
<1> HIDE DEF Slow, peers
<1>6. QED
  BY <1>2, <1>3, <1>4, <1>5 DEF Slow, peers

-----------------------------------------------------------------------------
(* The ring behind the graphs. *)

\* A ring of samples that are numbers or gaps.
Ring(s) == s \in Seq(Nat \cup {Gap}) /\ Len(s) <= HistorySize

\* What clamp is, bounds in order.
LEMMA ClipIs ==
  ASSUME NEW x \in Int, NEW low \in Int, NEW high \in Int, low <= high
  PROVE  Clip(x, low, high) =
           IF x < low THEN low ELSE IF x > high THEN high ELSE x
<1> DEFINE m == Min({x, high})
<1>1. m \in {x, high} /\ m <= x /\ m <= high
  BY MinOfTwo
<1> HIDE DEF m
<1>2. Max({low, m}) \in {low, m} /\ Max({low, m}) >= low /\ Max({low, m}) >= m
  <2>1. m \in Int
    BY <1>1
  <2> QED BY <2>1, MaxOfTwo
<1> QED BY <1>1, <1>2 DEF Clip, m

\* The columns earned are the share of the axis, to within half a column.
LEMMA EarnedShare ==
  ASSUME NEW have \in Nat \ {0}, NEW width \in Nat \ {0}, NEW size \in Nat \ {0}, have <= size
  PROVE  LET columns == Earned(have, width, size)
             off == 2 * (size * columns - width * have)
         IN /\ columns \in 1 .. width
            /\ columns = 1 \/ (off <= size /\ off >= -size)
<1> DEFINE a == 2 * width * have + size
           b == 2 * size
           q == a \div b
           wh == width * have
<1>1. /\ a \in Nat /\ b \in Nat \ {0} /\ wh \in Nat
      /\ a = 2 * wh + size
  OBVIOUS
<1>2. wh <= width * size
  OBVIOUS
<1> HIDE DEF a, b
<1>3. q \in Nat /\ q * b <= a /\ a < (q + 1) * b
  BY <1>1, DivBounds
<1> HIDE DEF q, wh
<1>4. Earned(have, width, size) = Clip(q, 1, width)
  BY DEF Earned, q, a, b
<1>5. Clip(q, 1, width) = IF q < 1 THEN 1 ELSE IF q > width THEN width ELSE q
  BY <1>3, ClipIs
<1>6. 2 * (size * q) <= 2 * wh + size /\ 2 * wh + size < 2 * (size * q) + 2 * size
  <2>1. q * b = 2 * (size * q) /\ (q + 1) * b = 2 * (size * q) + 2 * size
    BY <1>3 DEF b
  <2> QED BY <1>1, <1>3, <2>1
<1>7. q <= width
  <2> SUFFICES ASSUME q >= width + 1 PROVE FALSE
    BY <1>3
  <2>1. size * q >= size * (width + 1)
    BY <1>3
  <2>2. size * (width + 1) = width * size + size
    OBVIOUS
  <2>3. size * q \in Nat /\ width * size \in Nat
    BY <1>3
  <2> QED BY <1>1, <1>2, <1>6, <2>1, <2>2, <2>3
<1>8. CASE q < 1
  BY <1>3, <1>4, <1>5, <1>8
<1>9. CASE q >= 1
  <2>1. Earned(have, width, size) = q
    BY <1>3, <1>4, <1>5, <1>7, <1>9
  <2>2. size * q \in Nat
    BY <1>3
  <2>3. 2 * (size * q - wh) <= size /\ 2 * (size * q - wh) >= -size
    BY <1>1, <1>6, <2>2
  <2> QED BY <1>3, <1>7, <1>9, <2>1, <2>3 DEF wh
<1> QED BY <1>3, <1>8, <1>9

\* The first sample of an interval.
LEMMA FirstOf ==
  ASSUME NEW a \in Int, NEW b \in Int, a <= b
  PROVE  Min(a .. b) = a
<1>1. \E x \in a .. b : \A y \in a .. b : x <= y
  <2>1. a \in a .. b /\ \A y \in a .. b : a <= y
    OBVIOUS
  <2> QED BY <2>1
<1>2. Min(a .. b) \in a .. b /\ \A y \in a .. b : Min(a .. b) <= y
  BY <1>1 DEF Min
<1> QED BY <1>2

\* Columns are in order of time.
LEMMA ColumnsInOrder ==
  ASSUME NEW have \in Nat \ {0}, NEW columns \in Nat \ {0}, NEW i \in 1 .. columns - 1
  PROVE  Min(Bucket(i - 1, columns, have)) <= Min(Bucket(i, columns, have))
<1>1. ASSUME NEW j \in 0 .. columns - 1
      PROVE  /\ Min(Bucket(j, columns, have)) = (j * have) \div columns + 1
             /\ (j * have) \div columns \in Nat
  <2>1. PICK start, end \in Nat :
          /\ Bucket(j, columns, have) = start + 1 .. end
          /\ start = (j * have) \div columns
          /\ start < end /\ end <= have
    BY BucketBounds
  <2>2. start + 1 \in Int /\ end \in Int /\ start + 1 <= end
    BY <2>1
  <2> QED BY <2>1, <2>2, FirstOf
<1> DEFINE p == ((i - 1) * have) \div columns
           q == (i * have) \div columns
<1>2. p \in Nat /\ p * columns <= (i - 1) * have
  <2>1. (i - 1) * have \in Nat
    OBVIOUS
  <2> QED BY <2>1, DivBounds
<1>3. q \in Nat /\ i * have < (q + 1) * columns
  <2>1. i * have \in Nat
    OBVIOUS
  <2> QED BY <2>1, DivBounds
<1> HIDE DEF p, q
<1>4. (i - 1) * have <= i * have
  OBVIOUS
<1>5. p * columns < (q + 1) * columns
  BY <1>2, <1>3, <1>4
<1>6. p < q + 1
  BY <1>2, <1>3, <1>5
<1>7. i - 1 \in 0 .. columns - 1 /\ i \in 0 .. columns - 1
  OBVIOUS
<1>8. /\ Min(Bucket(i - 1, columns, have)) = p + 1
      /\ Min(Bucket(i, columns, have)) = q + 1
  BY <1>1, <1>7 DEF p, q
<1> QED BY <1>2, <1>3, <1>6, <1>8

\* The first conjunct of AxisIsTime, for every width there is.
LEMMA AxisOf ==
  ASSUME NEW have \in Nat \ {0}, have <= HistorySize, NEW width \in Nat \ {0}
  PROVE  LET columns == Earned(have, width, HistorySize)
             Behind(i) == Bucket(i, columns, have)
             off == 2 * (HistorySize * columns - width * have)
         IN /\ columns = 1 \/ (off <= HistorySize /\ off >= -HistorySize)
            /\ UNION {Behind(i) : i \in 0 .. columns - 1} = 1 .. have
            /\ have \in Behind(columns - 1)
            /\ \A i \in 1 .. columns - 1 : Min(Behind(i - 1)) <= Min(Behind(i))
<1> DEFINE columns == Earned(have, width, HistorySize)
<1>1. /\ columns \in 1 .. width
      /\ columns = 1 \/ (/\ 2 * (HistorySize * columns - width * have) <= HistorySize
                         /\ 2 * (HistorySize * columns - width * have) >= -HistorySize)
  <2>1. HistorySize \in Nat \ {0}
    BY SizesAssumption
  <2> QED BY <2>1, EarnedShare
<1> HIDE DEF columns
<1>2. columns \in Nat \ {0}
  BY <1>1
<1>3. /\ UNION {Bucket(i, columns, have) : i \in 0 .. columns - 1} = 1 .. have
      /\ have \in Bucket(columns - 1, columns, have)
  BY <1>2, EverySampleIsDrawn
<1>4. \A i \in 1 .. columns - 1 : Min(Bucket(i - 1, columns, have)) <= Min(Bucket(i, columns, have))
  BY <1>2, ColumnsInOrder
<1> QED BY <1>1, <1>3, <1>4 DEF columns

-----------------------------------------------------------------------------
(* What a column shows. *)

\* A mean is of naturals, and of something exactly where something was measured.
LEMMA MeanOf ==
  ASSUME NEW s, Ring(s), NEW B \in SUBSET (1 .. Len(s))
  PROVE  /\ Mean(s, B).sum \in Nat /\ Mean(s, B).n \in Nat
         /\ \A k \in B : s[k] # Gap => Mean(s, B).n > 0 /\ Mean(s, B).sum >= s[k]
<1> DEFINE M == {k \in B : s[k] # Gap}
           n == Len(s)
<1>1. n \in Nat /\ \A k \in 1 .. n : s[k] \in Nat \cup {Gap}
  BY DEF Ring
<1>2. B \in SUBSET (1 .. n)
  OBVIOUS
<1> HIDE DEF n
<1>3. IsFiniteSet(M) /\ \A k \in M : s[k] \in Nat
  <2>1. M \in SUBSET (1 .. n)
    BY <1>2
  <2>3. IsFiniteSet(1 .. n)
    BY <1>1, FS_Interval
  <2>2. IsFiniteSet(M)
    BY <2>1, <2>3, FS_Subset
  <2> QED BY <1>1, <1>2, <2>2
<1>4. Mean(s, B) = [sum |-> SumFunctionOnSet(s, M), n |-> Cardinality(M)]
  BY DEF Mean, Total
<1>5. \A k \in B : s[k] # Gap => k \in M
  OBVIOUS
<1> HIDE DEF M
<1>6. SumFunctionOnSet(s, M) \in Nat /\ Cardinality(M) \in Nat
  BY <1>3, SumNat, FS_CardinalityType
<1>7. ASSUME NEW k \in B, s[k] # Gap
      PROVE  Cardinality(M) > 0 /\ SumFunctionOnSet(s, M) >= s[k]
  <2>1. k \in M /\ s[k] \in Nat
    BY <1>3, <1>5, <1>7
  <2>2. Cardinality(M) # 0
    BY <1>3, <2>1, FS_EmptySet
  <2>3. SumFunctionOnSet(s, M) = s[k] + SumFunctionOnSet(s, M \ {k})
    <3>1. \A x \in M : s[x] \in Int
      BY <1>3
    <3> QED BY <1>3, <2>1, <3>1, SumRemove
  <2>4. SumFunctionOnSet(s, M \ {k}) \in Nat
    <3>1. IsFiniteSet(M \ {k})
      BY <1>3, FS_RemoveElement
    <3> QED BY <1>3, <3>1, SumNat
  <2> QED BY <1>6, <2>1, <2>2, <2>3, <2>4
<1> QED BY <1>4, <1>6, <1>7

\* A column has dots where something was measured, and reaches the top where it is
\* full to within half a dot.
LEMMA LevelOf ==
  ASSUME NEW mean, mean.sum \in Nat, mean.n \in Nat, NEW max \in Nat \ {0}, NEW dots \in Nat \ {0}
  PROVE  /\ Level(mean, max, dots) \in 0 .. dots
         /\ Level(mean, max, dots) = 0 <=> mean.n = 0
         /\ mean.n > 0 /\ dots > 1 =>
              (Level(mean, max, dots) = dots
                 <=> 2 * dots * (mean.n * max - mean.sum) <= mean.n * max)
<1> DEFINE full == mean.n * max
           m == Min({mean.sum, full})
           a == 2 * m * dots + full
           b == 2 * full
           q == a \div b
<1>1. CASE mean.n = 0
  BY <1>1 DEF Level
<1>2. CASE mean.n > 0
  <2>1. full \in Nat \ {0}
    BY <1>2
  <2>2. Level(mean, max, dots) = Clip(q, 1, dots)
    BY <1>2 DEF Level
  <2> HIDE DEF full
  <2>3. m \in Nat /\ m <= full /\ m <= mean.sum /\ m \in {mean.sum, full}
    <3>1. mean.sum \in Int /\ full \in Int
      BY <2>1
    <3>2. m \in {mean.sum, full} /\ m <= full /\ m <= mean.sum
      BY <3>1, MinOfTwo
    <3> QED BY <2>1, <3>2
  <2> HIDE DEF m
  <2>4. m * dots \in Nat /\ a = 2 * (m * dots) + full /\ a \in Nat /\ b \in Nat \ {0}
    BY <2>1, <2>3
  <2> HIDE DEF a
  <2>5. q \in Nat /\ q * b <= a /\ a < (q + 1) * b
    <3> HIDE DEF b
    <3> QED BY <2>4, DivBounds
  <2> HIDE DEF q
  <2>6. Clip(q, 1, dots) = IF q < 1 THEN 1 ELSE IF q > dots THEN dots ELSE q
    BY <2>5, ClipIs
  <2>7. q * b = 2 * (full * q) /\ (q + 1) * b = 2 * (full * q) + 2 * full /\ full * q \in Nat
    BY <2>1, <2>5
  <2> HIDE DEF b
  <2>8. q >= dots <=> 2 * (full * dots) <= a
    <3>1. full * dots \in Nat
      BY <2>1
    <3>2. ASSUME q >= dots PROVE 2 * (full * dots) <= a
      <4>1. full * q >= full * dots
        BY <2>1, <2>5, <3>2
      <4> QED BY <2>4, <2>5, <2>7, <3>1, <4>1
    <3>3. ASSUME q < dots PROVE ~(2 * (full * dots) <= a)
      <4>1. full * (q + 1) <= full * dots
        BY <2>1, <2>5, <3>3
      <4>2. full * (q + 1) = full * q + full
        BY <2>1, <2>5
      <4> QED BY <2>1, <2>4, <2>5, <2>7, <3>1, <4>1, <4>2
    <3> QED BY <2>5, <3>2, <3>3
  <2>9. 2 * (full * dots) <= a <=> 2 * dots * (full - mean.sum) <= full
    <3>1. full * dots \in Nat /\ 2 * dots * (full - m) = 2 * (full * dots) - 2 * (m * dots)
      BY <2>1, <2>3
    <3>2. 2 * (full * dots) <= a <=> 2 * dots * (full - m) <= full
      BY <2>1, <2>4, <3>1
    <3>3. CASE m = mean.sum
      BY <3>2, <3>3
    <3>4. CASE m = full /\ full < mean.sum
      <4>1. 2 * dots * (full - m) = 0
        BY <2>1, <3>4
      <4>2. full - mean.sum < 0 /\ full - mean.sum \in Int
        BY <2>1, <3>4
      <4>3. 2 * dots * (full - mean.sum) <= 0
        BY <4>2
      <4>4. 2 * dots * (full - mean.sum) \in Int
        BY <4>2
      <4> QED BY <2>1, <3>2, <4>1, <4>3, <4>4
    <3> QED BY <2>1, <2>3, <3>3, <3>4
  <2>10. Level(mean, max, dots) = dots /\ dots > 1 <=> q >= dots /\ dots > 1
    BY <2>2, <2>5, <2>6
  <2> QED BY <1>2, <2>2, <2>5, <2>6, <2>8, <2>9, <2>10 DEF full
<1> QED BY <1>1, <1>2

\* The ground is drawn under what was measured, the top over what is full.
THEOREM GapsAreGaps ==
  ASSUME NEW s, Ring(s), NEW width \in Nat \ {0}, NEW rows \in Nat \ {0}
  PROVE  LET values  == Stretched(s, CELL_COLS * width, HistorySize)
             picture == Area(values, 100, rows)
             dots    == rows * CELL_ROWS
         IN /\ {x \in DOMAIN values : <<x, dots - 1>> \in picture}
                 = {x \in DOMAIN values : values[x].n > 0}
            /\ \A x \in DOMAIN values :
                 values[x].n = 1 =>
                   (<<x, 0>> \in picture <=> 2 * dots * (100 - values[x].sum) <= 100)
<1> DEFINE w       == CELL_COLS * width
           values  == Stretched(s, w, HistorySize)
           picture == Area(values, 100, rows)
           dots    == rows * CELL_ROWS
           lev(x)  == Level(values[x], 100, dots)
<1>1. dots \in Nat \ {0} /\ dots > 1 /\ w \in Nat \ {0}
  BY DEF CELL_ROWS, CELL_COLS
<1> HIDE DEF w
<1>2. DOMAIN values = 1 .. w
  BY DEF Stretched
<1>3. ASSUME NEW x \in 1 .. w PROVE values[x].sum \in Nat /\ values[x].n \in Nat
  <2> DEFINE have == Len(s)
             columns == Earned(have, w, HistorySize)
             blank == w - columns
             B == IF s = <<>> \/ x <= blank THEN {} ELSE Bucket(x - blank - 1, columns, have)
  <2>1. values[x] = Mean(s, B)
    BY DEF Stretched
  <2>2. B \in SUBSET (1 .. have)
    <3>1. CASE s = <<>> \/ x <= blank
      BY <3>1
    <3>2. CASE ~(s = <<>> \/ x <= blank)
      <4>1. have \in Nat \ {0} /\ have <= HistorySize /\ HistorySize \in Nat \ {0}
        BY <3>2, SizesAssumption DEF Ring
      <4> HIDE DEF have
      <4>2. columns \in 1 .. w
        BY <1>1, <4>1, EarnedShare
      <4> HIDE DEF columns
      <4> DEFINE i == x - blank - 1
      <4>3. i \in 0 .. columns - 1 /\ columns \in Nat \ {0}
        BY <1>1, <3>2, <4>2
      <4> HIDE DEF i
      <4>4. Bucket(i, columns, have) \in SUBSET (1 .. have)
        <5>1. UNION {Bucket(j, columns, have) : j \in 0 .. columns - 1} = 1 .. have
          BY <4>1, <4>3, EverySampleIsDrawn
        <5> QED BY <4>3, <5>1
      <4> QED BY <3>2, <4>4 DEF i
    <3> QED BY <3>1, <3>2
  <2> HIDE DEF B
  <2> QED BY <2>1, <2>2, MeanOf
<1> HIDE DEF values
<1>4. ASSUME NEW x \in 1 .. w
      PROVE  /\ lev(x) \in 0 .. dots
             /\ lev(x) = 0 <=> values[x].n = 0
             /\ values[x].n > 0 => (lev(x) = dots
                  <=> 2 * dots * (values[x].n * 100 - values[x].sum) <= values[x].n * 100)
  BY <1>1, <1>3, LevelOf
<1>5. ASSUME NEW x \in 1 .. w, NEW y \in Int
      PROVE  <<x, y>> \in picture <=> y \in dots - lev(x) .. dots - 1
  BY <1>2 DEF Area
<1> HIDE DEF dots, picture
<1>6. \A x \in 1 .. w : <<x, dots - 1>> \in picture <=> values[x].n > 0
  <2>1. TAKE x \in 1 .. w
  <2>2. dots - 1 \in Int
    BY <1>1
  <2>3. <<x, dots - 1>> \in picture <=> dots - 1 \in dots - lev(x) .. dots - 1
    BY <1>5, <2>2
  <2>4. dots - 1 \in dots - lev(x) .. dots - 1 <=> lev(x) > 0
    BY <1>1, <1>4
  <2>5. values[x].n \in Nat
    BY <1>3
  <2> QED BY <1>4, <2>3, <2>4, <2>5
<1>7. \A x \in 1 .. w : values[x].n = 1 =>
        (<<x, 0>> \in picture <=> 2 * dots * (100 - values[x].sum) <= 100)
  <2>1. TAKE x \in 1 .. w
  <2>2. HAVE values[x].n = 1
  <2>3. <<x, 0>> \in picture <=> 0 \in dots - lev(x) .. dots - 1
    BY <1>5
  <2>4. 0 \in dots - lev(x) .. dots - 1 <=> lev(x) = dots
    BY <1>1, <1>4
  <2>5. values[x].n > 0 /\ values[x].n * 100 = 100
    BY <2>2
  <2>6. lev(x) = dots <=> 2 * dots * (values[x].n * 100 - values[x].sum) <= values[x].n * 100
    BY <1>4, <2>5
  <2> QED BY <2>3, <2>4, <2>5, <2>6
<1> QED BY <1>2, <1>6, <1>7 DEF values, picture, dots, w

\* GapsStayGaps is that for the widths and heights it names.
LEMMA GapsHold == ASSUME Ring(slots) PROVE GapsStayGaps
<1>1. \A width \in Widths : width \in Nat \ {0}
  BY SizesAssumption
<1> QED BY <1>1, GapsAreGaps DEF GapsStayGaps

-----------------------------------------------------------------------------
(* The trend of a series played backwards. *)

\* The positions of A, counted from the other end of 1 .. n.
Flip(A, n) == {k \in 1 .. n : n + 1 - k \in A}

\* Played backwards: the sample at k is the one as far from the other end.
Reversed(s) == [k \in DOMAIN s |-> s[Len(s) + 1 - k]]

\* Counting positions from the other end counts as many.
LEMMA FlipCounts ==
  ASSUME NEW n \in Nat, NEW A \in SUBSET (1 .. n)
  PROVE  /\ IsFiniteSet(A) /\ IsFiniteSet(Flip(A, n))
         /\ Cardinality(Flip(A, n)) = Cardinality(A)
<1> DEFINE b == [k \in A |-> n + 1 - k]
<1>1. IsFiniteSet(A)
  <2>1. IsFiniteSet(1 .. n)
    BY FS_Interval
  <2> QED BY <2>1, FS_Subset
<1>2. b \in Bijection(A, Flip(A, n))
  <2>1. \A k \in A : n + 1 - k \in Flip(A, n)
    BY DEF Flip
  <2>2. \A k \in Flip(A, n) : n + 1 - k \in A /\ b[n + 1 - k] = k
    BY DEF Flip
  <2>3. \A j, k \in A : b[j] = b[k] => j = k
    OBVIOUS
  <2>4. b \in [A -> Flip(A, n)]
    BY <2>1
  <2>5. \A k \in Flip(A, n) : \E j \in A : b[j] = k
    BY <2>2
  <2> HIDE DEF b
  <2> QED BY <2>3, <2>4, <2>5 DEF Bijection, Injection, Surjection, IsInjective
<1>3. ExistsBijection(A, Flip(A, n))
  BY <1>2 DEF ExistsBijection
<1> QED BY <1>1, <1>3, FS_Bijection

\* What is summed over positions can be summed over the positions from the other end.
LEMMA FlipSums ==
  ASSUME NEW n \in Nat, NEW A \in SUBSET (1 .. n), NEW s, NEW t,
         \A k \in A : s[k] \in Int,
         \A k \in 1 .. n : t[k] = s[n + 1 - k]
  PROVE  SumFunctionOnSet(t, Flip(A, n)) = SumFunctionOnSet(s, A)
<1> DEFINE F == Flip(A, n)
           b == [k \in F |-> n + 1 - k]
<1>1. b \in [F -> A]
  BY DEF Flip
<1>5. \A x \in F : t[x] = s[b[x]]
  BY DEF Flip
<1>6. \A z \in A : s[z] \in Int
  OBVIOUS
<1>2. \A x, y \in F : b[x] = b[y] => x = y
  BY DEF Flip
<1>3. \A z \in A : \E x \in F : b[x] = z
  <2>1. TAKE z \in A
  <2>2. n + 1 - z \in F /\ b[n + 1 - z] = z
    BY DEF Flip
  <2> QED BY <2>2
<1>4. IsFiniteSet(F)
  BY FlipCounts
<1> DEFINE D == A
<1> HIDE DEF F, b
<1>7. /\ b \in [F -> D]
      /\ \A z \in D : \E x \in F : b[x] = z
      /\ \A z \in D : s[z] \in Int
  BY <1>1, <1>3, <1>6
<1> HIDE DEF D
<1>8. SumFunctionOnSet(t, F) = SumFunctionOnSet(s, D)
  BY ONLY <1>2, <1>4, <1>5, <1>7, SumRenamed
<1>9. QED
  BY <1>8 DEF F, D

\* The oldest from one end are the newest from the other.
LEMMA FlipEnds ==
  ASSUME NEW n \in Nat, NEW A \in SUBSET (1 .. n), NEW c
  PROVE  /\ Oldest(Flip(A, n), c) = Flip(Newest(A, c), n)
         /\ Newest(Flip(A, n), c) = Flip(Oldest(A, c), n)
<1> DEFINE F == Flip(A, n)
<1>1. F \in SUBSET (1 .. n) /\ \A k \in 1 .. n : k \in F <=> n + 1 - k \in A
  BY DEF Flip
<1>2. ASSUME NEW k \in F
      PROVE  /\ Cardinality({j \in F : j < k}) = Cardinality({j \in A : j > n + 1 - k})
             /\ Cardinality({j \in F : j > k}) = Cardinality({j \in A : j < n + 1 - k})
  <2> DEFINE later   == {j \in A : j > n + 1 - k}
             earlier == {j \in A : j < n + 1 - k}
  <2>1. {j \in F : j < k} = Flip(later, n)
    BY <1>1 DEF Flip
  <2>2. {j \in F : j > k} = Flip(earlier, n)
    BY <1>1 DEF Flip
  <2>3. later \in SUBSET (1 .. n) /\ earlier \in SUBSET (1 .. n)
    OBVIOUS
  <2> HIDE DEF later, earlier, F
  <2>4. Cardinality(Flip(later, n)) = Cardinality(later)
    BY <2>3, FlipCounts
  <2>5. Cardinality(Flip(earlier, n)) = Cardinality(earlier)
    BY <2>3, FlipCounts
  <2> QED BY <2>1, <2>2, <2>4, <2>5 DEF later, earlier
<1>3. ASSUME NEW k \in 1 .. n
      PROVE  /\ k \in Oldest(F, c) <=> k \in Flip(Newest(A, c), n)
             /\ k \in Newest(F, c) <=> k \in Flip(Oldest(A, c), n)
  <2>1. CASE k \notin F
    <3>1. n + 1 - k \notin A
      BY <1>1, <2>1
    <3> HIDE DEF F
    <3> QED BY <2>1, <3>1 DEF Oldest, Newest, Flip
  <2>2. CASE k \in F
    <3>1. n + 1 - k \in A
      BY <1>1, <2>2
    <3>2. /\ Cardinality({j \in F : j < k}) = Cardinality({j \in A : j > n + 1 - k})
          /\ Cardinality({j \in F : j > k}) = Cardinality({j \in A : j < n + 1 - k})
      BY <1>2, <2>2
    <3> HIDE DEF F
    <3>3. k \in Oldest(F, c) <=> Cardinality({j \in A : j > n + 1 - k}) < c
      BY <2>2, <3>2 DEF Oldest
    <3>4. k \in Newest(F, c) <=> Cardinality({j \in A : j < n + 1 - k}) < c
      BY <2>2, <3>2 DEF Newest
    <3>5. k \in Flip(Newest(A, c), n) <=> Cardinality({j \in A : j > n + 1 - k}) < c
      BY <3>1 DEF Flip, Newest
    <3>6. k \in Flip(Oldest(A, c), n) <=> Cardinality({j \in A : j < n + 1 - k}) < c
      BY <3>1 DEF Flip, Oldest
    <3> QED BY <3>3, <3>4, <3>5, <3>6
  <2> QED BY <2>1, <2>2
<1>4. Oldest(F, c) \in SUBSET (1 .. n) /\ Newest(F, c) \in SUBSET (1 .. n)
  BY <1>1 DEF Oldest, Newest
<1>5. Flip(Newest(A, c), n) \in SUBSET (1 .. n) /\ Flip(Oldest(A, c), n) \in SUBSET (1 .. n)
  BY DEF Flip
<1> HIDE DEF F
<1>6. Oldest(F, c) = Flip(Newest(A, c), n)
  BY <1>3, <1>4, <1>5
<1>7. Newest(F, c) = Flip(Oldest(A, c), n)
  BY <1>3, <1>4, <1>5
<1> QED BY <1>6, <1>7 DEF F

\* A series played backwards tells the opposite trend.
LEMMA TrendReverses ==
  ASSUME NEW s, Ring(s)
  PROVE  /\ Trend(s) = "Rising" <=> Trend(Reversed(s)) = "Falling"
         /\ Trend(s) = "Steady" <=> Trend(Reversed(s)) = "Steady"
<1> DEFINE n == Len(s)
           t == Reversed(s)
           A == Measured(s)
           third == Cardinality(A) \div 3
           old == SumFunctionOnSet(s, Oldest(A, third))
           new == SumFunctionOnSet(s, Newest(A, third))
<1>1. n \in Nat /\ DOMAIN s = 1 .. n /\ \A k \in 1 .. n : s[k] \in Nat \cup {Gap}
  BY DEF Ring
<1>2. DOMAIN t = 1 .. n /\ \A k \in 1 .. n : t[k] = s[n + 1 - k]
  BY <1>1 DEF Reversed
<1> HIDE DEF n, t
<1>3. A \in SUBSET (1 .. n) /\ \A k \in A : s[k] \in Int
  BY <1>1 DEF Measured
<1>4. Measured(t) = Flip(A, n)
  <2>1. \A k \in 1 .. n : n + 1 - k \in 1 .. n
    BY <1>1
  <2> QED BY <1>1, <1>2, <2>1 DEF Measured, Flip
<1> HIDE DEF A
<1>5. IsFiniteSet(A) /\ Cardinality(Measured(t)) = Cardinality(A) /\ Cardinality(A) \in Nat
  BY <1>1, <1>3, <1>4, FlipCounts, FS_CardinalityType
<1>6. third \in Nat /\ (Cardinality(A) >= TrendMin => third >= 1)
  <2>1. TrendMin \in Nat /\ TrendMin >= 3
    BY TrendAssumption
  <2> QED BY <1>5, <2>1
<1> HIDE DEF third
<1>7. /\ Oldest(A, third) \in SUBSET (1 .. n) /\ \A k \in Oldest(A, third) : s[k] \in Int
      /\ Newest(A, third) \in SUBSET (1 .. n) /\ \A k \in Newest(A, third) : s[k] \in Int
  BY <1>3 DEF Oldest, Newest
<1>8. old \in Int /\ new \in Int
  <2>1. IsFiniteSet(Oldest(A, third)) /\ IsFiniteSet(Newest(A, third))
    BY <1>1, <1>7, FlipCounts
  <2> QED BY <1>7, <2>1, SumType
<1>9. SumFunctionOnSet(t, Oldest(Measured(t), third)) = new
  <2>1. Oldest(Measured(t), third) = Flip(Newest(A, third), n)
    BY <1>1, <1>3, <1>4, FlipEnds
  <2>2. SumFunctionOnSet(t, Flip(Newest(A, third), n)) = new
    <3> DEFINE N == Newest(A, third)
    <3>1. N \in SUBSET (1 .. n) /\ \A k \in N : s[k] \in Int
      BY <1>7
    <3> HIDE DEF N
    <3>2. SumFunctionOnSet(t, Flip(N, n)) = SumFunctionOnSet(s, N)
      BY <1>1, <1>2, <3>1, FlipSums
    <3> QED BY <3>2 DEF N
  <2> QED BY <2>1, <2>2
<1>10. SumFunctionOnSet(t, Newest(Measured(t), third)) = old
  <2>1. Newest(Measured(t), third) = Flip(Oldest(A, third), n)
    BY <1>1, <1>3, <1>4, FlipEnds
  <2>2. SumFunctionOnSet(t, Flip(Oldest(A, third), n)) = old
    <3> DEFINE N == Oldest(A, third)
    <3>1. N \in SUBSET (1 .. n) /\ \A k \in N : s[k] \in Int
      BY <1>7
    <3> HIDE DEF N
    <3>2. SumFunctionOnSet(t, Flip(N, n)) = SumFunctionOnSet(s, N)
      BY <1>1, <1>2, <3>1, FlipSums
    <3> QED BY <3>2 DEF N
  <2> QED BY <2>1, <2>2
<1> HIDE DEF old, new
<1> DEFINE Says(c, o, w) ==
             IF c < TrendMin \/ 2 * (IF w > o THEN w - o ELSE o - w) < MinDelta * third THEN "Steady"
             ELSE IF w > o THEN "Rising" ELSE "Falling"
<1>11. Trend(s) = Says(Cardinality(A), old, new)
  BY DEF Trend, Total, A, third, old, new
<1>12. Trend(t) = Says(Cardinality(A), new, old)
  <2>1. third = Cardinality(Measured(t)) \div 3
    BY <1>5 DEF third
  <2> QED BY <1>5, <1>9, <1>10, <2>1 DEF Trend, Total
<1>13. Cardinality(A) >= TrendMin /\ old = new =>
         Says(Cardinality(A), old, new) = "Steady" /\ Says(Cardinality(A), new, old) = "Steady"
  <2>1. MinDelta \in Nat \ {0}
    BY TrendAssumption
  <2>2. third >= 1 => MinDelta * third > 0
    BY <1>6, <2>1
  <2>3. old = new => 2 * (IF new > old THEN new - old ELSE old - new) = 0
    BY <1>8
  <2> QED BY <1>6, <2>2, <2>3
<1>14. TrendMin \in Nat
  BY TrendAssumption
<1>15. CASE Cardinality(A) < TrendMin
  BY <1>11, <1>12, <1>15 DEF t
<1>16. CASE Cardinality(A) >= TrendMin /\ old = new
  BY <1>11, <1>12, <1>13, <1>16 DEF t
<1>17. CASE Cardinality(A) >= TrendMin /\ old # new
  <2>1. (IF new > old THEN new - old ELSE old - new) = (IF old > new THEN old - new ELSE new - old)
    BY <1>8, <1>17
  <2>2. ~(Cardinality(A) < TrendMin)
    BY <1>5, <1>14, <1>17
  <2>3. new > old <=> ~(old > new)
    BY <1>8, <1>17
  <2> QED BY <1>11, <1>12, <2>1, <2>2, <2>3 DEF t
<1> QED BY <1>5, <1>14, <1>15, <1>16, <1>17

-----------------------------------------------------------------------------
(* The buckets of the sparklines. *)

\* Whichever way a product rounds, floors are not above it and ceilings not below.
LEMMA FloorsAndCeils ==
  ASSUME NEW n \in Nat, NEW d \in Nat \ {0}
  PROVE  /\ \A f \in Floors(n, d) : f \in Nat /\ f * d <= n
         /\ \A c \in Ceils(n, d) : c \in Nat /\ c * d >= n
<1> DEFINE q == n \div d
<1>1. q \in Nat /\ q * d <= n /\ n < (q + 1) * d
  BY DivBounds
<1>2. n % d = 0 /\ n > 0 => q >= 1
  <2>1. n % d = n - d * (n \div d)
    OBVIOUS
  <2> SUFFICES ASSUME n % d = 0, n > 0, q < 1 PROVE FALSE
    BY <1>1
  <2>2. q = 0
    BY <1>1
  <2> QED BY <2>1, <2>2
<1>3. n % d = 0 => n = q * d
  <2>1. n % d = n - d * (n \div d)
    OBVIOUS
  <2>2. d * q = q * d
    BY <1>1
  <2> QED BY <2>1, <2>2
<1>4. (q - 1) * d = q * d - d /\ (q + 1) * d = q * d + d /\ q * d \in Nat
  BY <1>1
<1>5. /\ Floors(n, d) = IF n % d = 0 /\ n > 0 THEN {q, q - 1} ELSE {q}
      /\ Ceils(n, d) = IF n % d = 0 THEN {q, q + 1} ELSE {q + 1}
  BY DEF Floors, Ceils
<1> HIDE DEF q
<1>6. ASSUME NEW f \in Floors(n, d) PROVE f \in Nat /\ f * d <= n
  <2>1. f = q \/ (f = q - 1 /\ q >= 1)
    BY <1>2, <1>5
  <2>2. CASE f = q
    BY <1>1, <2>2
  <2>3. CASE f = q - 1 /\ q >= 1
    BY <1>1, <1>4, <2>3
  <2> QED BY <2>1, <2>2, <2>3
<1>7. ASSUME NEW c \in Ceils(n, d) PROVE c \in Nat /\ c * d >= n
  <2>1. c = q + 1 \/ (c = q /\ n = q * d)
    BY <1>3, <1>5
  <2>2. CASE c = q + 1
    BY <1>1, <2>2
  <2>3. CASE c = q /\ n = q * d
    BY <1>1, <2>3
  <2> QED BY <2>1, <2>2, <2>3
<1> QED BY <1>6, <1>7

\* Whichever way the products round, a bucket begins in time and ends in time.
LEMMA WindowBucketBounds ==
  ASSUME NEW have \in Nat \ {0}, NEW width \in Nat \ {0}, NEW i \in 0 .. width - 1,
         NEW b \in WindowBuckets(i, width, have)
  PROVE  \E start, stop \in Nat :
           /\ b = start + 1 .. stop
           /\ start < stop /\ stop <= have
           /\ start * width <= i * have
           /\ stop = have \/ stop * width >= (i + 1) * have
<1>1. i * have \in Nat /\ (i + 1) * have \in Nat
  OBVIOUS
<1>2. PICK start \in Floors(i * have, width), end \in Ceils((i + 1) * have, width) :
        b = Taken(start, end, have)
  BY DEF WindowBuckets
<1>3. start \in Nat /\ start * width <= i * have
  BY <1>1, FloorsAndCeils
<1>4. end \in Nat /\ end * width >= (i + 1) * have
  BY <1>1, FloorsAndCeils
<1>5. start < have
  <2>1. i * have < width * have
    OBVIOUS
  <2>2. start * width < have * width
    BY <1>3, <2>1
  <2> QED BY <1>3, <2>2
<1> DEFINE first == Min({end, have})
           long  == Max({first, start + 1})
           stop  == Min({long, have})
<1>6. first \in {end, have} /\ first <= end /\ first <= have
  <2>1. end \in Int /\ have \in Int
    BY <1>4
  <2> QED BY <2>1, MinOfTwo
<1> HIDE DEF first
<1>7. long \in {first, start + 1} /\ long >= first /\ long >= start + 1
  <2>1. first \in Int /\ start + 1 \in Int
    BY <1>3, <1>4, <1>6
  <2> QED BY <2>1, MaxOfTwo
<1> HIDE DEF long
<1>8. stop \in {long, have} /\ stop <= long /\ stop <= have
  <2>1. long \in Int /\ have \in Int
    BY <1>3, <1>4, <1>6, <1>7
  <2> QED BY <2>1, MinOfTwo
<1> HIDE DEF stop
<1>9. stop \in Nat /\ start < stop
  BY <1>3, <1>4, <1>5, <1>6, <1>7, <1>8
<1>10. stop = have \/ stop >= end
  BY <1>3, <1>4, <1>6, <1>7, <1>8
<1>11. stop >= end => stop * width >= (i + 1) * have
  <2> SUFFICES ASSUME stop >= end PROVE stop * width >= (i + 1) * have
    OBVIOUS
  <2>1. stop * width >= end * width
    BY <1>4, <1>9
  <2> QED BY <1>1, <1>4, <1>9, <2>1
<1>12. b = start + 1 .. stop
  BY <1>2 DEF Taken, stop, long, first
<1> QED BY <1>3, <1>8, <1>9, <1>10, <1>11, <1>12

\* Every sample has a column that shows it whichever way the products round; no
\* column shows a sample there is not, and none is empty once they are all used.
LEMMA WindowCovers ==
  ASSUME NEW have \in Nat \ {0}, NEW width \in Nat \ {0}
  PROVE  /\ \A c \in 1 .. width : \A b \in WindowColumns(c, width, have) : b \in SUBSET (1 .. have)
         /\ have >= width => \A c \in 1 .. width : {} \notin WindowColumns(c, width, have)
         /\ \A c \in 1 .. width : WindowColumns(c, width, have) # {}
         /\ \A k \in 1 .. have : \E c \in 1 .. width :
              \A b \in WindowColumns(c, width, have) : k \in b
<1>1. CASE have < width
  <2>1. \A c \in 1 .. width :
          WindowColumns(c, width, have)
            = IF c <= width - have THEN {{}} ELSE {{c - (width - have)}}
    BY <1>1 DEF WindowColumns
  <2>2. \A c \in 1 .. width : \A b \in WindowColumns(c, width, have) : b \in SUBSET (1 .. have)
    BY <2>1
  <2>3. \A k \in 1 .. have : \E c \in 1 .. width :
          \A b \in WindowColumns(c, width, have) : k \in b
    <3>1. TAKE k \in 1 .. have
    <3> DEFINE c == k + (width - have)
    <3>2. c \in 1 .. width /\ ~(c <= width - have) /\ c - (width - have) = k
      BY <1>1
    <3> HIDE DEF c
    <3> QED BY <2>1, <3>2
  <2>4. ~(have >= width)
    BY <1>1
  <2>5. \A c \in 1 .. width : WindowColumns(c, width, have) # {}
    BY <2>1
  <2> QED BY <2>2, <2>3, <2>4, <2>5
<1>2. CASE have >= width
  <2>1. \A c \in 1 .. width : WindowColumns(c, width, have) = WindowBuckets(c - 1, width, have)
    BY <1>2 DEF WindowColumns
  <2>2. ASSUME NEW c \in 1 .. width, NEW b \in WindowColumns(c, width, have)
        PROVE  b \in SUBSET (1 .. have) /\ b # {}
    <3> DEFINE i == c - 1
    <3>1. i \in 0 .. width - 1 /\ b \in WindowBuckets(i, width, have)
      BY <2>1
    <3> HIDE DEF i
    <3>2. PICK start, stop \in Nat :
            /\ b = start + 1 .. stop
            /\ start < stop /\ stop <= have
            /\ start * width <= i * have
            /\ stop = have \/ stop * width >= (i + 1) * have
      BY <3>1, WindowBucketBounds
    <3>3. start + 1 \in b /\ b \in SUBSET (1 .. have)
      BY <3>2
    <3> QED BY <3>3
  <2>3. ASSUME NEW k \in 1 .. have
        PROVE  \E c \in 1 .. width : \A b \in WindowColumns(c, width, have) : k \in b
    <3> DEFINE z == k * width - 1
               i == z \div have
    <3>1. z \in Nat /\ k * width <= have * width
      OBVIOUS
    <3> HIDE DEF z
    <3>2. i \in Nat /\ i * have <= z /\ z < (i + 1) * have
      BY <3>1, DivBounds
    <3> HIDE DEF i
    <3>3. i * have < k * width /\ k * width <= (i + 1) * have
      BY <3>2 DEF z
    <3>4. i \in 0 .. width - 1
      <4>1. i * have < width * have
        <5>1. have * width = width * have /\ i * have \in Int /\ k * width \in Int /\ have * width \in Int
          BY <3>2
        <5> QED BY <3>1, <3>3, <5>1
      <4> QED BY <3>2, <4>1
    <3>5. ASSUME NEW b \in WindowBuckets(i, width, have) PROVE k \in b
      <4>1. PICK start, stop \in Nat :
              /\ b = start + 1 .. stop
              /\ start < stop /\ stop <= have
              /\ start * width <= i * have
              /\ stop = have \/ stop * width >= (i + 1) * have
        BY <3>4, WindowBucketBounds
      <4>2. start < k
        <5>1. start * width < k * width
          BY <3>2, <3>3, <4>1
        <5> QED BY <5>1
      <4>3. stop = have \/ k <= stop
        <5>1. stop * width >= (i + 1) * have => stop * width >= k * width
          <6>1. stop * width \in Int /\ (i + 1) * have \in Int /\ k * width \in Int
            BY <3>2, <4>1
          <6> QED BY <3>3, <6>1
        <5>2. stop * width >= k * width => stop >= k
          OBVIOUS
        <5> QED BY <4>1, <5>1, <5>2
      <4> QED BY <4>1, <4>2, <4>3
    <3>6. i + 1 \in 1 .. width /\ WindowColumns(i + 1, width, have) = WindowBuckets(i, width, have)
      <4>1. i + 1 \in 1 .. width /\ (i + 1) - 1 = i
        BY <3>4
      <4> QED BY <2>1, <4>1
    <3> QED BY <3>5, <3>6
  <2>4. \A c \in 1 .. width : WindowColumns(c, width, have) # {}
    <3>1. \A n, d : Floors(n, d) # {} /\ Ceils(n, d) # {}
      BY DEF Floors, Ceils
    <3>2. \A i : WindowBuckets(i, width, have) # {}
      <4>1. TAKE i
      <4>2. PICK start \in Floors(i * have, width), end \in Ceils((i + 1) * have, width) : TRUE
        BY <3>1
      <4>3. Taken(start, end, have) \in WindowBuckets(i, width, have)
        BY DEF WindowBuckets
      <4> QED BY <4>3
    <3> QED BY <2>1, <3>2
  <2> QED BY <2>2, <2>3, <2>4
<1> QED BY <1>1, <1>2

\* A spike is under a glyph above the one for zero, however wide its bucket.
LEMMA SpikeShows ==
  ASSUME NEW s, Ring(s), NEW B \in SUBSET (1 .. Len(s)), NEW k \in B, s[k] # Gap, s[k] > 0
  PROVE  Glyph(Mean(s, B), Peak(s)) > 1
<1> DEFINE mean == Mean(s, B)
           full == mean.n * Peak(s)
           scaled == (Min({mean.sum, full}) * (SPARKS - 1) + full - 1) \div full
<1>1. mean.sum \in Nat /\ mean.n \in Nat \ {0} /\ mean.sum > 0
  <2>1. s[k] \in Nat
    BY DEF Ring
  <2> QED BY <2>1, MeanOf
<1>2. Peak(s) \in Nat \ {0}
  <2> DEFINE V == {1} \cup {s[j] : j \in Measured(s)}
  <2>1. V \in SUBSET Nat /\ IsFiniteSet(V) /\ V # {}
    <3>1. \A j \in Measured(s) : s[j] \in Nat
      BY DEF Measured, Ring
    <3>2. IsFiniteSet(Measured(s))
      <4>1. IsFiniteSet(1 .. Len(s))
        BY FS_Interval DEF Ring
      <4>2. Measured(s) \in SUBSET (1 .. Len(s))
        BY DEF Measured, Ring
      <4> QED BY <4>1, <4>2, FS_Subset
    <3> DEFINE W == {s[j] : j \in Measured(s)}
               f == [j \in Measured(s) |-> s[j]]
    <3>3. f \in Surjection(Measured(s), W)
      BY DEF Surjection
    <3>4. IsFiniteSet(W)
      BY <3>2, <3>3, FS_Surjection
    <3>5. IsFiniteSet({1})
      BY FS_Singleton
    <3>6. IsFiniteSet({1} \cup W)
      BY <3>4, <3>5, FS_Union
    <3> QED BY <3>1, <3>6
  <2>2. 1 \in V
    OBVIOUS
  <2> HIDE DEF V
  <2>3. \E x \in V : \A y \in V : y <= x
    BY <2>1, GreatestOf
  <2>4. \E x \in V : \A y \in V : x >= y
    BY <2>1, <2>3
  <2>5. Max(V) \in V /\ Max(V) >= 1
    BY <2>2, <2>4 DEF Max
  <2> QED BY <2>1, <2>5 DEF Peak, V
<1> HIDE DEF mean
<1>3. full \in Nat \ {0}
  BY <1>1, <1>2
<1> HIDE DEF full
<1>4. Glyph(mean, Peak(s)) = 1 + Clip(scaled, 1, SPARKS - 1)
  BY <1>1 DEF Glyph, full
<1>5. scaled \in Nat
  <2> DEFINE m == Min({mean.sum, full})
             z == m * (SPARKS - 1) + full - 1
  <2>1. m \in Nat
    <3>1. mean.sum \in Int /\ full \in Int
      BY <1>1, <1>3
    <3>2. m \in {mean.sum, full}
      BY <3>1, MinOfTwo
    <3> QED BY <1>1, <1>3, <3>2
  <2> HIDE DEF m
  <2>2. z \in Nat
    BY <1>3, <2>1 DEF SPARKS
  <2> HIDE DEF z
  <2>3. z \div full \in Nat
    BY <1>3, <2>2, DivBounds
  <2> QED BY <2>3 DEF z, m
<1> HIDE DEF scaled
<1>6. Clip(scaled, 1, SPARKS - 1) \in Int /\ Clip(scaled, 1, SPARKS - 1) >= 1
  <2>1. Clip(scaled, 1, 7) = IF scaled < 1 THEN 1 ELSE IF scaled > 7 THEN 7 ELSE scaled
    BY <1>5, ClipIs
  <2>2. SPARKS - 1 = 7
    BY DEF SPARKS
  <2> QED BY <1>5, <2>1, <2>2
<1> QED BY <1>4, <1>6 DEF mean

\* The sparkline covers the ring, for every ring and width.
LEMMA RingIsCovered == ASSUME Ring(slots) PROVE SparklineCoversHistory
<1> DEFINE have == Len(slots)
<1> SUFFICES ASSUME NEW width \in Widths
             PROVE  LET Certain(c) == {k \in 1 .. have :
                              \A b \in WindowColumns(c, width, have) : k \in b}
                        Glyphs(c) == {Glyph(Mean(slots, b), Peak(slots)) :
                                        b \in WindowColumns(c, width, have)}
                        spikes == {k \in Measured(slots) : slots[k] > 0}
                    IN /\ UNION {Certain(c) : c \in 1 .. width} = 1 .. have
                       /\ have >= width => \A c \in 1 .. width : {} \notin WindowColumns(c, width, have)
                       /\ \A k \in spikes : \E c \in 1 .. width :
                            k \in Certain(c) /\ \A g \in Glyphs(c) : g > 1
  BY DEF SparklineCoversHistory
<1> DEFINE Certain(c) == {k \in 1 .. have : \A b \in WindowColumns(c, width, have) : k \in b}
           Glyphs(c) == {Glyph(Mean(slots, b), Peak(slots)) : b \in WindowColumns(c, width, have)}
           spikes == {k \in Measured(slots) : slots[k] > 0}
<1>1. /\ width \in Nat \ {0} /\ have \in Nat /\ DOMAIN slots = 1 .. have
      /\ \A k \in 1 .. have : slots[k] \in Nat \cup {Gap}
  BY SizesAssumption DEF Ring
<1>2. /\ \A k \in 1 .. have : \E c \in 1 .. width : k \in Certain(c)
      /\ have >= width => \A c \in 1 .. width : {} \notin WindowColumns(c, width, have)
      /\ \A c \in 1 .. width : \A b \in WindowColumns(c, width, have) : b \in SUBSET (1 .. have)
  <2>1. CASE have = 0
    <3>1. ~(have >= width)
      BY <1>1, <2>1
    <3>2. \A c \in 1 .. width : WindowColumns(c, width, have) = {{}}
      BY <1>1, <2>1, <3>1 DEF WindowColumns
    <3> QED BY <2>1, <3>1, <3>2
  <2>2. CASE have # 0
    <3>1. have \in Nat \ {0}
      BY <1>1, <2>2
    <3> HIDE DEF have
    <3> QED BY <1>1, <3>1, WindowCovers
  <2> QED BY <2>1, <2>2
<1>3. ASSUME NEW k \in spikes
      PROVE  \E c \in 1 .. width : k \in Certain(c) /\ \A g \in Glyphs(c) : g > 1
  <2>1. k \in 1 .. have /\ slots[k] # Gap /\ slots[k] > 0
    BY <1>1 DEF Measured
  <2>2. PICK c \in 1 .. width : k \in Certain(c)
    BY <1>2, <2>1
  <2>3. ASSUME NEW b \in WindowColumns(c, width, have) PROVE Glyph(Mean(slots, b), Peak(slots)) > 1
    <3>1. k \in b /\ b \in SUBSET (1 .. have)
      BY <1>2, <2>2
    <3> QED BY <2>1, <3>1, SpikeShows
  <2> QED BY <2>2, <2>3
<1>4. UNION {Certain(c) : c \in 1 .. width} = 1 .. have
  BY <1>2
<1> HIDE DEF have, Certain, Glyphs, spikes
<1> QED BY <1>2, <1>3, <1>4 DEF have, Certain, Glyphs, spikes

\* The axis is time, for every ring and width.
LEMMA RingIsTime == ASSUME Ring(slots) PROVE AxisIsTime
<1> DEFINE have == Len(slots)
           back == [k \in DOMAIN slots |-> slots[have + 1 - k]]
<1>1. have \in Nat /\ have <= HistorySize
  BY DEF Ring
<1>2. \A width \in Widths : width \in Nat \ {0}
  BY SizesAssumption
<1>3. back = Reversed(slots)
  BY DEF Reversed
<1>4. /\ Trend(slots) = "Rising" <=> Trend(back) = "Falling"
      /\ Trend(slots) = "Steady" <=> Trend(back) = "Steady"
  BY <1>3, TrendReverses
<1>5. GapsStayGaps
  BY GapsHold
<1>6. ASSUME have > 0, NEW width \in Widths
      PROVE  LET columns == Earned(have, width, HistorySize)
                 Behind(i) == Bucket(i, columns, have)
                 off == 2 * (HistorySize * columns - width * have)
             IN /\ columns = 1 \/ (off <= HistorySize /\ off >= -HistorySize)
                /\ UNION {Behind(i) : i \in 0 .. columns - 1} = 1 .. have
                /\ have \in Behind(columns - 1)
                /\ \A i \in 1 .. columns - 1 : Min(Behind(i - 1)) <= Min(Behind(i))
  <2>1. have \in Nat \ {0} /\ width \in Nat \ {0}
    BY <1>1, <1>2, <1>6
  <2> HIDE DEF have
  <2> QED BY <1>1, <2>1, AxisOf
<1> QED BY <1>4, <1>5, <1>6 DEF AxisIsTime

-----------------------------------------------------------------------------
(* In every behaviour. *)

\* The invariant behind the figures: the sums are kept, the ring is one, and jobs
\* are counted.
FiguresInv ==
  /\ LastWordInv
  /\ active \in Nat
  /\ Ring(slots)
  /\ SumsKept(throughput)

\* The occupancy of a row is a number or a gap.
LEMMA OccupancyIsASample ==
  ASSUME LastWordInv, active \in Nat
  PROVE  SlotPct \in Nat \cup {Gap}
<1>1. MaxJobs \in Int
  <2>1. said = Unsaid \/ said \in Int
    BY WordsAssumption DEF LastWordInv, MaxJobsWords
  <2>2. stats.maxJobs = Unsaid \/ stats.maxJobs \in Int
    BY <2>1 DEF LastWordInv, CapacityIsLastWord, Parsed, NoRecord
  <2> QED BY <2>2 DEF MaxJobs
<1>2. CASE MaxJobs > 0
  <2> DEFINE a == 100 * active
             q == a \div MaxJobs
  <2>1. a \in Nat /\ MaxJobs \in Nat \ {0}
    BY <1>1, <1>2
  <2> HIDE DEF a
  <2>2. q \in Nat
    BY <2>1, DivBounds
  <2> HIDE DEF q
  <2>3. Min({q, 100}) \in {q, 100}
    BY <2>2, MinOfTwo
  <2>4. SlotPct = Min({q, 100})
    BY <1>2 DEF SlotPct, q, a
  <2> QED BY <2>2, <2>3, <2>4
<1>3. CASE ~(MaxJobs > 0)
  BY <1>3 DEF SlotPct
<1> QED BY <1>2, <1>3

\* A ring that takes a sample is a ring.
LEMMA PushKeepsRing ==
  ASSUME NEW s, Ring(s), NEW v \in Nat \cup {Gap}
  PROVE  Ring(PushSample(s, v, HistorySize))
<1>1. HistorySize \in Nat \ {0} /\ s \in Seq(Nat \cup {Gap}) /\ Len(s) <= HistorySize
  BY SizesAssumption DEF Ring
<1>2. CASE Len(s) = HistorySize
  <2>1. s # <<>>
    BY <1>1, <1>2
  <2>2. Tail(s) \in Seq(Nat \cup {Gap}) /\ Len(Tail(s)) = Len(s) - 1
    BY <1>1, <2>1
  <2> QED BY <1>1, <1>2, <2>2 DEF PushSample, Ring
<1>3. CASE Len(s) # HistorySize
  BY <1>1, <1>3 DEF PushSample, Ring
<1> QED BY <1>2, <1>3

\* A row that is new has them all.
LEMMA NothingYet == Ring(<<>>) /\ SumsKept(NoThroughput) /\ 0 \in Nat
<1>1. Ring(<<>>)
  BY SizesAssumption DEF Ring
<1>2. SumFunction(Outs(<<>>)) = 0 /\ SumFunction(Users(<<>>)) = 0
  <2>1. DOMAIN Outs(<<>>) = {} /\ DOMAIN Users(<<>>) = {}
    BY DEF Outs, Users
  <2> QED BY <2>1, SumOfNone DEF SumFunction
<1> QED BY <1>1, <1>2, SizesAssumption DEF SumsKept, NoThroughput

\* Every step keeps them.
LEMMA NextFigures == FiguresInv /\ [Next]_vars => FiguresInv'
<1> SUFFICES ASSUME FiguresInv, [Next]_vars PROVE FiguresInv'
  OBVIOUS
<1>1. LastWordInv'
  BY NextLastWord DEF FiguresInv
<1>2. active' \in Nat /\ Ring(slots') /\ SumsKept(throughput')
  <2>1. ASSUME NEW word \in MaxJobsWords \cup {Unsaid}, Record(word)
        PROVE  active' \in Nat /\ Ring(slots') /\ SumsKept(throughput')
    BY <2>1 DEF Record, FiguresInv
  <2>2. CASE Return
    BY <2>2, NothingYet DEF Return
  <2>3. CASE Begin \/ Finish
    <3>1. active' \in Nat
      BY <2>3 DEF Begin, Finish, FiguresInv
    <3>2. UNCHANGED <<slots, throughput>>
      BY <2>3 DEF Begin, Finish
    <3> QED BY <3>1, <3>2 DEF FiguresInv
  <2>4. CASE Tick
    <3>1. SlotPct \in Nat \cup {Gap}
      BY OccupancyIsASample DEF FiguresInv
    <3>2. Ring(PushSample(slots, SlotPct, HistorySize))
      BY <3>1, PushKeepsRing DEF FiguresInv
    <3> QED BY <2>4, <3>2 DEF Tick, FiguresInv
  <2>5. ASSUME NEW job \in [out : Outputs, user : Times], FinishMeasured(job)
        PROVE  active' \in Nat /\ Ring(slots') /\ SumsKept(throughput')
    <3>1. job \in Jobs
      BY SizesAssumption DEF Jobs
    <3>2. SumsKept(PushJob(throughput, job))
      BY <3>1, PushKeepsSums DEF FiguresInv
    <3> QED BY <2>5, <3>2 DEF FinishMeasured, FiguresInv
  <2>6. CASE UNCHANGED vars
    BY <2>6 DEF vars, FiguresInv
  <2> QED BY <2>1, <2>2, <2>3, <2>4, <2>5, <2>6 DEF Next
<1> QED BY <1>1, <1>2 DEF FiguresInv

\* It holds in every behaviour.
LEMMA FiguresHold == Spec => []FiguresInv
<1>1. Init => FiguresInv
  <2> SUFFICES ASSUME Init PROVE FiguresInv
    OBVIOUS
  <2>1. LastWordInv
    BY DEF Init, Fresh, LastWordInv, CapacityIsLastWord, Parsed
  <2> QED BY <2>1, NothingYet DEF Init, Fresh, FiguresInv
<1> QED BY <1>1, NextFigures, PTL DEF Spec

\* The speed shown is that of the jobs kept: the running sums are the sums over the
\* samples, so the rate lies between the slowest and the fastest of them, and the
\* comparison with the peers is fair in every group.
THEOREM SpeedHolds == Spec => []SpeedIsMeasured
<1>1. FiguresInv => SpeedIsMeasured
  <2> SUFFICES ASSUME FiguresInv PROVE SpeedIsMeasured
    OBVIOUS
  <2>1. SumsKept(throughput)
    BY DEF FiguresInv
  <2>2. Rate(throughput) # NoRate =>
          \E slow, fast \in Range(throughput.samples) :
            /\ (1000 * slow.out) \div slow.user <= Rate(throughput)
            /\ Rate(throughput) <= (1000 * fast.out) \div fast.user
    BY <2>1, RateIsBetween
  <2> QED BY <2>1, <2>2, Fairness DEF SpeedIsMeasured, SumsKept, Outs, Users
<1> QED BY <1>1, FiguresHold, PTL

\* At every width and for every ring the columns of a graph are in order of time,
\* cover every sample once the axis is earned, leave gaps blank and only gaps, and
\* the trend of the samples played backwards is the opposite one.
THEOREM AxisHolds == Spec => []AxisIsTime
<1>1. FiguresInv => AxisIsTime
  BY RingIsTime DEF FiguresInv
<1> QED BY <1>1, FiguresHold, PTL

\* However the bucket bounds of a sparkline round, no sample is left out of it, and
\* what was measured above zero is drawn above the glyph for zero.
THEOREM SparklineHolds == Spec => []SparklineCoversHistory
<1>1. FiguresInv => SparklineCoversHistory
  BY RingIsCovered DEF FiguresInv
<1> QED BY <1>1, FiguresHold, PTL

=============================================================================
