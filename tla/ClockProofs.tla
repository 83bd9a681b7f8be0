----------------------------- MODULE ClockProofs -----------------------------
(***************************************************************************)
(* The safety invariants of Clock.tla, proved for every set of processes   *)
(* with alarms, quantum, set of delays, however long, and number of ticks. *)
(***************************************************************************)
EXTENDS Clock, SequenceTheorems, FiniteSetTheorems, WellFoundedInduction, TLAPS

Times == -LONG_MAX - 1 .. LONG_MAX

TimersType == [timers : Seq(Timer), next_timer : Times, exp : [Timer -> Times],
               task : [Timer -> Owner], due : [Timer -> Nat], expired : [Owner -> Seq(Timer)]]

(* A list has a timer once. *)
Single(q) == \A i, j \in 1 .. Len(q) : i # j => q[i] # q[j]

(* What is left of a list from which timers were taken, in the same order. *)
Thinned(r, q) ==
    /\ \A i \in 1 .. Len(r) : \E k \in 1 .. Len(q) : r[i] = q[k]
    /\ \A i, j \in 1 .. Len(r) : i < j => \E k, m \in 1 .. Len(q) : k < m /\ r[i] = q[k] /\ r[j] = q[m]

Listed(l, t) == Contains(l.timers, t) \/ Contains(l.expired[l.task[t]], t)

(* Who runs which timer. *)
Runner(t) == IF t = Timeout THEN {"CLOCK"} ELSE IF t = Stop THEN {"DRIVER"} ELSE {"CLOCK", "SYN_ALRM"}

(* A timer goes off when it is due, if clock_t can hold the time, which it *)
(* always can for the timers of the driver.                                *)
Timed(t, exp, due) == (due <= LONG_MAX => exp = due) /\ (t \in {Timeout, Stop} => due < LONG_MAX)

(* Every timer is on the list it should be on, with the time it was set for. *)
Placed(l) ==
    /\ Single(l.timers) /\ \A o \in Owner : Single(l.expired[o])
    /\ \A o \in Owner, t \in Timer : Contains(l.expired[o], t) => l.task[t] = o /\ ~Contains(l.timers, t)
    /\ \A t \in Timer : Listed(l, t) <=> l.due[t] # 0
    /\ \A t \in Timer : Listed(l, t) => Timed(t, l.exp[t], l.due[t]) /\ l.task[t] \in Runner(t)

(* The active ones are in the order of their times. *)
Sorted(l) ==
    /\ \A i, j \in 1 .. Len(l.timers) : i < j => l.exp[l.timers[i]] <= l.exp[l.timers[j]]
    /\ l.timers # <<>> => l.next_timer <= l.exp[l.timers[1]]

Lists(l) == l \in TimersType /\ Placed(l) /\ Sorted(l)

(* What is about to be set can be set, by whom it should; a driver that    *)
(* has given a command has set its time-out.                               *)
JobSound ==
    /\ job.pc = "set" => job.due # 0 /\ Timed(job.t, job.exp, job.due) /\ job.to \in Runner(job.t)
    /\ job.pc = "command" => Listed(tmr, Timeout)

(* A driver that waits has its time-out, or knows that it has not to wait. *)
DriverSound == drv = "wait" => IF f_busy = "IO" THEN Listed(tmr, Timeout) ELSE irq["DRIVER"]

QuantumSound == IF job.pc = "switch" THEN sched_ticks \in -1 .. 0 ELSE sched_ticks \in 1 .. SCHED_RATE

-----------------------------------------------------------------------------
(* Lists of timers. *)

LEMMA Positive == LONG_MAX \in Nat /\ LONG_MAX > 0 /\ MaxTime \in Nat /\ MaxTime < LONG_MAX /\ SCHED_RATE \in Nat /\ SCHED_RATE > 0
  BY ClockAssumption

(* A set of numbers has a least member. *)
LEMMA LeastNumber ==
    ASSUME NEW S \in SUBSET Nat, S # {}
    PROVE  \E x \in S : \A y \in S : x <= y
  <1>1. PICK x \in S : \A y \in S : ~(<<y, x>> \in OpToRel(<, Nat))
    BY NatLessThanWellFounded, WFMin
  <1>2. \A y \in S : ~(y < x)
    BY <1>1 DEF OpToRel
  <1> QED BY <1>2

(* Unlinking a timer leaves the others, in their order. *)
LEMMA WithoutIs ==
    ASSUME NEW q \in Seq(Timer), Single(q), NEW t, NEW r, r = Without(q, t)
    PROVE  /\ r \in Seq(Timer) /\ Single(r)
           /\ \A x : Contains(r, x) <=> Contains(q, x) /\ x # t
           /\ Thinned(r, q)
           /\ ~Contains(q, t) => r = q
  <1>0. Len(q) \in Nat /\ DOMAIN q = 1 .. Len(q) /\ \A i \in 1 .. Len(q) : q[i] \in Timer
    OBVIOUS
  <1>1. CASE ~Contains(q, t)
    <2>1. r = q
      BY <1>1 DEF Without
    <2>2. \A x : Contains(q, x) => x # t
      BY <1>1
    <2>3. Thinned(r, q)
      BY <2>1 DEF Thinned
    <2> QED BY <2>1, <2>2, <2>3
  <1>2. CASE Contains(q, t)
    <2>1. PICK k \in 1 .. Len(q) : q[k] = t /\ k = CHOOSE i \in DOMAIN q : q[i] = t
      <3>1. \E i \in DOMAIN q : q[i] = t
        BY <1>0, <1>2 DEF Contains
      <3> QED BY <1>0, <3>1
    <2>2. r = [i \in 1 .. Len(q) - 1 |-> q[IF i < k THEN i ELSE i + 1]]
      BY <1>2, <2>1 DEF Without
    <2>3. Len(q) - 1 \in Nat
      BY <1>0, <2>1
    <2>4. \A i \in 1 .. Len(q) - 1 : (IF i < k THEN i ELSE i + 1) \in 1 .. Len(q)
      BY <1>0, <2>1
    <2>5. r \in [1 .. Len(q) - 1 -> Timer]
      BY <1>0, <2>2, <2>4
    <2>6. r \in Seq(Timer) /\ Len(r) = Len(q) - 1
      BY <2>3, <2>5
    <2>7. /\ \A i \in 1 .. Len(r) : i < k => r[i] = q[i]
          /\ \A i \in 1 .. Len(r) : i >= k => r[i] = q[i + 1]
      BY <2>1, <2>2, <2>6
    <2>8. Single(r)
      <3> SUFFICES ASSUME NEW i \in 1 .. Len(r), NEW j \in 1 .. Len(r), i # j
                   PROVE  r[i] # r[j]
        BY DEF Single
      <3> DEFINE at(x) == IF x < k THEN x ELSE x + 1
      <3>1. ASSUME NEW x \in 1 .. Len(r)
            PROVE  r[x] = q[at(x)]
        <4>1. CASE x < k
          BY <2>7, <4>1
        <4>2. CASE ~(x < k)
          <5>1. x >= k
            BY <1>0, <2>6, <4>2
          <5> QED BY <2>7, <4>2, <5>1
        <4> QED BY <4>1, <4>2
      <3>2. at(i) \in 1 .. Len(q) /\ at(j) \in 1 .. Len(q) /\ at(i) # at(j)
        BY <1>0, <2>1, <2>6
      <3> HIDE DEF at
      <3> QED BY <3>1, <3>2 DEF Single
    <2>9. \A i, j \in 1 .. Len(r) : i < j => \E a, m \in 1 .. Len(q) : a < m /\ r[i] = q[a] /\ r[j] = q[m]
      <3> SUFFICES ASSUME NEW i \in 1 .. Len(r), NEW j \in 1 .. Len(r), i < j
                   PROVE  \E a, m \in 1 .. Len(q) : a < m /\ r[i] = q[a] /\ r[j] = q[m]
        OBVIOUS
      <3> DEFINE a == IF i < k THEN i ELSE i + 1
                 m == IF j < k THEN j ELSE j + 1
      <3>1. a \in 1 .. Len(q) /\ m \in 1 .. Len(q) /\ a < m
        BY <1>0, <2>1, <2>6
      <3>2. r[i] = q[a] /\ r[j] = q[m]
        BY <1>0, <2>6, <2>7
      <3> QED BY <3>1, <3>2
    <2>10. \A i \in 1 .. Len(r) : \E a \in 1 .. Len(q) : r[i] = q[a] /\ a # k
      <3> SUFFICES ASSUME NEW i \in 1 .. Len(r)
                   PROVE  \E a \in 1 .. Len(q) : r[i] = q[a] /\ a # k
        OBVIOUS
      <3> DEFINE a == IF i < k THEN i ELSE i + 1
      <3>1. a \in 1 .. Len(q) /\ a # k
        BY <1>0, <2>6
      <3>2. r[i] = q[a]
        BY <1>0, <2>6, <2>7
      <3> QED BY <3>1, <3>2
    <2>11. ASSUME NEW x, Contains(r, x)
           PROVE  Contains(q, x) /\ x # t
      <3>1. PICK i \in 1 .. Len(r) : r[i] = x
        BY <2>11 DEF Contains
      <3>2. PICK a \in 1 .. Len(q) : r[i] = q[a] /\ a # k
        BY <2>10
      <3> QED BY <2>1, <3>1, <3>2 DEF Contains, Single
    <2>12. ASSUME NEW x, Contains(q, x), x # t
           PROVE  Contains(r, x)
      <3>1. PICK a \in 1 .. Len(q) : q[a] = x
        BY <2>12 DEF Contains
      <3>2. a # k
        BY <2>1, <2>12, <3>1
      <3>3. CASE a < k
        <4>1. a \in 1 .. Len(r) /\ r[a] = x
          BY <1>0, <2>1, <2>6, <2>7, <3>1, <3>3
        <4> QED BY <4>1 DEF Contains
      <3>4. CASE a > k
        <4>1. a - 1 \in 1 .. Len(r) /\ a - 1 >= k /\ (a - 1) + 1 = a
          BY <1>0, <2>1, <2>6, <3>4
        <4>2. r[a - 1] = x
          BY <2>7, <3>1, <4>1
        <4> QED BY <4>1, <4>2 DEF Contains
      <3> QED BY <1>0, <2>1, <3>2, <3>3, <3>4
    <2>13. Thinned(r, q)
      BY <2>9, <2>10 DEF Thinned
    <2> QED BY <1>2, <2>6, <2>8, <2>11, <2>12, <2>13
  <1> QED BY <1>1, <1>2

(* A new timer behind the first n. *)
LEMMA InsertIs ==
    ASSUME NEW q \in Seq(Timer), Single(q), NEW t \in Timer, ~Contains(q, t), NEW n \in 0 .. Len(q),
           NEW r, r = InsertAt(q, n + 1, t)
    PROVE  /\ r \in Seq(Timer) /\ Single(r) /\ Len(r) = Len(q) + 1
           /\ \A x : Contains(r, x) <=> Contains(q, x) \/ x = t
           /\ \A i \in 1 .. Len(r) : r[i] = IF i <= n THEN q[i] ELSE IF i = n + 1 THEN t ELSE q[i - 1]
  <1>0. Len(q) \in Nat /\ \A i \in 1 .. Len(q) : q[i] \in Timer
    OBVIOUS
  <1>1. PICK a, b, c : a = SubSeq(q, 1, n) /\ b = <<t>> /\ c = SubSeq(q, n + 1, Len(q))
    OBVIOUS
  <1>2. /\ a \in Seq(Timer) /\ Len(a) = n /\ \A i \in 1 .. n : a[i] = q[i]
        /\ b \in Seq(Timer) /\ Len(b) = 1 /\ b[1] = t
        /\ c \in Seq(Timer) /\ Len(c) = Len(q) - n /\ \A i \in 1 .. Len(q) - n : c[i] = q[n + i]
    <2>1. /\ a \in Seq(Timer) /\ Len(a) = n /\ \A i \in 1 .. n : a[i] = q[i]
      <3>1. CASE n = 0
        BY <1>0, <1>1, <3>1, SubSeqProperties
      <3>2. CASE n > 0
        BY <1>0, <1>1, <3>2, SubSeqProperties
      <3> QED BY <3>1, <3>2
    <2>2. /\ c \in Seq(Timer) /\ Len(c) = Len(q) - n /\ \A i \in 1 .. Len(q) - n : c[i] = q[n + i]
      BY <1>0, <1>1, SubSeqProperties
    <2>3. b \in Seq(Timer) /\ Len(b) = 1 /\ b[1] = t
      BY <1>1
    <2> QED BY <2>1, <2>2, <2>3
  <1>3. PICK d : d = a \o b
    OBVIOUS
  <1>4. d \in Seq(Timer) /\ Len(d) = n + 1 /\ \A i \in 1 .. n + 1 : d[i] = IF i <= n THEN q[i] ELSE t
    <2>1. /\ d \in Seq(Timer) /\ Len(d) = Len(a) + Len(b)
          /\ \A i \in 1 .. Len(a) + Len(b) : d[i] = IF i <= Len(a) THEN a[i] ELSE b[i - Len(a)]
      BY <1>2, <1>3, ConcatProperties
    <2>2. Len(a) = n /\ Len(b) = 1
      BY <1>2
    <2>3. Len(d) = n + 1
      BY <1>0, <2>1, <2>2
    <2>4. ASSUME NEW i \in 1 .. n + 1 PROVE d[i] = IF i <= n THEN q[i] ELSE t
      <3>1. d[i] = IF i <= n THEN a[i] ELSE b[i - n]
        BY <2>1, <2>2, <2>4
      <3>2. CASE i <= n
        <4>1. a[i] = q[i]
          BY <1>2, <2>4, <3>2
        <4> QED BY <3>1, <3>2, <4>1
      <3>3. CASE i > n
        <4>1. i - n = 1
          BY <1>0, <2>4, <3>3
        <4>2. b[1] = t
          BY <1>2
        <4> QED BY <3>1, <3>3, <4>1, <4>2
      <3> QED BY <1>0, <3>2, <3>3
    <2> QED BY <2>1, <2>3, <2>4
  <1>5. r = d \o c
    <2>1. PICK m : m = (n + 1) - 1
      OBVIOUS
    <2>2. m = n
      BY <1>0, <2>1
    <2>3. r = SubSeq(q, 1, m) \o <<t>> \o SubSeq(q, n + 1, Len(q))
      BY <2>1 DEF InsertAt
    <2> QED BY <1>1, <1>3, <2>2, <2>3
  <1>6. /\ r \in Seq(Timer) /\ Len(r) = Len(d) + Len(c)
        /\ \A i \in 1 .. Len(d) + Len(c) : r[i] = IF i <= Len(d) THEN d[i] ELSE c[i - Len(d)]
    <2>1. d \in Seq(Timer) /\ c \in Seq(Timer)
      BY <1>2, <1>4
    <2> QED BY <1>5, <2>1, ConcatProperties
  <1>7. Len(r) = Len(q) + 1
    BY <1>0, <1>2, <1>4, <1>6
  <1>8. \A i \in 1 .. Len(r) : r[i] = IF i <= n THEN q[i] ELSE IF i = n + 1 THEN t ELSE q[i - 1]
    <2> SUFFICES ASSUME NEW i \in 1 .. Len(r)
                 PROVE  r[i] = IF i <= n THEN q[i] ELSE IF i = n + 1 THEN t ELSE q[i - 1]
      OBVIOUS
    <2>1. CASE i <= n + 1
      BY <1>4, <1>6, <2>1
    <2>2. CASE i > n + 1
      <3>0. i \in 1 .. Len(q) + 1 /\ Len(c) = Len(q) - n /\ n \in Nat
        BY <1>0, <1>2, <1>7
      <3>1. i - (n + 1) \in 1 .. Len(q) - n /\ n + (i - (n + 1)) = i - 1 /\ ~(i <= n) /\ i # n + 1 /\ i \in 1 .. (n + 1) + Len(c)
        BY <1>0, <2>2, <3>0
      <3>2. r[i] = c[i - (n + 1)]
        <4>1. Len(d) = n + 1 /\ ~(i <= n + 1)
          BY <1>4, <2>2, <3>0
        <4>2. r[i] = IF i <= n + 1 THEN d[i] ELSE c[i - (n + 1)]
          BY <1>6, <3>1, <4>1
        <4> QED BY <4>1, <4>2
      <3> QED BY <1>2, <3>1, <3>2
    <2> QED BY <1>0, <2>1, <2>2
  <1>9. \A k \in 1 .. Len(q) : q[k] # t
    BY DEF Contains
  <1>10. Single(r)
    <2> SUFFICES ASSUME NEW i \in 1 .. Len(r), NEW j \in 1 .. Len(r), i # j
                 PROVE  r[i] # r[j]
      BY DEF Single
    <2> DEFINE P(k) == IF k <= n THEN k ELSE k - 1
    <2>1. \A k \in 1 .. Len(r) : k # n + 1 => P(k) \in 1 .. Len(q) /\ r[k] = q[P(k)]
      BY <1>0, <1>7, <1>8
    <2>2. r[n + 1] = t
      BY <1>0, <1>7, <1>8
    <2>3. CASE i # n + 1 /\ j # n + 1
      <3>1. P(i) # P(j)
        BY <1>0, <2>3
      <3> HIDE DEF P
      <3> QED BY <2>1, <2>3, <3>1 DEF Single
    <2> HIDE DEF P
    <2> QED BY <1>9, <2>1, <2>2, <2>3
  <1>11. ASSUME NEW x, Contains(r, x)
         PROVE  Contains(q, x) \/ x = t
    <2>1. PICK i \in 1 .. Len(r) : r[i] = x
      BY <1>11 DEF Contains
    <2>2. CASE i <= n
      BY <1>0, <1>8, <2>1, <2>2 DEF Contains
    <2>3. CASE i > n + 1
      <3>1. i - 1 \in 1 .. Len(q) /\ q[i - 1] = x
        BY <1>0, <1>7, <1>8, <2>1, <2>3
      <3> QED BY <3>1 DEF Contains
    <2> QED BY <1>0, <1>8, <2>1, <2>2, <2>3
  <1>12. ASSUME NEW x, Contains(q, x) \/ x = t
         PROVE  Contains(r, x)
    <2>1. CASE x = t
      <3>1. n + 1 \in 1 .. Len(r) /\ r[n + 1] = t
        BY <1>0, <1>7, <1>8
      <3> QED BY <2>1, <3>1 DEF Contains
    <2>2. CASE Contains(q, x)
      <3>1. PICK k \in 1 .. Len(q) : q[k] = x
        BY <2>2 DEF Contains
      <3>2. CASE k <= n
        <4>1. k \in 1 .. Len(r) /\ r[k] = x
          BY <1>0, <1>7, <1>8, <3>1, <3>2
        <4> QED BY <4>1 DEF Contains
      <3>3. CASE k > n
        <4>1. k + 1 \in 1 .. Len(r) /\ r[k + 1] = x
          BY <1>0, <1>7, <1>8, <3>1, <3>3
        <4> QED BY <4>1 DEF Contains
      <3> QED BY <1>0, <3>2, <3>3
    <2> QED BY <1>12, <2>1, <2>2
  <1> QED BY <1>6, <1>7, <1>8, <1>10, <1>11, <1>12
-----------------------------------------------------------------------------
(* What the clock's functions do to sound lists. *)

LEMMA FieldsOf ==
    ASSUME NEW l \in TimersType
    PROVE  /\ l.timers \in Seq(Timer) /\ l.next_timer \in Times /\ l.exp \in [Timer -> Times]
           /\ l.task \in [Timer -> Owner] /\ l.due \in [Timer -> Nat]
           /\ l.expired \in [Owner -> Seq(Timer)]
           /\ \A t \in Timer : l.task[t] \in Owner /\ l.exp[t] \in Int
           /\ \A o \in Owner : l.expired[o] \in Seq(Timer)
           /\ Len(l.timers) \in Nat /\ \A i \in 1 .. Len(l.timers) : l.timers[i] \in Timer
  <1>1. /\ l.timers \in Seq(Timer) /\ l.next_timer \in Times /\ l.exp \in [Timer -> Times]
        /\ l.task \in [Timer -> Owner] /\ l.due \in [Timer -> Nat]
        /\ l.expired \in [Owner -> Seq(Timer)]
    BY DEF TimersType
  <1>2. \A n \in Times : n \in Int
    BY Positive DEF Times
  <1>3. \A t \in Timer : l.task[t] \in Owner /\ l.exp[t] \in Int
    BY <1>1, <1>2
  <1>4. Len(l.timers) \in Nat /\ \A i \in 1 .. Len(l.timers) : l.timers[i] \in Timer
    BY <1>1
  <1> QED BY <1>1, <1>3, <1>4

(* Timers taken away leave the others in order. *)
LEMMA StillSorted ==
    ASSUME NEW l \in TimersType, Sorted(l), NEW c \in TimersType, Thinned(c.timers, l.timers),
           c.next_timer = l.next_timer,
           \A i \in 1 .. Len(c.timers) : c.exp[c.timers[i]] = l.exp[c.timers[i]]
    PROVE  Sorted(c)
  <1>1. /\ Len(l.timers) \in Nat /\ \A i \in 1 .. Len(l.timers) : l.exp[l.timers[i]] \in Int
        /\ l.next_timer \in Int /\ c.timers \in Seq(Timer)
    <2>1. \A n \in Times : n \in Int
      BY Positive DEF Times
    <2> QED BY <2>1, FieldsOf
  <1>2. \A i, j \in 1 .. Len(c.timers) : i < j => c.exp[c.timers[i]] <= c.exp[c.timers[j]]
    <2> SUFFICES ASSUME NEW i \in 1 .. Len(c.timers), NEW j \in 1 .. Len(c.timers), i < j
                 PROVE  c.exp[c.timers[i]] <= c.exp[c.timers[j]]
      OBVIOUS
    <2>1. PICK k \in 1 .. Len(l.timers), m \in 1 .. Len(l.timers) : k < m /\ c.timers[i] = l.timers[k] /\ c.timers[j] = l.timers[m]
      BY DEF Thinned
    <2>2. l.exp[l.timers[k]] <= l.exp[l.timers[m]]
      BY <2>1 DEF Sorted
    <2>3. c.exp[c.timers[i]] = l.exp[l.timers[k]] /\ c.exp[c.timers[j]] = l.exp[l.timers[m]]
      BY <2>1
    <2> QED BY <2>2, <2>3
  <1>3. ASSUME c.timers # <<>>
        PROVE  c.next_timer <= c.exp[c.timers[1]]
    <2>1. 1 \in 1 .. Len(c.timers)
      BY <1>1, <1>3
    <2>2. PICK k \in 1 .. Len(l.timers) : c.timers[1] = l.timers[k]
      BY <2>1 DEF Thinned
    <2>3. l.timers # <<>> /\ 1 \in 1 .. Len(l.timers) /\ (k = 1 \/ 1 < k)
      BY <1>1, <2>2
    <2>4. l.next_timer <= l.exp[l.timers[1]] /\ l.exp[l.timers[1]] <= l.exp[l.timers[k]]
      BY <1>1, <2>3 DEF Sorted
    <2>5. l.next_timer <= l.exp[l.timers[k]]
      BY <1>1, <2>3, <2>4
    <2> QED BY <2>1, <2>2, <2>5
  <1> QED BY <1>2, <1>3 DEF Sorted

(* Whichever list the timer is on, it is taken off. *)
LEMMA ClearIs ==
    ASSUME NEW l, Lists(l), NEW t \in Timer, NEW c, c = tmr_clrtimer(l, t)
    PROVE  /\ c \in TimersType /\ c.task = l.task /\ c.next_timer = l.next_timer
           /\ c.timers = Without(l.timers, t) /\ \A o \in Owner : c.expired[o] = Without(l.expired[o], t)
           /\ \A x \in Timer : x # t => c.exp[x] = l.exp[x] /\ c.due[x] = l.due[x]
           /\ c.due[t] = 0
  <1>1. l \in TimersType /\ Placed(l)
    BY DEF Lists
  <1>2. /\ l.timers \in Seq(Timer) /\ l.next_timer \in Times /\ l.exp \in [Timer -> Times]
        /\ l.task \in [Timer -> Owner] /\ l.due \in [Timer -> Nat] /\ l.expired \in [Owner -> Seq(Timer)]
        /\ l.task[t] \in Owner
    BY <1>1, FieldsOf
  <1>3. PICK w : w = Without(l.timers, t)
    OBVIOUS
  <1>4. w \in Seq(Timer) /\ (~Contains(l.timers, t) => w = l.timers)
    BY <1>1, <1>2, <1>3, WithoutIs DEF Placed
  <1>5. PICK v : v = Without(l.expired[l.task[t]], t)
    OBVIOUS
  <1>6. v \in Seq(Timer)
    BY <1>1, <1>2, <1>5, WithoutIs DEF Placed
  <1>7. \A o \in Owner : ~Contains(l.expired[o], t) => Without(l.expired[o], t) = l.expired[o]
    BY DEF Without
  <1>8. TMR_NEVER \in Times /\ 0 \in Nat
    BY Positive DEF TMR_NEVER, Times
  <1>9. CASE Contains(l.timers, t)
    <2>1. c = [l EXCEPT !.exp[t] = TMR_NEVER, !.due[t] = 0, !.timers = w]
      BY <1>3, <1>9 DEF tmr_clrtimer
    <2>2. /\ c.timers = w /\ c.task = l.task /\ c.next_timer = l.next_timer /\ c.expired = l.expired
          /\ c.exp = [l.exp EXCEPT ![t] = TMR_NEVER] /\ c.due = [l.due EXCEPT ![t] = 0]
      BY <1>1, <1>2, <2>1 DEF TimersType
    <2>4. c \in TimersType
      <3>1. /\ [l.exp EXCEPT ![t] = TMR_NEVER] \in [Timer -> Times]
            /\ [l.due EXCEPT ![t] = 0] \in [Timer -> Nat]
        BY <1>2, <1>8
      <3> QED BY <1>1, <1>4, <2>1, <3>1 DEF TimersType
    <2>3. \A o \in Owner : ~Contains(l.expired[o], t)
      BY <1>1, <1>9 DEF Placed
    <2> QED BY <1>2, <1>3, <1>7, <2>2, <2>3, <2>4
  <1>10. CASE ~Contains(l.timers, t)
    <2>1. c = [l EXCEPT !.exp[t] = TMR_NEVER, !.due[t] = 0, !.expired[l.task[t]] = v]
      BY <1>5, <1>10 DEF tmr_clrtimer
    <2>2. /\ c.timers = l.timers /\ c.task = l.task /\ c.next_timer = l.next_timer
          /\ c.expired = [l.expired EXCEPT ![l.task[t]] = v]
          /\ c.exp = [l.exp EXCEPT ![t] = TMR_NEVER] /\ c.due = [l.due EXCEPT ![t] = 0]
      BY <1>1, <1>2, <2>1 DEF TimersType
    <2>3. c \in TimersType
      <3>1. /\ [l.expired EXCEPT ![l.task[t]] = v] \in [Owner -> Seq(Timer)]
            /\ [l.exp EXCEPT ![t] = TMR_NEVER] \in [Timer -> Times]
            /\ [l.due EXCEPT ![t] = 0] \in [Timer -> Nat]
        BY <1>2, <1>6, <1>8
      <3> QED BY <1>1, <2>1, <3>1 DEF TimersType
    <2>4. \A o \in Owner : Contains(l.expired[o], t) => o = l.task[t]
      BY <1>1 DEF Placed
    <2>5. \A o \in Owner : c.expired[o] = Without(l.expired[o], t)
      BY <1>2, <1>5, <1>7, <2>2, <2>4
    <2> QED BY <1>2, <1>3, <1>4, <1>10, <2>2, <2>3, <2>5
  <1> QED BY <1>9, <1>10

(* The timers of the others are where they were. *)
Elsewhere(s, l, t) ==
    /\ \A x : Contains(s.timers, x) <=> (Contains(l.timers, x) /\ x # t) \/ (x = t /\ Contains(s.timers, t))
    /\ \A o \in Owner : \A x : Contains(s.expired[o], x) <=> Contains(l.expired[o], x) /\ x # t
    /\ \A x \in Timer : x # t => s.exp[x] = l.exp[x] /\ s.due[x] = l.due[x] /\ s.task[x] = l.task[x]

LEMMA ClearKeeps ==
    ASSUME NEW l, Lists(l), NEW t \in Timer, NEW c, c = tmr_clrtimer(l, t)
    PROVE  /\ Lists(c) /\ ~Listed(c, t) /\ c.task = l.task
           /\ Elsewhere(c, l, t)
  <1>1. l \in TimersType /\ Placed(l) /\ Sorted(l)
    BY DEF Lists
  <1>2. /\ l.timers \in Seq(Timer) /\ Len(l.timers) \in Nat
        /\ \A x \in Timer : l.task[x] \in Owner
        /\ \A o \in Owner : l.expired[o] \in Seq(Timer)
        /\ \A i \in 1 .. Len(l.timers) : l.timers[i] \in Timer
        /\ \A x \in Timer : l.exp[x] \in Int
    BY <1>1, FieldsOf
  <1>3. /\ c \in TimersType /\ c.task = l.task /\ c.next_timer = l.next_timer
        /\ c.timers = Without(l.timers, t) /\ \A o \in Owner : c.expired[o] = Without(l.expired[o], t)
        /\ \A x \in Timer : x # t => c.exp[x] = l.exp[x] /\ c.due[x] = l.due[x]
        /\ c.due[t] = 0
    BY ClearIs
  <1>4. /\ c.timers \in Seq(Timer) /\ Single(c.timers)
        /\ \A x : Contains(c.timers, x) <=> Contains(l.timers, x) /\ x # t
        /\ Thinned(c.timers, l.timers)
    <2>1. Single(l.timers)
      BY <1>1 DEF Placed
    <2>2. PICK q, r : q = l.timers /\ r = c.timers
      OBVIOUS
    <2>3. q \in Seq(Timer) /\ Single(q) /\ r = Without(q, t)
      BY <1>2, <1>3, <2>1, <2>2
    <2>4. r \in Seq(Timer) /\ Single(r)
      BY <2>3, WithoutIs
    <2>5. Thinned(r, q) /\ \A x : Contains(r, x) <=> Contains(q, x) /\ x # t
      BY <2>3, WithoutIs
    <2> QED BY <2>2, <2>4, <2>5
  <1>5. ASSUME NEW o \in Owner
        PROVE  /\ Single(c.expired[o])
               /\ \A x : Contains(c.expired[o], x) <=> Contains(l.expired[o], x) /\ x # t
    BY <1>1, <1>2, <1>3, WithoutIs DEF Placed
  <1>6. \A x \in Timer : Listed(c, x) <=> Listed(l, x) /\ x # t
    BY <1>2, <1>3, <1>4, <1>5 DEF Listed
  <1>7. Placed(c)
    <2>1. \A o \in Owner, x \in Timer : Contains(c.expired[o], x) => c.task[x] = o /\ ~Contains(c.timers, x)
      <3> SUFFICES ASSUME NEW o \in Owner, NEW x \in Timer, Contains(c.expired[o], x)
                   PROVE  c.task[x] = o /\ ~Contains(c.timers, x)
        OBVIOUS
      <3>1. Contains(l.expired[o], x)
        BY <1>5
      <3>2. l.task[x] = o /\ ~Contains(l.timers, x)
        BY <1>1, <3>1 DEF Placed
      <3> QED BY <1>3, <1>4, <3>2
    <2>2. \A x \in Timer : Listed(c, x) <=> c.due[x] # 0
      BY <1>1, <1>3, <1>6 DEF Placed
    <2>3. \A x \in Timer : Listed(c, x) => Timed(x, c.exp[x], c.due[x]) /\ c.task[x] \in Runner(x)
      BY <1>1, <1>3, <1>6 DEF Placed
    <2> QED BY <1>4, <1>5, <2>1, <2>2, <2>3 DEF Placed
  <1>8. \A i \in 1 .. Len(c.timers) : c.timers[i] # t /\ c.timers[i] \in Timer /\ c.exp[c.timers[i]] = l.exp[c.timers[i]]
    <2>1. \A i \in 1 .. Len(c.timers) : Contains(c.timers, c.timers[i])
      BY DEF Contains
    <2> QED BY <1>3, <1>4, <2>1
  <1>9. Sorted(c)
    BY <1>1, <1>3, <1>4, <1>8, StillSorted
  <1>10. Elsewhere(c, l, t)
    BY <1>3, <1>4, <1>5 DEF Elsewhere
  <1> QED BY <1>3, <1>6, <1>7, <1>9, <1>10 DEF Lists

(* There is a place for every time. *)
LEMMA BeforeIs ==
    ASSUME NEW l \in TimersType, NEW exp \in Int, NEW n, n = Before(l, exp)
    PROVE  /\ n \in 0 .. Len(l.timers)
           /\ \A k \in 1 .. n : l.exp[l.timers[k]] <= exp
           /\ n < Len(l.timers) => exp < l.exp[l.timers[n + 1]]
  <1> DEFINE Later == {k \in 1 .. Len(l.timers) : exp < l.exp[l.timers[k]]}
             P(m) == (\A k \in 1 .. m : l.exp[l.timers[k]] <= exp) /\ (m < Len(l.timers) => exp < l.exp[l.timers[m + 1]])
  <1>1. Len(l.timers) \in Nat /\ \A i \in 1 .. Len(l.timers) : l.timers[i] \in Timer /\ l.exp[l.timers[i]] \in Int
    BY FieldsOf
  <1>2. \E m \in 0 .. Len(l.timers) : P(m)
    <2>1. CASE Later = {}
      <3>1. \A k \in 1 .. Len(l.timers) : l.exp[l.timers[k]] <= exp
        BY <1>1, <2>1
      <3>2. P(Len(l.timers))
        BY <1>1, <3>1
      <3> QED BY <1>1, <3>2
    <2>2. CASE Later # {}
      <3>1. PICK x \in Later : \A y \in Later : x <= y
        <4>1. Later \in SUBSET Nat
          BY <1>1
        <4> QED BY <2>2, <4>1, LeastNumber
      <3>2. x \in 1 .. Len(l.timers) /\ exp < l.exp[l.timers[x]]
        BY <3>1
      <3>3. ASSUME NEW k \in 1 .. x - 1
            PROVE  l.exp[l.timers[k]] <= exp
        <4>1. k \in 1 .. Len(l.timers) /\ ~(x <= k)
          BY <1>1, <3>2
        <4>2. k \notin Later
          BY <3>1, <4>1
        <4> QED BY <1>1, <4>1, <4>2
      <3>4. x - 1 \in 0 .. Len(l.timers) /\ (x - 1) + 1 = x
        BY <1>1, <3>2
      <3>5. P(x - 1)
        BY <3>2, <3>3, <3>4
      <3> QED BY <3>4, <3>5
    <2> QED BY <2>1, <2>2
  <1>3. n = CHOOSE m \in 0 .. Len(l.timers) : P(m)
    BY DEF Before
  <1>4. n \in 0 .. Len(l.timers) /\ P(n)
    BY <1>2, <1>3
  <1> QED BY <1>4

(* tmr_settimer() puts the timer, wherever it was, on the active list only. *)
LEMMA SetKeeps ==
    ASSUME NEW l, Lists(l), NEW t \in Timer, NEW to \in Runner(t), NEW exp \in Times, NEW due \in Nat \ {0},
           Timed(t, exp, due), Listed(l, t) => l.exp[t] # TMR_NEVER,
           NEW s, s = tmr_settimer(l, t, to, exp, due)
    PROVE  Lists(s) /\ Contains(s.timers, t) /\ Elsewhere(s, l, t)
  <1>1. PICK c : c = IF l.exp[t] # TMR_NEVER THEN tmr_clrtimer(l, t) ELSE l
    OBVIOUS
  <1>2. /\ Lists(c) /\ c.task = l.task /\ ~Contains(c.timers, t) /\ \A o \in Owner : ~Contains(c.expired[o], t)
        /\ \A x : Contains(c.timers, x) <=> Contains(l.timers, x) /\ x # t
        /\ \A o \in Owner : \A x : Contains(c.expired[o], x) <=> Contains(l.expired[o], x) /\ x # t
        /\ \A x \in Timer : x # t => c.exp[x] = l.exp[x] /\ c.due[x] = l.due[x]
    <2>1. CASE l.exp[t] # TMR_NEVER
      <3>1. c = tmr_clrtimer(l, t)
        BY <1>1, <2>1
      <3>2. Lists(c) /\ ~Listed(c, t) /\ c.task = l.task /\ Elsewhere(c, l, t)
        BY <3>1, ClearKeeps
      <3> QED BY <3>2 DEF Elsewhere, Listed
    <2>2. CASE l.exp[t] = TMR_NEVER
      <3>1. c = l
        BY <1>1, <2>2
      <3>2. ~Listed(l, t)
        BY <2>2
      <3>3. \A o \in Owner : ~Contains(l.expired[o], t)
        BY <3>2 DEF Lists, Placed, Listed
      <3> QED BY <3>1, <3>2, <3>3 DEF Listed
    <2> QED BY <2>1, <2>2
  <1>3. c \in TimersType /\ Placed(c) /\ Sorted(c)
    BY <1>2 DEF Lists
  <1>4. /\ c.timers \in Seq(Timer) /\ Len(c.timers) \in Nat /\ c.exp \in [Timer -> Times]
        /\ c.task \in [Timer -> Owner] /\ c.due \in [Timer -> Nat] /\ c.expired \in [Owner -> Seq(Timer)]
        /\ \A i \in 1 .. Len(c.timers) : c.timers[i] \in Timer /\ c.exp[c.timers[i]] \in Int
    BY <1>3, FieldsOf
  <1>5. PICK n : n = Before(c, exp)
    OBVIOUS
  <1>6. exp \in Int
    BY Positive DEF Times
  <1>7. /\ n \in 0 .. Len(c.timers)
        /\ \A k \in 1 .. n : c.exp[c.timers[k]] <= exp
        /\ n < Len(c.timers) => exp < c.exp[c.timers[n + 1]]
    BY <1>3, <1>5, <1>6, BeforeIs
  <1>8. PICK new : new = InsertAt(c.timers, n + 1, t)
    OBVIOUS
  <1>9. /\ new \in Seq(Timer) /\ Single(new) /\ Len(new) = Len(c.timers) + 1
        /\ \A x : Contains(new, x) <=> Contains(c.timers, x) \/ x = t
        /\ \A i \in 1 .. Len(new) : new[i] = IF i <= n THEN c.timers[i] ELSE IF i = n + 1 THEN t ELSE c.timers[i - 1]
    <2>1. Single(c.timers)
      BY <1>3 DEF Placed
    <2>2. PICK q : q = c.timers
      OBVIOUS
    <2>3. q \in Seq(Timer) /\ Single(q) /\ ~Contains(q, t) /\ n \in 0 .. Len(q) /\ new = InsertAt(q, n + 1, t)
      BY <1>2, <1>4, <1>7, <1>8, <2>1, <2>2
    <2>4. /\ new \in Seq(Timer) /\ Single(new) /\ Len(new) = Len(q) + 1
          /\ \A x : Contains(new, x) <=> Contains(q, x) \/ x = t
      BY <2>3, InsertIs
    <2>5. \A i \in 1 .. Len(new) : new[i] = IF i <= n THEN q[i] ELSE IF i = n + 1 THEN t ELSE q[i - 1]
      BY <2>3, InsertIs
    <2> QED BY <2>2, <2>4, <2>5
  <1>10. PICK set : set = [c.exp EXCEPT ![t] = exp]
    OBVIOUS
  <1>11. set \in [Timer -> Times] /\ set[t] = exp /\ \A x \in Timer : x # t => set[x] = c.exp[x]
    BY <1>4, <1>6, <1>10
  <1>12. Head(new) = new[1] /\ new[1] \in Timer /\ 1 \in 1 .. Len(new)
    BY <1>4, <1>9
  <1>13. s = [c EXCEPT !.timers = new, !.task[t] = to, !.exp = set, !.due[t] = due, !.next_timer = set[new[1]]]
    <2>1. s = [c EXCEPT !.timers = new, !.task[t] = to, !.exp = set, !.due[t] = due, !.next_timer = set[Head(new)]]
      BY <1>1, <1>5, <1>8, <1>10 DEF tmr_settimer
    <2> QED BY <1>12, <2>1
  <1>14. to \in Owner
    BY DEF Runner, Owner, Task
  <1>15. /\ s.timers = new /\ s.exp = set /\ s.next_timer = set[new[1]] /\ s.expired = c.expired
         /\ s.task = [c.task EXCEPT ![t] = to] /\ s.due = [c.due EXCEPT ![t] = due]
    BY <1>3, <1>13 DEF TimersType
  <1>16. s \in TimersType
    <2>1. /\ [c.task EXCEPT ![t] = to] \in [Timer -> Owner]
          /\ [c.due EXCEPT ![t] = due] \in [Timer -> Nat]
          /\ set[new[1]] \in Times
      BY <1>4, <1>6, <1>11, <1>12, <1>14
    <2> QED BY <1>3, <1>9, <1>11, <1>13, <2>1 DEF TimersType
  <1>17. /\ \A x \in Timer : x # t => s.exp[x] = c.exp[x] /\ s.due[x] = c.due[x] /\ s.task[x] = c.task[x]
         /\ s.exp[t] = exp /\ s.due[t] = due /\ s.task[t] = to
    BY <1>4, <1>11, <1>15
  <1>18. \A x \in Timer : Listed(s, x) <=> Listed(c, x) \/ x = t
    BY <1>9, <1>15, <1>17 DEF Listed
  <1>19. Placed(s)
    <2>1. \A o \in Owner : Single(s.expired[o])
      BY <1>3, <1>15 DEF Placed
    <2>2. \A o \in Owner, x \in Timer : Contains(s.expired[o], x) => s.task[x] = o /\ ~Contains(s.timers, x)
      <3> SUFFICES ASSUME NEW o \in Owner, NEW x \in Timer, Contains(s.expired[o], x)
                   PROVE  s.task[x] = o /\ ~Contains(s.timers, x)
        OBVIOUS
      <3>1. Contains(c.expired[o], x) /\ x # t
        BY <1>2, <1>15
      <3>2. c.task[x] = o /\ ~Contains(c.timers, x)
        BY <1>3, <3>1 DEF Placed
      <3> QED BY <1>9, <1>15, <1>17, <3>1, <3>2
    <2>3. \A x \in Timer : Listed(s, x) <=> s.due[x] # 0
      BY <1>3, <1>6, <1>17, <1>18 DEF Placed
    <2>4. \A x \in Timer : Listed(s, x) => Timed(x, s.exp[x], s.due[x]) /\ s.task[x] \in Runner(x)
      BY <1>3, <1>17, <1>18 DEF Placed
    <2> QED BY <1>9, <1>15, <2>1, <2>2, <2>3, <2>4 DEF Placed
  <1>20. Sorted(s)
    <2>1. \A i \in 1 .. Len(c.timers) : c.timers[i] # t /\ s.exp[c.timers[i]] = c.exp[c.timers[i]]
      <3>1. \A i \in 1 .. Len(c.timers) : Contains(c.timers, c.timers[i])
        BY DEF Contains
      <3> QED BY <1>2, <1>4, <1>17, <3>1
    <2>2. \A i \in 1 .. n : i \in 1 .. Len(c.timers) /\ new[i] = c.timers[i] /\ s.exp[new[i]] = c.exp[c.timers[i]]
      <3> SUFFICES ASSUME NEW i \in 1 .. n
                   PROVE  i \in 1 .. Len(c.timers) /\ new[i] = c.timers[i] /\ s.exp[new[i]] = c.exp[c.timers[i]]
        OBVIOUS
      <3>1. PICK k \in Nat : k = Len(c.timers) /\ Len(new) = k + 1 /\ n \in 0 .. k
        BY <1>4, <1>7, <1>9
      <3>3. i \in 1 .. Len(c.timers) /\ i \in 1 .. Len(new) /\ i <= n
        BY <3>1
      <3>2. new[i] = c.timers[i]
        BY <1>9, <3>3
      <3> QED BY <2>1, <3>2, <3>3
    <2>3. n + 1 \in 1 .. Len(new) /\ new[n + 1] = t /\ s.exp[new[n + 1]] = exp
      <3>1. n + 1 \in 1 .. Len(new) /\ ~(n + 1 <= n)
        BY <1>4, <1>7, <1>9
      <3>2. new[n + 1] = t
        BY <1>9, <3>1
      <3> QED BY <1>17, <3>1, <3>2
    <2>4. ASSUME NEW i \in 1 .. Len(new), i > n + 1
          PROVE  i - 1 \in 1 .. Len(c.timers) /\ new[i] = c.timers[i - 1] /\ s.exp[new[i]] = c.exp[c.timers[i - 1]]
      <3>1. i - 1 \in 1 .. Len(c.timers) /\ ~(i <= n) /\ i # n + 1
        BY <1>4, <1>7, <1>9, <2>4
      <3>2. new[i] = c.timers[i - 1]
        BY <1>9, <3>1
      <3> QED BY <2>1, <3>1, <3>2
    <2>5. ASSUME NEW i \in n + 1 .. Len(c.timers)
          PROVE  exp < c.exp[c.timers[i]]
      <3>1. n < Len(c.timers) /\ n + 1 \in 1 .. Len(c.timers) /\ i \in 1 .. Len(c.timers)
        BY <1>4, <1>7, <2>5
      <3>2. exp < c.exp[c.timers[n + 1]]
        BY <1>7, <3>1
      <3>3. CASE i = n + 1
        BY <3>2, <3>3
      <3>4. CASE n + 1 < i
        <4>1. c.exp[c.timers[n + 1]] <= c.exp[c.timers[i]]
          BY <1>3, <3>1, <3>4 DEF Sorted
        <4> QED BY <1>4, <1>6, <3>1, <3>2, <4>1
      <3> QED BY <1>7, <3>1, <3>3, <3>4
    <2>6. ASSUME NEW i \in 1 .. Len(new), NEW j \in 1 .. Len(new), i < j
          PROVE  s.exp[new[i]] <= s.exp[new[j]]
      <3>1. CASE j <= n
        <4>1. i \in 1 .. n /\ j \in 1 .. n
          BY <1>7, <2>6, <3>1
        <4>2. c.exp[c.timers[i]] <= c.exp[c.timers[j]]
          BY <1>3, <2>2, <2>6, <4>1 DEF Sorted
        <4> QED BY <2>2, <4>1, <4>2
      <3>2. CASE i <= n /\ j = n + 1
        <4>1. i \in 1 .. n
          BY <1>7, <3>2
        <4> QED BY <1>7, <2>2, <2>3, <3>2, <4>1
      <3>3. CASE i <= n /\ j > n + 1
        <4>1. i \in 1 .. n /\ j - 1 \in 1 .. Len(c.timers) /\ i < j - 1
          BY <1>7, <2>4, <2>6, <3>3
        <4>2. c.exp[c.timers[i]] <= c.exp[c.timers[j - 1]]
          BY <1>3, <2>2, <4>1 DEF Sorted
        <4> QED BY <2>2, <2>4, <3>3, <4>1, <4>2
      <3>4. CASE i = n + 1 /\ j > n + 1
        <4>1. j - 1 \in n + 1 .. Len(c.timers) /\ j - 1 \in 1 .. Len(c.timers)
          BY <1>4, <1>7, <2>4, <3>4
        <4>2. exp < c.exp[c.timers[j - 1]]
          BY <2>5, <4>1
        <4>3. s.exp[new[j]] = c.exp[c.timers[j - 1]] /\ s.exp[new[i]] = exp
          BY <2>3, <2>4, <3>4
        <4>4. PICK e \in Int : e = c.exp[c.timers[j - 1]]
          BY <1>4, <4>1
        <4> QED BY <1>6, <4>2, <4>3, <4>4
      <3>5. CASE i > n + 1
        <4>1. /\ i - 1 \in 1 .. Len(c.timers) /\ j - 1 \in 1 .. Len(c.timers) /\ i - 1 < j - 1
              /\ s.exp[new[i]] = c.exp[c.timers[i - 1]] /\ s.exp[new[j]] = c.exp[c.timers[j - 1]]
          <5>1. j > n + 1
            BY <1>7, <2>6, <3>5
          <5> QED BY <2>4, <2>6, <3>5, <5>1
        <4>2. c.exp[c.timers[i - 1]] <= c.exp[c.timers[j - 1]]
          BY <1>3, <4>1 DEF Sorted
        <4> QED BY <4>1, <4>2
      <3> QED BY <1>7, <2>6, <3>1, <3>2, <3>3, <3>4, <3>5
    <2>7. s.next_timer <= s.exp[s.timers[1]]
      <3>1. \A x \in Times : x <= x
        BY Positive DEF Times
      <3> QED BY <1>11, <1>12, <1>15, <3>1
    <2> QED BY <1>15, <2>6, <2>7 DEF Sorted
  <1>21. Elsewhere(s, l, t)
    BY <1>2, <1>9, <1>15, <1>17 DEF Elsewhere
  <1> QED BY <1>9, <1>15, <1>16, <1>19, <1>20, <1>21 DEF Lists

(* The first of a list is taken off. *)
LEMMA TailIs ==
    ASSUME NEW q \in Seq(Timer), Single(q), q # <<>>, NEW r, r = Tail(q)
    PROVE  /\ r \in Seq(Timer) /\ Single(r) /\ Thinned(r, q)
           /\ Head(q) = q[1] /\ q[1] \in Timer /\ Contains(q, q[1])
           /\ \A x : Contains(r, x) <=> Contains(q, x) /\ x # q[1]
  <1>1. Len(q) \in Nat /\ 1 \in 1 .. Len(q) /\ Head(q) = q[1] /\ q[1] \in Timer
    OBVIOUS
  <1>2. r \in Seq(Timer) /\ Len(r) = Len(q) - 1 /\ \A i \in 1 .. Len(r) : i + 1 \in 1 .. Len(q) /\ r[i] = q[i + 1]
    BY <1>1, HeadTailProperties
  <1>3. Single(r)
    <2> SUFFICES ASSUME NEW i \in 1 .. Len(r), NEW j \in 1 .. Len(r), i # j
                 PROVE  r[i] # r[j]
      BY DEF Single
    <2>1. i + 1 # j + 1
      OBVIOUS
    <2> QED BY <1>2, <2>1 DEF Single
  <1>4. Thinned(r, q)
    <2>1. \A i, j \in 1 .. Len(r) : i < j => i + 1 < j + 1
      OBVIOUS
    <2> QED BY <1>2, <2>1 DEF Thinned
  <1>5. ASSUME NEW x, Contains(r, x)
        PROVE  Contains(q, x) /\ x # q[1]
    <2>1. PICK i \in 1 .. Len(r) : r[i] = x
      BY <1>5 DEF Contains
    <2>2. i + 1 \in 1 .. Len(q) /\ q[i + 1] = x /\ i + 1 # 1
      BY <1>2, <2>1
    <2> QED BY <1>1, <2>2 DEF Contains, Single
  <1>6. ASSUME NEW x, Contains(q, x), x # q[1]
        PROVE  Contains(r, x)
    <2>1. PICK k \in 1 .. Len(q) : q[k] = x
      BY <1>6 DEF Contains
    <2>2. k - 1 \in 1 .. Len(r) /\ (k - 1) + 1 = k
      BY <1>1, <1>2, <1>6, <2>1
    <2>3. r[k - 1] = x
      BY <1>2, <2>1, <2>2
    <2> QED BY <2>2, <2>3 DEF Contains
  <1>7. Contains(q, q[1])
    BY <1>1 DEF Contains
  <1> QED BY <1>1, <1>2, <1>3, <1>4, <1>5, <1>6, <1>7

(* One is put in front. *)
LEMMA ConsIs ==
    ASSUME NEW q \in Seq(Timer), Single(q), NEW t \in Timer, ~Contains(q, t), NEW r, r = <<t>> \o q
    PROVE  r \in Seq(Timer) /\ Single(r) /\ \A x : Contains(r, x) <=> Contains(q, x) \/ x = t
  <1>1. PICK b : b = <<t>>
    OBVIOUS
  <1>2. b \in Seq(Timer) /\ Len(b) = 1 /\ b[1] = t /\ Len(q) \in Nat
    BY <1>1
  <1>3. /\ r \in Seq(Timer) /\ Len(r) = Len(b) + Len(q)
        /\ \A i \in 1 .. Len(b) + Len(q) : r[i] = IF i <= Len(b) THEN b[i] ELSE q[i - Len(b)]
    <2>1. b \in Seq(Timer) /\ q \in Seq(Timer)
      BY <1>2
    <2> QED BY <1>1, <2>1, ConcatProperties
  <1>4. Len(r) = Len(q) + 1 /\ 1 \in 1 .. Len(r) /\ r[1] = t
    BY <1>2, <1>3
  <1>5. \A i \in 1 .. Len(r) : i # 1 => i - 1 \in 1 .. Len(q) /\ r[i] = q[i - 1]
    BY <1>2, <1>3, <1>4
  <1>6. ASSUME NEW x, Contains(r, x)
        PROVE  Contains(q, x) \/ x = t
    <2>1. PICK i \in 1 .. Len(r) : r[i] = x
      BY <1>6 DEF Contains
    <2> QED BY <1>4, <1>5, <2>1 DEF Contains
  <1>7. ASSUME NEW x, Contains(q, x) \/ x = t
        PROVE  Contains(r, x)
    <2>1. CASE x = t
      BY <1>4, <2>1 DEF Contains
    <2>2. CASE Contains(q, x)
      <3>1. PICK k \in 1 .. Len(q) : q[k] = x
        BY <2>2 DEF Contains
      <3>2. k + 1 \in 1 .. Len(r) /\ k + 1 # 1 /\ (k + 1) - 1 = k
        BY <1>2, <1>4, <3>1
      <3>3. r[k + 1] = x
        BY <1>5, <3>1, <3>2
      <3> QED BY <3>2, <3>3 DEF Contains
    <2> QED BY <1>7, <2>1, <2>2
  <1>8. Single(r)
    <2> SUFFICES ASSUME NEW i \in 1 .. Len(r), NEW j \in 1 .. Len(r), i # j
                 PROVE  r[i] # r[j]
      BY DEF Single
    <2>1. \A k \in 1 .. Len(q) : q[k] # t
      BY DEF Contains
    <2>2. CASE i # 1 /\ j # 1
      <3>1. i - 1 # j - 1
        BY <2>2
      <3> QED BY <1>5, <2>2, <3>1 DEF Single
    <2> QED BY <1>4, <1>5, <2>1, <2>2
  <1> QED BY <1>3, <1>6, <1>7, <1>8

(* One turn of the loop of do_clocktick(): the first timer changes lists. *)
Moved(l) == LET t == Head(l.timers)
            IN  [l EXCEPT !.timers = Tail(@), !.expired[l.task[t]] = <<t>> \o @]

(* The timer is on the list of that owner now, too. *)
Gained(s, l, o, t) ==
    /\ \A p \in Owner : \A x : Contains(s.expired[p], x) <=> Contains(l.expired[p], x) \/ (p = o /\ x = t)
    /\ \A p \in Owner : p # o => s.expired[p] = l.expired[p]

LEMMA MoveKeeps ==
    ASSUME NEW l, Lists(l), l.timers # <<>>, NEW t, t = Head(l.timers), NEW o, o = l.task[t],
           NEW s, s = Moved(l)
    PROVE  /\ Lists(s) /\ t \in Timer /\ o \in Owner /\ o \in Runner(t) /\ Timed(t, l.exp[t], l.due[t])
           /\ s.exp = l.exp /\ s.due = l.due /\ s.task = l.task
           /\ Gained(s, l, o, t) /\ \A x \in Timer : Listed(s, x) <=> Listed(l, x)
  <1>1. l \in TimersType /\ Placed(l) /\ Sorted(l)
    BY DEF Lists
  <1>2. /\ l.timers \in Seq(Timer) /\ l.exp \in [Timer -> Times] /\ l.task \in [Timer -> Owner]
        /\ l.due \in [Timer -> Nat] /\ l.expired \in [Owner -> Seq(Timer)]
        /\ \A x \in Timer : l.task[x] \in Owner
        /\ \A p \in Owner : l.expired[p] \in Seq(Timer)
    BY <1>1, FieldsOf
  <1>3. PICK q : q = l.timers
    OBVIOUS
  <1>4. PICK r : r = Tail(q)
    OBVIOUS
  <1>5. /\ r \in Seq(Timer) /\ Single(r) /\ Thinned(r, q) /\ t \in Timer /\ Contains(q, t)
        /\ \A x : Contains(r, x) <=> Contains(q, x) /\ x # t
    <2>1. q \in Seq(Timer) /\ Single(q) /\ q # <<>>
      BY <1>1, <1>2, <1>3 DEF Placed
    <2>2. /\ r \in Seq(Timer) /\ Single(r) /\ Thinned(r, q)
          /\ Head(q) = q[1] /\ q[1] \in Timer /\ Contains(q, q[1])
          /\ \A x : Contains(r, x) <=> Contains(q, x) /\ x # q[1]
      BY <1>4, <2>1, TailIs
    <2>3. t = q[1]
      BY <1>3, <2>2
    <2> QED BY <2>2, <2>3
  <1>6. /\ Listed(l, t) /\ o \in Owner /\ o \in Runner(t) /\ Timed(t, l.exp[t], l.due[t])
        /\ \A p \in Owner : ~Contains(l.expired[p], t)
    <2>1. Listed(l, t)
      BY <1>3, <1>5 DEF Listed
    <2> QED BY <1>1, <1>2, <1>3, <1>5, <2>1 DEF Placed
  <1>7. PICK e : e = l.expired[o]
    OBVIOUS
  <1>8. PICK v : v = <<t>> \o e
    OBVIOUS
  <1>9. v \in Seq(Timer) /\ Single(v) /\ \A x : Contains(v, x) <=> Contains(e, x) \/ x = t
    <2>1. e \in Seq(Timer) /\ Single(e) /\ ~Contains(e, t)
      BY <1>1, <1>2, <1>6, <1>7 DEF Placed
    <2>2. t \in Timer
      BY <1>5
    <2>3. v \in Seq(Timer) /\ Single(v)
      BY <1>8, <2>1, <2>2, ConsIs
    <2>4. \A x : Contains(v, x) <=> Contains(e, x) \/ x = t
      BY <1>8, <2>1, <2>2, ConsIs
    <2> QED BY <2>3, <2>4
  <1>10. s = [l EXCEPT !.timers = r, !.expired[o] = v]
    BY <1>3, <1>4, <1>7, <1>8 DEF Moved
  <1>11. /\ s.timers = r /\ s.exp = l.exp /\ s.due = l.due /\ s.task = l.task /\ s.next_timer = l.next_timer
         /\ s.expired = [l.expired EXCEPT ![o] = v]
    BY <1>1, <1>10 DEF TimersType
  <1>12. s \in TimersType
    <2>1. [l.expired EXCEPT ![o] = v] \in [Owner -> Seq(Timer)]
      BY <1>2, <1>9
    <2> QED BY <1>1, <1>5, <1>10, <2>1 DEF TimersType
  <1>13. s.expired[o] = v /\ \A p \in Owner : p # o => s.expired[p] = l.expired[p]
    BY <1>2, <1>6, <1>11
  <1>14. \A p \in Owner : \A x : Contains(s.expired[p], x) <=> Contains(l.expired[p], x) \/ (p = o /\ x = t)
    BY <1>7, <1>9, <1>13
  <1>15. \A x \in Timer : Listed(s, x) <=> Listed(l, x)
    <2> SUFFICES ASSUME NEW x \in Timer
                 PROVE  Listed(s, x) <=> Listed(l, x)
      OBVIOUS
    <2>1. Contains(s.expired[s.task[x]], x) <=> Contains(l.expired[l.task[x]], x) \/ x = t
      BY <1>2, <1>11, <1>14
    <2>2. Contains(s.timers, x) <=> Contains(l.timers, x) /\ x # t
      BY <1>3, <1>5, <1>11
    <2> QED BY <1>6, <2>1, <2>2 DEF Listed
  <1>16. Placed(s)
    <2>1. \A p \in Owner : Single(s.expired[p])
      BY <1>1, <1>9, <1>13 DEF Placed
    <2>2. \A p \in Owner, x \in Timer : Contains(s.expired[p], x) => s.task[x] = p /\ ~Contains(s.timers, x)
      <3> SUFFICES ASSUME NEW p \in Owner, NEW x \in Timer, Contains(s.expired[p], x)
                   PROVE  s.task[x] = p /\ ~Contains(s.timers, x)
        OBVIOUS
      <3>1. CASE x = t
        <4>1. p = o
          BY <1>6, <1>14, <3>1
        <4> QED BY <1>5, <1>11, <3>1, <4>1
      <3>2. CASE x # t
        <4>1. l.task[x] = p /\ ~Contains(l.timers, x)
          BY <1>1, <1>14, <3>2 DEF Placed
        <4> QED BY <1>3, <1>5, <1>11, <4>1
      <3> QED BY <3>1, <3>2
    <2>3. \A x \in Timer : Listed(s, x) <=> s.due[x] # 0
      BY <1>1, <1>11, <1>15 DEF Placed
    <2>4. \A x \in Timer : Listed(s, x) => Timed(x, s.exp[x], s.due[x]) /\ s.task[x] \in Runner(x)
      BY <1>1, <1>11, <1>15 DEF Placed
    <2> QED BY <1>5, <1>11, <2>1, <2>2, <2>3, <2>4 DEF Placed
  <1>17. Sorted(s)
    BY <1>1, <1>3, <1>5, <1>11, <1>12, StillSorted
  <1> QED BY <1>5, <1>6, <1>11, <1>12, <1>13, <1>14, <1>15, <1>16, <1>17 DEF Lists, Gained

(* A task runs the first of the timers that have gone off. *)
LEMMA RanKeeps ==
    ASSUME NEW l, Lists(l), NEW o \in Owner, l.expired[o] # <<>>, NEW t, t = Head(l.expired[o]),
           NEW s, s = Ran(l, o)
    PROVE  /\ Lists(s) /\ t \in Timer /\ o \in Runner(t) /\ Elsewhere(s, l, t) /\ Contains(l.expired[o], t)
           /\ s.timers = l.timers
           /\ \A p \in Owner : p # o => s.expired[p] = l.expired[p]
  <1>1. l \in TimersType /\ Placed(l) /\ Sorted(l)
    BY DEF Lists
  <1>2. /\ l.timers \in Seq(Timer) /\ l.exp \in [Timer -> Times] /\ l.task \in [Timer -> Owner]
        /\ l.due \in [Timer -> Nat] /\ l.expired \in [Owner -> Seq(Timer)]
        /\ \A x \in Timer : l.task[x] \in Owner
        /\ \A p \in Owner : l.expired[p] \in Seq(Timer)
    BY <1>1, FieldsOf
  <1>3. PICK q : q = l.expired[o]
    OBVIOUS
  <1>4. PICK r : r = Tail(q)
    OBVIOUS
  <1>5. /\ r \in Seq(Timer) /\ Single(r) /\ t \in Timer /\ Contains(q, t)
        /\ \A x : Contains(r, x) <=> Contains(q, x) /\ x # t
    <2>1. q \in Seq(Timer) /\ Single(q) /\ q # <<>>
      BY <1>1, <1>2, <1>3 DEF Placed
    <2>2. /\ r \in Seq(Timer) /\ Single(r)
          /\ Head(q) = q[1] /\ q[1] \in Timer /\ Contains(q, q[1])
          /\ \A x : Contains(r, x) <=> Contains(q, x) /\ x # q[1]
      BY <1>4, <2>1, TailIs
    <2>3. t = q[1]
      BY <1>3, <2>2
    <2> QED BY <2>2, <2>3
  <1>6. /\ l.task[t] = o /\ ~Contains(l.timers, t) /\ Listed(l, t) /\ o \in Runner(t)
        /\ \A p \in Owner : p # o => ~Contains(l.expired[p], t)
    <2>1. l.task[t] = o /\ ~Contains(l.timers, t) /\ \A p \in Owner : p # o => ~Contains(l.expired[p], t)
      BY <1>1, <1>3, <1>5 DEF Placed
    <2>2. Listed(l, t)
      BY <1>3, <1>5, <2>1 DEF Listed
    <2> QED BY <1>1, <1>5, <2>1, <2>2 DEF Placed
  <1>7. s = [l EXCEPT !.expired[o] = r, !.exp[t] = TMR_NEVER, !.due[t] = 0]
    BY <1>3, <1>4 DEF Ran
  <1>8. /\ s.timers = l.timers /\ s.task = l.task /\ s.next_timer = l.next_timer
        /\ s.expired = [l.expired EXCEPT ![o] = r]
        /\ s.exp = [l.exp EXCEPT ![t] = TMR_NEVER] /\ s.due = [l.due EXCEPT ![t] = 0]
    BY <1>1, <1>7 DEF TimersType
  <1>9. s \in TimersType
    <2>1. /\ [l.expired EXCEPT ![o] = r] \in [Owner -> Seq(Timer)]
          /\ [l.exp EXCEPT ![t] = TMR_NEVER] \in [Timer -> Times]
          /\ [l.due EXCEPT ![t] = 0] \in [Timer -> Nat]
      BY <1>2, <1>5, Positive DEF Times, TMR_NEVER
    <2> QED BY <1>1, <1>7, <2>1 DEF TimersType
  <1>10. /\ s.expired[o] = r /\ \A p \in Owner : p # o => s.expired[p] = l.expired[p]
         /\ s.due[t] = 0
         /\ \A x \in Timer : x # t => s.exp[x] = l.exp[x] /\ s.due[x] = l.due[x]
    BY <1>2, <1>5, <1>8
  <1>11. \A p \in Owner : \A x : Contains(s.expired[p], x) <=> Contains(l.expired[p], x) /\ x # t
    BY <1>3, <1>5, <1>6, <1>10
  <1>12. Elsewhere(s, l, t)
    <2>1. \A x : Contains(s.timers, x) <=> (Contains(l.timers, x) /\ x # t) \/ (x = t /\ Contains(s.timers, t))
      BY <1>8
    <2> QED BY <1>8, <1>10, <1>11, <2>1 DEF Elsewhere
  <1>13. \A x \in Timer : Listed(s, x) <=> Listed(l, x) /\ x # t
    BY <1>2, <1>6, <1>8, <1>11 DEF Listed
  <1>14. Placed(s)
    <2>1. \A p \in Owner : Single(s.expired[p])
      BY <1>1, <1>5, <1>10 DEF Placed
    <2>2. \A p \in Owner, x \in Timer : Contains(s.expired[p], x) => s.task[x] = p /\ ~Contains(s.timers, x)
      BY <1>1, <1>8, <1>11 DEF Placed
    <2>3. \A x \in Timer : Listed(s, x) <=> s.due[x] # 0
      BY <1>1, <1>10, <1>13 DEF Placed
    <2>4. \A x \in Timer : Listed(s, x) => Timed(x, s.exp[x], s.due[x]) /\ s.task[x] \in Runner(x)
      BY <1>1, <1>8, <1>10, <1>13 DEF Placed
    <2> QED BY <1>1, <1>8, <2>1, <2>2, <2>3, <2>4 DEF Placed
  <1>15. Sorted(s)
    <2>1. \A i \in 1 .. Len(l.timers) : l.timers[i] \in Timer /\ l.timers[i] # t /\ s.exp[l.timers[i]] = l.exp[l.timers[i]]
      <3>1. \A i \in 1 .. Len(l.timers) : l.timers[i] \in Timer /\ Contains(l.timers, l.timers[i])
        BY <1>2 DEF Contains
      <3> QED BY <1>6, <1>10, <3>1
    <2>2. l.timers # <<>> => 1 \in 1 .. Len(l.timers)
      BY <1>2
    <2> QED BY <1>1, <1>8, <2>1, <2>2 DEF Sorted
  <1> QED BY <1>3, <1>5, <1>6, <1>8, <1>9, <1>10, <1>12, <1>14, <1>15 DEF Lists
-----------------------------------------------------------------------------
(* The parts of the invariant. *)

Jobs == [pc : JobPcs, t : Timer, to : Task, exp : Times, due : Nat]

ClockOK == realtime \in 0 .. MaxTime /\ pending_ticks \in 0 .. MaxTime /\ Now \in 0 .. MaxTime
TasksOK == irq \in [Task -> BOOLEAN] /\ syn \in {"recv", "send", "ready"} /\ drv \in {"recv", "wait"} /\ f_busy \in {"IDLE", "IO", "WAKEN"}
UsersOK == sched_ticks \in -1 .. SCHED_RATE /\ prev_ptr \in User \cup {IDLE, NIL} /\ bill_ptr \in User \cup {IDLE} /\ userq \in Seq(User)

LEMMA TypeParts == TypeOK <=> ClockOK /\ tmr \in TimersType /\ job \in Jobs /\ TasksOK /\ UsersOK
  BY DEF TypeOK, ClockOK, TimersType, Times, Jobs, TasksOK, UsersOK

LEMMA AtIs ==
    ASSUME NEW pc \in JobPcs
    PROVE  At(pc) \in Jobs /\ At(pc).pc = pc /\ At(pc).t = Stop /\ Idle \in Jobs /\ Idle.pc = "idle"
  <1>1. Idle \in Jobs /\ Idle.pc = "idle"
    BY Positive DEF Idle, Jobs, JobPcs, Task, Timer, Times
  <1>2. At(pc) = [Idle EXCEPT !.pc = pc]
    BY DEF At
  <1> QED BY <1>1, <1>2 DEF Idle, Jobs

LEMMA EmptyIs ==
    ASSUME NEW q \in Seq(Timer)
    PROVE  q # <<>> <=> \E x : Contains(q, x)
  <1>1. Len(q) \in Nat /\ (q # <<>> <=> 1 \in 1 .. Len(q))
    OBVIOUS
  <1> QED BY <1>1 DEF Contains

(* A timer taken off a list makes no list longer. *)
LEMMA NoneNew ==
    ASSUME NEW l \in TimersType, NEW s \in TimersType, NEW t, Elsewhere(s, l, t), NEW o \in Owner, s.expired[o] # <<>>
    PROVE  l.expired[o] # <<>>
  <1>1. l.expired[o] \in Seq(Timer) /\ s.expired[o] \in Seq(Timer)
    BY FieldsOf
  <1>2. PICK x : Contains(s.expired[o], x)
    BY <1>1, EmptyIs
  <1>3. Contains(l.expired[o], x)
    BY <1>2 DEF Elsewhere
  <1> QED BY <1>1, <1>3, EmptyIs

LEMMA StillListed ==
    ASSUME NEW l \in TimersType, NEW s, NEW t, Elsewhere(s, l, t), NEW x \in Timer, x # t
    PROVE  Listed(s, x) <=> Listed(l, x)
  <1>1. l.task[x] \in Owner /\ s.task[x] = l.task[x]
    BY FieldsOf DEF Elsewhere
  <1> QED BY <1>1 DEF Elsewhere, Listed

(* No timer that has gone off is early. *)
OnTime == \A o \in Task : \A x \in Timer : Contains(tmr.expired[o], x) => tmr.due[x] <= realtime \/ tmr.due[x] > LONG_MAX

IInv == /\ ClockOK /\ Lists(tmr) /\ job \in Jobs /\ TasksOK /\ UsersOK
        /\ OnTime /\ JobSound /\ DriverSound /\ Alerted /\ QuantumSound

LEMMA OnTimeIs == ASSUME Lists(tmr), OnTime PROVE NoneEarly
  <1> SUFFICES ASSUME NEW o \in Task, NEW i \in DOMAIN tmr.expired[o]
               PROVE  tmr.due[tmr.expired[o][i]] <= realtime \/ tmr.due[tmr.expired[o][i]] > LONG_MAX
    BY DEF NoneEarly
  <1>1. tmr \in TimersType /\ o \in Owner
    BY DEF Lists, Owner
  <1>2. tmr.expired[o] \in Seq(Timer)
    BY <1>1, FieldsOf
  <1>3. tmr.expired[o][i] \in Timer /\ Contains(tmr.expired[o], tmr.expired[o][i])
    BY <1>2 DEF Contains
  <1> QED BY <1>3 DEF OnTime

LEMMA ClockNumbers ==
    ASSUME ClockOK
    PROVE  realtime \in Nat /\ pending_ticks \in Nat /\ Now \in Nat /\ realtime <= Now /\ Now = realtime + pending_ticks /\ Now <= MaxTime
  BY Positive DEF ClockOK, Now

(* Times wrap around. *)
LEMMA WrapIs ==
    ASSUME NEW n \in Int
    PROVE  /\ wrap(n) \in Times
           /\ n \in Times => wrap(n) = n
  <1>1. PICK m \in Nat : m = 2 * LONG_MAX + 2 /\ m > 0
    BY Positive
  <1>2. PICK k \in Int : k = n + LONG_MAX + 1
    BY Positive
  <1>3. wrap(n) = (k % m) - LONG_MAX - 1
    BY <1>1, <1>2 DEF wrap
  <1>4. k % m \in 0 .. m - 1
    BY <1>1, <1>2
  <1>5. k \in 0 .. m - 1 => k % m = k
    BY <1>1, <1>2
  <1>6. wrap(n) \in Times
    <2>1. PICK x \in Int : x = k % m /\ 0 <= x /\ x <= 2 * LONG_MAX + 1
      BY <1>1, <1>4, Positive
    <2> QED BY <1>3, <2>1, Positive DEF Times
  <1>7. ASSUME n \in Times
        PROVE  wrap(n) = n
    BY <1>1, <1>2, <1>3, <1>5, <1>7, Positive DEF Times
  <1> QED BY <1>6, <1>7

(* A timer that is due before the end of clock_t goes off when it is due.  *)
LEMMA SettingIs ==
    ASSUME ClockOK, NEW t \in Timer, NEW to \in Task, to \in Runner(t), NEW d \in Nat \ {0}, NEW delta \in Int,
           d <= LONG_MAX => delta = d, t \in {Timeout, Stop} => MaxTime + d < LONG_MAX
    PROVE  LET s == Setting(t, to, delta, d) IN
           /\ s \in Jobs /\ s.pc = "set" /\ s.t = t /\ s.to \in Runner(s.t)
           /\ s.due # 0 /\ Timed(s.t, s.exp, s.due)
  <1>1. Now \in Nat /\ Now <= MaxTime /\ Now + delta \in Int /\ Now + d \in Nat /\ Now + d # 0
    BY ClockNumbers
  <1>2. PICK n : n = wrap(Now + delta)
    OBVIOUS
  <1>3. PICK e \in Nat : e = Now + d
    BY <1>1
  <1>4. n \in Times
    BY <1>1, <1>2, WrapIs
  <1>5. e <= LONG_MAX => n = e
    <2>1. ASSUME e <= LONG_MAX
          PROVE  n = e
      <3>1. delta = d /\ Now + delta = e /\ e \in Times
        BY <1>1, <1>3, <2>1, Positive DEF Times
      <3> QED BY <1>1, <1>2, <3>1, WrapIs
    <2> QED BY <2>1
  <1>6. t \in {Timeout, Stop} => e < LONG_MAX
    BY <1>1, <1>3, Positive
  <1>7. Setting(t, to, delta, d) = [pc |-> "set", t |-> t, to |-> to, exp |-> n, due |-> e]
    BY <1>2, <1>3 DEF Setting
  <1>8. Timed(t, n, e) /\ e # 0
    BY <1>1, <1>3, <1>5, <1>6 DEF Timed
  <1> QED BY <1>3, <1>4, <1>7, <1>8 DEF Jobs, JobPcs

(* What the driver sets. *)
LEMMA WaitingIs ==
    ASSUME ClockOK, NEW w \in Waits
    PROVE  LET a == Setting(Timeout, "CLOCK", w, w)
               b == Setting(Stop, "DRIVER", w, w)
           IN  /\ a \in Jobs /\ a.pc = "set" /\ a.t = Timeout /\ a.to \in Runner(a.t)
               /\ a.due # 0 /\ Timed(a.t, a.exp, a.due)
               /\ b \in Jobs /\ b.pc = "set" /\ b.t = Stop /\ b.to \in Runner(b.t)
               /\ b.due # 0 /\ Timed(b.t, b.exp, b.due)
  <1>1. w \in Nat \ {0} /\ w \in Int /\ MaxTime + w < LONG_MAX
    BY ClockAssumption
  <1>2. Timeout \in Timer /\ "CLOCK" \in Task /\ "CLOCK" \in Runner(Timeout)
    BY DEF Timer, Task, Runner
  <1>3. Stop \in Timer /\ "DRIVER" \in Task /\ "DRIVER" \in Runner(Stop)
    BY ClockAssumption DEF Timer, Task, Runner
  <1> QED BY <1>1, <1>2, <1>3, SettingIs

(* Time only passes. *)
LEMMA TimesKept == ASSUME ClockOK, Lists(tmr), OnTime, tmr' = tmr, realtime <= realtime', realtime' \in Int PROVE OnTime'
  <1>1. tmr \in TimersType /\ realtime \in Int
    BY ClockNumbers DEF Lists
  <1>2. \A x \in Timer : tmr.due[x] \in Int
    BY <1>1, FieldsOf
  <1> QED BY <1>1, <1>2 DEF OnTime
-----------------------------------------------------------------------------
(* The steps that leave the lists alone. *)

LEMMA HandlerKeeps == ASSUME IInv, clock_handler PROVE IInv'
  <1> USE DEF IInv
  <1>1. ClockOK' /\ realtime' = realtime
    <2>1. PICK now : now = IF Now < MaxTime THEN Now + 1 ELSE Now
      OBVIOUS
    <2>2. now \in Nat /\ realtime <= now /\ now <= MaxTime
      BY <2>1, Positive, ClockNumbers
    <2>3. realtime' = realtime /\ pending_ticks' = now - realtime
      BY <2>1 DEF clock_handler
    <2> QED BY <2>2, <2>3, Positive, ClockNumbers DEF ClockOK, Now
  <1>2. tmr' = tmr /\ job' = job /\ UNCHANGED <<taskvars, uservars>>
    BY DEF clock_handler
  <1>3. TasksOK' /\ \A o \in Task : irq[o] => irq'[o]
    BY <1>2 DEF clock_handler, TasksOK, taskvars, Task
  <1>4. UsersOK' /\ QuantumSound'
    <2>1. sched_ticks \in -1 .. SCHED_RATE /\ sched_ticks > -1
      BY DEF clock_handler, UsersOK, MinTicks
    <2>2. \/ sched_ticks' = sched_ticks /\ prev_ptr' = prev_ptr
          \/ sched_ticks # 1 /\ sched_ticks' = sched_ticks - 1 /\ prev_ptr' = prev_ptr
          \/ sched_ticks = 1 /\ sched_ticks' = SCHED_RATE /\ prev_ptr' = bill_ptr
      BY DEF clock_handler, quantum
    <2> QED BY <1>2, <2>1, <2>2, Positive DEF UsersOK, QuantumSound, uservars
  <1>5. OnTime' /\ JobSound'
    BY <1>1, <1>2 DEF OnTime, JobSound
  <1>6. DriverSound' /\ Alerted'
    BY <1>2, <1>3 DEF DriverSound, Alerted, Driving, taskvars, Task
  <1> QED BY <1>1, <1>2, <1>3, <1>4, <1>5, <1>6

(* The clock task takes its message. *)
LEMMA TickKeeps == ASSUME IInv, TakeTick PROVE IInv'
  <1> USE DEF IInv
  <1>1. ClockOK' /\ realtime <= realtime' /\ realtime' \in Int
    BY ClockNumbers, Positive DEF TakeTick, Transfer, ClockOK, Now
  <1>2. tmr' = tmr /\ UNCHANGED <<taskvars, quantum, uservars>> /\ job = Idle /\ job' = At("expire")
    BY DEF TakeTick, Free, Begin
  <1>3. job' \in Jobs /\ job'.pc = "expire" /\ job.pc = "idle"
    BY <1>2, AtIs DEF JobPcs
  <1>4. irq' = [irq EXCEPT !["CLOCK"] = FALSE]
    BY DEF TakeTick, Takes
  <1>5. TasksOK' /\ UsersOK'
    BY <1>2, <1>4 DEF TasksOK, UsersOK, Task, taskvars, quantum, uservars
  <1>6. OnTime'
    BY <1>1, <1>2, TimesKept
  <1>7. JobSound' /\ QuantumSound'
    BY <1>2, <1>3 DEF JobSound, QuantumSound, quantum
  <1>8. DriverSound' /\ Alerted'
    BY <1>2, <1>3, <1>4 DEF DriverSound, Alerted, Driving, taskvars, Task, TasksOK
  <1> QED BY <1>1, <1>2, <1>3, <1>5, <1>6, <1>7, <1>8

LEMMA ClocktickKeeps == ASSUME IInv, do_clocktick PROVE IInv'
  <1> USE DEF IInv
  <1>1. tmr' = tmr /\ UNCHANGED <<clockvars, irq, taskvars, quantum, uservars>> /\ job.pc = "expire"
    BY DEF do_clocktick
  <1>2. job' \in Jobs /\ job'.pc \in {"move", "sched"}
    BY AtIs DEF do_clocktick, Begin, JobPcs
  <1>3. ClockOK' /\ TasksOK' /\ UsersOK' /\ OnTime'
    BY <1>1 DEF ClockOK, TasksOK, UsersOK, OnTime, clockvars, taskvars, quantum, uservars, Now
  <1>4. JobSound' /\ QuantumSound'
    BY <1>1, <1>2 DEF JobSound, QuantumSound, quantum
  <1>5. DriverSound' /\ Alerted'
    BY <1>1, <1>2 DEF DriverSound, Alerted, Driving, taskvars
  <1> QED BY <1>1, <1>2, <1>3, <1>4, <1>5

LEMMA CountKeeps == ASSUME IInv, CountDown PROVE IInv'
  <1> USE DEF IInv
  <1>1. tmr' = tmr /\ UNCHANGED <<clockvars, irq, taskvars, prev_ptr, uservars>> /\ job.pc = "sched" /\ sched_ticks' = sched_ticks - 1
    BY DEF CountDown
  <1>2. job' \in Jobs /\ job'.pc = IF sched_ticks = 1 THEN "switch" ELSE "idle"
    BY AtIs DEF CountDown, JobPcs
  <1>3. ClockOK' /\ TasksOK' /\ OnTime'
    BY <1>1 DEF ClockOK, TasksOK, OnTime, clockvars, taskvars, Now
  <1>4. UsersOK' /\ QuantumSound'
    <2>1. sched_ticks \in 1 .. SCHED_RATE
      BY <1>1 DEF QuantumSound
    <2> QED BY <1>1, <1>2, <2>1, Positive DEF UsersOK, QuantumSound, uservars
  <1>5. JobSound' /\ DriverSound' /\ Alerted'
    BY <1>1, <1>2 DEF JobSound, DriverSound, Alerted, Driving, taskvars
  <1> QED BY <1>1, <1>2, <1>3, <1>4, <1>5

LEMMA SwitchKeeps == ASSUME IInv, SwitchUser PROVE IInv'
  <1> USE DEF IInv
  <1>1. tmr' = tmr /\ UNCHANGED <<clockvars, irq, taskvars, bill_ptr>> /\ job.pc = "switch"
    BY DEF SwitchUser
  <1>2. job' \in Jobs /\ job'.pc = "idle"
    BY AtIs DEF SwitchUser, JobPcs
  <1>3. ClockOK' /\ TasksOK' /\ OnTime'
    BY <1>1 DEF ClockOK, TasksOK, OnTime, clockvars, taskvars, Now
  <1>4. UsersOK' /\ QuantumSound'
    <2>1. sched \in Seq(User)
      <3>1. CASE userq = <<>>
        BY <3>1 DEF sched
      <3>2. CASE userq # <<>>
        <4>1. Tail(userq) \in Seq(User) /\ Head(userq) \in User
          BY <3>2 DEF UsersOK
        <4> QED BY <3>2, <4>1, AppendProperties DEF sched
      <3> QED BY <3>1, <3>2
    <2>2. userq' \in Seq(User) /\ sched_ticks' = SCHED_RATE /\ prev_ptr' = bill_ptr
      BY <2>1 DEF SwitchUser, UsersOK
    <2> QED BY <1>1, <1>2, <2>2, Positive DEF UsersOK, QuantumSound
  <1>5. JobSound' /\ DriverSound' /\ Alerted'
    BY <1>1, <1>2 DEF JobSound, DriverSound, Alerted, Driving, taskvars
  <1> QED BY <1>1, <1>2, <1>3, <1>4, <1>5

LEMMA SetalarmKeeps ==
    ASSUME IInv, NEW p \in Alarm, NEW h \in {"CLOCK", "SYN_ALRM"}, NEW delta \in Int, NEW d \in Nat \ {0},
           d <= LONG_MAX => delta = d, do_setalarm(p, h, delta, d)
    PROVE  IInv'
  <1> USE DEF IInv
  <1>1. ClockOK' /\ realtime <= realtime' /\ realtime' \in Int
    BY ClockNumbers, Positive DEF do_setalarm, Transfer, ClockOK, Now
  <1>2. tmr' = tmr /\ UNCHANGED <<irq, taskvars, quantum, uservars>> /\ job = Idle /\ job' = Setting(p, h, delta, d)
    BY DEF do_setalarm, Free
  <1>3. /\ job' \in Jobs /\ job'.pc = "set" /\ job'.to \in Runner(job'.t) /\ job.pc = "idle"
        /\ job'.due # 0 /\ Timed(job'.t, job'.exp, job'.due)
    <2>1. p \in Timer /\ h \in Task /\ h \in Runner(p) /\ p \notin {Timeout, Stop}
      BY ClockAssumption DEF Timer, Task, Runner
    <2>2. job.pc = "idle"
      BY <1>2, AtIs DEF JobPcs
    <2> QED BY <1>2, <2>1, <2>2, SettingIs
  <1>4. TasksOK' /\ UsersOK'
    BY <1>2 DEF TasksOK, UsersOK, taskvars, quantum, uservars
  <1>5. OnTime'
    BY <1>1, <1>2, TimesKept
  <1>6. JobSound' /\ QuantumSound'
    BY <1>2, <1>3 DEF JobSound, QuantumSound, quantum
  <1>7. DriverSound' /\ Alerted'
    BY <1>2, <1>3 DEF DriverSound, Alerted, Driving, taskvars
  <1> QED BY <1>1, <1>2, <1>3, <1>4, <1>5, <1>6, <1>7

(* set_alarm() passes on what clock_t can hold. *)
LEMMA DeltaIs ==
    ASSUME NEW d \in Nat
    PROVE  DeltaTicks(d) \in Int /\ (d <= LONG_MAX => DeltaTicks(d) = d)
  <1>1. wrap(d) \in Int /\ (d <= LONG_MAX => wrap(d) = d)
    BY WrapIs, Positive DEF Times
  <1> QED BY <1>1, Positive DEF DeltaTicks

LEMMA RequestKeeps == ASSUME IInv, NEW w \in Waits, Request(w) PROVE IInv'
  <1> USE DEF IInv
  <1>1. /\ tmr' = tmr /\ UNCHANGED <<clockvars, irq, taskvars, quantum, uservars>> /\ job = Idle
        /\ job' = Setting(Timeout, "CLOCK", w, w)
    BY DEF Request, Free
  <1>2. /\ job' \in Jobs /\ job'.pc = "set" /\ job'.t = Timeout /\ job'.to \in Runner(job'.t) /\ job.pc = "idle"
        /\ job'.due # 0 /\ Timed(job'.t, job'.exp, job'.due)
    <2>1. job.pc = "idle"
      BY <1>1, AtIs DEF JobPcs
    <2> QED BY <1>1, <2>1, WaitingIs
  <1>3. ClockOK' /\ TasksOK' /\ UsersOK' /\ OnTime'
    BY <1>1 DEF ClockOK, TasksOK, UsersOK, OnTime, clockvars, taskvars, quantum, uservars, Now
  <1>4. JobSound' /\ QuantumSound'
    BY <1>1, <1>2 DEF JobSound, QuantumSound, quantum
  <1>5. DriverSound' /\ Alerted'
    BY <1>1, <1>2 DEF DriverSound, Alerted, Driving, taskvars
  <1> QED BY <1>1, <1>2, <1>3, <1>4, <1>5

(* A driver that goes on has a timer to set. *)
LEMMA GoOnIs ==
    ASSUME ClockOK, NEW w \in Waits, GoOn(w)
    PROVE  /\ job' \in Jobs /\ job'.pc = "set" /\ job'.t \in {Timeout, Stop} /\ job'.to \in Runner(job'.t)
           /\ job'.due # 0 /\ Timed(job'.t, job'.exp, job'.due)
  <1>1. CASE job' = Setting(Timeout, "CLOCK", w, w)
    BY <1>1, WaitingIs
  <1>2. CASE job' = Setting(Stop, "DRIVER", w, w)
    BY <1>2, WaitingIs
  <1> QED BY <1>1, <1>2 DEF GoOn

LEMMA CommandKeeps == ASSUME IInv, NEW w \in Waits, Command(w) PROVE IInv'
  <1> USE DEF IInv
  <1>1. /\ tmr' = tmr /\ UNCHANGED <<clockvars, irq, syn, quantum, uservars>>
        /\ job.pc = "command" /\ f_busy' = "IO"
    BY DEF Command
  <1>2. Listed(tmr, Timeout)
    BY <1>1 DEF JobSound
  <1>3. ClockOK' /\ UsersOK' /\ OnTime'
    BY <1>1 DEF ClockOK, UsersOK, OnTime, clockvars, quantum, uservars, Now
  <1>4. DriverSound'
    BY <1>1, <1>2 DEF DriverSound
  <1>5. CASE drv' = "wait" /\ job' = Idle
    <2>1. job' \in Jobs /\ job'.pc = "idle"
      BY <1>5, AtIs DEF JobPcs
    <2>2. JobSound' /\ QuantumSound'
      BY <1>1, <2>1 DEF JobSound, QuantumSound, quantum
    <2>3. Alerted' /\ TasksOK'
      BY <1>1, <1>5, <2>1 DEF Alerted, Driving, TasksOK
    <2> QED BY <1>1, <1>3, <1>4, <2>1, <2>2, <2>3
  <1>6. CASE GoOn(w) /\ UNCHANGED drv
    <2>1. /\ job' \in Jobs /\ job'.pc = "set" /\ job'.t \in {Timeout, Stop} /\ job'.to \in Runner(job'.t)
          /\ job'.due # 0 /\ Timed(job'.t, job'.exp, job'.due)
      BY <1>6, GoOnIs
    <2>2. JobSound' /\ QuantumSound'
      BY <1>1, <2>1 DEF JobSound, QuantumSound, quantum
    <2>3. Alerted' /\ TasksOK'
      BY <1>1, <1>6, <2>1 DEF Alerted, Driving, TasksOK
    <2> QED BY <1>1, <1>3, <1>4, <2>1, <2>2, <2>3
  <1> QED BY <1>5, <1>6 DEF Command

LEMMA DeviceIntKeeps == ASSUME IInv, DeviceInt PROVE IInv'
  <1> USE DEF IInv
  <1>1. /\ tmr' = tmr /\ job' = job /\ UNCHANGED <<clockvars, syn, drv, quantum, uservars>>
        /\ f_busy' = "IDLE" /\ irq' = [irq EXCEPT !["DRIVER"] = TRUE]
    BY DEF DeviceInt
  <1>2. ClockOK' /\ TasksOK' /\ UsersOK' /\ OnTime'
    BY <1>1 DEF ClockOK, TasksOK, UsersOK, OnTime, clockvars, quantum, uservars, Now, Task
  <1>3. JobSound' /\ QuantumSound'
    BY <1>1 DEF JobSound, QuantumSound, quantum
  <1>4. DriverSound' /\ Alerted'
    BY <1>1 DEF DriverSound, Alerted, Driving, TasksOK, Task
  <1> QED BY <1>1, <1>2, <1>3, <1>4

LEMMA DriverIntKeeps == ASSUME IInv, NEW w \in Waits, DriverInt(w) PROVE IInv'
  <1> USE DEF IInv
  <1>1. /\ tmr' = tmr /\ UNCHANGED <<clockvars, syn, f_busy, quantum, uservars>> /\ job = Idle
        /\ irq["DRIVER"] /\ irq' = [irq EXCEPT !["DRIVER"] = FALSE]
    BY DEF DriverInt, Free, Takes
  <1>2. job.pc = "idle" /\ job.pc \notin {"set", "command", "loop"}
    BY <1>1, AtIs DEF JobPcs
  <1>3. ClockOK' /\ UsersOK' /\ OnTime'
    BY <1>1 DEF ClockOK, UsersOK, OnTime, clockvars, quantum, uservars, Now
  <1>4. irq' \in [Task -> BOOLEAN] /\ ~irq'["DRIVER"] /\ irq'["SYN_ALRM"] = irq["SYN_ALRM"]
    BY <1>1 DEF TasksOK, Task
  <1>5. CASE drv = "wait" /\ f_busy # "IO" /\ drv' = "recv" /\ GoOn(w)
    <2>1. /\ job' \in Jobs /\ job'.pc = "set" /\ job'.t \in {Timeout, Stop} /\ job'.to \in Runner(job'.t)
          /\ job'.due # 0 /\ Timed(job'.t, job'.exp, job'.due)
      BY <1>5, GoOnIs
    <2>2. JobSound' /\ QuantumSound'
      BY <1>1, <1>2, <2>1 DEF JobSound, QuantumSound, quantum
    <2>3. DriverSound' /\ Alerted' /\ TasksOK'
      BY <1>1, <1>2, <1>4, <1>5, <2>1 DEF DriverSound, Alerted, Driving, TasksOK
    <2> QED BY <1>1, <1>3, <2>1, <2>2, <2>3
  <1>6. CASE drv = "wait" /\ f_busy = "IO" /\ UNCHANGED <<drv, job>>
    <2>1. JobSound' /\ QuantumSound'
      BY <1>1, <1>2, <1>6 DEF JobSound, QuantumSound, quantum
    <2>2. DriverSound' /\ Alerted' /\ TasksOK'
      BY <1>1, <1>2, <1>4, <1>6 DEF DriverSound, Alerted, Driving, TasksOK
    <2> QED BY <1>1, <1>3, <1>6, <2>1, <2>2
  <1>7. CASE drv = "recv" /\ job' = At("loop") /\ UNCHANGED drv
    <2>1. job' \in Jobs /\ job'.pc = "loop"
      BY <1>7, AtIs DEF JobPcs
    <2>2. JobSound' /\ QuantumSound'
      BY <1>1, <1>2, <2>1 DEF JobSound, QuantumSound, quantum
    <2>3. DriverSound' /\ Alerted' /\ TasksOK'
      BY <1>1, <1>2, <1>4, <1>7, <2>1 DEF DriverSound, Alerted, Driving, TasksOK
    <2> QED BY <1>1, <1>3, <2>1, <2>2, <2>3
  <1> QED BY <1>5, <1>6, <1>7 DEF DriverInt, Begin

LEMMA RunSynKeeps == ASSUME IInv, RunSyn PROVE IInv'
  <1> USE DEF IInv
  <1>1. tmr' = tmr /\ UNCHANGED <<clockvars, drv, f_busy, quantum, uservars>> /\ job = Idle /\ job' = At("syn") /\ syn' = "ready"
    BY DEF RunSyn, Free, Begin
  <1>2. job' \in Jobs /\ job'.pc = "syn" /\ job.pc = "idle"
    BY <1>1, AtIs DEF JobPcs
  <1>3. irq' \in [Task -> BOOLEAN] /\ irq'["DRIVER"] = irq["DRIVER"]
    BY DEF RunSyn, Takes, TasksOK, Task
  <1>4. ClockOK' /\ TasksOK' /\ UsersOK' /\ OnTime'
    BY <1>1, <1>3 DEF ClockOK, TasksOK, UsersOK, OnTime, clockvars, quantum, uservars, Now
  <1>5. JobSound' /\ QuantumSound'
    BY <1>1, <1>2 DEF JobSound, QuantumSound, quantum
  <1>6. DriverSound' /\ Alerted'
    BY <1>1, <1>2, <1>3 DEF DriverSound, Alerted, Driving
  <1> QED BY <1>1, <1>2, <1>4, <1>5, <1>6

LEMMA ReceivedKeeps == ASSUME IInv, Received PROVE IInv'
  <1> USE DEF IInv
  <1>1. tmr' = tmr /\ job' = job /\ UNCHANGED <<clockvars, irq, drv, f_busy, quantum, uservars>> /\ syn' = "ready"
    BY DEF Received
  <1>2. ClockOK' /\ TasksOK' /\ UsersOK' /\ OnTime'
    BY <1>1 DEF ClockOK, TasksOK, UsersOK, OnTime, clockvars, quantum, uservars, Now
  <1>3. JobSound' /\ QuantumSound' /\ DriverSound' /\ Alerted'
    BY <1>1 DEF JobSound, QuantumSound, quantum, DriverSound, Alerted, Driving
  <1> QED BY <1>1, <1>2, <1>3

(* User processes come and go. *)
LEMMA UserKeeps == ASSUME IInv, pick_proc \/ unready \/ \E u \in User : ready(u) PROVE IInv'
  <1> USE DEF IInv
  <1>1. UNCHANGED <<clockvars, tmr, irq, job, taskvars, quantum>>
    BY DEF pick_proc, unready, ready
  <1>2. bill_ptr' \in User \cup {IDLE} /\ userq' \in Seq(User)
    <2>1. CASE pick_proc
      BY <2>1 DEF pick_proc, UsersOK
    <2>2. CASE unready
      BY <2>2 DEF unready, UsersOK
    <2>3. ASSUME NEW u \in User, ready(u)
          PROVE  bill_ptr' \in User \cup {IDLE} /\ userq' \in Seq(User)
      <3>1. <<u>> \in Seq(User) /\ userq \in Seq(User) /\ userq' = <<u>> \o userq /\ bill_ptr' = bill_ptr
        BY <2>3 DEF ready, UsersOK
      <3>2. <<u>> \o userq \in Seq(User)
        BY <3>1, ConcatProperties
      <3> QED BY <3>1, <3>2 DEF UsersOK
    <2> QED BY <2>1, <2>2, <2>3
  <1>3. ClockOK' /\ TasksOK' /\ UsersOK' /\ OnTime'
    BY <1>1, <1>2 DEF ClockOK, TasksOK, UsersOK, OnTime, clockvars, taskvars, quantum, Now
  <1>4. JobSound' /\ QuantumSound' /\ DriverSound' /\ Alerted'
    BY <1>1 DEF JobSound, QuantumSound, quantum, DriverSound, Alerted, Driving, taskvars
  <1> QED BY <1>1, <1>3, <1>4
-----------------------------------------------------------------------------
(* The steps that change the lists. *)

LEMMA OthersOnTime ==
    ASSUME ClockOK, Lists(tmr), OnTime, NEW t \in Timer, Elsewhere(tmr', tmr, t), realtime <= realtime', realtime' \in Int
    PROVE  OnTime'
  <1> SUFFICES ASSUME NEW o \in Task, NEW x \in Timer, Contains(tmr'.expired[o], x)
               PROVE  tmr'.due[x] <= realtime' \/ tmr'.due[x] > LONG_MAX
    BY DEF OnTime
  <1>1. tmr \in TimersType /\ realtime \in Int /\ o \in Owner
    BY ClockNumbers DEF Lists, Owner
  <1>2. tmr.due[x] \in Int
    BY <1>1, FieldsOf
  <1>3. Contains(tmr.expired[o], x) /\ x # t /\ tmr'.due[x] = tmr.due[x]
    BY <1>1 DEF Elsewhere
  <1> QED BY <1>1, <1>2, <1>3 DEF OnTime

(* A timer that is taken off its list, or was on none. *)
LEMMA OneLess ==
    ASSUME IInv, NEW t \in Timer, Lists(tmr'), Elsewhere(tmr', tmr, t), NEW o \in Owner, tmr'.expired[o] # <<>>
    PROVE  tmr.expired[o] # <<>>
  BY NoneNew DEF IInv, Lists

LEMMA TimeoutStays ==
    ASSUME IInv, NEW t \in Timer, Elsewhere(tmr', tmr, t), t # Timeout, Listed(tmr, Timeout)
    PROVE  Listed(tmr', Timeout)
  BY StillListed DEF IInv, Lists, Timer

LEMMA ClearedKeeps ==
    ASSUME IInv, NEW p \in Alarm, ClearAlarm(p) \/ cancel_alarm(p)
    PROVE  IInv'
  <1> USE DEF IInv
  <1>1. UNCHANGED <<irq, job, taskvars, quantum, uservars>> /\ tmr' = tmr_clrtimer(tmr, p)
    BY DEF ClearAlarm, cancel_alarm
  <1>2. p \in Timer /\ p # Timeout
    BY ClockAssumption DEF Timer
  <1>3. Lists(tmr') /\ Elsewhere(tmr', tmr, p)
    BY <1>1, <1>2, ClearKeeps
  <1>4. ClockOK' /\ realtime <= realtime' /\ realtime' \in Int
    BY ClockNumbers, Positive DEF ClearAlarm, cancel_alarm, Transfer, ClockOK, Now, clockvars
  <1>5. OnTime'
    BY <1>2, <1>3, <1>4, OthersOnTime
  <1>6. TasksOK' /\ UsersOK' /\ JobSound' /\ QuantumSound'
    BY <1>1, <1>2, <1>3, TimeoutStays DEF TasksOK, UsersOK, JobSound, QuantumSound, taskvars, quantum, uservars
  <1>7. DriverSound'
    BY <1>1, <1>2, <1>3, TimeoutStays DEF DriverSound, taskvars
  <1>8. Alerted'
    <2>1. \A o \in Task : tmr'.expired[o] # <<>> => tmr.expired[o] # <<>>
      BY <1>2, <1>3, OneLess DEF Owner
    <2> QED BY <1>1, <2>1 DEF Alerted, Driving, Task, taskvars
  <1> QED BY <1>1, <1>3, <1>4, <1>5, <1>6, <1>7, <1>8

LEMMA SetTimerKeeps == ASSUME IInv, SetTimer PROVE IInv'
  <1> USE DEF IInv
  <1>1. UNCHANGED <<clockvars, irq, taskvars, quantum, uservars>> /\ job.pc = "set"
    BY DEF SetTimer
  <1>2. /\ job.t \in Timer /\ job.to \in Runner(job.t) /\ job.exp \in Times /\ job.due \in Nat \ {0}
        /\ Timed(job.t, job.exp, job.due)
    BY <1>1 DEF JobSound, Jobs
  <1>3. ClockOK' /\ UsersOK' /\ TasksOK'
    BY <1>1 DEF ClockOK, Now, UsersOK, TasksOK, clockvars, taskvars, quantum, uservars
  <1>4. CASE Tangles /\ job' = At("ring") /\ tmr' = tmr
    <2>1. job' \in Jobs /\ job'.pc = "ring"
      BY <1>4, AtIs DEF JobPcs
    <2>2. job.t \notin {Timeout, Stop}
      <3>1. Listed(tmr, job.t) /\ tmr.exp[job.t] = LONG_MAX
        BY <1>4 DEF Tangles, On, Listed, TMR_NEVER
      <3>2. tmr \in TimersType /\ Placed(tmr)
        BY DEF Lists
      <3>3. Timed(job.t, LONG_MAX, tmr.due[job.t]) /\ tmr.due[job.t] \in Nat
        BY <1>2, <3>1, <3>2, FieldsOf DEF Placed
      <3> QED BY <3>3, Positive DEF Timed
    <2>3. OnTime' /\ DriverSound' /\ JobSound' /\ QuantumSound'
      BY <1>1, <1>4, <2>1 DEF OnTime, DriverSound, JobSound, QuantumSound, clockvars, taskvars, quantum
    <2>4. Alerted'
      BY <1>1, <1>4, <2>1, <2>2 DEF Alerted, Driving, taskvars
    <2> QED BY <1>3, <1>4, <2>1, <2>3, <2>4
  <1>5. CASE ~Tangles
    <2>1. /\ tmr' = tmr_settimer(tmr, job.t, job.to, job.exp, job.due)
          /\ job' = IF job.t = Stop THEN At("loop") ELSE IF job.t = Timeout THEN At("command") ELSE Idle
      BY <1>5 DEF SetTimer
    <2>2. Listed(tmr, job.t) => tmr.exp[job.t] # TMR_NEVER
      BY <1>5 DEF Tangles, On, Listed
    <2>3. Lists(tmr') /\ Contains(tmr'.timers, job.t) /\ Elsewhere(tmr', tmr, job.t)
      BY <1>2, <2>1, <2>2, SetKeeps
    <2>4. OnTime'
      <3>1. realtime <= realtime' /\ realtime' \in Int
        BY <1>1, ClockNumbers DEF clockvars
      <3> QED BY <1>2, <2>3, <3>1, OthersOnTime
    <2>5. /\ job' \in Jobs
          /\ job'.pc = IF job.t = Stop THEN "loop" ELSE IF job.t = Timeout THEN "command" ELSE "idle"
      BY <2>1, AtIs DEF JobPcs
    <2>6. Listed(tmr, Timeout) \/ job.t = Timeout => Listed(tmr', Timeout)
      <3>1. CASE job.t = Timeout
        BY <2>3, <3>1 DEF Listed
      <3>2. CASE job.t # Timeout
        BY <1>2, <2>3, <3>2, TimeoutStays
      <3> QED BY <3>1, <3>2
    <2>7. JobSound' /\ QuantumSound' /\ DriverSound'
      BY <1>1, <2>5, <2>6 DEF JobSound, QuantumSound, DriverSound, quantum, taskvars
    <2>8. Alerted'
      <3>1. \A o \in Task : tmr'.expired[o] # <<>> => tmr.expired[o] # <<>>
        BY <1>2, <2>3, OneLess DEF Owner
      <3>2. job.t \in {Timeout, Stop} => job'.pc \in {"command", "loop"}
        BY <2>5
      <3> QED BY <1>1, <2>5, <3>1, <3>2 DEF Alerted, Driving, Task, taskvars
    <2> QED BY <1>3, <2>3, <2>4, <2>5, <2>7, <2>8
  <1> QED BY <1>4, <1>5 DEF SetTimer, Begin

LEMMA SynTimerKeeps == ASSUME IInv, SynTimer PROVE IInv'
  <1> USE DEF IInv
  <1>1. UNCHANGED <<clockvars, irq, drv, f_busy, quantum, uservars>> /\ job.pc = "syn"
    BY DEF SynTimer
  <1>2. job' \in Jobs /\ (job'.pc = "idle" \/ job' = job) /\ syn' \in {"recv", "send", "ready"}
    BY AtIs DEF SynTimer, JobPcs, TasksOK
  <1>3. ClockOK' /\ UsersOK' /\ TasksOK'
    BY <1>1, <1>2 DEF ClockOK, Now, UsersOK, TasksOK, clockvars, quantum, uservars
  <1>4. JobSound' /\ QuantumSound'
    BY <1>1, <1>2 DEF JobSound, QuantumSound, quantum
  <1>5. CASE tmr.expired["SYN_ALRM"] = <<>> /\ tmr' = tmr
    <2>1. OnTime' /\ DriverSound'
      BY <1>1, <1>5 DEF OnTime, DriverSound, clockvars
    <2>2. Alerted'
      BY <1>1, <1>2, <1>5 DEF Alerted, Driving
    <2> QED BY <1>2, <1>3, <1>4, <1>5, <2>1, <2>2
  <1>6. CASE tmr.expired["SYN_ALRM"] # <<>> /\ tmr' = Ran(tmr, "SYN_ALRM") /\ (syn' = syn \/ syn' = "send")
    <2>1. PICK t : t = Head(tmr.expired["SYN_ALRM"])
      OBVIOUS
    <2>2. Lists(tmr') /\ t \in Timer /\ "SYN_ALRM" \in Runner(t) /\ Elsewhere(tmr', tmr, t)
      <3>1. "SYN_ALRM" \in Owner
        BY DEF Owner, Task
      <3> QED BY <1>6, <2>1, <3>1, RanKeeps
    <2>3. OnTime'
      <3>1. realtime <= realtime' /\ realtime' \in Int
        BY <1>1, ClockNumbers DEF clockvars
      <3> QED BY <2>2, <3>1, OthersOnTime
    <2>4. t # Timeout
      BY <2>2 DEF Runner
    <2>5. DriverSound'
      BY <1>1, <2>2, <2>4, TimeoutStays DEF DriverSound
    <2>6. \A o \in Task : tmr'.expired[o] # <<>> => tmr.expired[o] # <<>>
      BY <2>2, OneLess DEF Owner
    <2>7. Alerted'
      BY <1>1, <1>2, <1>6, <2>6 DEF Alerted, Driving, Task
    <2> QED BY <1>2, <1>3, <1>4, <2>2, <2>3, <2>5, <2>7
  <1> QED BY <1>5, <1>6 DEF SynTimer

LEMMA DriverLoopKeeps == ASSUME IInv, DriverLoop PROVE IInv'
  <1> USE DEF IInv
  <1>1. UNCHANGED <<clockvars, irq, taskvars, quantum, uservars>> /\ job.pc = "loop"
    BY DEF DriverLoop
  <1>2. job' \in Jobs /\ (job'.pc = "idle" \/ job' = job)
    BY AtIs DEF DriverLoop, JobPcs
  <1>3. ClockOK' /\ UsersOK' /\ TasksOK'
    BY <1>1 DEF ClockOK, Now, UsersOK, TasksOK, clockvars, taskvars, quantum, uservars
  <1>4. JobSound' /\ QuantumSound'
    BY <1>1, <1>2 DEF JobSound, QuantumSound, quantum
  <1>5. CASE tmr.expired["DRIVER"] = <<>> /\ tmr' = tmr
    <2>1. OnTime' /\ DriverSound'
      BY <1>1, <1>5 DEF OnTime, DriverSound, clockvars, taskvars
    <2>2. Alerted'
      BY <1>1, <1>2, <1>5 DEF Alerted, Driving, taskvars
    <2> QED BY <1>2, <1>3, <1>4, <1>5, <2>1, <2>2
  <1>6. CASE tmr.expired["DRIVER"] # <<>> /\ tmr' = Ran(tmr, "DRIVER") /\ job' = job
    <2>1. PICK t : t = Head(tmr.expired["DRIVER"])
      OBVIOUS
    <2>2. Lists(tmr') /\ t \in Timer /\ "DRIVER" \in Runner(t) /\ Elsewhere(tmr', tmr, t)
      <3>1. "DRIVER" \in Owner
        BY DEF Owner, Task
      <3> QED BY <1>6, <2>1, <3>1, RanKeeps
    <2>3. OnTime'
      <3>1. realtime <= realtime' /\ realtime' \in Int
        BY <1>1, ClockNumbers DEF clockvars
      <3> QED BY <2>2, <3>1, OthersOnTime
    <2>4. t # Timeout
      BY <2>2 DEF Runner
    <2>5. DriverSound'
      BY <1>1, <2>2, <2>4, TimeoutStays DEF DriverSound, taskvars
    <2>6. \A o \in Task : tmr'.expired[o] # <<>> => tmr.expired[o] # <<>>
      BY <2>2, OneLess DEF Owner
    <2>7. Alerted'
      BY <1>1, <1>6, <2>6 DEF Alerted, Driving, Task, taskvars
    <2> QED BY <1>2, <1>3, <1>4, <2>2, <2>3, <2>5, <2>7
  <1> QED BY <1>5, <1>6 DEF DriverLoop

(* The time-out of a driver that waits leaves the lists here only, and the *)
(* driver has its answer.                                                  *)
LEMMA OwnTimersKeeps == ASSUME IInv, OwnTimers PROVE IInv'
  <1> USE DEF IInv
  <1>1. UNCHANGED <<clockvars, syn, drv, quantum, uservars>> /\ job.pc = "own"
    BY DEF OwnTimers
  <1>2. job' \in Jobs /\ (job'.pc = "sched" \/ job' = job)
    BY AtIs DEF OwnTimers, Begin, JobPcs
  <1>3. ClockOK' /\ UsersOK'
    BY <1>1 DEF ClockOK, Now, UsersOK, clockvars, quantum, uservars
  <1>4. JobSound' /\ QuantumSound'
    BY <1>1, <1>2 DEF JobSound, QuantumSound, quantum
  <1>5. CASE tmr.expired["CLOCK"] = <<>>
    <2>1. UNCHANGED <<tmr, irq, f_busy>>
      BY <1>5 DEF OwnTimers
    <2>2. OnTime' /\ DriverSound' /\ TasksOK'
      BY <1>1, <2>1 DEF OnTime, DriverSound, TasksOK, clockvars
    <2>3. Alerted'
      BY <1>1, <1>2, <1>5, <2>1 DEF Alerted, Driving
    <2> QED BY <1>2, <1>3, <1>4, <2>1, <2>2, <2>3
  <1>6. CASE tmr.expired["CLOCK"] # <<>>
    <2>1. PICK t : t = Head(tmr.expired["CLOCK"])
      OBVIOUS
    <2>2. PICK hurry : hurry = (t = Timeout /\ f_busy = "IO")
      OBVIOUS
    <2>3. /\ tmr' = Ran(tmr, "CLOCK") /\ job' = job /\ hurry \in BOOLEAN
          /\ irq' = [irq EXCEPT !["DRIVER"] = @ \/ hurry]
          /\ f_busy' = IF hurry THEN "WAKEN" ELSE f_busy
      BY <1>6, <2>1, <2>2 DEF OwnTimers
    <2>4. Lists(tmr') /\ t \in Timer /\ Elsewhere(tmr', tmr, t)
      <3>1. "CLOCK" \in Owner
        BY DEF Owner, Task
      <3> QED BY <1>6, <2>1, <2>3, <3>1, RanKeeps
    <2>5. OnTime'
      <3>1. realtime <= realtime' /\ realtime' \in Int
        BY <1>1, ClockNumbers DEF clockvars
      <3> QED BY <2>4, <3>1, OthersOnTime
    <2>6. TasksOK' /\ \A o \in Task : irq[o] => irq'[o]
      BY <1>1, <2>3 DEF TasksOK, Task
    <2>7. DriverSound'
      <3> SUFFICES ASSUME drv = "wait"
                   PROVE  IF f_busy' = "IO" THEN Listed(tmr', Timeout) ELSE irq'["DRIVER"]
        BY <1>1 DEF DriverSound
      <3>1. CASE hurry
        <4>1. irq'["DRIVER"] /\ f_busy' = "WAKEN"
          BY <2>3, <3>1 DEF TasksOK, Task
        <4> QED BY <4>1
      <3>2. CASE ~hurry /\ f_busy # "IO"
        <4>1. irq["DRIVER"] /\ "DRIVER" \in Task /\ f_busy' = f_busy
          BY <2>3, <3>2 DEF DriverSound, Task
        <4> QED BY <2>6, <3>2, <4>1
      <3>3. CASE ~hurry /\ f_busy = "IO"
        <4>1. t # Timeout /\ Listed(tmr, Timeout) /\ f_busy' = f_busy
          BY <2>2, <2>3, <3>3 DEF DriverSound
        <4>2. Listed(tmr', Timeout)
          BY <2>4, <4>1, TimeoutStays
        <4> QED BY <3>3, <4>1, <4>2
      <3> QED BY <2>3, <3>1, <3>2, <3>3
    <2>8. \A o \in Task : tmr'.expired[o] # <<>> => tmr.expired[o] # <<>>
      BY <2>4, OneLess DEF Owner
    <2>9. Alerted'
      BY <1>1, <2>3, <2>6, <2>8 DEF Alerted, Driving, Task
    <2> QED BY <1>2, <1>3, <1>4, <2>4, <2>5, <2>6, <2>7, <2>9
  <1> QED BY <1>5, <1>6

(* A timer that goes to its task is due, and the task is told.             *)
LEMMA ExpireKeeps == ASSUME IInv, Expire PROVE IInv'
  <1> USE DEF IInv
  <1>1. UNCHANGED <<clockvars, taskvars, quantum, uservars>> /\ job.pc = "move"
    BY DEF Expire
  <1>2. ClockOK' /\ UsersOK'
    BY <1>1 DEF ClockOK, Now, UsersOK, clockvars, quantum, uservars
  <1>3. /\ tmr \in TimersType /\ Placed(tmr) /\ Sorted(tmr) /\ tmr.timers \in Seq(Timer)
        /\ tmr.exp \in [Timer -> Times] /\ realtime \in Int
    BY FieldsOf, ClockNumbers DEF Lists
  <1>4. CASE Due /\ job' = job
             /\ tmr' = [tmr EXCEPT !.timers = Tail(@), !.expired[tmr.task[Head(tmr.timers)]] = <<Head(tmr.timers)>> \o @]
             /\ irq' = [irq EXCEPT ![tmr.task[Head(tmr.timers)]] = @ \/ Alerts(tmr.task[Head(tmr.timers)])]
    <2>1. PICK t : t = Head(tmr.timers)
      OBVIOUS
    <2>2. PICK o : o = tmr.task[t]
      OBVIOUS
    <2>3. PICK e : e = <<t>> \o tmr.expired[o]
      OBVIOUS
    <2>4. /\ tmr.timers # <<>> /\ tmr.exp[t] <= realtime
          /\ tmr' = [tmr EXCEPT !.timers = Tail(@), !.expired[o] = <<t>> \o @]
          /\ irq' = [irq EXCEPT ![o] = @ \/ Alerts(o)]
      BY <1>4, <2>1, <2>2 DEF Due
    <2>5. /\ Lists(tmr') /\ t \in Timer /\ o \in Owner /\ o \in Runner(t) /\ Timed(t, tmr.exp[t], tmr.due[t])
          /\ tmr'.due = tmr.due
          /\ \A p \in Owner : \A x : Contains(tmr'.expired[p], x) <=> Contains(tmr.expired[p], x) \/ (p = o /\ x = t)
          /\ \A x \in Timer : Listed(tmr', x) <=> Listed(tmr, x)
          /\ \A p \in Owner : p # o => tmr'.expired[p] = tmr.expired[p]
      <3>1. Lists(tmr) /\ tmr.timers # <<>> /\ tmr' = Moved(tmr)
        BY <1>4, <2>4 DEF Moved
      <3>2. /\ Lists(tmr') /\ t \in Timer /\ o \in Owner /\ o \in Runner(t) /\ Timed(t, tmr.exp[t], tmr.due[t])
            /\ tmr'.due = tmr.due /\ Gained(tmr', tmr, o, t)
            /\ \A x \in Timer : Listed(tmr', x) <=> Listed(tmr, x)
        BY <2>1, <2>2, <3>1, MoveKeeps
      <3> QED BY <3>2 DEF Gained
    <2>6. o \in Task
      BY <2>5 DEF Runner, Task
    <2>7. TasksOK' /\ \A p \in Task : irq[p] => irq'[p]
      <3>1. Alerts(o) \in BOOLEAN
        BY DEF Alerts
      <3> QED BY <1>1, <2>4, <2>6, <3>1 DEF TasksOK, taskvars
    <2>8. OnTime'
      <3> SUFFICES ASSUME NEW p \in Task, NEW x \in Timer, Contains(tmr'.expired[p], x)
                   PROVE  tmr'.due[x] <= realtime' \/ tmr'.due[x] > LONG_MAX
        BY DEF OnTime
      <3>1. Contains(tmr.expired[p], x) \/ x = t
        BY <2>5 DEF Owner
      <3>2. CASE x = t
        <4>1. tmr.due[t] <= LONG_MAX => tmr.exp[t] = tmr.due[t]
          BY <2>5 DEF Timed
        <4>2. tmr.due[t] \in Nat
          BY <1>3, <2>5, FieldsOf
        <4> QED BY <1>1, <2>4, <2>5, <3>2, <4>1, <4>2, Positive DEF clockvars
      <3>3. CASE x # t
        <4>1. tmr.due[x] <= realtime \/ tmr.due[x] > LONG_MAX
          BY <3>1, <3>3 DEF OnTime
        <4> QED BY <1>1, <2>5, <4>1 DEF clockvars
      <3> QED BY <3>2, <3>3
    <2>9. JobSound' /\ QuantumSound'
      BY <1>1, <1>4 DEF JobSound, QuantumSound, quantum
    <2>10. DriverSound'
      BY <1>1, <2>5, <2>7 DEF DriverSound, taskvars, Timer, Task
    <2>11. Alerted'
      <3>1. ASSUME NEW p \in Task, p # "CLOCK", tmr'.expired[p] # <<>>, tmr.expired[p] = <<>>
            PROVE  irq'[p]
        <4>1. p = o
          BY <2>5, <3>1 DEF Owner
        <4>2. Alerts(o)
          BY <3>1, <4>1 DEF Alerts
        <4> QED BY <2>4, <2>6, <4>1, <4>2 DEF TasksOK
      <3> QED BY <1>1, <1>4, <2>7, <3>1 DEF Alerted, Driving, Task, taskvars
    <2> QED BY <1>2, <1>4, <2>5, <2>7, <2>8, <2>9, <2>10, <2>11
  <1>5. CASE ~Due /\ job' = At("own") /\ irq' = irq
             /\ tmr' = [tmr EXCEPT !.next_timer = IF tmr.timers = <<>> THEN TMR_NEVER ELSE tmr.exp[Head(tmr.timers)]]
    <2>1. PICK n : n = IF tmr.timers = <<>> THEN TMR_NEVER ELSE tmr.exp[Head(tmr.timers)]
      OBVIOUS
    <2>2. n \in Times /\ (tmr.timers # <<>> => n = tmr.exp[tmr.timers[1]])
      BY <1>3, <2>1, Positive DEF Times, TMR_NEVER
    <2>3. tmr' = [tmr EXCEPT !.next_timer = n]
      BY <1>5, <2>1
    <2>4. /\ tmr'.timers = tmr.timers /\ tmr'.exp = tmr.exp /\ tmr'.task = tmr.task /\ tmr'.due = tmr.due
          /\ tmr'.expired = tmr.expired /\ tmr'.next_timer = n /\ tmr' \in TimersType
      BY <1>3, <2>2, <2>3 DEF TimersType
    <2>5. Lists(tmr') /\ \A x : Listed(tmr', x) <=> Listed(tmr, x)
      <3>1. \A x : Listed(tmr', x) <=> Listed(tmr, x)
        BY <2>4 DEF Listed
      <3>2. Placed(tmr')
        BY <1>3, <2>4, <3>1 DEF Placed
      <3>3. \A m \in Times : m <= m
        BY Positive DEF Times
      <3>4. Sorted(tmr')
        BY <1>3, <2>2, <2>4, <3>3 DEF Sorted
      <3> QED BY <2>4, <3>1, <3>2, <3>4 DEF Lists
    <2>6. job' \in Jobs /\ job'.pc = "own"
      BY <1>5, AtIs DEF JobPcs
    <2>7. TasksOK' /\ OnTime'
      BY <1>1, <1>5, <2>4 DEF TasksOK, OnTime, taskvars, clockvars
    <2>8. JobSound' /\ QuantumSound'
      BY <1>1, <2>6 DEF JobSound, QuantumSound, quantum
    <2>9. DriverSound' /\ Alerted'
      BY <1>1, <1>5, <2>4, <2>5, <2>6 DEF DriverSound, Alerted, Driving, taskvars
    <2> QED BY <1>2, <2>5, <2>6, <2>7, <2>8, <2>9
  <1> QED BY <1>4, <1>5 DEF Expire, Begin
-----------------------------------------------------------------------------
(* The theorems. *)

LEMMA Starts == Init => IInv
  <1> SUFFICES ASSUME Init PROVE IInv
    OBVIOUS
  <1>1. /\ tmr.timers = <<>> /\ tmr.next_timer = 0 /\ tmr.exp = [t \in Timer |-> 0] /\ tmr.task = [t \in Timer |-> "MM"]
        /\ tmr.due = [t \in Timer |-> 0] /\ tmr.expired = [o \in Owner |-> <<>>]
    BY DEF Init
  <1>2. tmr \in TimersType
    <2>1. /\ <<>> \in Seq(Timer) /\ 0 \in Times /\ [t \in Timer |-> 0] \in [Timer -> Times]
          /\ [t \in Timer |-> "MM"] \in [Timer -> Owner] /\ [t \in Timer |-> 0] \in [Timer -> Nat]
          /\ [o \in Owner |-> <<>>] \in [Owner -> Seq(Timer)]
      BY Positive DEF Times, Owner
    <2> QED BY <2>1 DEF Init, TimersType
  <1>3. \A x : ~Contains(<<>>, x)
    BY DEF Contains
  <1>4. "MM" \in Owner /\ \A o \in Owner : tmr.expired[o] = <<>>
    BY <1>1 DEF Owner
  <1>5. Lists(tmr)
    <2>1. \A t \in Timer : ~Listed(tmr, t)
      BY <1>1, <1>3, <1>4 DEF Listed
    <2>2. Placed(tmr)
      BY <1>1, <1>3, <1>4, <2>1 DEF Placed, Single
    <2>3. Sorted(tmr)
      BY <1>1 DEF Sorted
    <2> QED BY <1>2, <2>2, <2>3 DEF Lists
  <1>6. job \in Jobs /\ job.pc = "idle"
    <2>1. "idle" \in JobPcs
      BY DEF JobPcs
    <2> QED BY <2>1, AtIs DEF Init
  <1>7. ClockOK /\ TasksOK
    <2>1. realtime = 0 /\ pending_ticks = 0 /\ irq = [o \in Task |-> FALSE] /\ syn = "recv" /\ drv = "recv" /\ f_busy = "IDLE"
      BY DEF Init
    <2>2. 0 + 0 = 0 /\ 0 \in 0 .. MaxTime
      BY Positive
    <2>3. ClockOK
      BY <2>1, <2>2 DEF ClockOK, Now
    <2> QED BY <2>1, <2>3 DEF TasksOK
  <1>8. UsersOK
    <2>1. userq \in Seq(User)
      <3>1. PICK S \in SUBSET User : userq \in SetToSeqs(S)
        BY DEF Init, SetToAllKPermutations
      <3>2. IsFiniteSet(S)
        BY ClockAssumption, FS_Subset
      <3>3. PICK n : n = Cardinality(S)
        OBVIOUS
      <3>4. n \in Nat
        BY <3>2, <3>3, FS_CardinalityType
      <3>5. userq \in [1 .. n -> S]
        BY <3>1, <3>3 DEF SetToSeqs
      <3>6. userq \in [1 .. n -> User]
        BY <3>5
      <3> QED BY <3>4, <3>6
    <2> QED BY <2>1, Positive DEF Init, UsersOK
  <1>9. OnTime
    BY <1>3, <1>4 DEF OnTime, Owner
  <1>10. JobSound /\ DriverSound /\ QuantumSound
    BY <1>6, Positive DEF Init, JobSound, DriverSound, QuantumSound
  <1>11. Alerted
    BY <1>4 DEF Alerted, Driving, Owner, Task
  <1> QED BY <1>5, <1>6, <1>7, <1>8, <1>9, <1>10, <1>11 DEF IInv

LEMMA Keeps == ASSUME IInv, [Next]_vars PROVE IInv'
  <1>1. CASE Step
    BY <1>1, ClocktickKeeps, ExpireKeeps, OwnTimersKeeps, CountKeeps, SwitchKeeps, SetTimerKeeps, SynTimerKeeps,
       DriverLoopKeeps DEF Step
  <1>2. CASE clock_handler \/ TakeTick \/ RunSyn \/ Received \/ DeviceInt
    BY <1>2, HandlerKeeps, TickKeeps, RunSynKeeps, ReceivedKeeps, DeviceIntKeeps
  <1>3. CASE pick_proc \/ unready \/ \E u \in User : ready(u)
    BY <1>3, UserKeeps
  <1>4. ASSUME NEW p \in Alarm, ClearAlarm(p) \/ cancel_alarm(p)
        PROVE  IInv'
    BY <1>4, ClearedKeeps
  <1>5. ASSUME NEW w \in Waits, Request(w) \/ Command(w) \/ DriverInt(w)
        PROVE  IInv'
    BY <1>5, RequestKeeps, CommandKeeps, DriverIntKeeps
  <1>6. ASSUME NEW d \in Delays, NEW p \in Alarm, do_setalarm(p, "CLOCK", DeltaTicks(d), d)
        PROVE  IInv'
    <2>1. PICK delta : delta = DeltaTicks(d)
      OBVIOUS
    <2>2. d \in Nat \ {0} /\ delta \in Int /\ (d <= LONG_MAX => delta = d)
      BY <2>1, DeltaIs, ClockAssumption
    <2> QED BY <1>6, <2>1, <2>2, SetalarmKeeps
  <1>8. ASSUME NEW w \in Waits, NEW p \in Alarm, do_setalarm(p, "SYN_ALRM", w, w)
        PROVE  IInv'
    <2>1. w \in Nat \ {0} /\ w \in Int
      BY ClockAssumption
    <2> QED BY <1>8, <2>1, SetalarmKeeps
  <1>7. CASE UNCHANGED vars
    <2>1. UNCHANGED <<realtime, pending_ticks, tmr, irq, job, syn, drv, f_busy, sched_ticks, prev_ptr, bill_ptr, userq>>
      BY <1>7 DEF vars, clockvars, taskvars, quantum, uservars
    <2> QED BY <2>1 DEF IInv, ClockOK, Now, TasksOK, UsersOK, OnTime, JobSound, DriverSound, Alerted, Driving, QuantumSound
  <1> QED BY <1>1, <1>2, <1>3, <1>4, <1>5, <1>6, <1>7, <1>8 DEF Next

LEMMA Invariance == Spec => []IInv
  <1>1. IInv /\ [Next]_vars => IInv'
    BY Keeps
  <1> QED BY <1>1, Starts, PTL DEF Spec

(* A timer is on a list exactly if On says so. *)
LEMMA OnIs == \A t : On(t) <=> Listed(tmr, t)
  BY DEF On, Listed

LEMMA ListsSoundIs == ASSUME Lists(tmr) PROVE ListsSound
  <1>1. tmr \in TimersType /\ Placed(tmr) /\ Sorted(tmr)
    BY DEF Lists
  <1>2. /\ tmr.timers \in Seq(Timer) /\ DOMAIN tmr.timers = 1 .. Len(tmr.timers)
        /\ \A o \in Owner : tmr.expired[o] \in Seq(Timer) /\ DOMAIN tmr.expired[o] = 1 .. Len(tmr.expired[o])
    BY <1>1, FieldsOf
  <1>3. /\ \A i, j \in DOMAIN tmr.timers : i # j => tmr.timers[i] # tmr.timers[j]
        /\ \A o \in Owner : \A i, j \in DOMAIN tmr.expired[o] : i # j => tmr.expired[o][i] # tmr.expired[o][j]
    BY <1>1, <1>2 DEF Placed, Single
  <1>4. ASSUME NEW o \in Owner, NEW i \in DOMAIN tmr.expired[o]
        PROVE  tmr.task[tmr.expired[o][i]] = o /\ ~Contains(tmr.timers, tmr.expired[o][i])
    <2>1. tmr.expired[o][i] \in Timer /\ Contains(tmr.expired[o], tmr.expired[o][i])
      BY <1>2 DEF Contains
    <2> QED BY <1>1, <2>1 DEF Placed
  <1>5. \A t \in Timer : On(t) <=> tmr.due[t] # 0
    BY <1>1, OnIs DEF Placed
  <1>6. \A i, j \in DOMAIN tmr.timers : i < j => tmr.exp[tmr.timers[i]] <= tmr.exp[tmr.timers[j]]
    BY <1>1, <1>2 DEF Sorted
  <1>7. tmr.timers # <<>> => tmr.next_timer <= tmr.exp[Head(tmr.timers)]
    BY <1>1, <1>2 DEF Sorted
  <1> QED BY <1>3, <1>4, <1>5, <1>6, <1>7 DEF ListsSound

(* The lists of timers are sound whoever sets, clears, takes or runs them, *)
(* and no timer goes off before its time if clock_t can hold that time.    *)
THEOREM TimersAreSound == Spec => []TimersSound
  <1>1. IInv => TimersSound
    <2> SUFFICES ASSUME IInv PROVE TimersSound
      OBVIOUS
    <2>1. TypeOK
      BY TypeParts DEF IInv, Lists
    <2> QED BY <2>1, ListsSoundIs, OnTimeIs DEF IInv, TimersSound
  <1> QED BY <1>1, Invariance, PTL

(* A task that waits for work has been told of the timers it has to run.   *)
THEOREM TasksAreAlerted == Spec => []Alerted
  <1>1. IInv => Alerted
    BY DEF IInv
  <1> QED BY <1>1, Invariance, PTL

(* A driver that waits for its device does not wait for ever: it has an    *)
(* interrupt, or a time-out that will be run, whichever device interrupts  *)
(* and time-outs come early, late or for nothing.                          *)
THEOREM TimeoutsCome == Spec => []TimeoutComing
  <1>1. IInv => TimeoutComing
    BY OnIs DEF IInv, DriverSound, TimeoutComing
  <1> QED BY <1>1, Invariance, PTL

LEMMA NoSecondQuantum ==
    ASSUME IInv, [Next]_vars
    PROVE  [/\ sched_ticks # SCHED_RATE /\ sched_ticks' = SCHED_RATE
            /\ prev_ptr' = prev_ptr /\ Len(userq) > 1
            => userq' = sched]_vars
  <1> SUFFICES ASSUME sched_ticks # SCHED_RATE, sched_ticks' = SCHED_RATE, prev_ptr' = prev_ptr, Len(userq) > 1, Next
               PROVE  userq' = sched
    BY DEF vars, quantum
  <1>1. sched_ticks \in -1 .. SCHED_RATE /\ userq # <<>> /\ (job.pc = "sched" => sched_ticks \in 1 .. SCHED_RATE)
    BY DEF IInv, UsersOK, QuantumSound
  <1>2. sched_ticks' # sched_ticks /\ sched_ticks' # sched_ticks - 1
    BY <1>1, Positive
  <1>3. clock_handler \/ CountDown \/ SwitchUser
    BY <1>2 DEF Next, Step, do_clocktick, Expire, OwnTimers, SetTimer, SynTimer, DriverLoop, TakeTick, RunSyn, Received,
       DeviceInt, pick_proc, unready, ready, ClearAlarm, cancel_alarm, Request, Command, DriverInt, do_setalarm, quantum
  <1>4. ~CountDown
    BY <1>2 DEF CountDown
  <1>5. ~clock_handler
    <2> SUFFICES ASSUME clock_handler PROVE FALSE
      OBVIOUS
    <2>1. PICK now : ~CallsTask(now) /\ sched_ticks = 1 /\ prev_ptr' = bill_ptr
      BY <1>2 DEF clock_handler, quantum
    <2> QED BY <1>1, <2>1 DEF CallsTask
  <1> QED BY <1>3, <1>4, <1>5 DEF SwitchUser

(* The counter of ticks is sane, and nobody gets a second whole quantum    *)
(* while another process waits.                                            *)
THEOREM QuantumIsKept == Spec => QuantumKept
  <1>1. IInv => (job.pc # "switch" => sched_ticks \in 1 .. SCHED_RATE)
    BY DEF IInv, QuantumSound
  <1>2. IInv /\ [Next]_vars => [/\ sched_ticks # SCHED_RATE /\ sched_ticks' = SCHED_RATE
                                /\ prev_ptr' = prev_ptr /\ Len(userq) > 1
                                => userq' = sched]_vars
    BY NoSecondQuantum
  <1> QED BY <1>1, <1>2, Invariance, PTL DEF Spec, QuantumKept
=============================================================================
