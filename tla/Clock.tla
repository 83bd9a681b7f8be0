-------------------------------- MODULE Clock --------------------------------
(***************************************************************************)
(* The clock task (kernel/clock.c): the low level clock_handler(), the     *)
(* timers of clock_task(), of the synchronous alarm task and of a device   *)
(* driver, and the quantum of user processes.                              *)
(*                                                                         *)
(* Tasks do not preempt each other, so whatever a task does until it next  *)
(* waits is a sequence of steps (job) into which only interrupts fall.     *)
(* The driver is one like floppy.c: inside a request it waits for its      *)
(* device, any number of times, each with a timer of the clock task as a   *)
(* time-out, and it leaves a timer behind that it runs itself.             *)
(***************************************************************************)
EXTENDS Integers, FiniteSets, SequencesExt

CONSTANTS Alarm,       \* the processes that set alarms; their tmr_alarm[]
          Timeout,     \* f_tmr_timeout, which the clock task runs for the driver
          Stop,        \* fl_tmr_stop, which the driver runs itself
          User,        \* user processes that compete for the processor
          IDLE, NIL,   \* the idle task; no process
          SCHED_RATE,  \* ticks in a quantum
          Delays,      \* ticks in the seconds that a user asks alarm() for
          Waits,       \* WAKEUP, MOTOR_OFF, HZ/30 and the like: what the system asks for
          LONG_MAX,    \* the highest clock_t; TMR_NEVER too
          MaxTime      \* bound of the model: time stands still at MaxTime

TMR_NEVER == LONG_MAX
Timer == Alarm \cup {Timeout, Stop}

(* The system does not run for as long as clock_t can count, and what it   *)
(* waits for itself is over by then; users ask for what they like.         *)
ASSUME ClockAssumption ==
    /\ SCHED_RATE \in Nat \ {0} /\ MaxTime \in Nat /\ LONG_MAX \in Nat /\ MaxTime < LONG_MAX
    /\ Delays \subseteq Nat \ {0}
    /\ Waits \subseteq Nat \ {0} /\ \A w \in Waits : MaxTime + w < LONG_MAX
    /\ Timeout # Stop /\ Timeout \notin Alarm /\ Stop \notin Alarm
    /\ IDLE \notin User /\ NIL \notin User \cup {IDLE} /\ IsFiniteSet(User)

(* No timer has been set for a tmr_task that is zero, the memory manager.  *)
Task  == {"CLOCK", "SYN_ALRM", "DRIVER"}
Owner == Task \cup {"MM"}

VARIABLES realtime, pending_ticks,
          tmr,       \* timers, next_timer; tmr_exp_time, tmr_task, p_exptimers,
                     \* and when each timer that is set should go off
          irq,       \* tasks with an interrupt message on the way or blocked
          job,       \* what the running task is about to do
          syn,       \* the synchronous alarm task: "recv", "send", "ready"
          drv,       \* the driver: "wait" in receive(HARDWARE), else "recv"
          f_busy,    \* "IDLE", "IO", or "WAKEN" by the time-out
          sched_ticks, prev_ptr, bill_ptr,
          userq      \* rdy_head[USER_Q]

clockvars == <<realtime, pending_ticks>>
taskvars  == <<syn, drv, f_busy>>
quantum   == <<sched_ticks, prev_ptr>>
uservars  == <<bill_ptr, userq>>
vars == <<clockvars, tmr, irq, job, taskvars, quantum, uservars>>

Idle     == [pc |-> "idle", t |-> Stop, to |-> "CLOCK", exp |-> 0, due |-> 0]
At(pc)   == [Idle EXCEPT !.pc = pc]
Now      == realtime + pending_ticks
wrap(n)  == ((n + LONG_MAX + 1) % (2 * LONG_MAX + 2)) - LONG_MAX - 1

JobPcs == {"idle", "expire", "move", "own", "sched", "switch", "set", "command", "loop", "syn", "ring"}

TypeOK ==
    /\ realtime \in 0 .. MaxTime /\ pending_ticks \in 0 .. MaxTime /\ Now \in 0 .. MaxTime
    /\ tmr \in [timers : Seq(Timer), next_timer : -LONG_MAX - 1 .. LONG_MAX,
                exp : [Timer -> -LONG_MAX - 1 .. LONG_MAX], task : [Timer -> Owner],
                due : [Timer -> Nat], expired : [Owner -> Seq(Timer)]]
    /\ irq \in [Task -> BOOLEAN]
    /\ job \in [pc : JobPcs, t : Timer, to : Task, exp : -LONG_MAX - 1 .. LONG_MAX, due : Nat]
    /\ syn \in {"recv", "send", "ready"} /\ drv \in {"recv", "wait"} /\ f_busy \in {"IDLE", "IO", "WAKEN"}
    /\ sched_ticks \in -1 .. SCHED_RATE
    /\ prev_ptr \in User \cup {IDLE, NIL} /\ bill_ptr \in User \cup {IDLE}
    /\ userq \in Seq(User)

-----------------------------------------------------------------------------
(* The timers. *)

(* The list q, taken apart where the search finds t.                       *)
Without(q, t) ==
    LET k == CHOOSE i \in DOMAIN q : q[i] = t
    IN  IF Contains(q, t) THEN [i \in 1 .. Len(q) - 1 |-> q[IF i < k THEN i ELSE i + 1]] ELSE q

On(t) == Contains(tmr.timers, t) \/ Contains(tmr.expired[tmr.task[t]], t)

(* Mutant: only the list of active timers is searched. *)
tmr_clrtimer_active(l, t) == [l EXCEPT !.exp[t] = TMR_NEVER, !.due[t] = 0, !.timers = Without(@, t)]

(* A timer that is not active is on the expired list of its task, if any;  *)
(* next_timer is left as it is.                                            *)
tmr_clrtimer(l, t) ==
    LET c == [l EXCEPT !.exp[t] = TMR_NEVER, !.due[t] = 0]
    IN  IF Contains(l.timers, t) THEN [c EXCEPT !.timers = Without(@, t)]
        ELSE [c EXCEPT !.expired[l.task[t]] = Without(@, t)]

(* How many timers are before the first that expires later than exp.       *)
Before(l, exp) ==
    CHOOSE n \in 0 .. Len(l.timers) :
        /\ \A k \in 1 .. n : l.exp[l.timers[k]] <= exp
        /\ n < Len(l.timers) => exp < l.exp[l.timers[n + 1]]

tmr_settimer(l, t, to, exp, due) ==
    LET c   == IF l.exp[t] # TMR_NEVER THEN tmr_clrtimer(l, t) ELSE l
        new == InsertAt(c.timers, Before(c, exp) + 1, t)
        set == [c.exp EXCEPT ![t] = exp]
    IN  [c EXCEPT !.timers = new, !.task[t] = to, !.exp = set, !.due[t] = due,
                  !.next_timer = set[Head(new)]]

(* One turn of the loop of tmr_exptimers(). *)
Ran(l, o) == LET t == Head(l.expired[o])
             IN  [l EXCEPT !.expired[o] = Tail(@), !.exp[t] = TMR_NEVER, !.due[t] = 0]

-----------------------------------------------------------------------------
(* The clock interrupt. *)

(* Mutant: the handler calls the clock task for timers only. *)
CallsTask_timers(now) == tmr.next_timer <= now

(* To call the clock task costs a switch, so the handler calls it only for *)
(* a timer, or for a process that has had its quantum while others wait.   *)
CallsTask(now) == \/ tmr.next_timer <= now
                  \/ sched_ticks = 1 /\ bill_ptr = prev_ptr /\ userq # <<>>

(* While do_clocktick() is about to reset sched_ticks the handler counts   *)
(* below zero; MinTicks bounds the ticks that fall into that moment.       *)
MinTicks == -1

clock_handler ==
    LET now == IF Now < MaxTime THEN Now + 1 ELSE Now
    IN  /\ sched_ticks > MinTicks
        /\ pending_ticks' = now - realtime
        /\ \/ CallsTask(now)
              /\ irq' = [irq EXCEPT !["CLOCK"] = TRUE] /\ UNCHANGED quantum
           \/ ~CallsTask(now) /\ sched_ticks # 1
              /\ sched_ticks' = sched_ticks - 1 /\ UNCHANGED <<irq, prev_ptr>>
           \/ ~CallsTask(now) /\ sched_ticks = 1
              /\ sched_ticks' = SCHED_RATE /\ prev_ptr' = bill_ptr /\ UNCHANGED irq
        /\ UNCHANGED <<realtime, tmr, job, taskvars, uservars>>

-----------------------------------------------------------------------------
(* The clock task. *)

Free       == job = Idle
Begin(pc)  == job' = At(pc)
Transfer   == realtime' = Now /\ pending_ticks' = 0
Takes(o)   == irq[o] /\ irq' = [irq EXCEPT ![o] = FALSE]

TakeTick ==
    /\ Free /\ Takes("CLOCK") /\ Transfer /\ Begin("expire")
    /\ UNCHANGED <<tmr, taskvars, quantum, uservars>>

(* Mutant: the clock task tells a task of its timers only if it has some. *)
Alerts_more(o) == o # "CLOCK" /\ tmr.expired[o] # <<>>

Alerts(o) == o # "CLOCK" /\ tmr.expired[o] = <<>>

do_clocktick ==
    /\ job.pc = "expire"
    /\ Begin(IF tmr.next_timer <= realtime THEN "move" ELSE "sched")
    /\ UNCHANGED <<clockvars, tmr, irq, taskvars, quantum, uservars>>

(* One turn of its loop: the first timer, if its time has come, goes to    *)
(* its task, on top of those already there.                                *)
Due == tmr.timers # <<>> /\ tmr.exp[Head(tmr.timers)] <= realtime

Expire ==
    /\ job.pc = "move"
    /\ \/ LET t == Head(tmr.timers)
              o == tmr.task[t]
          IN  /\ Due /\ UNCHANGED job
              /\ tmr' = [tmr EXCEPT !.timers = Tail(@), !.expired[o] = <<t>> \o @]
              /\ irq' = [irq EXCEPT ![o] = @ \/ Alerts(o)]
       \/ /\ ~Due /\ Begin("own") /\ UNCHANGED irq
          /\ tmr' = [tmr EXCEPT !.next_timer = IF tmr.timers = <<>> THEN TMR_NEVER
                                               ELSE tmr.exp[Head(tmr.timers)]]
    /\ UNCHANGED <<clockvars, taskvars, quantum, uservars>>

(* Mutant: the time-out does not interrupt the driver. *)
OwnTimers_quiet ==
    /\ job.pc = "own"
    /\ IF tmr.expired["CLOCK"] = <<>> THEN Begin("sched") /\ UNCHANGED <<tmr, f_busy>>
       ELSE LET hurry == Head(tmr.expired["CLOCK"]) = Timeout /\ f_busy = "IO"
            IN  /\ tmr' = Ran(tmr, "CLOCK") /\ UNCHANGED job
                /\ f_busy' = IF hurry THEN "WAKEN" ELSE f_busy
    /\ UNCHANGED <<clockvars, irq, syn, drv, quantum, uservars>>

(* cause_alarm() makes a signal, of which MM hears.  f_timeout() ends the   *)
(* driver's wait for its device.                                           *)
OwnTimers ==
    /\ job.pc = "own"
    /\ IF tmr.expired["CLOCK"] = <<>> THEN Begin("sched") /\ UNCHANGED <<tmr, irq, f_busy>>
       ELSE LET hurry == Head(tmr.expired["CLOCK"]) = Timeout /\ f_busy = "IO"
            IN  /\ tmr' = Ran(tmr, "CLOCK") /\ UNCHANGED job
                /\ irq' = [irq EXCEPT !["DRIVER"] = @ \/ hurry]
                /\ f_busy' = IF hurry THEN "WAKEN" ELSE f_busy
    /\ UNCHANGED <<clockvars, syn, drv, quantum, uservars>>

CountDown ==
    /\ job.pc = "sched"
    /\ sched_ticks' = sched_ticks - 1
    /\ job' = IF sched_ticks = 1 THEN At("switch") ELSE Idle
    /\ UNCHANGED <<clockvars, tmr, irq, taskvars, prev_ptr, uservars>>

(* lock_sched(); a task is running, so bill_ptr stays. *)
sched == IF userq = <<>> THEN userq ELSE Append(Tail(userq), Head(userq))

SwitchUser ==
    /\ job.pc = "switch" /\ job' = Idle
    /\ userq' = IF bill_ptr = prev_ptr THEN sched ELSE userq
    /\ sched_ticks' = SCHED_RATE /\ prev_ptr' = bill_ptr
    /\ UNCHANGED <<clockvars, tmr, irq, taskvars, bill_ptr>>

(* get_uptime() + delta, and the timer is still to be set.  It should go   *)
(* off at the time due, which is not that of the sum if clock_t wraps.     *)
Setting(t, to, delta, d) ==
    [pc |-> "set", t |-> t, to |-> to, exp |-> wrap(Now + delta), due |-> Now + d]

(* set_alarm() finds out whether the ticks fit an unsigned long.           *)
DeltaTicks(d) == IF d > 2 * LONG_MAX + 1 THEN LONG_MAX ELSE wrap(d)

(* A blocked interrupt is received before any message. *)
do_setalarm(p, handler, delta, d) ==
    /\ Free /\ ~irq["CLOCK"] /\ Transfer
    /\ job' = Setting(p, handler, delta, d)
    /\ UNCHANGED <<tmr, irq, taskvars, quantum, uservars>>

ClearAlarm(p) ==
    /\ Free /\ ~irq["CLOCK"] /\ Transfer
    /\ tmr' = tmr_clrtimer(tmr, p)
    /\ UNCHANGED <<irq, job, taskvars, quantum, uservars>>

(* The system task, for a process that ends. *)
cancel_alarm(p) ==
    /\ Free /\ tmr' = tmr_clrtimer(tmr, p)
    /\ UNCHANGED <<clockvars, irq, job, taskvars, quantum, uservars>>

(* An active timer whose time is TMR_NEVER is taken for one that is not.   *)
(* To set it again links it into the list twice, which makes the list a    *)
(* ring that the next search does not leave; nothing is followed from      *)
(* there.                                                                  *)
Tangles == On(job.t) /\ tmr.exp[job.t] = TMR_NEVER

(* Whoever sets a timer has read the time before. *)
SetTimer ==
    /\ job.pc = "set"
    /\ IF Tangles THEN Begin("ring") /\ UNCHANGED tmr
       ELSE /\ tmr' = tmr_settimer(tmr, job.t, job.to, job.exp, job.due)
            /\ job' = IF job.t = Stop THEN At("loop") ELSE IF job.t = Timeout THEN At("command") ELSE Idle
    /\ UNCHANGED <<clockvars, irq, taskvars, quantum, uservars>>

-----------------------------------------------------------------------------
(* The synchronous alarm task. *)

RunSyn ==
    /\ Free /\ Begin("syn") /\ syn' = "ready"
    /\ \/ syn = "recv" /\ Takes("SYN_ALRM")
       \/ syn = "ready" /\ UNCHANGED irq
    /\ UNCHANGED <<clockvars, tmr, drv, f_busy, quantum, uservars>>

(* cause_synalarm() blocks in send() unless the process is waiting for it. *)
SynTimer ==
    /\ job.pc = "syn"
    /\ \/ tmr.expired["SYN_ALRM"] = <<>> /\ syn' = "recv" /\ job' = Idle /\ UNCHANGED tmr
       \/ /\ tmr.expired["SYN_ALRM"] # <<>> /\ tmr' = Ran(tmr, "SYN_ALRM")
          /\ \/ UNCHANGED <<syn, job>>
             \/ syn' = "send" /\ job' = Idle
    /\ UNCHANGED <<clockvars, irq, drv, f_busy, quantum, uservars>>

Received ==
    /\ Free /\ syn = "send" /\ syn' = "ready"
    /\ UNCHANGED <<clockvars, tmr, irq, job, drv, f_busy, quantum, uservars>>

-----------------------------------------------------------------------------
(* The driver. *)

(* A request, which is where the driver sets its first time-out. *)
Request(w) ==
    /\ Free /\ drv = "recv" /\ ~irq["DRIVER"]
    /\ job' = Setting(Timeout, "CLOCK", w, w)
    /\ UNCHANGED <<clockvars, tmr, irq, taskvars, quantum, uservars>>

(* The driver is running. *)
Driving == job.pc \in {"command", "loop"} \/ (job.pc = "set" /\ job.t \in {Timeout, Stop})

(* The next command of the request, or its end, where f_cleanup() sets the *)
(* timer that stops the motor.                                             *)
GoOn(w) == job' \in {Setting(Timeout, "CLOCK", w, w), Setting(Stop, "DRIVER", w, w)}

(* The time-out is set before the device is known to be busy.  The driver  *)
(* then waits, or gives up as the device does not take the command.        *)
Command(w) ==
    /\ job.pc = "command" /\ f_busy' = "IO"
    /\ \/ drv' = "wait" /\ job' = Idle
       \/ GoOn(w) /\ UNCHANGED drv
    /\ UNCHANGED <<clockvars, tmr, irq, syn, quantum, uservars>>

(* The device interrupts at any moment, late or for no reason too.         *)
DeviceInt ==
    /\ f_busy' = "IDLE" /\ irq' = [irq EXCEPT !["DRIVER"] = TRUE]
    /\ UNCHANGED <<clockvars, tmr, job, syn, drv, quantum, uservars>>

(* The driver waits in receive(HARDWARE) until it is no longer busy; an    *)
(* interrupt that comes to its main loop is left over or tells of a timer. *)
DriverInt(w) ==
    /\ Free /\ Takes("DRIVER")
    /\ \/ drv = "wait" /\ f_busy = "IO" /\ UNCHANGED <<drv, job>>
       \/ drv = "wait" /\ f_busy # "IO" /\ drv' = "recv" /\ GoOn(w)
       \/ drv = "recv" /\ Begin("loop") /\ UNCHANGED drv
    /\ UNCHANGED <<clockvars, tmr, syn, f_busy, quantum, uservars>>

DriverLoop ==
    /\ job.pc = "loop"
    /\ IF tmr.expired["DRIVER"] = <<>> THEN job' = Idle /\ UNCHANGED tmr
       ELSE tmr' = Ran(tmr, "DRIVER") /\ UNCHANGED job
    /\ UNCHANGED <<clockvars, irq, taskvars, quantum, uservars>>

-----------------------------------------------------------------------------
(* User processes get the processor when no task is ready. *)

Quiet == Free /\ syn # "ready" /\ (syn = "recv" => ~irq["SYN_ALRM"]) /\ ~irq["CLOCK"] /\ ~irq["DRIVER"]

pick_proc ==
    /\ Quiet
    /\ bill_ptr' = IF userq = <<>> THEN IDLE ELSE Head(userq)
    /\ UNCHANGED <<clockvars, tmr, irq, job, taskvars, quantum, userq>>

(* The running process blocks; another becomes ready, in front. *)
unready ==
    /\ Quiet /\ userq # <<>> /\ bill_ptr = Head(userq)
    /\ userq' = Tail(userq)
    /\ UNCHANGED <<clockvars, tmr, irq, job, taskvars, quantum, bill_ptr>>

ready(u) ==
    /\ Free /\ ~Contains(userq, u)
    /\ userq' = <<u>> \o userq
    /\ UNCHANGED <<clockvars, tmr, irq, job, taskvars, quantum, bill_ptr>>

-----------------------------------------------------------------------------
(* Static storage is zero: next_timer and the times of all timers too.     *)
Init ==
    /\ realtime = 0 /\ pending_ticks = 0
    /\ tmr = [timers |-> <<>>, next_timer |-> 0, exp |-> [t \in Timer |-> 0],
              task |-> [t \in Timer |-> "MM"], due |-> [t \in Timer |-> 0],
              expired |-> [o \in Owner |-> <<>>]]
    /\ irq = [o \in Task |-> FALSE]
    /\ job = Idle /\ syn = "recv" /\ drv = "recv" /\ f_busy = "IDLE"
    /\ sched_ticks = SCHED_RATE /\ prev_ptr = NIL /\ bill_ptr = IDLE
    /\ userq \in {q \in SetToAllKPermutations(User) : Len(q) > 0}

(* What a task goes on with. *)
Step == do_clocktick \/ Expire \/ OwnTimers \/ CountDown \/ SwitchUser \/ SetTimer \/ SynTimer \/ DriverLoop

Next ==
    \/ Step
    \/ clock_handler \/ TakeTick \/ RunSyn \/ Received \/ DeviceInt
    \/ pick_proc \/ unready \/ \E u \in User : ready(u)
    \/ \E p \in Alarm : ClearAlarm(p) \/ cancel_alarm(p)
    \/ \E w \in Waits : Request(w) \/ Command(w) \/ DriverInt(w)
    \/ \E p \in Alarm : \/ \E d \in Delays : do_setalarm(p, "CLOCK", DeltaTicks(d), d)
                       \/ \E w \in Waits : do_setalarm(p, "SYN_ALRM", w, w)

Spec == Init /\ [][Next]_vars
-----------------------------------------------------------------------------
(* A timer that is set is on one list, once, and one that is not is on     *)
(* none; those that run are in the order of their times, and next_timer is *)
(* not later than the first.                                               *)
ListsSound ==
    /\ \A i, j \in DOMAIN tmr.timers : i # j => tmr.timers[i] # tmr.timers[j]
    /\ \A o \in Owner : \A i, j \in DOMAIN tmr.expired[o] : i # j => tmr.expired[o][i] # tmr.expired[o][j]
    /\ \A o \in Owner : \A i \in DOMAIN tmr.expired[o] :
          /\ tmr.task[tmr.expired[o][i]] = o
          /\ ~Contains(tmr.timers, tmr.expired[o][i])
    /\ \A t \in Timer : On(t) <=> tmr.due[t] # 0
    /\ \A i, j \in DOMAIN tmr.timers : i < j => tmr.exp[tmr.timers[i]] <= tmr.exp[tmr.timers[j]]
    /\ tmr.timers # <<>> => tmr.next_timer <= tmr.exp[Head(tmr.timers)]

(* No timer goes off before its time has come, but for those of a time     *)
(* that clock_t cannot hold, which went into the past.                     *)
NoneEarly ==
    \A o \in Task : \A i \in DOMAIN tmr.expired[o] :
        LET due == tmr.due[tmr.expired[o][i]] IN due <= realtime \/ due > LONG_MAX

(* The lists of timers are sound whoever sets, clears, takes or runs them. *)
TimersSound == TypeOK /\ ListsSound /\ NoneEarly

(* A task that waits for work has been told of the timers it has to run,   *)
(* also when the first of them was cleared meanwhile, or its interrupt     *)
(* taken for one of the device.                                            *)
Alerted ==
    /\ tmr.expired["CLOCK"] # <<>> => job.pc \in {"move", "own"}
    /\ tmr.expired["SYN_ALRM"] # <<>> /\ syn = "recv" => irq["SYN_ALRM"]
    /\ tmr.expired["DRIVER"] # <<>> /\ drv = "recv" => irq["DRIVER"] \/ Driving

(* A driver that waits for its device has a time-out coming, or has been   *)
(* told that the device is no longer busy: neither a late interrupt nor a  *)
(* time-out of an earlier command takes with it what ends this wait.       *)
TimeoutComing == drv = "wait" => IF f_busy = "IO" THEN On(Timeout) ELSE irq["DRIVER"]

(* The counter of ticks is sane whenever the clock task is not about to    *)
(* reset it ("if bad things happen here (like sched_ticks going negative), *)
(* the code in do_clocktick() will restore the variables to reasonable     *)
(* values"), and nobody gets a second whole quantum while another waits.   *)
QuantumKept ==
    /\ [](job.pc # "switch" => sched_ticks \in 1 .. SCHED_RATE)
    /\ [][/\ sched_ticks # SCHED_RATE /\ sched_ticks' = SCHED_RATE
          /\ prev_ptr' = prev_ptr /\ Len(userq) > 1
          => userq' = sched]_vars
=============================================================================
