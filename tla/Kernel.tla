------------------------------- MODULE Kernel -------------------------------
(***************************************************************************)
(* The MINIX kernel below the tasks: the process table, the three ready    *)
(* queues, rendezvous message passing (proc.c), the kernel side of signals *)
(* and the process life cycle that the system task runs (system.c).        *)
(*                                                                         *)
(* The state is one record k, and every C function that changes it is an   *)
(* operator from states to states with the function's own name, because    *)
(* the functions nest: one sys_call() may run mini_send(), mini_rec(),     *)
(* inform() and mini_send() again before it returns.  One action of Next   *)
(* is one uninterrupted stretch of process-switching code; Interrupt.tla   *)
(* is about why it may be taken to be atomic.                              *)
(*                                                                         *)
(* This module is open: the running process may make any call that the     *)
(* operator Allowed and the guards of the system task's actions let it     *)
(* make.  Those guards are what the kernel takes on trust ("Calls from the *)
(* tasks, MM, and FS are trusted").                                        *)
(***************************************************************************)
EXTENDS Integers, Sequences, FiniteSets

CONSTANTS NR_PROCS,   \* slots for servers and user processes, include/minix/config.h
          DriverTab,  \* the device tasks' slot numbers, in tasktab order
          Sig,        \* the signals a task may cause
          Calls,      \* the calls tasks and servers make: triples of caller, function, target
          ClientMsg,  \* the messages that processes pass to one another
          MaxPend     \* bound: no signal is caused for a process with this p_pendcount

HARDWARE == -1
SYSTASK  == -2
CLOCK    == -3
IDLE     == -6
MM       == 0
FS       == 1
INIT     == 2
LOW_USER == 2
ANY      == 31438       \* 0x7ace

Driver == {DriverTab[i] : i \in 1 .. Len(DriverTab)}
Task   == Driver \cup {IDLE, CLOCK, SYSTASK, HARDWARE}
Server == {MM, FS}
User   == LOW_USER .. NR_PROCS - 1
Proc   == Task \cup Server \cup User

TASK_Q   == 0
SERVER_Q == 1
USER_Q   == 2
Queue    == {TASK_Q, SERVER_Q, USER_Q}

Flag == {"NO_MAP", "SENDING", "RECEIVING", "PENDING", "SIG_PENDING", "P_STOP"}
Prio == {"NONE", "TASK", "SERVER", "USER", "IDLE"}
Func == {"SEND", "RECEIVE", "BOTH"}

HardInt      == [m_type |-> "HARD_INT"]
KSig(p, map) == [m_type |-> "KSIG", SIG_PROC |-> p, SIG_MAP |-> map]
Msg          == ClientMsg \cup {HardInt} \cup {KSig(p, map) : p \in Proc, map \in SUBSET Sig}

(* The device tasks have the numbers below CLOCK, except IDLE's; a process *)
(* number is never ANY.  What the kernel takes on trust of the call graph: *)
(* nobody sends to itself (the deadlock check would not notice), to ANY or *)
(* to the pseudo-processes, and only replies go to user processes.         *)
ASSUME ConstAssumption ==
    /\ NR_PROCS \in Nat /\ NR_PROCS > LOW_USER /\ NR_PROCS < ANY
    /\ DriverTab \in Seq(Int)
    /\ \A i \in 1 .. Len(DriverTab) : DriverTab[i] < CLOCK /\ DriverTab[i] # IDLE
    /\ \A i, j \in 1 .. Len(DriverTab) : DriverTab[i] = DriverTab[j] => i = j
    /\ IsFiniteSet(Sig)
    /\ Calls \subseteq (Task \cup Server) \X Func \X (Proc \cup {ANY})
    /\ \A c \in Calls : c[2] # "RECEIVE" => c[3] \notin {ANY, HARDWARE, IDLE, c[1]}
    /\ \A c \in Calls : c[3] \in User => c[2] = "SEND"
    /\ ClientMsg # {}
    /\ MaxPend \in Nat

VARIABLE k

(* Only the slots of user processes change hands. *)
PrioMap == {f \in [Proc -> Prio] : \A p \in Proc :
               f[p] \in IF p = IDLE THEN {"IDLE"} ELSE IF p \in Task THEN {"TASK"}
                        ELSE IF p \in Server THEN {"SERVER"} ELSE {"USER", "NONE"}}

KState == [flags     : [Proc -> SUBSET Flag],     \* p_flags
           prio      : PrioMap,                   \* p_priority
           getfrom   : [Proc -> Proc \cup {ANY}], \* p_getfrom
           sendto    : [Proc -> Proc],            \* p_sendto
           callerq   : [Proc -> Seq(Proc)],       \* p_callerq, linked by p_sendlink
           m_source  : [Proc -> Proc],            \* *p_messbuf
           mess      : [Proc -> Msg],
           intblk    : [Proc -> BOOLEAN],         \* p_int_blocked
           pending   : [Proc -> SUBSET Sig],      \* p_pending
           pendcount : [Proc -> Nat],             \* p_pendcount
           sig_procs : Int,
           rdy       : [Queue -> Seq(Proc)],      \* rdy_head, linked by p_nextready
           proc_ptr  : Proc,
           bill_ptr  : Proc,
           panic     : BOOLEAN]

(* The macros of proc.h. *)
isemptyp(s, p)  == s.prio[p] = "NONE"
istaskp(s, p)   == s.prio[p] = "TASK"
isservp(s, p)   == s.prio[p] = "SERVER"
isuserp(s, p)   == s.prio[p] = "USER"
isrxhardware(n) == n \in {ANY, HARDWARE}
issysentn(n)    == n \in {FS, MM}

QueueOf(s, p) == IF istaskp(s, p) THEN TASK_Q
                 ELSE IF isservp(s, p) THEN SERVER_Q ELSE USER_Q

Elems(q) == {q[i] : i \in 1 .. Len(q)}

(* Take the first occurrence of p, which is there, off a linked list.      *)
Unlink(q, p) ==
    LET i == CHOOSE n \in 1 .. Len(q) : q[n] = p /\ \A j \in 1 .. n - 1 : q[j] # p
    IN  [j \in 1 .. Len(q) - 1 |-> IF j < i THEN q[j] ELSE q[j + 1]]

-----------------------------------------------------------------------------
(* Scheduling. *)

pick_proc(s) ==
    IF s.rdy[TASK_Q] # <<>> THEN [s EXCEPT !.proc_ptr = Head(s.rdy[TASK_Q])]
    ELSE IF s.rdy[SERVER_Q] # <<>> THEN [s EXCEPT !.proc_ptr = Head(s.rdy[SERVER_Q])]
    ELSE IF s.rdy[USER_Q] # <<>>
         THEN [s EXCEPT !.proc_ptr = Head(s.rdy[USER_Q]), !.bill_ptr = Head(s.rdy[USER_Q])]
    ELSE [s EXCEPT !.proc_ptr = IDLE, !.bill_ptr = IDLE]

(* A task that finds TASK_Q empty runs next; a user process goes in front. *)
ready(s, p) ==
    IF istaskp(s, p)
    THEN [s EXCEPT !.rdy[TASK_Q] = Append(@, p),
                   !.proc_ptr = IF s.rdy[TASK_Q] = <<>> THEN p ELSE @]
    ELSE IF isservp(s, p) THEN [s EXCEPT !.rdy[SERVER_Q] = Append(@, p)]
    ELSE [s EXCEPT !.rdy[USER_Q] = <<p>> \o @]

(* Faulty: the head leaves its queue and nobody else is picked. *)
unready_nopick(s, p) ==
    IF p \notin Elems(s.rdy[QueueOf(s, p)]) THEN s
    ELSE [s EXCEPT !.rdy[QueueOf(s, p)] = Unlink(@, p)]

unready(s, p) ==
    LET q == QueueOf(s, p)
        r == [s EXCEPT !.rdy[q] = Unlink(@, p)]
    IN  IF p \notin Elems(s.rdy[q]) THEN s
        ELSE IF p = Head(s.rdy[q]) /\ (q = TASK_Q => p = s.proc_ptr) THEN pick_proc(r)
        ELSE r

sched(s) ==
    IF s.rdy[USER_Q] = <<>> THEN s
    ELSE pick_proc([s EXCEPT !.rdy[USER_Q] = Append(Tail(@), Head(@))])

(* "if (rp->p_flags == 0) ready(rp)" and "... unready(rp)". *)
ReadyIfFree(s, p)   == IF s.flags[p] = {} THEN ready(s, p) ELSE s
UnreadyIfFree(s, p) == IF s.flags[p] = {} THEN unready(s, p) ELSE s

-----------------------------------------------------------------------------
(* Message passing. *)

CopyMess(s, src, m, dst) == [s EXCEPT !.m_source[dst] = src, !.mess[dst] = m]

(* The walk of mini_send() along p_sendto that starts at the sender d meets *)
(* c: c is in every set that holds d's target and is closed under the walk. *)
Sender(s)        == {p \in Proc : "SENDING" \in s.flags[p]}
Target(s)        == {s.sendto[p] : p \in Sender(s)}
Closed(s, S)     == \A p \in S \cap Sender(s) : s.sendto[p] \in S
Reaches(s, d, c) == /\ d \in Sender(s)
                    /\ \A S \in SUBSET Target(s) : s.sendto[d] \in S /\ Closed(s, S) => c \in S

(* d is blocked waiting for a message that c may send. *)
Waiting(s, d, c) == /\ s.flags[d] \cap {"RECEIVING", "SENDING"} = {"RECEIVING"}
                    /\ s.getfrom[d] \in {ANY, c}

(* Faulty: without the walk that looks for a cycle. *)
SendResult_nowalk(s, c, d) ==
    IF (isuserp(s, c) /\ ~issysentn(d)) \/ isemptyp(s, d) THEN "E_BAD_DEST" ELSE "OK"

SendResult(s, c, d) ==
    IF (isuserp(s, c) /\ ~issysentn(d)) \/ isemptyp(s, d) THEN "E_BAD_DEST"
    ELSE IF Reaches(s, d, c) THEN "ELOCKED"
    ELSE "OK"

Deliver(s, c, d, m) ==
    ReadyIfFree([CopyMess(s, c, m, d) EXCEPT !.flags[d] = @ \ {"RECEIVING"}], d)

BlockSending(s, c, d, m) ==
    [UnreadyIfFree(s, c) EXCEPT !.mess[c]    = m,
                                !.flags[c]   = @ \cup {"SENDING"},
                                !.sendto[c]  = d,
                                !.callerq[d] = Append(@, c)]

mini_send(s, c, d, m) ==
    IF SendResult(s, c, d) # "OK" THEN s
    ELSE IF Waiting(s, d, c) THEN Deliver(s, c, d, m)
    ELSE BlockSending(s, c, d, m)

(* The lowest slot from MM up with PENDING set is reported; the message is *)
(* put together in the system task's own m, whose m_source stays.          *)
Pending(s) == {p \in Server \cup User : "PENDING" \in s.flags[p]}

inform(s) ==
    IF Pending(s) = {} THEN s
    ELSE LET p == CHOOSE x \in Pending(s) : \A y \in Pending(s) : x <= y
             m == KSig(p, s.pending[p])
             t == [s EXCEPT !.mess[SYSTASK] = m,
                            !.sig_procs = @ - 1,
                            !.panic = @ \/ SendResult(s, HARDWARE, MM) # "OK"]
             u == mini_send(t, HARDWARE, MM, m)
         IN  pick_proc([u EXCEPT !.pending[p] = {}, !.flags[p] = @ \ {"PENDING"}])

(* The first process on the caller queue whose message src admits. *)
Acceptable(s, c, src) == {i \in 1 .. Len(s.callerq[c]) : src \in {ANY, s.callerq[c][i]}}

Accept(s, c, src) ==
    LET i == CHOOSE n \in Acceptable(s, c, src) : \A j \in Acceptable(s, c, src) : n <= j
        p == s.callerq[c][i]
    IN  ReadyIfFree([CopyMess(s, p, s.mess[p], c)
                        EXCEPT !.callerq[c] = Unlink(@, p), !.flags[p] = @ \ {"SENDING"}], p)

BlockReceiving(s, c, src) ==
    [UnreadyIfFree(s, c) EXCEPT !.getfrom[c] = src, !.flags[c] = @ \cup {"RECEIVING"}]

(* Faulty: blocked interrupts, or unreported signals, are not looked at. *)
mini_rec_noint(s, c, src) ==
    IF "SENDING" \notin s.flags[c] /\ Acceptable(s, c, src) # {} THEN Accept(s, c, src)
    ELSE LET t == BlockReceiving(s, c, src)
         IN  IF t.sig_procs > 0 /\ c = MM /\ src = ANY THEN inform(t) ELSE t

mini_rec_noinform(s, c, src) ==
    IF "SENDING" \notin s.flags[c] /\ Acceptable(s, c, src) # {} THEN Accept(s, c, src)
    ELSE IF "SENDING" \notin s.flags[c] /\ s.intblk[c] /\ isrxhardware(src)
    THEN [CopyMess(s, HARDWARE, HardInt, c) EXCEPT !.intblk[c] = FALSE]
    ELSE BlockReceiving(s, c, src)

mini_rec(s, c, src) ==
    IF "SENDING" \notin s.flags[c] /\ Acceptable(s, c, src) # {} THEN Accept(s, c, src)
    ELSE IF "SENDING" \notin s.flags[c] /\ s.intblk[c] /\ isrxhardware(src)
    THEN [CopyMess(s, HARDWARE, HardInt, c) EXCEPT !.intblk[c] = FALSE]
    ELSE LET t == BlockReceiving(s, c, src)
         IN  IF t.sig_procs > 0 /\ c = MM /\ src = ANY THEN inform(t) ELSE t

CallResult(s, fn, x) ==
    IF isuserp(s, s.proc_ptr) /\ fn # "BOTH" THEN "E_NO_PERM"
    ELSE IF fn = "RECEIVE" THEN "OK" ELSE SendResult(s, s.proc_ptr, x)

sys_call(s, fn, x, m) ==
    LET c == s.proc_ptr
        t == IF fn = "RECEIVE" THEN s ELSE mini_send(s, c, x, m)
    IN  IF CallResult(s, fn, x) # "OK" THEN s
        ELSE IF fn = "SEND" THEN t ELSE mini_rec(t, c, x)

(* interrupt() when it does not compete with other switching code. *)
interrupt(s, p) ==
    IF s.flags[p] \cap {"RECEIVING", "SENDING"} # {"RECEIVING"} \/ ~isrxhardware(s.getfrom[p])
    THEN [s EXCEPT !.intblk[p] = TRUE]
    ELSE ready([CopyMess(s, HARDWARE, HardInt, p)
                   EXCEPT !.flags[p] = @ \ {"RECEIVING"}, !.intblk[p] = FALSE], p)

-----------------------------------------------------------------------------
(* Signals, as far as the kernel goes. *)

cause_sig(s, p, sig) ==
    LET t == [s EXCEPT !.pending[p] = @ \cup {sig}, !.pendcount[p] = @ + 1]
        u == [UnreadyIfFree(t, p) EXCEPT !.flags[p] = @ \cup {"PENDING", "SIG_PENDING"},
                                         !.sig_procs = @ + 1]
    IN  IF sig \in s.pending[p] THEN s
        ELSE IF "PENDING" \in s.flags[p] THEN t
        ELSE IF "RECEIVING" \in s.flags[MM] /\ s.getfrom[MM] = ANY THEN inform(u)
        ELSE u

(* Faulty: without the test that the process has unfinished signals. *)
do_endsig_nocheck(s, p) ==
    LET t == [s EXCEPT !.pendcount[p] = @ - 1]
    IN  IF t.pendcount[p] # 0 THEN t
        ELSE ReadyIfFree([t EXCEPT !.flags[p] = @ \ {"SIG_PENDING"}], p)

do_endsig(s, p) ==
    IF isemptyp(s, p) \/ s.pendcount[p] = 0 THEN s
    ELSE IF s.pendcount[p] > 1 THEN [s EXCEPT !.pendcount[p] = @ - 1]
    ELSE ReadyIfFree([s EXCEPT !.pendcount[p] = 0, !.flags[p] = @ \ {"SIG_PENDING"}], p)

(* The requests of the system task that touch the scheduler's state; the   *)
(* others (SYS_COPY, SYS_GETMAP, SYS_TIMES, ...) move data and change none *)
(* of it.                                                                  *)

do_fork(s, parent, child) ==
    [s EXCEPT !.flags[child]     = (s.flags[parent] \cup {"NO_MAP"})
                                      \ {"PENDING", "SIG_PENDING", "P_STOP"},
              !.prio[child]      = s.prio[parent],
              !.getfrom[child]   = s.getfrom[parent],
              !.sendto[child]    = s.sendto[parent],
              !.callerq[child]   = s.callerq[parent],
              !.m_source[child]  = s.m_source[parent],
              !.mess[child]      = s.mess[parent],
              !.intblk[child]    = s.intblk[parent],
              !.pending[child]   = {},
              !.pendcount[child] = 0]

(* Faulty: readies a process that was ready before. *)
do_newmap_again(s, p) == ReadyIfFree([s EXCEPT !.flags[p] = @ \ {"NO_MAP"}], p)

do_newmap(s, p) ==
    LET t == [s EXCEPT !.flags[p] = @ \ {"NO_MAP"}]
    IN  IF s.flags[p] # {} /\ t.flags[p] = {} THEN ready(t, p) ELSE t

(* traced is the TRACED flag of the exec'ing process, sigtrap is SIGTRAP. *)
do_exec(s, p, traced, sigtrap) ==
    LET t == IF traced THEN cause_sig(s, p, sigtrap) ELSE s
    IN  ReadyIfFree([t EXCEPT !.flags[p] = @ \ {"RECEIVING"}], p)

(* Faulty: leaves the dead process on a caller queue, or in sig_procs. *)
do_xit_queued(s, p) ==
    [UnreadyIfFree(s, p) EXCEPT !.sig_procs    = IF "PENDING" \in s.flags[p] THEN @ - 1 ELSE @,
                                !.pending[p]   = {},
                                !.pendcount[p] = 0,
                                !.flags[p]     = {},
                                !.prio[p]      = "NONE"]

do_xit_counted(s, p) ==
    [UnreadyIfFree(s, p) EXCEPT !.callerq = [d \in Proc |-> SelectSeq(@[d], LAMBDA x : x # p)],
                                !.pending[p]   = {},
                                !.pendcount[p] = 0,
                                !.flags[p]     = {},
                                !.prio[p]      = "NONE"]

do_xit(s, p) ==
    LET t == UnreadyIfFree(s, p)
        u == IF "SENDING" \in s.flags[p]
             THEN [t EXCEPT !.callerq = [d \in Proc |-> IF p \in Elems(t.callerq[d])
                                                         THEN Unlink(t.callerq[d], p)
                                                         ELSE t.callerq[d]]]
             ELSE t
    IN  [u EXCEPT !.sig_procs    = IF "PENDING" \in s.flags[p] THEN @ - 1 ELSE @,
                  !.pending[p]   = {},
                  !.pendcount[p] = 0,
                  !.flags[p]     = {},
                  !.prio[p]      = "NONE"]

do_trace(s, p, request) ==
    IF isemptyp(s, p) THEN s
    ELSE CASE request = "T_STOP" ->
                  [UnreadyIfFree(s, p) EXCEPT !.flags[p] = @ \cup {"P_STOP"}]
           [] request \in {"T_RESUME", "T_STEP"} ->
                  ReadyIfFree([s EXCEPT !.flags[p] = @ \ {"P_STOP"}], p)

-----------------------------------------------------------------------------
(* The state main() leaves behind when it starts the first process. *)
Init ==
    LET tasks == DriverTab \o <<CLOCK, SYSTASK>>
    IN  k = [flags     |-> [p \in Proc |-> {}],
             prio      |-> [p \in Proc |-> IF p = IDLE THEN "IDLE"
                                           ELSE IF p \in Task THEN "TASK"
                                           ELSE IF p \in Server THEN "SERVER"
                                           ELSE IF p = INIT THEN "USER" ELSE "NONE"],
             getfrom   |-> [p \in Proc |-> MM],
             sendto    |-> [p \in Proc |-> MM],
             callerq   |-> [p \in Proc |-> <<>>],
             m_source  |-> [p \in Proc |-> MM],
             mess      |-> [p \in Proc |-> CHOOSE m \in ClientMsg : TRUE],
             intblk    |-> [p \in Proc |-> FALSE],
             pending   |-> [p \in Proc |-> {}],
             pendcount |-> [p \in Proc |-> 0],
             sig_procs |-> 0,
             rdy       |-> [q \in Queue |-> IF q = TASK_Q THEN tasks
                                            ELSE IF q = SERVER_Q THEN <<MM, FS>> ELSE <<INIT>>],
             proc_ptr  |-> tasks[1],
             bill_ptr  |-> IDLE,
             panic     |-> FALSE]

(* A user process may try any call.  Tasks and servers make the calls of   *)
(* the call graph Calls, and reply to a user process only while it waits   *)
(* for that reply, or when it has died.                                    *)
Allowed(s, fn, x) ==
    \/ isuserp(s, s.proc_ptr)
    \/ /\ <<s.proc_ptr, fn, x>> \in Calls
       /\ x \in User => isemptyp(s, x) \/ Waiting(s, x, s.proc_ptr)

(* The trap handler: the running process, user or system, makes a call. *)
SysCall(fn, x, m) ==
    /\ k.proc_ptr # IDLE
    /\ Allowed(k, fn, x)
    /\ k' = sys_call(k, fn, x, m)

Interrupt(p) == k' = interrupt(k, p)

(* A running task (CLOCK, a driver) sees reason to signal a process. *)
TaskSignal(p, sig) ==
    /\ k.proc_ptr \in Driver \cup {CLOCK}
    /\ isuserp(k, p) /\ k.pendcount[p] < MaxPend
    /\ k' = cause_sig(k, p, sig)

(* exception(): the running user process has trapped. *)
Exception(sig) ==
    /\ isuserp(k, k.proc_ptr) /\ k.pendcount[k.proc_ptr] < MaxPend
    /\ k' = cause_sig(k, k.proc_ptr, sig)

(* CLOCK finds that a user process has used up its quantum. *)
ClockSched == k.proc_ptr = CLOCK /\ k' = sched(k)

(* The system task runs a request.  The guards are the assertions of the   *)
(* handlers and what MM and FS see to: a process forks or execs from a     *)
(* call that MM has not answered, only a stopped one is resumed, and MM    *)
(* finishes only signals it has been told of.                              *)
Unfinished(s, p) == s.pendcount[p] - Cardinality(s.pending[p])

SysFork(parent, child) ==
    /\ k.proc_ptr = SYSTASK
    /\ isuserp(k, parent) /\ Waiting(k, parent, MM) /\ isemptyp(k, child)
    /\ k' = do_fork(k, parent, child)

SysNewmap(p) ==
    /\ k.proc_ptr = SYSTASK /\ isuserp(k, p)
    /\ k' = do_newmap(k, p)

SysExec(p, traced, sigtrap) ==
    /\ k.proc_ptr = SYSTASK
    /\ isuserp(k, p) /\ Waiting(k, p, MM)
    /\ traced => k.pendcount[p] < MaxPend
    /\ k' = do_exec(k, p, traced, sigtrap)

SysXit(p) ==
    /\ k.proc_ptr = SYSTASK /\ isuserp(k, p)
    /\ k' = do_xit(k, p)

SysKill(p, sig) ==
    /\ k.proc_ptr = SYSTASK
    /\ isuserp(k, p) /\ k.pendcount[p] < MaxPend
    /\ k' = cause_sig(k, p, sig)

SysEndsig(p) ==
    /\ k.proc_ptr = SYSTASK
    /\ isemptyp(k, p) \/ Unfinished(k, p) > 0
    /\ k' = do_endsig(k, p)

SysTrace(p, request) ==
    /\ k.proc_ptr = SYSTASK
    /\ request \in {"T_RESUME", "T_STEP"} => "P_STOP" \in k.flags[p]
    /\ k' = do_trace(k, p, request)

Next ==
    \/ \E fn \in Func, x \in Proc \cup {ANY}, m \in ClientMsg : SysCall(fn, x, m)
    \/ \E p \in Driver \cup {CLOCK} : Interrupt(p)
    \/ \E p \in User, sig \in Sig : TaskSignal(p, sig)
    \/ \E sig \in Sig : Exception(sig)
    \/ ClockSched
    \/ \E parent, child \in User : SysFork(parent, child)
    \/ \E p \in User : SysNewmap(p)
    \/ \E p \in User, traced \in BOOLEAN, sigtrap \in Sig : SysExec(p, traced, sigtrap)
    \/ \E p \in User : SysXit(p)
    \/ \E p \in User, sig \in Sig : SysKill(p, sig)
    \/ \E p \in User : SysEndsig(p)
    \/ \E p \in User, request \in {"T_STOP", "T_RESUME", "T_STEP"} : SysTrace(p, request)

Spec == Init /\ [][Next]_k

-----------------------------------------------------------------------------
(* Every field of the process table and of the queue headers has its type. *)
TypeOK == k \in KState

(* "A process is runnable iff p_flags == 0": the processes linked on the   *)
(* queue of their priority are exactly the live ones without a flag, each  *)
(* once.  A process readied twice, or unlinked from the wrong queue, would *)
(* corrupt p_nextready.                                                    *)
NeverRun == {IDLE, HARDWARE}
Runnable(q) == {p \in Proc \ NeverRun :
                   k.flags[p] = {} /\ ~isemptyp(k, p) /\ QueueOf(k, p) = q}
ReadyIffRunnable ==
    \A q \in Queue : /\ Elems(k.rdy[q]) = Runnable(q)
                     /\ \A i, j \in 1 .. Len(k.rdy[q]) : k.rdy[q][i] = k.rdy[q][j] => i = j

(* pick_proc() is called wherever it has to be: the process about to run is *)
(* the head of the highest queue that is not empty, and IDLE if none is.   *)
RunsHighest == k.proc_ptr = pick_proc(k).proc_ptr

(* p_callerq, p_sendto and SENDING tell the same story: a process is on    *)
(* the queue of the one process it is blocked sending to, once.            *)
CallerQueue ==
    \A d \in Proc :
        /\ Elems(k.callerq[d]) = {p \in Sender(k) : k.sendto[p] = d}
        /\ \A i, j \in 1 .. Len(k.callerq[d]) : k.callerq[d][i] = k.callerq[d][j] => i = j

(* The ELOCKED check of mini_send() is enough: the processes blocked       *)
(* sending never form a cycle, so the walk that makes the check ends.      *)
Acyclic(s)  == \A S \in SUBSET Sender(s) : S # {} => \E p \in S : s.sendto[p] \notin S
NoSendCycle == Acyclic(k)

(* sig_procs counts the processes inform() has still to report, and they   *)
(* are the ones with unreported signals; a process whose signals MM has    *)
(* not finished is kept from running.                                      *)
SignalCount ==
    /\ k.sig_procs = Cardinality(Pending(k))
    /\ \A p \in Proc : /\ k.pending[p] # {} <=> "PENDING" \in k.flags[p]
                       /\ k.pendcount[p] > 0 <=> "SIG_PENDING" \in k.flags[p]
                       /\ "PENDING" \in k.flags[p] => isuserp(k, p)

(* inform() finds MM waiting: its message is never refused ("can't inform  *)
(* MM") and HARDWARE, which cannot block, never gets queued.               *)
InformFindsMM == ~k.panic /\ HARDWARE \notin Sender(k)

(* MM waiting for new work has been told of every signal, and was there to *)
(* be told.                                                                *)
SignalsReported ==
    /\ "RECEIVING" \in k.flags[MM] /\ k.getfrom[MM] = ANY => Pending(k) = {}
    /\ InformFindsMM

(* No interrupt is left behind: a task that waits for one has none blocked. *)
NoLostInterrupt ==
    \A p \in Driver \cup {CLOCK} :
        Waiting(k, p, HARDWARE) => ~k.intblk[p]
=============================================================================
