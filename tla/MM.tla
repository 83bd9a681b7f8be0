--------------------------------- MODULE MM ---------------------------------
(***************************************************************************)
(* The memory manager's process table (mm/mproc.h): fork, exit, wait, exec *)
(* (forkexit.c, exec.c), signals (signal.c), process tracing (trace.c),    *)
(* swapping as far as it concerns who may be answered (alloc.c) and the    *)
(* main loop that sends the replies (main.c).                              *)
(*                                                                         *)
(* As in Kernel.tla the state is one record mm, every C function is an     *)
(* operator from states to states, and one action is one turn of MM's main *)
(* loop: a request is taken, done, and the replies go out.  MM waits for   *)
(* the kernel, the clock and FS while it works, so a turn is atomic for    *)
(* the processes; what the others do in the meantime happens in this model *)
(* between two turns, while requests wait in MM's caller queue.            *)
(*                                                                         *)
(* The fields at, stop, kpending, pendcount and alarm are the state that   *)
(* the kernel, the clock task and FS keep about the same processes.        *)
(***************************************************************************)
EXTENDS Integers, Sequences, FiniteSets, SequencesExt

CONSTANTS NR_PROCS,   \* slots of the process table
          MaxPid,     \* the highest pid, 30000 in the code
          Sig,        \* the signals considered
          KernelSig,  \* those the kernel detects: exceptions, DEL, SIGPIPE
          UserCalls,  \* the requests of user processes
          Outcome,    \* the outcomes considered of what depends on memory and uids
          MaxForks,   \* bound: forks asked for
          MaxFrames,  \* bound: signal contexts that fit on a stack
          MaxPend     \* bound: kernel signals unfinished for one process

MM       == 0
FS       == 1
INIT     == 2
LOW_USER == 2
INIT_PID == 1
Slot     == 0 .. NR_PROCS - 1
User     == INIT .. NR_PROCS - 1

SIGHUP  == 1
SIGINT  == 2
SIGQUIT == 3
SIGTRAP == 5
SIGABRT == 6
SIGKILL == 9
SIGALRM == 14
SIGTERM == 15
SIGCHLD == 17
ign_sset  == {SIGCHLD}
core_sset == {3, 4, 5, 6, 7, 8, 10, 11, 12}

Flag == {"IN_USE", "WAITING", "ZOMBIE", "PAUSED", "ALARM_ON", "TRACED",
         "STOPPED", "SIGSUSPENDED", "REPLY", "ONSWAP", "SWAPIN"}
Hanging == {"PAUSED", "WAITING", "SIGSUSPENDED"}

(* The signals INIT has handlers for, and those that nobody needs one for. *)
InitCatch == Sig \cap {SIGHUP, SIGABRT, SIGTERM}
Harmless  == InitCatch \cup ign_sset \cup {0}

(* su:   the caller is the super-user                                      *)
(* may:  the processes the caller has permission to signal                 *)
(* room: those whose stack can take one more signal context (adjust());    *)
(*       "don't bother init"                                               *)
(* ok:   memory is found for a new image, the file can be executed         *)
(* out:  the processes swap_out() may choose                               *)
(* fit:  those for which swap_in() finds memory                            *)
(* marks: want of memory leaves the caller of exec() marked as waiting     *)
(* The system does not survive INIT, so nobody sends INIT, or the group it *)
(* is in, a signal that would end it.                                      *)
ASSUME MMAssumption ==
    /\ NR_PROCS \in Nat /\ NR_PROCS > INIT
    /\ MaxPid \in Nat /\ MaxPid > 2 * NR_PROCS - 6
    /\ Sig \subseteq 1 .. 17 /\ {SIGHUP, SIGKILL, SIGCHLD} \subseteq Sig
    /\ KernelSig \subseteq Sig
    /\ Outcome \subseteq [su : BOOLEAN, may : SUBSET Slot, room : SUBSET Slot, ok : BOOLEAN,
                          marks : BOOLEAN, out : SUBSET Slot, fit : SUBSET Slot]
    /\ \A o \in Outcome : INIT \in o.room
    /\ \A c \in UserCalls : c.op = "KILL" /\ c.pid \in {0, INIT_PID} => c.sig \in Harmless
    /\ MaxForks \in Nat /\ MaxFrames \in Nat /\ MaxPend \in Nat

VARIABLE mm

Where == {"none",      \* the kernel's slot is empty
          "run",       \* not waiting for a message
          "call",      \* queued at MM
          "mm",        \* MM has its request; it waits for the reply
          "susp"}      \* suspended by FS on a pipe or terminal

NoCall == [op |-> "none"]
Action == [mask : SUBSET Sig, flags : SUBSET {"SA_NODEFER", "SA_RESETHAND"}]
NoAct  == [mask |-> {}, flags |-> {}]

MMState == [flags : [Slot -> SUBSET Flag], pid : [Slot -> 0 .. MaxPid],
            procgrp : [Slot -> 0 .. MaxPid], parent : [Slot -> Slot],
            wpid : [Slot -> -MaxPid .. MaxPid],
            ignore : [Slot -> SUBSET Sig], catch : [Slot -> SUBSET Sig],
            sigmask : [Slot -> SUBSET Sig], sigmask2 : [Slot -> SUBSET Sig],
            act : [Slot -> [Sig -> Action]],     \* sa_mask and sa_flags of mp_sigact
            sigpending : [Slot -> SUBSET Sig], sigstatus : [Slot -> Sig \cup {0}],
            next_pid : 1 .. MaxPid, procs_in_use : 0 .. NR_PROCS, in_queue : Seq(Slot),
            at : [Slot -> Where], call : [Slot -> UserCalls \cup {NoCall}],
            frames : [Slot -> Seq(SUBSET Sig)],  \* masks saved in signal contexts
            stop : [Slot -> BOOLEAN],            \* P_STOP
            kpending : [Slot -> SUBSET Sig],     \* p_pending
            pendcount : [Slot -> Nat],           \* p_pendcount
            alarm : [Slot -> BOOLEAN],           \* a timer of the clock task
            forks : 0 .. MaxForks, panic : BOOLEAN]

Has(s, p, f)  == f \in s.flags[p]
Live(s, p)    == s.flags[p] \cap {"IN_USE", "ZOMBIE"} = {"IN_USE"}
Set(s, p, F)  == [s EXCEPT !.flags[p] = @ \cup F]
Clr(s, p, F)  == [s EXCEPT !.flags[p] = @ \ F]

-----------------------------------------------------------------------------
(* Replies and swapping. *)

swap_inqueue(s, p) ==
    IF Has(s, p, "SWAPIN") THEN s
    ELSE [Set(s, p, {"SWAPIN"}) EXCEPT !.in_queue = Append(@, p)]

(* Mutant: a reply to a process that is swapped out does not fetch it. *)
setreply_noqueue(s, p) == Set(s, p, {"REPLY"})

setreply(s, p) ==
    LET t == Set(s, p, {"REPLY"})
    IN  IF Has(t, p, "ONSWAP") THEN swap_inqueue(t, p) ELSE t

(* The processes hanging on a call of MM that could be swapped out. *)
Candidate(s) == {p \in User : /\ s.flags[p] \cap Hanging # {}
                              /\ s.flags[p] \cap {"TRACED", "REPLY", "ONSWAP"} = {}}
swap_out(s, out) == [s EXCEPT !.flags = [p \in Slot |-> IF p \in out \cap Candidate(s)
                                                        THEN @[p] \cup {"ONSWAP"} ELSE @[p]]]

-----------------------------------------------------------------------------
(* Signals. *)

(* do_unpause() of FS wakes a process that FS has suspended. *)
unpause(s, p) ==
    IF s.flags[p] \cap Hanging # {} THEN setreply(Clr(s, p, Hanging), p)
    ELSE IF s.at[p] = "susp" THEN [s EXCEPT !.at[p] = "run"] ELSE s

(* Mutant: the process is marked only if its parent is not waiting. *)
stop_proc_unmarked(s, p, sig) ==
    LET t == [s EXCEPT !.stop[p] = TRUE]
        q == s.parent[p]
    IN  IF Has(t, q, "WAITING") THEN setreply(Clr(t, q, {"WAITING"}), q)
        ELSE [Set(t, p, {"STOPPED"}) EXCEPT !.sigstatus[p] = sig]

stop_proc(s, p, sig) ==
    LET t == [Set(s, p, {"STOPPED"}) EXCEPT !.stop[p] = TRUE]
        q == s.parent[p]
    IN  IF Has(t, q, "WAITING") THEN setreply(Clr(t, q, {"WAITING"}), q)
        ELSE [t EXCEPT !.sigstatus[p] = sig]

(* sys_sendsig() puts the mask to return to on the catcher's stack. *)
Catch(s, p, sig) ==
    LET saved == IF Has(s, p, "SIGSUSPENDED") THEN s.sigmask2[p] ELSE s.sigmask[p]
        a     == s.act[p][sig]
        mask  == s.sigmask[p] \cup a.mask
    IN  unpause([s EXCEPT !.sigmask[p]    = IF "SA_NODEFER" \in a.flags THEN mask \ {sig}
                                            ELSE mask \cup {sig},
                          !.catch[p]      = IF "SA_RESETHAND" \in a.flags THEN @ \ {sig} ELSE @,
                          !.frames[p]     = <<saved>> \o @,
                          !.sigpending[p] = @ \ {sig}], p)

LeavePending(s, p, sig) == swap_inqueue([s EXCEPT !.sigpending[p] = @ \cup {sig}], p)

HasRoom(s, p, o) == p \in o.room /\ (p = INIT \/ Len(s.frames[p]) < MaxFrames)

(* What sig_proc() does to p short of ending it, and whether it goes on to *)
(* end it with mm_exit().                                                  *)
Signalled(s, p, sig, o) ==
    IF ~Live(s, p) THEN [s EXCEPT !.panic = TRUE]
    ELSE IF Has(s, p, "TRACED") /\ sig # SIGKILL THEN stop_proc(unpause(s, p), p, sig)
    ELSE IF sig \in s.ignore[p] THEN s
    ELSE IF sig \in s.sigmask[p] THEN [s EXCEPT !.sigpending[p] = @ \cup {sig}]
    ELSE IF sig \in s.catch[p] /\ Has(s, p, "ONSWAP") THEN LeavePending(s, p, sig)
    ELSE IF sig \in s.catch[p] /\ HasRoom(s, p, o) THEN Catch(s, p, sig)
    ELSE IF sig \in ign_sset THEN s
    ELSE LET t == [s EXCEPT !.sigstatus[p] = sig]
         IN  IF sig \in core_sset /\ Has(s, p, "ONSWAP") THEN LeavePending(t, p, sig) ELSE t

Ends(s, p, sig, o) ==
    /\ Live(s, p)
    /\ ~Has(s, p, "TRACED") \/ sig = SIGKILL
    /\ sig \notin s.ignore[p] \cup s.sigmask[p] \cup ign_sset
    /\ sig \in s.catch[p] => ~Has(s, p, "ONSWAP") /\ ~HasRoom(s, p, o)
    /\ sig \in core_sset => ~Has(s, p, "ONSWAP")

(* Whom check_sig() means by id, when mp is the caller c. *)
Selected(s, c, id, p) ==
    \/ id > 0   /\ s.pid[p] = id
    \/ id = 0   /\ s.procgrp[p] = s.procgrp[c]
    \/ id = -1  /\ s.pid[p] > INIT_PID
    \/ id < -1  /\ s.procgrp[p] = -id

(* The numbers of a loop "for (i = ...; i < ...; i++)" that are in S. *)
InOrder(S) == SelectSeq([i \in 1 .. 18 + 2 * NR_PROCS |-> i - 1], LAMBDA i : i \in S)

(* The processes a loop of check_sig() goes through to. *)
Reaches(s, c, id, p, o) == Live(s, p) /\ Selected(s, c, id, p) /\ p \in o.may

-----------------------------------------------------------------------------
(* The end of a process. *)

cleanup(s, p) ==
    LET q == s.parent[p]
        t == Clr(setreply(s, q), q, {"WAITING"})
    IN  [t EXCEPT !.flags[p] = {}, !.procs_in_use = @ - 1]

(* Mutant: a parent waiting for a group is not looked for. *)
RightChild_pid(s, p) == s.wpid[s.parent[p]] \in {-1, s.pid[p]}

(* The three tests of the pid that the parent waits for. *)
RightChild(s, p) ==
    LET pidarg == s.wpid[s.parent[p]]
    IN  pidarg = -1 \/ pidarg = s.pid[p] \/ -pidarg = s.procgrp[p]

set_alarm(s, p, on) ==
    [IF on THEN Set(s, p, {"ALARM_ON"}) ELSE Clr(s, p, {"ALARM_ON"}) EXCEPT !.alarm[p] = on]

(* do_xit() of the system task. *)
sys_xit(s, p) == [s EXCEPT !.at[p] = "none", !.call[p] = NoCall, !.frames[p] = <<>>,
                           !.stop[p] = FALSE, !.kpending[p] = {}, !.pendcount[p] = 0,
                           !.alarm[p] = FALSE]

(* Mutant: INIT gets the zombies only. *)
Disinherit_dead(s, p) ==
    FoldLeft(LAMBDA t, x :
                IF ~(Has(t, x, "ZOMBIE") /\ t.parent[x] = p) THEN t
                ELSE LET u == [t EXCEPT !.parent[x] = INIT]
                     IN  IF Has(u, INIT, "WAITING") THEN cleanup(u, x) ELSE u,
             s, InOrder(Slot))

(* INIT gets the children; one that is a zombie may be what INIT waits for. *)
Disinherit(s, p) ==
    FoldLeft(LAMBDA t, x :
                IF ~(Has(t, x, "IN_USE") /\ t.parent[x] = p) THEN t
                ELSE LET u == [t EXCEPT !.parent[x] = INIT]
                     IN  IF Has(u, INIT, "WAITING") /\ Has(u, x, "ZOMBIE") THEN cleanup(u, x)
                         ELSE u,
             s, InOrder(Slot))

(* All of mm_exit() but the hangup.  SIGCHLD never ends its receiver. *)
Bury(s, p, o) ==
    LET t == sys_xit(IF Has(s, p, "ALARM_ON") THEN set_alarm(s, p, FALSE) ELSE s, p)
        u == IF Has(t, t.parent[p], "WAITING") /\ RightChild(t, p) THEN cleanup(t, p)
             ELSE Signalled([t EXCEPT !.flags[p] = {"IN_USE", "ZOMBIE"}],
                            t.parent[p], SIGCHLD, o)
    IN  Disinherit(u, p)

(* mp is the caller c.  The processes of the group are not leaders, so the *)
(* hangup of one leads to no other hangup.                                 *)
mm_exit(s, c, p, o) ==
    LET HangUp(t, q) == LET u == Signalled(t, q, SIGHUP, o)
                        IN  IF Ends(t, q, SIGHUP, o) THEN Bury(u, q, o) ELSE u
    IN  IF s.pid[p] # s.procgrp[c] \/ s.procgrp[c] = 0 THEN Bury(s, p, o)
        ELSE FoldLeft(LAMBDA t, q : IF Reaches(t, c, -s.procgrp[c], q, o) THEN HangUp(t, q) ELSE t,
                      Bury(s, p, o), InOrder(User))

sig_proc(s, c, p, sig, o) ==
    LET t == Signalled(s, p, sig, o)
    IN  IF Ends(s, p, sig, o) THEN mm_exit(t, c, p, o) ELSE t

check_sig(s, c, id, sig, o) ==
    IF id = INIT_PID /\ sig = SIGKILL THEN s
    ELSE FoldLeft(LAMBDA t, p : IF Reaches(t, c, id, p, o) THEN sig_proc(t, c, p, sig, o) ELSE t,
                  s, InOrder(User))

(* Mutant: the loop stops short of _NSIG. *)
check_pending_short(s, c, p, o) ==
    LET S == (s.sigpending[p] \ s.sigmask[p]) \ {17}
        i == CHOOSE x \in S : \A y \in S : x <= y
    IN  IF S = {} THEN s ELSE sig_proc([s EXCEPT !.sigpending[p] = @ \ {i}], c, p, i, o)

check_pending(s, c, p, o) ==
    LET S == s.sigpending[p] \ s.sigmask[p]
        i == CHOOSE x \in S : \A y \in S : x <= y
    IN  IF S = {} THEN s ELSE sig_proc([s EXCEPT !.sigpending[p] = @ \ {i}], c, p, i, o)

(* One turn of the loop over in_queue, at position w.i. *)
SwapOne(w, c, o) ==
    LET p == w.s.in_queue[w.i]
        s == IF Has(w.s, p, "SWAPIN") THEN swap_out(w.s, o.out) ELSE w.s
        t == [s EXCEPT !.in_queue = RemoveAt(@, w.i)]
    IN  IF w.i > Len(w.s.in_queue) THEN w
        ELSE IF ~Has(s, p, "SWAPIN") THEN [w EXCEPT !.s = t]
        ELSE IF p \notin o.fit THEN [s |-> s, i |-> w.i + 1]
        ELSE [w EXCEPT !.s = check_pending(Clr(t, p, {"ONSWAP", "SWAPIN"}), c, p, o)]

swap_in(s, c, o) ==
    FoldLeft(LAMBDA w, n : SwapOne(w, c, o), [s |-> s, i |-> 1], InOrder(1 .. 2 * NR_PROCS)).s

(* The last part of the main loop.  A reply to a process that is gone is   *)
(* refused ("MM can't reply to"); one to a process that does not wait for  *)
(* it would block MM for good.                                             *)
SendReplies(s) ==
    LET R == {p \in Slot : s.flags[p] \cap {"REPLY", "ONSWAP"} = {"REPLY"}}
    IN  [s EXCEPT !.flags = [p \in Slot |-> IF p \in R THEN @[p] \ {"REPLY"} ELSE @[p]],
                  !.at    = [p \in Slot |-> IF p \in R /\ @[p] = "mm" THEN "run" ELSE @[p]],
                  !.panic = @ \/ \E p \in R : s.at[p] # "mm"]

-----------------------------------------------------------------------------
(* The calls. *)

(* Mutant: process groups are not looked at. *)
NextPid_nogroup(s) ==
    LET used    == {s.pid[p] : p \in Slot}
        dist(n) == (n - s.next_pid - 1) % (MaxPid - INIT_PID)
        free    == (INIT_PID + 1 .. MaxPid) \ used
    IN  CHOOSE n \in free : \A x \in free : dist(n) <= dist(x)

(* The next pid in turn that is nobody's pid or process group, in use or   *)
(* not.                                                                    *)
NextPid(s) ==
    LET used    == {s.pid[p] : p \in Slot} \cup {s.procgrp[p] : p \in Slot}
        dist(n) == (n - s.next_pid - 1) % (MaxPid - INIT_PID)
        free    == (INIT_PID + 1 .. MaxPid) \ used
    IN  CHOOSE n \in free : \A x \in free : dist(n) <= dist(x)

LAST_FEW == 2

(* *rmc = *rmp, less what is set afresh. *)
Child(s, p, x) ==
    [s EXCEPT !.flags[x]      = s.flags[p] \cap {"IN_USE"},
              !.pid[x]        = NextPid([s EXCEPT !.pid[x] = s.pid[p],
                                                  !.procgrp[x] = s.procgrp[p]]),
              !.next_pid      = NextPid([s EXCEPT !.pid[x] = s.pid[p],
                                                  !.procgrp[x] = s.procgrp[p]]),
              !.procgrp[x]    = s.procgrp[p],
              !.parent[x]     = p,
              !.wpid[x]       = s.wpid[p],
              !.ignore[x]     = s.ignore[p],
              !.catch[x]      = s.catch[p],
              !.sigmask[x]    = s.sigmask[p],
              !.sigmask2[x]   = s.sigmask2[p],
              !.sigpending[x] = s.sigpending[p],
              !.sigstatus[x]  = 0,
              !.act[x]        = s.act[p],
              !.frames[x]     = s.frames[p],
              !.at[x]         = "mm",
              !.procs_in_use  = @ + 1]

do_fork(s, p, o) ==
    LET t == swap_out(s, o.out)
        x == CHOOSE n \in Slot : ~Has(s, n, "IN_USE") /\ \A i \in 0 .. n - 1 : Has(s, i, "IN_USE")
    IN  IF \/ s.procs_in_use = NR_PROCS
           \/ s.procs_in_use >= NR_PROCS - LAST_FEW /\ ~o.su THEN setreply(s, p)
        ELSE IF ~o.ok THEN setreply(t, p)
        ELSE setreply(setreply(Child(t, p, x), x), p)

do_mm_exit(s, p, o) == mm_exit(s, p, p, o)

(* The value of pidarg determines which children qualify. *)
Qualifies(s, x, pidarg) == /\ pidarg > 0 => pidarg = s.pid[x]
                           /\ pidarg < -1 => -pidarg = s.procgrp[x]

do_waitpid(s, p, pid, nohang) ==
    LET pidarg == IF pid = 0 THEN -s.procgrp[p] ELSE pid
        kids   == {x \in Slot : Has(s, x, "IN_USE") /\ s.parent[x] = p /\ Qualifies(s, x, pidarg)}
        done   == {x \in kids : \/ Has(s, x, "ZOMBIE")
                                \/ Has(s, x, "STOPPED") /\ s.sigstatus[x] # 0}
        first  == CHOOSE x \in done : \A y \in done : x <= y
    IN  IF done # {}
        THEN IF Has(s, first, "ZOMBIE") THEN cleanup(s, first)
             ELSE setreply([s EXCEPT !.sigstatus[first] = 0], p)
        ELSE IF kids = {} \/ nohang THEN setreply(s, p)
        ELSE [Set(s, p, {"WAITING"}) EXCEPT !.wpid[p] = pidarg]

(* cause_sig() of the system task. *)
cause_sig(s, p, sig) ==
    IF sig \in s.kpending[p] THEN s
    ELSE [s EXCEPT !.kpending[p] = @ \cup {sig}, !.pendcount[p] = @ + 1]

(* No reply: the new image just runs, or stops for its tracer.  On its way *)
(* to want of memory new_mem() marks as waiting whatever its uninitialised *)
(* rmp points to: the caller, whom do_exec() pointed to last, or nobody.   *)
do_exec(s, p, o) ==
    LET t == [Clr(swap_out(s, o.out), p, {"WAITING"}) EXCEPT
                 !.act[p]    = [g \in Sig |-> IF g \in s.catch[p] THEN [@[g] EXCEPT !.mask = {}]
                                              ELSE @[g]],
                 !.catch[p]  = {},
                 !.frames[p] = <<>>,
                 !.at[p]     = "run"]
    IN  IF ~o.ok THEN setreply(swap_out(IF o.marks THEN Set(s, p, {"WAITING"}) ELSE s, o.out), p)
        ELSE IF Has(s, p, "TRACED") THEN cause_sig(t, p, SIGTRAP) ELSE t

do_setsid(s, p) == setreply([s EXCEPT !.procgrp[p] = s.pid[p]], p)

do_sigaction(s, p, sig, handler, act) ==
    setreply(IF sig = SIGKILL THEN s
             ELSE [s EXCEPT !.ignore[p]     = IF handler = "SIG_IGN" THEN @ \cup {sig} ELSE @ \ {sig},
                            !.catch[p]      = IF handler = "catch" THEN @ \cup {sig} ELSE @ \ {sig},
                            !.sigpending[p] = IF handler = "SIG_IGN" THEN @ \ {sig} ELSE @,
                            !.act[p][sig]   = [act EXCEPT !.mask = @ \ {SIGKILL}]], p)

do_sigprocmask(s, p, how, set, o) ==
    LET Mask(m) == [s EXCEPT !.sigmask[p] = m]
    IN  setreply(CASE how = "SIG_BLOCK"   -> Mask(s.sigmask[p] \cup (set \ {SIGKILL}))
                   [] how = "SIG_UNBLOCK" -> check_pending(Mask(s.sigmask[p] \ set), p, p, o)
                   [] how = "SIG_SETMASK" -> check_pending(Mask(set \ {SIGKILL}), p, p, o), p)

do_sigsuspend(s, p, set, o) ==
    check_pending([Set(s, p, {"SIGSUSPENDED"}) EXCEPT !.sigmask2[p] = s.sigmask[p],
                                                      !.sigmask[p]  = set \ {SIGKILL}], p, p, o)

(* The C library passes the mask that the signal context holds. *)
do_sigreturn(s, p, o) ==
    setreply(check_pending([s EXCEPT !.sigmask[p] = Head(s.frames[p]) \ {SIGKILL},
                                     !.frames[p]  = Tail(@)], p, p, o), p)


do_kill(s, p, id, sig, o) ==
    LET t == IF sig = 0 THEN s ELSE check_sig(s, p, id, sig, o)
    IN  IF Live(t, p) THEN setreply(t, p) ELSE t

do_alarm(s, p, on) == setreply(set_alarm(s, p, on), p)

do_pause(s, p) == Set(s, p, {"PAUSED"})

(* findproc() *)
Traced(s, pid) == {x \in INIT + 1 .. NR_PROCS - 1 :
                      {"IN_USE", "STOPPED"} \subseteq s.flags[x] /\ s.pid[x] = pid}

do_trace(s, p, request, pid, sig, o) ==
    IF request = "T_OK" THEN setreply(Set(s, p, {"TRACED"}), p)
    ELSE IF Traced(s, pid) = {} THEN setreply(s, p)
    ELSE LET x == CHOOSE n \in Traced(s, pid) : TRUE
             t == IF sig = 0 THEN s
                  ELSE Set(sig_proc(Clr(s, x, {"TRACED"}), p, x, sig, o), x, {"TRACED"})
         IN  setreply(CASE request = "T_EXIT"   -> mm_exit(s, p, x, o)
                        [] request = "T_RESUME" -> [Clr(t, x, {"STOPPED"}) EXCEPT !.stop[x] = FALSE],
                      p)

(* do_endsig() of the system task. *)
sys_endsig(s, p) == IF s.pendcount[p] = 0 THEN s ELSE [s EXCEPT !.pendcount[p] = @ - 1]

(* The kernel reports the signals it has collected for p; they are taken   *)
(* to be sent by MM, in p's process group.                                 *)
do_ksig(s, p, o) ==
    LET id(i) == IF i \in {SIGINT, SIGQUIT} THEN 0 ELSE IF i = SIGKILL THEN -1 ELSE s.pid[p]
        all   == [o EXCEPT !.may = Slot]
        t     == [s EXCEPT !.kpending[p] = {}]
    IN  IF ~Live(s, p) THEN t
        ELSE FoldLeft(LAMBDA u, i :
                         IF i = SIGALRM /\ ~Has(u, p, "ALARM_ON") THEN u
                         ELSE sys_endsig(check_sig(IF i = SIGALRM THEN Clr(u, p, {"ALARM_ON"}) ELSE u,
                                                   MM, id(i), i, all), p),
                      [t EXCEPT !.procgrp[MM] = s.procgrp[p]], InOrder(s.kpending[p]))

-----------------------------------------------------------------------------
(* mm_init(), after which INIT has installed its handlers. *)
Init ==
    mm = [flags |-> [p \in Slot |-> IF p <= INIT THEN {"IN_USE"} ELSE {}],
          pid |-> [p \in Slot |-> IF p = INIT THEN INIT_PID ELSE 0],
          procgrp |-> [p \in Slot |-> 0], parent |-> [p \in Slot |-> 0],
          wpid |-> [p \in Slot |-> 0],
          ignore |-> [p \in Slot |-> {}],
          catch |-> [p \in Slot |-> IF p = INIT THEN InitCatch ELSE {}],
          sigmask |-> [p \in Slot |-> {}], sigmask2 |-> [p \in Slot |-> {}],
          act |-> [p \in Slot |-> [g \in Sig |-> NoAct]],
          sigpending |-> [p \in Slot |-> {}], sigstatus |-> [p \in Slot |-> 0],
          next_pid |-> INIT_PID + 1, procs_in_use |-> LOW_USER + 1, in_queue |-> <<>>,
          at |-> [p \in Slot |-> IF p <= INIT THEN "run" ELSE "none"],
          call |-> [p \in Slot |-> NoCall],
          frames |-> [p \in Slot |-> <<>>],
          stop |-> [p \in Slot |-> FALSE], kpending |-> [p \in Slot |-> {}],
          pendcount |-> [p \in Slot |-> 0], alarm |-> [p \in Slot |-> FALSE],
          forks |-> 0, panic |-> FALSE]

(* A process runs unless it is stopped or has signals that MM has not      *)
(* finished.  INIT's program forks, waits for any child and handles        *)
(* signals.                                                                *)
Runs(p) == mm.at[p] = "run" /\ ~mm.stop[p] /\ mm.pendcount[p] = 0

InitProgram(c) == c.op \in {"FORK", "SIGRETURN"} \/ (c.op = "WAITPID" /\ c.pid = -1)

Ask(p, c) ==
    /\ Runs(p)
    /\ p = INIT => InitProgram(c)
    /\ c.op = "FORK" => mm.forks < MaxForks
    /\ c.op = "SIGRETURN" => mm.frames[p] # <<>>
    /\ mm' = [mm EXCEPT !.at[p] = "call", !.call[p] = c,
                        !.forks = IF c.op = "FORK" THEN @ + 1 ELSE @]

(* FS suspends the process on a pipe or terminal, and revives it. *)
FsSuspend(p) == Runs(p) /\ p # INIT /\ mm' = [mm EXCEPT !.at[p] = "susp"]
FsRevive(p)  == mm.at[p] = "susp" /\ mm' = [mm EXCEPT !.at[p] = "run"]

(* An exception or a broken pipe; a key, which the terminal task takes for *)
(* the leader of the session; an alarm.                                    *)
CanSignal(p) == mm.at[p] # "none" /\ mm.pendcount[p] < MaxPend
KernelSignal(p, sig) ==
    /\ p # INIT /\ CanSignal(p)
    /\ sig \in {SIGINT, SIGQUIT} => mm.procgrp[p] = mm.pid[p]
    /\ mm' = cause_sig(mm, p, sig)
AlarmFires(p) ==
    /\ mm.alarm[p] /\ CanSignal(p)
    /\ mm' = cause_sig([mm EXCEPT !.alarm[p] = FALSE], p, SIGALRM)

-----------------------------------------------------------------------------
(* A turn of the main loop. *)

Asked(p, op) == ~mm.panic /\ mm.at[p] = "call" /\ mm.call[p].op = op
Got(p)       == [mm EXCEPT !.at[p] = "mm", !.call[p] = NoCall]
Arg(p)       == mm.call[p]
EndTurn(s, c, o) == mm' = SendReplies(swap_in(s, c, o))

DoFork(p, o)    == Asked(p, "FORK")  /\ EndTurn(do_fork(Got(p), p, o), p, o)
DoExit(p, o)    == Asked(p, "EXIT")  /\ EndTurn(do_mm_exit(Got(p), p, o), p, o)
DoWaitpid(p, o) == Asked(p, "WAITPID")
                   /\ EndTurn(do_waitpid(Got(p), p, Arg(p).pid, Arg(p).nohang), p, o)
DoExec(p, o)    == Asked(p, "EXEC") /\ (Has(mm, p, "TRACED") => CanSignal(p))
                   /\ EndTurn(do_exec(Got(p), p, o), p, o)
DoSetsid(p, o)  == Asked(p, "SETSID") /\ EndTurn(do_setsid(Got(p), p), p, o)
DoSigaction(p, o) == Asked(p, "SIGACTION")
                   /\ EndTurn(do_sigaction(Got(p), p, Arg(p).sig, Arg(p).handler, Arg(p).act), p, o)
DoSigprocmask(p, o) == Asked(p, "SIGPROCMASK")
                   /\ EndTurn(do_sigprocmask(Got(p), p, Arg(p).how, Arg(p).set, o), p, o)
DoSigsuspend(p, o) == Asked(p, "SIGSUSPEND")
                   /\ EndTurn(do_sigsuspend(Got(p), p, Arg(p).set, o), p, o)
DoSigreturn(p, o) == Asked(p, "SIGRETURN") /\ EndTurn(do_sigreturn(Got(p), p, o), p, o)
DoKill(p, o)    == Asked(p, "KILL")
                   /\ EndTurn(do_kill(Got(p), p, Arg(p).pid, Arg(p).sig, o), p, o)
DoAlarm(p, o)   == Asked(p, "ALARM") /\ EndTurn(do_alarm(Got(p), p, Arg(p).on), p, o)
DoPause(p, o)   == Asked(p, "PAUSE") /\ EndTurn(do_pause(Got(p), p), p, o)
DoTrace(p, o)   == Asked(p, "PTRACE")
                   /\ EndTurn(do_trace(Got(p), p, Arg(p).request, Arg(p).pid, Arg(p).sig, o), p, o)

(* The kernel tells MM of a signal only when no request waits. *)
DoKsig(p, o) ==
    /\ ~mm.panic
    /\ \A q \in User : mm.at[q] # "call"
    /\ mm.kpending[p] # {} /\ \A q \in User : q < p => mm.kpending[q] = {}
    /\ EndTurn(do_ksig(mm, p, o), MM, o)

Turn(p, o) ==
    \/ DoFork(p, o) \/ DoExit(p, o) \/ DoWaitpid(p, o) \/ DoExec(p, o) \/ DoSetsid(p, o)
    \/ DoSigaction(p, o) \/ DoSigprocmask(p, o) \/ DoSigsuspend(p, o) \/ DoSigreturn(p, o)
    \/ DoKill(p, o) \/ DoAlarm(p, o) \/ DoPause(p, o) \/ DoTrace(p, o) \/ DoKsig(p, o)

Next ==
    \E p \in User :
        \/ \E c \in UserCalls : Ask(p, c)
        \/ FsSuspend(p) \/ FsRevive(p)
        \/ \E sig \in KernelSig : KernelSignal(p, sig)
        \/ AlarmFires(p)
        \/ \E o \in Outcome : Turn(p, o)

Spec == Init /\ [][Next]_mm

-----------------------------------------------------------------------------
(* Every field of the process table has its type. *)
TypeOK == mm \in MMState


(* Nobody is forgotten: a process whose request MM has taken and not       *)
(* answered hangs on exactly one call, or its reply waits for memory and   *)
(* it is on the queue of processes to swap in; and whoever hangs on a call *)
(* is there to be answered.                                                *)
NobodyForgotten ==
    \A p \in User :
        /\ mm.at[p] = "mm" => \/ Cardinality(mm.flags[p] \cap Hanging) = 1 /\ ~Has(mm, p, "REPLY")
                              \/ /\ mm.flags[p] \cap Hanging = {}
                                 /\ {"REPLY", "ONSWAP", "SWAPIN"} \subseteq mm.flags[p]
                                 /\ \E i \in 1 .. Len(mm.in_queue) : mm.in_queue[i] = p
        /\ mm.flags[p] \cap Hanging # {} => mm.at[p] = "mm"

(* No child is missed: a parent never hangs in a wait that would return at *)
(* once if it were made again, because a child that qualifies has died:    *)
(* what mm_exit() asks of a dying child agrees with what do_waitpid() asks *)
(* of a dead one.  They disagree about a waitpid(0) made in group 0, which *)
(* do_waitpid() takes for one of any child and mm_exit() for one of a      *)
(* child in group 0.                                                       *)
NoMissedZombie ==
    \A p, x \in User :
        /\ Has(mm, p, "WAITING")
        /\ Has(mm, x, "ZOMBIE") /\ mm.parent[x] = p
        /\ Qualifies(mm, x, mm.wpid[p])
        => mm.wpid[p] = 0 /\ mm.procgrp[x] # 0

(* The tables of MM and the kernel agree: a slot is taken in the kernel    *)
(* while its process lives, zombies have live parents who can wait for     *)
(* them, and procs_in_use counts the slots.                                *)
TablesAgree ==
    /\ \A p \in User : /\ mm.at[p] # "none" <=> Live(mm, p)
                       /\ Has(mm, p, "IN_USE") => Live(mm, mm.parent[p])
    /\ mm.procs_in_use = Cardinality({p \in Slot : Has(mm, p, "IN_USE")})

(* The process table is well typed and fits the kernel's.                  *)
TablesSound == TypeOK /\ TablesAgree

(* A session keeps its name: while anybody is left in a process group its  *)
(* number is nobody's pid but its leader's, though the leader may be long  *)
(* gone and the pids have started again; so kill(), the hangup of a        *)
(* session and setsid() never mix up two groups.                           *)
GroupsApart ==
    \A p, q \in User :
        Has(mm, p, "IN_USE") /\ Has(mm, q, "IN_USE") /\ p # q
        => /\ mm.pid[p] # mm.pid[q]
           /\ mm.procgrp[q] = mm.pid[p] => mm.procgrp[p] = mm.pid[p]

(* MM thinks a process stopped exactly when the kernel keeps it from       *)
(* running, so that a tracer can always make it go on.                     *)
StoppedAgrees == \A p \in User : Has(mm, p, "STOPPED") <=> mm.stop[p]

(* MM finishes every signal the kernel tells it of: the kernel counts only *)
(* signals that are still to be reported, and a process with none may run. *)
SignalsFinished == \A p \in User : mm.pendcount[p] = Cardinality(mm.kpending[p])

(* The signals pending for a process that is not in a handler are blocked. *)
Settled(s, p) == Live(s, p) /\ s.frames[p] = <<>> /\ ~Has(s, p, "ONSWAP")
                 => s.sigpending[p] \subseteq s.sigmask[p]

(* A pending signal that is no longer blocked is delivered, at the latest  *)
(* when the process has returned from its handlers.  Only a program that   *)
(* was executed inside a handler, and what it forks, start with signals    *)
(* that nothing holds back and nobody delivers.                            *)
PendingDelivered ==
    [][\A p \in User :
          Settled(mm, p)
          => \/ Settled(mm', p)
             \/ mm.call[p].op = "EXEC" /\ mm.frames[p] # <<>>
             \/ ~Live(mm, p) /\ ~Settled(mm, mm'.parent[p])]_mm
=============================================================================
