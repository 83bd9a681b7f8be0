----------------------------- MODULE Interrupt ------------------------------
(***************************************************************************)
(* How process-switching code is kept from competing with itself: kernel   *)
(* entries nest (save and restart of mpx386.s), k_reenter and switching    *)
(* tell interrupt() whether somebody is in the middle of switching, and    *)
(* interrupts that come at a bad moment are held and flushed by unhold().  *)
(*                                                                         *)
(* The processor is its stack of activations, the running one first: the   *)
(* interrupted process at the bottom, above it sys_call() or interrupt     *)
(* handlers and the calls of interrupt() that they make.  What is switched *)
(* is the subject of Kernel.tla; here a stretch of switching code is a     *)
(* stay of one activation at "switch".                                     *)
(***************************************************************************)
EXTENDS Integers, Sequences, FiniteSets

CONSTANTS Irq,       \* interrupt lines, each with the task it wakes up
          MaxIrq     \* bound: hardware interrupts in a behaviour

ASSUME IrqAssumption == IsFiniteSet(Irq) /\ MaxIrq \in Nat

VARIABLES stack,      \* activations, the running one first
          k_reenter,  \* kernel reentry count, -1 in process mode
          switching,  \* set by the lock_xxx() gateways and by interrupt()
          enabled,    \* the processor's interrupt flag
          masked,     \* lines masked at the 8259
          held,       \* the queue held_head .. held_tail
          p_int_held, \* who is marked as being on it
          raised,     \* tasks with an interrupt() call that has had no effect yet
          irqs        \* interrupts so far

vars == <<stack, k_reenter, switching, enabled, masked, held, p_int_held, raised, irqs>>

(* A handler's frame begins with the return address that save pushed.      *)
Proc(pc)             == [fn |-> "proc",      pc |-> pc]
SysCall(pc)          == [fn |-> "sys_call",  pc |-> pc]
Handler(pc, exit, i) == [fn |-> "handler",   pc |-> pc, exit |-> exit, irq |-> i]
Interrupt(pc, i)     == [fn |-> "interrupt", pc |-> pc, irq |-> i]

Exits == {"restart", "restart1"}

Frame == {Proc(pc)    : pc \in {"run", "switch"}}
    \cup {SysCall(pc) : pc \in {"switch", "restart", "unhold", "flushed"}}
    \cup {Handler(pc, exit, i) : pc \in {"handle", "return", "unhold", "flushed"} \cup Exits,
                                exit \in Exits, i \in Irq}
    \cup {Interrupt(pc, i) : pc \in {"test", "hold", "set", "switch"}, i \in Irq}

Top    == Head(stack)
Below  == Tail(stack)
At(fn, pc) == Top.fn = fn /\ Top.pc = pc
Goto(pc)   == stack' = <<[Top EXCEPT !.pc = pc]>> \o Below
Return     == stack' = Below
Call(f)    == stack' = <<f>> \o stack
GotoAndCall(pc, f) == stack' = <<f, [Top EXCEPT !.pc = pc]>> \o Below

Init ==
    /\ stack = <<Proc("run")>>
    /\ k_reenter = -1
    /\ switching = FALSE
    /\ enabled = TRUE
    /\ masked = {}
    /\ held = <<>>
    /\ p_int_held = {}
    /\ raised = {}
    /\ irqs = 0

-----------------------------------------------------------------------------
(* The process level. *)

(* _s_call, or an exception of a user process: save, then interrupts on.   *)
EnterSysCall ==
    /\ At("proc", "run")
    /\ Call(SysCall("switch"))
    /\ k_reenter' = k_reenter + 1
    /\ enabled' = TRUE
    /\ UNCHANGED <<switching, masked, held, p_int_held, raised, irqs>>

(* sys_call() has done its work; "cli" and fall into restart. *)
LeaveSysCall ==
    /\ At("sys_call", "switch")
    /\ Goto("restart")
    /\ enabled' = FALSE
    /\ UNCHANGED <<k_reenter, switching, masked, held, p_int_held, raised, irqs>>

(* A task enters lock_sched(), lock_ready() or another of the gateways ... *)
EnterGateway ==
    /\ At("proc", "run")
    /\ Goto("switch")
    /\ switching' = TRUE
    /\ UNCHANGED <<k_reenter, enabled, masked, held, p_int_held, raised, irqs>>

(* ... and leaves it. *)
LeaveGateway ==
    /\ At("proc", "switch")
    /\ Goto("run")
    /\ switching' = FALSE
    /\ UNCHANGED <<k_reenter, enabled, masked, held, p_int_held, raised, irqs>>

(* A task calls interrupt() itself, as CLOCK does for a timer of a task.   *)
TaskInterrupt(i) ==
    /\ At("proc", "run")
    /\ irqs < MaxIrq
    /\ irqs' = irqs + 1
    /\ Call(Interrupt("test", i))
    /\ raised' = raised \cup {i}
    /\ UNCHANGED <<k_reenter, switching, enabled, masked, held, p_int_held>>

(* A task reenables a line whose handler has left it masked. *)
EnableIrq(i) ==
    /\ At("proc", "run")
    /\ i \in masked
    /\ masked' = masked \ {i}
    /\ UNCHANGED <<stack, k_reenter, switching, enabled, held, p_int_held, raised, irqs>>

-----------------------------------------------------------------------------
(* Interrupt handlers. *)

(* hwint: save, mask the line, reenable the controller, "sti".  The count  *)
(* save keeps decides how the handler is left, so that a handler over a    *)
(* task's own call of interrupt(), made at -1, is left through _restart.   *)
HwInt(i) ==
    /\ enabled /\ i \notin masked
    /\ irqs < MaxIrq
    /\ irqs' = irqs + 1
    /\ k_reenter' = k_reenter + 1
    /\ Call(Handler("handle", IF k_reenter' = 0 THEN "restart" ELSE "restart1", i))
    /\ masked' = masked \cup {i}
    /\ UNCHANGED <<switching, enabled, held, p_int_held, raised>>

(* intr_handle() calls the handler, which wakes its task or finds no       *)
(* reason to.                                                              *)
Handle ==
    /\ At("handler", "handle")
    /\ \/ /\ GotoAndCall("return", Interrupt("test", Top.irq))
          /\ raised' = raised \cup {Top.irq}
       \/ Goto("return") /\ UNCHANGED raised
    /\ UNCHANGED <<k_reenter, switching, enabled, masked, held, p_int_held, irqs>>

(* "cli"; the line is unmasked unless the handler asked to leave it so,    *)
(* and "ret" goes where save has said.                                     *)
LeaveHandler ==
    /\ At("handler", "return")
    /\ Goto(Top.exit)
    /\ enabled' = FALSE
    /\ masked' \in {masked, masked \ {Top.irq}}
    /\ UNCHANGED <<k_reenter, switching, held, p_int_held, raised, irqs>>

-----------------------------------------------------------------------------
(* interrupt(). *)

(* Faulty: only kernel entries are thought to switch processes. *)
Test_reenter_only ==
    /\ At("interrupt", "test")
    /\ Goto(IF k_reenter # 0 THEN "hold" ELSE "set")
    /\ UNCHANGED <<k_reenter, switching, enabled, masked, held, p_int_held, raised, irqs>>

(* "if (k_reenter != 0 || switching)" *)
Test ==
    /\ At("interrupt", "test")
    /\ Goto(IF k_reenter # 0 \/ switching THEN "hold" ELSE "set")
    /\ UNCHANGED <<k_reenter, switching, enabled, masked, held, p_int_held, raised, irqs>>

(* lock() .. unlock(): a task is on the held queue at most once. *)
Hold ==
    /\ At("interrupt", "hold")
    /\ Return
    /\ held' = IF Top.irq \in p_int_held THEN held ELSE Append(held, Top.irq)
    /\ p_int_held' = p_int_held \cup {Top.irq}
    /\ UNCHANGED <<k_reenter, switching, enabled, masked, raised, irqs>>

SetSwitching ==
    /\ At("interrupt", "set")
    /\ Goto("switch")
    /\ switching' = TRUE
    /\ UNCHANGED <<k_reenter, enabled, masked, held, p_int_held, raised, irqs>>

(* The task gets its message, or its p_int_blocked is set. *)
Inform ==
    /\ At("interrupt", "switch")
    /\ Return
    /\ switching' = FALSE
    /\ raised' = raised \ {Top.irq}
    /\ UNCHANGED <<k_reenter, enabled, masked, held, p_int_held, irqs>>

-----------------------------------------------------------------------------
(* restart, for the first entry, and restart1, for a nested one. *)

Restart1 ==
    /\ Top.pc = "restart1"
    /\ Return
    /\ k_reenter' = k_reenter - 1
    /\ enabled' = TRUE
    /\ UNCHANGED <<switching, masked, held, p_int_held, raised, irqs>>

Dispatch ==
    /\ \/ Top.pc = "restart" /\ (held = <<>> \/ switching)
       \/ Top.pc = "flushed" /\ held = <<>> /\ ~enabled
    /\ Return
    /\ k_reenter' = k_reenter - 1
    /\ enabled' = TRUE
    /\ UNCHANGED <<switching, masked, held, p_int_held, raised, irqs>>

(* Faulty: flushes held interrupts in the middle of a gateway. *)
StartUnhold_switching ==
    /\ \/ Top.pc = "restart" /\ held # <<>>
       \/ Top.pc = "flushed" /\ held # <<>> /\ ~enabled
    /\ Goto("unhold")
    /\ UNCHANGED <<k_reenter, switching, enabled, masked, held, p_int_held, raised, irqs>>

(* unhold() is called, or goes round its loop. *)
StartUnhold ==
    /\ \/ Top.pc = "restart" /\ held # <<>> /\ ~switching
       \/ Top.pc = "flushed" /\ held # <<>> /\ ~enabled
    /\ Goto("unhold")
    /\ UNCHANGED <<k_reenter, switching, enabled, masked, held, p_int_held, raised, irqs>>

(* Faulty: the task stays marked as being on the held queue. *)
Unhold_marked ==
    /\ Top.pc = "unhold"
    /\ GotoAndCall("flushed", Interrupt("test", Head(held)))
    /\ held' = Tail(held)
    /\ enabled' = TRUE
    /\ UNCHANGED <<k_reenter, switching, masked, p_int_held, raised, irqs>>

(* Take the head off the held queue, unlock() and repeat its interrupt. *)
Unhold ==
    /\ Top.pc = "unhold"
    /\ GotoAndCall("flushed", Interrupt("test", Head(held)))
    /\ held' = Tail(held)
    /\ p_int_held' = p_int_held \ {Head(held)}
    /\ enabled' = TRUE
    /\ UNCHANGED <<k_reenter, switching, masked, raised, irqs>>

(* lock() again. *)
Relock ==
    /\ Top.pc = "flushed" /\ enabled
    /\ enabled' = FALSE
    /\ UNCHANGED <<stack, k_reenter, switching, masked, held, p_int_held, raised, irqs>>

(* A step of the running activation that is not the process's own choice.  *)
Advance ==
    \/ LeaveSysCall \/ LeaveGateway \/ Handle \/ LeaveHandler
    \/ Test \/ Hold \/ SetSwitching \/ Inform
    \/ Restart1 \/ Dispatch \/ StartUnhold \/ Unhold \/ Relock

Next ==
    \/ Advance
    \/ EnterSysCall \/ EnterGateway
    \/ \E i \in Irq : HwInt(i) \/ TaskInterrupt(i) \/ EnableIrq(i)

(* The processor goes on, and a process sooner or later makes a call:      *)
(* tasks and servers are loops around receive(), and a user process that   *)
(* makes none is interrupted by the clock, which enters by the same gate.  *)
Fairness == WF_vars(Advance) /\ SF_vars(EnterSysCall)

Spec == Init /\ [][Next]_vars /\ Fairness

-----------------------------------------------------------------------------
Elems(q) == {q[i] : i \in 1 .. Len(q)}

(* The variables have their types; k_reenter never leaves the range of a   *)
(* count of nested entries.                                                *)
TypeOK ==
    /\ stack \in Seq(Frame) /\ stack # <<>>
    /\ k_reenter \in -1 .. MaxIrq
    /\ switching \in BOOLEAN /\ enabled \in BOOLEAN
    /\ masked \subseteq Irq /\ p_int_held \subseteq Irq /\ raised \subseteq Irq
    /\ held \in Seq(Irq)
    /\ irqs \in 0 .. MaxIrq

(* Process-switching code never runs inside process-switching code: not    *)
(* sys_call(), the gateways of the tasks, interrupt() or any mixture.      *)
Switching == {i \in 1 .. Len(stack) : stack[i].pc = "switch"}
SwitchingAlone == Cardinality(Switching) <= 1

(* An interrupt is never forgotten: a call of interrupt() that has had no  *)
(* effect yet is still being made or is on the held queue.                 *)
NeverForgotten ==
    \A i \in raised : \/ i \in Elems(held)
                      \/ \E j \in 1 .. Len(stack) : stack[j].fn = "interrupt" /\ stack[j].irq = i

(* p_int_held and the held queue agree, and a task is on it once; a nested *)
(* handler between the two updates would break the chain of p_nextheld.    *)
HeldOnce == Elems(held) = p_int_held /\ Len(held) = Cardinality(p_int_held)

(* k_reenter is exact: the count that save and restart keep is the number  *)
(* of kernel entries on the stack, less one, and switching is set exactly  *)
(* while interrupt() or a gateway is switching.                            *)
ReenterExact ==
    /\ k_reenter = Cardinality({i \in 1 .. Len(stack) : stack[i].fn \in {"sys_call", "handler"}}) - 1
    /\ switching <=> \E i \in Switching : stack[i].fn # "sys_call"

(* The two tests that every handler and interrupt() make rest on exact     *)
(* counts, and no two pieces of switching code run at a time.              *)
SwitchingSound == SwitchingAlone /\ ReenterExact

(* unhold() is called as its comment requires (proc.c:519): by an entry    *)
(* with no other under it, with interrupts off, nobody switching and       *)
(* something held.  An entry that nests in a task's own call of            *)
(* interrupt() is the outermost one too.                                   *)
UnholdReady ==
    Top.pc = "unhold" => k_reenter = 0 /\ ~enabled /\ ~switching /\ held # <<>>

(* The held queue is well formed and, with the activations of interrupt(), *)
(* it has every interrupt that has not got through; it is emptied only     *)
(* when it may be.                                                         *)
HeldSound == TypeOK /\ NeverForgotten /\ HeldOnce /\ UnholdReady

(* Every interrupt gets through to its task: held interrupts are flushed,  *)
(* also those held while a task was in one of the gateways, where restart  *)
(* has to leave them.                                                      *)
GetsThrough == \A i \in Irq : i \in raised ~> i \notin raised
=============================================================================
