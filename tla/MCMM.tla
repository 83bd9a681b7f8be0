-------------------------------- MODULE MCMM --------------------------------
(* MM with the calls of one kind of program at a time. *)
EXTENDS MM

Call(op)      == [op |-> op]
Wait(pid, nh) == [op |-> "WAITPID", pid |-> pid, nohang |-> nh]
Kill(pid, s)  == [op |-> "KILL", pid |-> pid, sig |-> s]
Sigact(s, h)  == [op |-> "SIGACTION", sig |-> s, handler |-> h, act |-> NoAct]
Mask(how, S)  == [op |-> "SIGPROCMASK", how |-> how, set |-> S]
Suspend(S)    == [op |-> "SIGSUSPEND", set |-> S]
SetAlarm(on)  == [op |-> "ALARM", on |-> on]
Trace(r, pid, s) == [op |-> "PTRACE", request |-> r, pid |-> pid, sig |-> s]

Default == [su |-> TRUE, may |-> Slot, room |-> Slot, ok |-> TRUE, marks |-> FALSE, out |-> {}, fit |-> Slot]
Normal  == {Default}
NoMemory == {Default, [Default EXCEPT !.ok = FALSE]}
Swapping == {Default, [Default EXCEPT !.out = Slot],
             [Default EXCEPT !.out = Slot, !.fit = {}, !.su = FALSE, !.may = {INIT}]}

(* Families: processes that fork, exit, and wait in all ways, until the    *)
(* pids start again.                                                       *)
FamilyCalls == {Call("FORK"), Call("EXIT"), Call("SETSID"),
                Wait(-1, FALSE), Wait(-3, FALSE), Wait(0, FALSE), Wait(4, FALSE), Wait(4, TRUE)}

(* Signals: sent by processes and found by the kernel, to processes that   *)
(* catch and block them, wait for them, hang on a pipe or are swapped out, *)
(* several of them pending at a time.                                      *)
SignalCalls == {Call("FORK"), Call("EXEC"), Call("SIGRETURN"), Suspend({}),
                Call("SETSID"), Wait(-1, FALSE), Kill(3, SIGKILL), Kill(3, SIGCHLD), SetAlarm(TRUE),
                [Sigact(SIGINT, "catch") EXCEPT !.act.flags = {"SA_RESETHAND"}],
                Mask("SIG_BLOCK", {SIGINT, SIGCHLD}), Mask("SIG_UNBLOCK", {SIGINT, SIGCHLD})}

(* A debugger: the child asks to be traced, executes a program, and is     *)
(* resumed or ended by its parent.                                         *)
TraceCalls == {Call("FORK"), Call("EXEC"), Call("PAUSE"), Wait(-1, FALSE),
               Kill(3, SIGHUP), Kill(3, SIGKILL), Trace("T_OK", 0, 0), Trace("T_EXIT", 3, 0),
               Trace("T_RESUME", 3, 0), Trace("T_RESUME", 3, SIGHUP)}

(* Alarms, set anew and cancelled, with a handler or without. *)
AlarmCalls == {Call("FORK"), Call("EXIT"), Call("PAUSE"), Call("SIGRETURN"),
               SetAlarm(TRUE), SetAlarm(FALSE), Sigact(SIGALRM, "catch")}
=============================================================================
