------------------------------ MODULE MCKernel ------------------------------
(* Kernel on small machines: one whose work is signals, without a device   *)
(* task, and one whose work is messages, with one.                         *)
EXTENDS Kernel

CONSTANT SIGALRM

TTY         == -7
NoDriver    == <<>>
TtyOnly     == <<TTY>>
OneMsg      == {[m_type |-> "REQ"]}

(* Who calls whom: the loops of the tasks and of the servers, _taskcall()  *)
(* to the system task and the clock, tell_fs().                            *)
CoreCalls ==
    {<<p, "RECEIVE", ANY>> : p \in {SYSTASK, CLOCK, MM, FS}}
    \cup {<<SYSTASK, "SEND", MM>>, <<SYSTASK, "SEND", FS>>, <<CLOCK, "SEND", MM>>}
    \cup {<<MM, "BOTH", SYSTASK>>, <<MM, "BOTH", CLOCK>>, <<MM, "BOTH", FS>>}
    \cup {<<FS, "BOTH", SYSTASK>>, <<FS, "SEND", MM>>}
    \cup Server \X {"SEND"} \X User

(* Without the calls that have to do with neither signals nor processes.   *)
SignalCalls == CoreCalls \ {<<CLOCK, "SEND", MM>>, <<MM, "BOTH", CLOCK>>, <<FS, "SEND", MM>>}

(* The same with a terminal task, which FS calls and which calls FS back.  *)
TtyCalls ==
    CoreCalls \cup {<<TTY, "RECEIVE", ANY>>, <<TTY, "RECEIVE", HARDWARE>>, <<TTY, "SEND", FS>>,
                    <<FS, "BOTH", TTY>>, <<FS, "RECEIVE", TTY>>}

(* Message contents, the sources and targets of processes that do not wait *)
(* and the process to bill have no influence on the rest of the state.     *)
LiveState ==
    [k EXCEPT !.getfrom  = [p \in Proc |-> IF "RECEIVING" \in k.flags[p] THEN @[p] ELSE MM],
              !.sendto   = [p \in Proc |-> IF "SENDING" \in k.flags[p] THEN @[p] ELSE MM],
              !.m_source = MM, !.mess = MM, !.bill_ptr = MM]
=============================================================================
