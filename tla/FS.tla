--------------------------------- MODULE FS ---------------------------------
(***************************************************************************)
(* The file system's descriptors, pipes and FIFOs, record locks and        *)
(* terminal calls: everything that can make FS leave a process without an  *)
(* answer and come back to it later (fs/pipe.c, lock.c, main.c, filedes.c, *)
(* and the parts of read.c, open.c, misc.c, device.c and inode.c they      *)
(* use).                                                                   *)
(*                                                                         *)
(* FS is one process that does one call at a time, so a call is one step.  *)
(* A pipe holds counts of bytes, not the bytes.  Nobody has a controlling  *)
(* terminal, FIFOs are opened for reading or for writing and terminals for *)
(* reading, O_NONBLOCK means nothing for a file, and no disk fails.        *)
(***************************************************************************)
EXTENDS Integers, FiniteSets

CONSTANTS NR_PROCS,  \* slots of the process table
          OPEN_MAX,  \* descriptors of a process
          NR_FILPS,  \* slots of the filp table
          NR_LOCKS,  \* slots of the lock table
          PIPE_SIZE, \* bytes a pipe holds
          Pipes,     \* inodes that pipe() can get
          Fifos, Files, Ttys, \* named pipes, regular files, terminals
          Modes,     \* modes of open(): sets of "R" and "W"
          Sizes,     \* byte counts of read() and write()
          Regions,   \* parts of a file that are locked: [first, last]
          Nonblock,  \* which values O_NONBLOCK takes
          MaxSuspCount, \* bound of the model: how far susp_count may run ahead
          MaxCum,       \* bound of the model: of what partial writes leave behind
          MaxOpen       \* bound of the model: descriptors of a process that opens a name

Proc   == 1 .. NR_PROCS
FD     == 0 .. OPEN_MAX - 1
Filp   == 1 .. NR_FILPS
Nil    == 0
Inode  == Pipes \cup Fifos \cup Files \cup Ttys
NoInode == "none"

ASSUME FSAssumption ==
    /\ NR_PROCS \in Nat \ {0} /\ OPEN_MAX \in Nat \ {0} /\ NR_FILPS \in Nat \ {0}
    /\ NR_LOCKS \in Nat /\ PIPE_SIZE \in Nat \ {0}
    /\ Modes \subseteq SUBSET {"R", "W"}
    /\ Sizes \subseteq Nat \ {0}
    /\ Regions \subseteq [first : Nat, last : Nat] /\ \A g \in Regions : g.first <= g.last
    /\ Nonblock \subseteq BOOLEAN
    /\ MaxCum \in Nat /\ MaxSuspCount \in Nat /\ MaxOpen \in Nat
    /\ NoInode \notin Inode
    /\ Pipes \cap (Fifos \cup Files \cup Ttys) = {} /\ Fifos \cap (Files \cup Ttys) = {}
    /\ Files \cap Ttys = {}

IsPipe(i) == i \in Pipes \cup Fifos

NoLock  == [type |-> "none", wait |-> FALSE, first |-> 0, last |-> 0]
NoCall  == [op |-> "none", fd |-> 0, nb |-> 0, lock |-> NoLock]
Unused  == [type |-> "free", pid |-> 0, ino |-> NoInode, first |-> 0, last |-> 0]
LockReq == [type : {"none", "RDLCK", "WRLCK", "UNLCK"}, wait : BOOLEAN, first : Nat, last : Nat]

VARIABLES fproc,      \* fp_filp, fp_suspended, fp_revived, fp_task,
                      \* the call that hangs, fp_cum_io_partial
          filp,       \* count, mode, inode, position, O_NONBLOCK; O_APPEND, where it
                      \* matters: at the end of a FIFO that is written
          inode,      \* count, size, the two positions kept in the zones of a FIFO;
                      \* gap: since it was empty somebody wrote elsewhere than at its end
          file_lock, nr_locks, susp_count, reviving,
          waiting,    \* processes that have called FS and wait for the answer; one
                      \* that ends stays, as an answer to it is refused
          stuck,      \* FS has sent an answer that nobody was waiting for
          tty,        \* the terminal task: reads it has been given, a REVIVE it is sending
          alive,      \* processes: "no", "yes", or "dying" after EXIT
          lost        \* descriptors of each filp that were in a slot given away

vars == <<fproc, filp, inode, file_lock, nr_locks, susp_count, reviving, waiting, stuck, tty,
          alive, lost>>

Call == [op : {"none", "READ", "WRITE", "OPEN", "FCNTL"}, fd : FD, nb : Nat, lock : LockReq]

TypeOK ==
    /\ fproc \in [Proc -> [fd : [FD -> Filp \cup {Nil}],
                           suspended : BOOLEAN, revived : BOOLEAN,
                           task : {"none", "XPIPE", "XPOPEN", "XLOCK", "TTY"},
                           call : Call, cum : Nat]]
    /\ filp \in [Filp -> [count : Nat, mode : SUBSET {"R", "W"}, ino : Inode \cup {NoInode},
                          pos : Nat, nonblock : BOOLEAN, append : BOOLEAN]]
    /\ inode \in [Inode -> [count : Nat, size : 0 .. PIPE_SIZE, rpos : Nat, wpos : Nat,
                            gap : BOOLEAN]]
    /\ file_lock \in [1 .. NR_LOCKS ->
                        [type : {"free", "RDLCK", "WRLCK"}, pid : Proc \cup {0},
                         ino : Files \cup {NoInode}, first : Nat, last : Nat]]
    /\ nr_locks \in 0 .. NR_LOCKS /\ susp_count \in Nat /\ reviving \in Nat
    /\ waiting \subseteq Proc /\ stuck \in BOOLEAN
    /\ tty \in [pending : SUBSET Proc, sending : Proc \cup {Nil}]
    /\ alive \in [Proc -> {"no", "yes", "dying"}] /\ lost \in [Filp -> Nat]

(* The tables FS works on, as one value: a call is a function of them. *)
Now == [fproc |-> fproc, filp |-> filp, inode |-> inode, lk |-> file_lock, nr |-> nr_locks,
        susp |-> susp_count, rev |-> reviving, waiting |-> waiting, stuck |-> stuck, tty |-> tty,
        lost |-> lost]

Becomes(s) ==
    /\ fproc' = s.fproc /\ filp' = s.filp /\ inode' = s.inode /\ file_lock' = s.lk
    /\ nr_locks' = s.nr /\ susp_count' = s.susp /\ reviving' = s.rev
    /\ waiting' = s.waiting /\ stuck' = s.stuck /\ tty' = s.tty /\ lost' = s.lost

First(S) == CHOOSE x \in S : \A y \in S : x <= y
-----------------------------------------------------------------------------
(* Answers.  reply() uses send(), so an answer to somebody who does not    *)
(* wait for one would block FS.                                            *)

reply(s, p) == [s EXCEPT !.waiting = @ \ {p}, !.stuck = @ \/ p \notin s.waiting]

(* c is the call as it will be repeated, or cancelled.  fp_task and the    *)
(* call mean nothing once the process is no longer suspended.              *)
Resumed(f) == [f EXCEPT !.suspended = FALSE, !.revived = FALSE, !.task = "none", !.call = NoCall]

(* Mutant: an open() that hangs is not counted. *)
suspend_open(s, p, task, c) ==
    [s EXCEPT !.fproc[p] = [@ EXCEPT !.suspended = TRUE, !.task = task, !.call = c],
              !.susp = IF task = "XPIPE" THEN @ + 1 ELSE @]

suspend(s, p, task, c) ==
    [s EXCEPT !.fproc[p] = [@ EXCEPT !.suspended = TRUE, !.task = task, !.call = c],
              !.susp = IF task \in {"XPIPE", "XPOPEN"} THEN @ + 1 ELSE @]

(* Those that hang on a pipe or a lock must try again; the others have     *)
(* what they waited for.                                                   *)
ReviveAll(s, P) ==
    LET H     == {p \in P : s.fproc[p].suspended /\ ~s.fproc[p].revived}
        again == {p \in H : s.fproc[p].task \in {"XPIPE", "XLOCK"}}
        over  == H \ again
        now(p) == IF p \in again THEN [s.fproc[p] EXCEPT !.revived = TRUE]
                  ELSE IF p \in over THEN Resumed(s.fproc[p]) ELSE s.fproc[p]
    IN  [s EXCEPT !.fproc = [p \in Proc |-> now(p)],
                  !.rev = @ + Cardinality(again),
                  !.waiting = @ \ over, !.stuck = @ \/ ~(over \subseteq s.waiting)]

revive(s, p) == ReviveAll(s, {p})

Hanging(s, i, op) ==
    {p \in Proc : LET f == s.fproc[p]
                  IN  /\ f.suspended /\ ~f.revived /\ f.call.op = op
                      /\ s.filp[f.fd[f.call.fd]].ino = i}

(* Those with the lowest numbers come first.  A count of 0 is no limit. *)
Released(s, i, op, count) ==
    LET H == Hanging(s, i, op)
    IN  {p \in H : count <= 0 \/ Cardinality({q \in H : q <= p}) <= count}

release(s, i, op, count) ==
    LET P == Released(s, i, op, count)
    IN  [ReviveAll(s, P) EXCEPT !.susp = @ - Cardinality(P)]

lock_revive(s) == ReviveAll(s, {p \in Proc : s.fproc[p].suspended /\ s.fproc[p].task = "XLOCK"})
(* The terminal.  A task that is about to send a REVIVE makes sendrec()    *)
(* fail with ELOCKED; the REVIVE is taken first, and ignored if it is for  *)
(* the process whose call is cancelled.                                    *)

(* Mutant: whatever REVIVE meets a CANCEL is thrown away. *)
gen_io_drop(s, p, cancel) ==
    LET q == s.tty.sending
        t == [s EXCEPT !.tty.sending = Nil]
    IN  IF q = Nil THEN s ELSE IF cancel THEN t ELSE revive(t, q)

gen_io(s, p, cancel) ==
    LET q == s.tty.sending
        t == [s EXCEPT !.tty.sending = Nil]
    IN  IF q = Nil THEN s ELSE IF cancel /\ q = p THEN t ELSE revive(t, q)
-----------------------------------------------------------------------------
(* Descriptors and inodes. *)

FreeFDs(s, p) == {d \in FD : s.fproc[p].fd[d] = Nil}
FreeFilps(s)  == {f \in Filp : s.filp[f].count = 0}

find_filp(s, i, m) == {f \in Filp : s.filp[f].count # 0 /\ s.filp[f].ino = i /\ m \in s.filp[f].mode}

FreeInode == [count |-> 0, size |-> 0, rpos |-> 0, wpos |-> 0, gap |-> FALSE]

put_inode(s, i) ==
    IF s.inode[i].count > 1 \/ ~IsPipe(i) THEN [s EXCEPT !.inode[i].count = @ - 1]
    ELSE [s EXCEPT !.inode[i] = FreeInode]

(* The slot of a filp that nobody has any more; get_fd() fills it again. *)
FreeFilp == [count |-> 0, mode |-> {}, ino |-> NoInode, pos |-> 0, nonblock |-> FALSE,
             append |-> FALSE]

(* open() sets it for a FIFO, and looks at it only to write. *)
Append(i, m) == i \in Fifos /\ "W" \in m

Claim(s, p, d, f, i, m, nonblock) ==
    [s EXCEPT !.fproc[p].fd[d] = f,
              !.filp[f] = [count |-> 1, mode |-> m, ino |-> i, pos |-> 0, nonblock |-> nonblock,
                           append |-> Append(i, m)],
              !.inode[i].count = @ + 1]

Result(s, r) == [s |-> s, r |-> r]

do_pipe(s, p) ==
    LET d0 == First(FreeFDs(s, p))
        f0 == First(FreeFilps(s))
        i  == CHOOSE x \in Pipes : s.inode[x].count = 0
        s1 == Claim(s, p, d0, f0, i, {"R"}, FALSE)
        s2 == Claim(s1, p, First(FreeFDs(s1, p)), First(FreeFilps(s1)), i, {"W"}, FALSE)
    IN  IF Cardinality(FreeFDs(s, p)) < 2 \/ Cardinality(FreeFilps(s)) < 2
           \/ \A x \in Pipes : s.inode[x].count # 0
        THEN Result(s, "EMFILE") ELSE Result(s2, "OK")

(* Mutant: the inode is counted for a filp that is not kept. *)
OpenFifo_counted(s, p, d, f, i, m, nonblock) ==
    LET other  == IF "W" \in m THEN "R" ELSE "W"
        mine   == CHOOSE x \in m : TRUE
        alone  == find_filp(s, i, other) = {}
        old    == find_filp([s EXCEPT !.filp[f].count = 0], i, mine)
        joined == IF old # {}
                  THEN [s EXCEPT !.fproc[p].fd[d] = First(old), !.filp[f] = FreeFilp,
                                 !.filp[First(old)].count = @ + 1]
                  ELSE s
    IN  IF alone THEN Result(suspend(joined, p, "XPOPEN", [NoCall EXCEPT !.op = "OPEN", !.fd = d]), "SUSPEND")
        ELSE Result(IF s.susp > 0 THEN release(joined, i, "OPEN", s.susp) ELSE joined, "OK")

(* A FIFO that has no filp of the other kind makes the caller wait, which  *)
(* has its descriptor by then, shared with those that opened it so before. *)
OpenFifo(s, p, d, f, i, m, nonblock) ==
    LET other  == IF "W" \in m THEN "R" ELSE "W"
        mine   == CHOOSE x \in m : TRUE
        alone  == find_filp(s, i, other) = {}
        old    == find_filp([s EXCEPT !.filp[f].count = 0], i, mine)
        joined == IF old # {}
                  THEN [s EXCEPT !.fproc[p].fd[d] = First(old), !.filp[f] = FreeFilp,
                                 !.filp[First(old)].count = @ + 1,
                                 !.filp[First(old)].nonblock = nonblock,
                                 !.filp[First(old)].append = Append(i, m),
                                 !.inode[i].count = @ - 1]
                  ELSE [s EXCEPT !.filp[f].pos = IF mine = "R" THEN s.inode[i].rpos
                                                 ELSE s.inode[i].wpos]
    IN  IF alone /\ nonblock /\ "W" \in m
        THEN Result(put_inode([s EXCEPT !.fproc[p].fd[d] = Nil, !.filp[f] = FreeFilp], i), "ENXIO")
        ELSE IF alone /\ ~nonblock
        THEN Result(suspend(joined, p, "XPOPEN", [NoCall EXCEPT !.op = "OPEN", !.fd = d]), "SUSPEND")
        ELSE Result(IF ~alone /\ s.susp > 0 THEN release(joined, i, "OPEN", s.susp) ELSE joined, "OK")

common_open(s, p, i, m, nonblock) ==
    LET d == First(FreeFDs(s, p))
        f == First(FreeFilps(s))
        t == Claim(s, p, d, f, i, m, nonblock)
    IN  IF FreeFDs(s, p) = {} \/ FreeFilps(s) = {} THEN Result(s, "EMFILE")
        ELSE IF i \in Fifos THEN OpenFifo(t, p, d, f, i, m, nonblock)
        ELSE Result(IF i \in Ttys THEN gen_io(t, p, FALSE) ELSE t, "OK")

(* The position of the last one to leave is kept in the inode, where only  *)
(* an open() of a FIFO looks for it.                                       *)
CloseFilp(s, f) ==
    LET i == s.filp[f].ino
        n == s.filp[f].count - 1
        t == [s EXCEPT !.filp[f] = IF n = 0 THEN FreeFilp ELSE [@ EXCEPT !.count = n]]
        kept == IF s.filp[f].mode = {"R"} THEN [t EXCEPT !.inode[i].rpos = s.filp[f].pos]
                ELSE [t EXCEPT !.inode[i].wpos = s.filp[f].pos]
    IN  IF s.filp[f].count > 1 THEN t
        ELSE put_inode(IF i \in Fifos /\ s.inode[i].count > 1 THEN kept ELSE t, i)

(* Mutant: close() unlocks, but wakes nobody. *)
UnlockAll_quiet(s, i, p) ==
    LET gone == {k \in 1 .. NR_LOCKS : s.lk[k].type # "free" /\ s.lk[k].ino = i /\ s.lk[k].pid = p}
    IN  [s EXCEPT !.lk = [k \in 1 .. NR_LOCKS |-> IF k \in gone THEN Unused ELSE @[k]],
                  !.nr = @ - Cardinality(gone)]

UnlockAll(s, i, p) ==
    LET gone == {k \in 1 .. NR_LOCKS : s.lk[k].type # "free" /\ s.lk[k].ino = i /\ s.lk[k].pid = p}
        t    == [s EXCEPT !.lk = [k \in 1 .. NR_LOCKS |-> IF k \in gone THEN Unused ELSE @[k]],
                          !.nr = @ - Cardinality(gone)]
    IN  IF gone = {} THEN s ELSE lock_revive(t)

(* Mutant: nobody hears that an end of a pipe is closed. *)
do_close_quiet(s, p, d) ==
    LET f  == s.fproc[p].fd[d]
        i  == s.filp[f].ino
        s2 == [CloseFilp(s, f) EXCEPT !.fproc[p].fd[d] = Nil]
    IN  IF f = Nil THEN s ELSE UnlockAll(s2, i, p)

do_close(s, p, d) ==
    LET f  == s.fproc[p].fd[d]
        i  == s.filp[f].ino
        s1 == IF IsPipe(i)
              THEN release(s, i, IF "R" \in s.filp[f].mode THEN "WRITE" ELSE "READ", NR_PROCS)
              ELSE IF i \in Ttys /\ s.filp[f].count = 1 THEN gen_io(s, p, FALSE)
              ELSE s
        s2 == [CloseFilp(s1, f) EXCEPT !.fproc[p].fd[d] = Nil]
    IN  IF f = Nil THEN s ELSE UnlockAll(s2, i, p)
-----------------------------------------------------------------------------
(* Pipes. *)

(* What pipe_check() finds: go on with so many bytes, or stop with r. *)
Check(s, r, n) == [s |-> s, r |-> r, n |-> n]

(* Mutant: it wakes the other readers. *)
ReadCheck_readers(s, p, c, i, pos, nonblock) ==
    LET t == release(s, i, "READ", NR_PROCS)
    IN  IF pos < s.inode[i].size THEN Check(s, "go", c.nb)
        ELSE IF find_filp(s, i, "W") = {} THEN Check(s, "EOF", 0)
        ELSE IF nonblock THEN Check(t, "EAGAIN", 0)
        ELSE Check(suspend(t, p, "XPIPE", c), "SUSPEND", 0)

ReadCheck(s, p, c, i, pos, nonblock) ==
    LET t == IF nonblock THEN s ELSE suspend(s, p, "XPIPE", c)
    IN  IF pos < s.inode[i].size THEN Check(s, "go", c.nb)
        ELSE IF find_filp(s, i, "W") = {} THEN Check(s, "EOF", 0)
        ELSE Check(IF t.susp > 0 THEN release(t, i, "WRITE", t.susp) ELSE t,
                   IF nonblock THEN "EAGAIN" ELSE "SUSPEND", 0)

WriteCheck(s, p, c, i, pos, nonblock) ==
    LET room == PIPE_SIZE - pos
    IN  IF find_filp(s, i, "R") = {} THEN Check(s, "EPIPE", 0)
        ELSE IF c.nb <= room
        THEN Check(IF pos = 0 THEN release(s, i, "READ", s.susp) ELSE s, "go", c.nb)
        ELSE IF nonblock /\ c.nb < PIPE_SIZE THEN Check(s, "EAGAIN", 0)
        ELSE IF c.nb > PIPE_SIZE /\ room > 0
        THEN Check(release(s, i, "READ", s.susp), "partial", room)
        ELSE IF nonblock /\ c.nb > PIPE_SIZE THEN Check(s, "EAGAIN", 0)
        ELSE Check(suspend(s, p, "XPIPE", c), "SUSPEND", 0)

(* A reader that empties the pipe resets it, and one filp that writes it. *)
ReadPipe(s, p, c, f, i) ==
    LET k    == ReadCheck(s, p, c, i, s.filp[f].pos, s.filp[f].nonblock)
        left == k.s.inode[i].size - s.filp[f].pos
        pos  == s.filp[f].pos + (IF c.nb < left THEN c.nb ELSE left)
        W    == find_filp(s, i, "W")
        t    == [k.s EXCEPT !.fproc[p].cum = 0]
    IN  IF k.r # "go" THEN Result(k.s, k.r)
        ELSE IF pos < s.inode[i].size THEN Result([t EXCEPT !.filp[f].pos = pos], "OK")
        ELSE Result([t EXCEPT !.inode[i] = [@ EXCEPT !.size = 0, !.gap = FALSE],
                              !.filp = [g \in Filp |->
                                          IF g = f \/ (W # {} /\ g = First(W))
                                          THEN [@[g] EXCEPT !.pos = 0] ELSE @[g]]], "OK")

WriteAt(s, p, c, f, i, from) ==
    LET k    == WriteCheck(s, p, c, i, from, s.filp[f].nonblock)
        pos  == from + k.n
        t    == [k.s EXCEPT !.filp[f].pos = pos,
                            !.inode[i].size = IF pos > @ THEN pos ELSE @]
        hang == k.r = "partial" /\ ~s.filp[f].nonblock
    IN  IF k.r \notin {"go", "partial"} THEN Result(k.s, k.r)
        ELSE IF hang
        THEN Result(suspend([t EXCEPT !.fproc[p].cum = @ + k.n], p, "XPIPE", [c EXCEPT !.nb = @ - k.n]),
                    "SUSPEND")
        ELSE Result([t EXCEPT !.fproc[p].cum = 0], "OK")

(* What is open for appending is written at its end.  fcntl() can change   *)
(* that for a FIFO, whose writer may be anywhere.                          *)
WritePipe(s, p, c, f, i) ==
    LET size == s.inode[i].size
        from == IF s.filp[f].append THEN size ELSE s.filp[f].pos
    IN  WriteAt([s EXCEPT !.inode[i].gap = @ \/ from # size], p, c, f, i, from)
-----------------------------------------------------------------------------
(* Calls of the terminal task. *)

(* Those whose read the task has been given for terminal i. *)
Readers(s, i) == {q \in s.tty.pending : s.filp[s.fproc[q].fd[s.fproc[q].call.fd]].ino = i}

(* done: the task can do the call at once.  A terminal has one read at a   *)
(* time.                                                                   *)
dev_io(s, p, c, i, nonblock, done) ==
    LET t == gen_io(s, p, FALSE)
    IN  IF Readers(t, i) # {} THEN Result(t, "EIO")
        ELSE IF done THEN Result([t EXCEPT !.fproc[p].cum = 0], "OK")
        ELSE IF nonblock THEN Result(t, "EAGAIN")
        ELSE Result(suspend([t EXCEPT !.tty.pending = @ \cup {p}], p, "TTY", c), "SUSPEND")

Cancel(s, p) == [gen_io(s, p, TRUE) EXCEPT !.tty.pending = @ \ {p}]

(* Mutant: a call that is interrupted is not answered. *)
do_unpause_silent(s, p) ==
    LET t == IF s.fproc[p].task = "TTY" THEN Cancel(s, p) ELSE s
    IN  IF ~s.fproc[p].suspended THEN s ELSE [t EXCEPT !.fproc[p] = Resumed(@)]

do_unpause(s, p) ==
    LET t == IF s.fproc[p].task = "TTY" THEN Cancel(s, p) ELSE s
    IN  IF ~s.fproc[p].suspended THEN s
        ELSE reply([t EXCEPT !.fproc[p] = Resumed(@)], p)
-----------------------------------------------------------------------------
(* Locks. *)

Overlaps(g, h) == g.first <= h.last /\ h.first <= g.last

(* Mutant: a lock for reading goes past one for writing. *)
Conflicts_read(s, p, i, q) ==
    {k \in 1 .. NR_LOCKS :
        LET l == s.lk[k]
        IN  /\ l.type # "free" /\ l.ino = i /\ Overlaps(q, l)
            /\ q.type # "RDLCK"
            /\ l.pid # p}

(* Locks of others that keep p from locking the region q of i. *)
Conflicts(s, p, i, q) ==
    {k \in 1 .. NR_LOCKS :
        LET l == s.lk[k]
        IN  /\ l.type # "free" /\ l.ino = i /\ Overlaps(q, l)
            /\ ~(q.type = "RDLCK" /\ l.type = "RDLCK")
            /\ l.pid # p}

FreeLocks(s) == {k \in 1 .. NR_LOCKS : s.lk[k].type = "free"}

(* Slot k when region q of i is unlocked; a lock is cut wherever it is     *)
(* covered, whoever has it, and the first one that cannot be cut in two    *)
(* for want of a slot ends the call.                                       *)
Unlock(a, k, i, q) ==
    LET l == a.s.lk[k]
        e == First(FreeLocks(a.s))
    IN  IF a.full \/ l.type = "free" \/ l.ino # i \/ ~Overlaps(q, l) THEN a
        ELSE IF q.first <= l.first /\ q.last >= l.last
        THEN [a EXCEPT !.cut = TRUE, !.s.lk[k] = Unused, !.s.nr = @ - 1]
        ELSE IF q.first <= l.first THEN [a EXCEPT !.cut = TRUE, !.s.lk[k].first = q.last + 1]
        ELSE IF q.last >= l.last THEN [a EXCEPT !.cut = TRUE, !.s.lk[k].last = q.first - 1]
        ELSE IF a.s.nr = NR_LOCKS THEN [a EXCEPT !.full = TRUE]
        ELSE [a EXCEPT !.cut = TRUE, !.s.nr = @ + 1,
                       !.s.lk = [@ EXCEPT ![e] = [l EXCEPT !.first = q.last + 1],
                                          ![k] = [l EXCEPT !.last = q.first - 1]]]

unlock(s, i, q) ==
    LET u[k \in 0 .. NR_LOCKS] ==
            IF k = 0 THEN [s |-> s, cut |-> FALSE, full |-> FALSE] ELSE Unlock(u[k - 1], k, i, q)
        a == u[NR_LOCKS]
    IN  IF a.full THEN Result(a.s, "ENOLCK")
        ELSE Result(IF a.cut THEN lock_revive(a.s) ELSE a.s, "OK")

lock_op(s, p, c, f, i) ==
    LET q == c.lock
        e == First(FreeLocks(s))
    IN  IF i \notin Files THEN Result(s, "EINVAL")
        ELSE IF q.type = "UNLCK" THEN unlock(s, i, q)
        ELSE IF (IF q.type = "RDLCK" THEN "R" ELSE "W") \notin s.filp[f].mode
        THEN Result(s, "EBADF")
        ELSE IF Conflicts(s, p, i, q) # {}
        THEN IF q.wait THEN Result(suspend(s, p, "XLOCK", c), "SUSPEND") ELSE Result(s, "EAGAIN")
        ELSE IF FreeLocks(s) = {} THEN Result(s, "ENOLCK")
        ELSE Result([s EXCEPT !.nr = @ + 1,
                              !.lk[e] = [type |-> q.type, pid |-> p, ino |-> i,
                                         first |-> q.first, last |-> q.last]], "OK")
-----------------------------------------------------------------------------
(* Calls on a descriptor, the ones that are repeated when a process is     *)
(* revived.  done is the terminal's choice.                                *)

DoCall(s, p, c, done) ==
    LET f == s.fproc[p].fd[c.fd]
        i == s.filp[f].ino
        m == IF c.op = "READ" THEN "R" ELSE "W"
    IN  IF f = Nil THEN Result(s, "EBADF")
        ELSE IF c.op = "FCNTL" THEN lock_op(s, p, c, f, i)
        ELSE IF m \notin s.filp[f].mode THEN Result(s, "EBADF")
        ELSE IF i \in Ttys THEN dev_io(s, p, c, i, s.filp[f].nonblock, done)
        ELSE IF c.op = "READ" THEN ReadPipe(s, p, c, f, i) ELSE WritePipe(s, p, c, f, i)

Finish(x, p) == Becomes(IF x.r = "SUSPEND" THEN x.s ELSE reply(x.s, p))

(* FS takes a message only when nobody is left to be revived. *)
Receives == reviving = 0 /\ ~stuck

(* p may call FS: also after do_exit(), as long as the kernel knows it, if *)
(* FS was blocked in a disk call and p got to run.                         *)
Runs(p) == alive[p] # "no" /\ p \notin waiting

Asks(p) == Receives /\ Runs(p) /\ UNCHANGED alive

Asked(p) == [Now EXCEPT !.waiting = @ \cup {p}]

(* To ask for more than a pipe holds is to ask for all of it. *)
Transfer(p) ==
    \E d \in FD, n \in Sizes, op \in {"READ", "WRITE"}, done \in BOOLEAN :
        /\ Asks(p)
        /\ fproc[p].fd[d] # Nil /\ filp[fproc[p].fd[d]].ino \notin Files
        /\ done => filp[fproc[p].fd[d]].ino \in Ttys
        /\ IF op = "READ" THEN n <= PIPE_SIZE ELSE fproc[p].cum <= MaxCum
        /\ Finish(DoCall(Asked(p), p, [NoCall EXCEPT !.op = op, !.fd = d, !.nb = n], done), p)

LockCall(p) ==
    \E d \in FD, t \in {"RDLCK", "WRLCK", "UNLCK"}, w \in BOOLEAN, g \in Regions :
        /\ Asks(p)
        /\ fproc[p].fd[d] # Nil /\ filp[fproc[p].fd[d]].ino \in Files
        /\ t = "UNLCK" => ~w
        /\ Finish(DoCall(Asked(p), p,
                         [op |-> "FCNTL", fd |-> d, nb |-> 0,
                          lock |-> [type |-> t, wait |-> w, first |-> g.first, last |-> g.last]],
                         FALSE), p)

PipeCall(p) == Pipes # {} /\ Asks(p) /\ Finish(do_pipe(Asked(p), p), p)

(* do_exit() has left no directories: last_dir() finds i_nlinks zero where *)
(* the null pointer points, and no name can be opened.                     *)
OpenCall(p) ==
    \E i \in Inode \ Pipes, m \in Modes, nonblock \in Nonblock :
        /\ Asks(p) /\ (i \in Fifos => Cardinality(m) = 1) /\ (i \in Ttys => m = {"R"}) /\ (nonblock => i \notin Files)
        /\ OPEN_MAX - Cardinality(FreeFDs(Now, p)) < MaxOpen
        /\ Finish(IF alive[p] = "dying" THEN Result(Asked(p), "ENOENT")
                  ELSE common_open(Asked(p), p, i, m, nonblock), p)

CloseCall(p) == \E d \in FD : Asks(p) /\ Becomes(do_close(Now, p, d))

(* F_SETFL gives both flags the values it is given. *)
SetFlags(p) ==
    \E d \in FD, b \in Nonblock, a \in BOOLEAN :
        LET f == fproc[p].fd[d]
        IN  /\ Asks(p) /\ f # Nil /\ filp[f].ino \notin Files
            /\ a => Append(filp[f].ino, filp[f].mode)
            /\ Becomes([Now EXCEPT !.filp[f].nonblock = b, !.filp[f].append = a])

(* fproc[child] = fproc[parent]: what the slot held is forgotten. *)
do_fork(p, c) ==
    LET n(q, f) == Cardinality({d \in FD : fproc[q].fd[d] = f})
    IN  /\ Receives /\ Runs(p) /\ alive[p] = "yes"
        /\ alive[c] = "no" /\ \A q \in Proc : alive[q] = "no" => c <= q
        /\ fproc[c].suspended => susp_count < MaxSuspCount
        /\ Becomes([Now EXCEPT
               !.fproc[c] = fproc[p], !.waiting = @ \ {c},
               !.filp = [f \in Filp |-> [filp[f] EXCEPT !.count = @ + n(p, f)]],
               !.lost = [f \in Filp |-> lost[f] + n(c, f)]])
        /\ alive' = [alive EXCEPT ![c] = "yes"]

CloseAll(s, p, D) ==
    LET c[k \in 0 .. OPEN_MAX] ==
            IF k = 0 THEN s
            ELSE IF k - 1 \in D THEN do_close(c[k - 1], p, k - 1) ELSE c[k - 1]
    IN  c[OPEN_MAX]

(* fp_cloexec may be any set of descriptors: F_SETFD and fork() change it  *)
(* and nothing else looks at it.                                           *)
do_exec(p) ==
    \E cloexec \in SUBSET {d \in FD : fproc[p].fd[d] # Nil} :
        Asks(p) /\ alive[p] = "yes" /\ Becomes(CloseAll(Now, p, cloexec))

do_exit(p) ==
    LET f == fproc[p]
        s == IF ~f.suspended THEN Now
             ELSE do_unpause([Now EXCEPT !.susp = IF f.task \in {"XPIPE", "XPOPEN"} THEN @ - 1 ELSE @], p)
    IN  /\ Receives /\ alive[p] = "yes"
        /\ Becomes(CloseAll(s, p, FD))
        /\ alive' = [alive EXCEPT ![p] = "dying"]

(* The kernel forgets the process.  What it did after do_exit() is left in *)
(* its slot of FS until fork() fills it again.                             *)
sys_xit(p) ==
    /\ alive[p] = "dying" /\ alive' = [alive EXCEPT ![p] = "no"]
    /\ fproc' = [fproc EXCEPT ![p].cum = 0]
    /\ UNCHANGED <<filp, inode, file_lock, nr_locks, susp_count, reviving, waiting, stuck, tty, lost>>

(* do_unpause() does not count susp_count down: MaxSuspCount bounds it. *)
Unpause(p) ==
    /\ Receives /\ alive[p] = "yes" /\ fproc[p].suspended /\ UNCHANGED alive
    /\ fproc[p].task \in {"XPIPE", "XPOPEN"} => susp_count < MaxSuspCount
    /\ Becomes(do_unpause(Now, p))

(* The terminal task has input for p; it sends when it finds FS receiving, *)
(* or when FS calls it.                                                    *)
TtyInput(p) ==
    /\ p \in tty.pending /\ tty.sending = Nil
    /\ tty' = [pending |-> tty.pending \ {p}, sending |-> p]
    /\ UNCHANGED <<fproc, filp, inode, file_lock, nr_locks, susp_count, reviving, waiting, stuck, alive, lost>>

do_revive ==
    /\ Receives /\ tty.sending # Nil /\ UNCHANGED alive
    /\ Becomes(revive([Now EXCEPT !.tty.sending = Nil], tty.sending))

(* get_work() takes the first one that is to be revived. *)
Revived == {p \in Proc : fproc[p].revived}

get_work ==
    /\ reviving # 0 /\ ~stuck /\ Revived # {}
    /\ LET p == First(Revived)
           s == [Now EXCEPT !.fproc[p] = Resumed(@), !.rev = @ - 1]
       IN  Finish(DoCall(s, p, fproc[p].call, FALSE), p)
    /\ UNCHANGED alive
-----------------------------------------------------------------------------
Empty == [fd |-> [d \in FD |-> Nil], suspended |-> FALSE, revived |-> FALSE,
          task |-> "none", call |-> NoCall, cum |-> 0]

(* One process, with nothing open. *)
Init ==
    /\ fproc = [p \in Proc |-> Empty]
    /\ filp = [f \in Filp |-> FreeFilp]
    /\ inode = [i \in Inode |-> FreeInode]
    /\ file_lock = [k \in 1 .. NR_LOCKS |-> Unused] /\ nr_locks = 0
    /\ susp_count = 0 /\ reviving = 0 /\ waiting = {} /\ stuck = FALSE
    /\ tty = [pending |-> {}, sending |-> Nil]
    /\ alive = [p \in Proc |-> IF p = 1 THEN "yes" ELSE "no"]
    /\ lost = [f \in Filp |-> 0]

UserCall(p) == \/ Transfer(p) \/ LockCall(p) \/ PipeCall(p) \/ OpenCall(p) \/ CloseCall(p)
               \/ SetFlags(p)

MMCall(p) == do_exec(p) \/ do_exit(p) \/ Unpause(p) \/ sys_xit(p) \/ \E c \in Proc : do_fork(p, c)

Next == (\E p \in Proc : UserCall(p) \/ MMCall(p) \/ TtyInput(p)) \/ do_revive \/ get_work

(* FS never stops while it has somebody to revive.  get_work is possible   *)
(* exactly if there is somebody, so this is its weak fairness.             *)
Fairness == <>[](reviving # 0) => []<><<get_work>>_vars

Spec == Init /\ [][Next]_vars /\ Fairness
-----------------------------------------------------------------------------
Hangs(p, task) == fproc[p].suspended /\ ~fproc[p].revived /\ fproc[p].task = task
HangsOn(p)     == filp[fproc[p].fd[fproc[p].call.fd]].ino

(* Nobody oversleeps: a process that hangs on a pipe, in an open() or on a *)
(* lock could not go on if it tried again.  pipe_check(), pipe_open(),     *)
(* do_close() and lock_op() each revive only some of those that hang; a    *)
(* writer that hangs is revived only when the pipe is empty and somebody   *)
(* reads from it, so for writers it is required that there is a reader.    *)
(* pipe_check() takes position 0 for an empty pipe, so a FIFO is left out  *)
(* while it has been written elsewhere than at its end, which happens if   *)
(* fcntl() takes O_APPEND from a writer.                                   *)
NobodyOversleeps ==
    \A p \in Proc :
        LET c == fproc[p].call
            i == HangsOn(p)
        IN  /\ Hangs(p, "XPIPE") /\ c.op = "READ" /\ ~inode[i].gap =>
                  filp[fproc[p].fd[c.fd]].pos >= inode[i].size /\ find_filp(Now, i, "W") # {}
            /\ Hangs(p, "XPIPE") /\ c.op = "WRITE" => find_filp(Now, i, "R") # {}
            /\ Hangs(p, "XPOPEN") =>
                  LET m == filp[fproc[p].fd[c.fd]].mode
                  IN  find_filp(Now, i, IF "W" \in m THEN "R" ELSE "W") = {}

(* The same for locks: a process that waits for a lock waits for somebody. *)
(* Whoever loses a lock, in whatever way, wakes those that waited for it;  *)
(* only an unlock that cuts one lock and finds no slot to split another    *)
(* leaves them, until somebody else wakes them all.                        *)
Blocked(p) == Hangs(p, "XLOCK") => Conflicts(Now, p, HangsOn(p), fproc[p].call.lock) # {}

SplitFails ==
    \E i \in Files, g \in Regions : LET x == unlock(Now, i, g)
                                  IN  x.r = "ENOLCK" /\ file_lock' = x.s.lk

LockWaiterBlocked == [][\A p \in Proc : Blocked(p) => Blocked(p)' \/ SplitFails]_vars

(* The readers and the writers of a pipe never all hang at the same time:  *)
(* each side is left to the other to revive.                               *)
OneSideHangs ==
    \A p, q \in Proc : /\ Hangs(p, "XPIPE") /\ Hangs(q, "XPIPE")
                       /\ HangsOn(p) = HangsOn(q) /\ ~inode[HangsOn(p)].gap
                       => fproc[p].call.op = fproc[q].call.op

(* Everybody who called FS is answered once: those without an answer are   *)
(* those FS holds as suspended, nobody gets an answer twice (FS would      *)
(* block in send()), and reviving counts those that get_work() will find.  *)
AnsweredOnce ==
    /\ waiting = {p \in Proc : fproc[p].suspended} /\ ~stuck
    /\ reviving = Cardinality(Revived)
    /\ \A p \in Revived : fproc[p].suspended

(* The terminal task and FS agree who is waiting for input: a read that a  *)
(* signal or an exit has cancelled is forgotten by the task, whenever the  *)
(* cancellation meets the REVIVE, and none that FS holds is lost.          *)
DeviceAgrees ==
    {p \in Proc : fproc[p].suspended /\ fproc[p].task = "TTY"} = tty.pending \cup ({tty.sending} \ {Nil})

(* susp_count is used as a limit by release() and to skip it altogether:   *)
(* it may be too high, never too low.                                      *)
SuspCounted == susp_count >= Cardinality({p \in Proc : Hangs(p, "XPIPE") \/ Hangs(p, "XPOPEN")})

(* filp and inode slots are in use exactly as long as somebody can reach   *)
(* them: through pipe(), open() of FIFOs with shared filps, dup, fork,     *)
(* exec, close and exit.  The ends of a pipe that a process makes after    *)
(* its do_exit() stay in its slot, and are lost when the slot is taken.    *)
SlotsCounted ==
    /\ \A f \in Filp : filp[f].count = Cardinality({x \in Proc \X FD : fproc[x[1]].fd[x[2]] = f}) + lost[f]
    /\ \A p \in Proc, d \in FD : alive[p] # "yes" /\ fproc[p].fd[d] # Nil
                                => filp[fproc[p].fd[d]].ino \in Pipes
    /\ \A i \in Inode : inode[i].count = Cardinality({f \in Filp : filp[f].count > 0 /\ filp[f].ino = i})

(* The two ends of a pipe agree about its contents although each has its   *)
(* own position: nobody has read past the end, and the next byte written   *)
(* goes behind the last.                                                   *)
EndsAgree ==
    \A f \in Filp : LET i == filp[f].ino
                    IN  filp[f].count > 0 /\ IsPipe(i) =>
                          /\ filp[f].mode = {"R"} => filp[f].pos <= inode[i].size
                          /\ filp[f].mode = {"W"} /\ i \in Pipes => filp[f].pos = inode[i].size

(* What each side of a pipe leaves to the other, it can count on.          *)
PipesSound == NobodyOversleeps /\ OneSideHangs /\ EndsAgree

(* The tables are well typed, and no slot is lost or freed too early.      *)
SlotsSound == TypeOK /\ SlotsCounted

(* Two processes never hold conflicting locks on a byte, a lock belongs to *)
(* a process that has the file open, and nr_locks counts the locks.        *)
LocksSound ==
    /\ nr_locks = Cardinality({k \in 1 .. NR_LOCKS : file_lock[k].type # "free"})
    /\ \A k \in 1 .. NR_LOCKS : LET l == file_lock[k]
                                IN  l.type # "free" =>
          /\ l.first <= l.last
          /\ \E d \in FD : fproc[l.pid].fd[d] # Nil /\ filp[fproc[l.pid].fd[d]].ino = l.ino
          /\ \A j \in 1 .. NR_LOCKS : LET h == file_lock[j]
                                      IN  h.type # "free" /\ h.ino = l.ino /\ Overlaps(h, l) /\ h.pid # l.pid
                                          => h.type = "RDLCK" /\ l.type = "RDLCK"

(* Reviving comes to an end: a process that is revived may hang again and  *)
(* revive others, but not for ever, and FS gets to receive again.          *)
RevivingEnds == reviving > 0 ~> reviving = 0

=============================================================================
