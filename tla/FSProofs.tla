------------------------------ MODULE FSProofs ------------------------------
(***************************************************************************)
(* The safety invariants of FS.tla, proved for every number of processes,  *)
(* descriptors, slots, bytes and locks.                                    *)
(*                                                                         *)
(* A call is a composition of functions of the tables, and so is its       *)
(* proof.  Typed, Held, Calls and Slots hold of the tables after every one *)
(* of them: Held counts the processes that wait for an answer, with P the  *)
(* one whose call FS is doing, Calls says what a suspended process hangs   *)
(* on, and Slots counts descriptors and filps.  LocksGo says what a call   *)
(* does to the locks: Apart and Owned of what it leaves follow from what   *)
(* it found.                                                               *)
(***************************************************************************)
EXTENDS FS, FiniteSetTheorems, WellFoundedInduction, TLAPS

Tasks == {"none", "XPIPE", "XPOPEN", "XLOCK", "TTY"}

ProcRec  == [fd : [FD -> Filp \cup {Nil}], suspended : BOOLEAN, revived : BOOLEAN,
             task : Tasks, call : Call, cum : Nat]
FilpRec  == [count : Nat, mode : SUBSET {"R", "W"}, ino : Inode \cup {NoInode},
             pos : Nat, nonblock : BOOLEAN, append : BOOLEAN]
InodeRec == [count : Nat, size : 0 .. PIPE_SIZE, rpos : Nat, wpos : Nat, gap : BOOLEAN]
LockRec  == [type : {"free", "RDLCK", "WRLCK"}, pid : Proc \cup {0},
             ino : Files \cup {NoInode}, first : Nat, last : Nat]
TtyRec   == [pending : SUBSET Proc, sending : Proc \cup {Nil}]

Tables == [fproc : [Proc -> ProcRec], filp : [Filp -> FilpRec], inode : [Inode -> InodeRec],
           lk : [1 .. NR_LOCKS -> LockRec], nr : 0 .. NR_LOCKS, susp : Nat, rev : Nat,
           waiting : SUBSET Proc, stuck : BOOLEAN, tty : TtyRec, lost : [Filp -> Nat]]

(* Who is suspended, who is about to be revived, who hangs on a pipe or in *)
(* an open(), and who on the terminal.                                     *)
Susp(s)  == {p \in Proc : s.fproc[p].suspended}
Rev(s)   == {p \in Proc : s.fproc[p].revived}
Piped(s) == {p \in Proc : /\ s.fproc[p].suspended /\ ~s.fproc[p].revived
                          /\ s.fproc[p].task \in {"XPIPE", "XPOPEN"}}
Typing(s) == {p \in Proc : s.fproc[p].suspended /\ s.fproc[p].task = "TTY"}

(* FS owes an answer to those that are suspended and to P. *)
Held(s, P) ==
    /\ s.waiting = Susp(s) \cup P /\ P \cap Susp(s) = {} /\ s.stuck = FALSE
    /\ s.rev = Cardinality(Rev(s)) /\ Rev(s) \subseteq Susp(s)
    /\ s.susp >= Cardinality(Piped(s))

(* The terminal knows those that wait for it. *)
Device(s) ==
    /\ Typing(s) = s.tty.pending \cup ({s.tty.sending} \ {Nil})
    /\ s.tty.sending \notin s.tty.pending

(* A request of fcntl(). *)
Sane(q) == q.type # "none" /\ q.first <= q.last

(* What a suspended process hangs on. *)
CallOf(s, r) ==
    LET f == s.filp[r.fd[r.call.fd]]
    IN  /\ r.fd[r.call.fd] # Nil
        /\ r.task # "none"
        /\ r.revived => r.task \in {"XPIPE", "XLOCK"}
        /\ r.task = "XPIPE"  => /\ IsPipe(f.ino) /\ r.call.op \in {"READ", "WRITE"}
                                /\ (IF r.call.op = "READ" THEN "R" ELSE "W") \in f.mode
        /\ r.task = "XPOPEN" => f.ino \in Fifos /\ r.call.op = "OPEN"
        /\ r.task = "XLOCK"  => /\ f.ino \in Files /\ r.call.op = "FCNTL"
                                /\ Sane(r.call.lock)
        /\ r.task = "TTY"    => f.ino \in Ttys /\ r.call.op \in {"READ", "WRITE"}

Calls(s) == \A p \in Proc : s.fproc[p].suspended => CallOf(s, s.fproc[p])

(* Who has filp f, and which filps are of inode i; what is lost counts as  *)
(* had by nobody.                                                          *)
Had(s, f)   == {x \in Proc \X FD : s.fproc[x[1]].fd[x[2]] = f}
Adrift(n)   == IF n \in Nat THEN {Nil} \X (1 .. n) ELSE {}
Refs(s, f)  == Had(s, f) \cup Adrift(s.lost[f])
Opens(s, i) == {f \in Filp : s.filp[f].count > 0 /\ s.filp[f].ino = i}

Slots(s) ==
    /\ \A f \in Filp : s.filp[f].count = Cardinality(Refs(s, f))
    /\ \A i \in Inode : s.inode[i].count = Cardinality(Opens(s, i))
    /\ \A f \in Filp : s.filp[f].count > 0 => s.filp[f].ino \in Inode
    /\ \A f \in Filp : s.filp[f].count > 0 /\ IsPipe(s.filp[f].ino) =>
                          s.filp[f].mode \in {{"R"}, {"W"}}

Used(s) == {k \in 1 .. NR_LOCKS : s.lk[k].type # "free"}
LocksCounted(s) == s.nr = Cardinality(Used(s))

Good(s, P) == s \in Tables /\ Held(s, P) /\ Device(s) /\ Calls(s) /\ Slots(s) /\ LocksCounted(s)

(* A process that is not there, or is going, has nothing but pipes. *)
OnlyPipes(s, p) ==
    \A d \in FD : s.fproc[p].fd[d] # Nil => s.filp[s.fproc[p].fd[d]].ino \in Pipes

Idle(s, al) == \A p \in Proc : al[p] # "yes" => OnlyPipes(s, p)

Tame(s, t, p) == OnlyPipes(s, p) => OnlyPipes(t, p)

-----------------------------------------------------------------------------
(* Steps that leave the files alone, and steps that leave alone who hangs. *)
SameFiles(s, t) ==
    /\ t.filp = s.filp /\ t.inode = s.inode /\ t.lk = s.lk /\ t.nr = s.nr /\ t.lost = s.lost
    /\ \A p \in Proc : t.fproc[p].fd = s.fproc[p].fd

SameHang(s, t) ==
    /\ t.susp = s.susp /\ t.rev = s.rev /\ t.waiting = s.waiting /\ t.stuck = s.stuck /\ t.tty = s.tty /\ t.lost = s.lost
    /\ \A p \in Proc : /\ t.fproc[p].suspended = s.fproc[p].suspended
                       /\ t.fproc[p].revived = s.fproc[p].revived
                       /\ t.fproc[p].task = s.fproc[p].task /\ t.fproc[p].call = s.fproc[p].call

(* What p's descriptors stand for is the same. *)
Sees(s, t, p) ==
    \A d \in FD : s.fproc[p].fd[d] # Nil =>
        /\ t.fproc[p].fd[d] # Nil
        /\ t.filp[t.fproc[p].fd[d]].ino = s.filp[s.fproc[p].fd[d]].ino
        /\ t.filp[t.fproc[p].fd[d]].mode = s.filp[s.fproc[p].fd[d]].mode

(* p's record while it hangs. *)
Hung(s, p, task, c) == [s.fproc[p] EXCEPT !.suspended = TRUE, !.task = task, !.call = c]

(* All that a call of p does to the others is to wake some of them.        *)
Stays(s, q) == s.fproc[q].suspended /\ ~s.fproc[q].revived
Others(s, t, p) ==
    /\ Susp(t) \subseteq Susp(s) \cup {p}
    /\ \A q \in Proc : q # p => t.fproc[q].fd = s.fproc[q].fd /\ Sees(s, t, q)
    /\ \A q \in Proc : q # p /\ Stays(t, q) => t.fproc[q] = s.fproc[q]

-----------------------------------------------------------------------------
(* Numbers. *)
LEMMA Domains == /\ NR_PROCS \in Nat \ {0} /\ OPEN_MAX \in Nat \ {0} /\ NR_FILPS \in Nat \ {0}
                 /\ NR_LOCKS \in Nat /\ Nil = 0 /\ Nil \notin Filp /\ Nil \notin Proc
                 /\ IsFiniteSet(Proc) /\ IsFiniteSet(FD) /\ IsFiniteSet(Filp)
                 /\ IsFiniteSet(1 .. NR_LOCKS)
  <1>1. NR_PROCS \in Nat \ {0} /\ OPEN_MAX \in Nat \ {0} /\ NR_FILPS \in Nat \ {0} /\ NR_LOCKS \in Nat
    BY FSAssumption
  <1>2. IsFiniteSet(1 .. NR_PROCS) /\ IsFiniteSet(0 .. OPEN_MAX - 1) /\ IsFiniteSet(1 .. NR_FILPS)
        /\ IsFiniteSet(1 .. NR_LOCKS)
    BY <1>1, FS_Interval
  <1> QED BY <1>1, <1>2 DEF Nil, Proc, FD, Filp

LEMMA SubFinite ==
    ASSUME NEW S, IsFiniteSet(S), NEW T, T \subseteq S
    PROVE  IsFiniteSet(T) /\ Cardinality(T) \in Nat /\ Cardinality(T) <= Cardinality(S)
  BY FS_Subset, FS_CardinalityType

(* The first of a set of numbers is one of them. *)
LEMMA FirstIs ==
    ASSUME NEW S \in SUBSET Nat, S # {}
    PROVE  First(S) \in S /\ \A x \in S : First(S) <= x
  <1>1. PICK x \in S : \A y \in S : ~(<<y, x>> \in OpToRel(<, Nat))
    BY NatLessThanWellFounded, WFMin
  <1>2. \A y \in S : ~(y < x)
    BY <1>1 DEF OpToRel
  <1>3. \A y \in S : x <= y
    BY <1>2
  <1> QED BY <1>3 DEF First

(* Induction up to n: M is the set of numbers for which it holds. *)
LEMMA Upwards ==
    ASSUME NEW n \in Nat, NEW M, 0 \in M, \A k \in 0 .. n : k < n /\ k \in M => k + 1 \in M
    PROVE  \A k \in 0 .. n : k \in M
  <1> DEFINE B == {k \in 0 .. n : k \notin M}
  <1>1. ASSUME B # {} PROVE FALSE
    <2>1. First(B) \in B /\ \A x \in B : First(B) <= x
      BY <1>1, FirstIs
    <2> DEFINE k == First(B)
    <2>2. k \in 0 .. n /\ k \notin M /\ k # 0
      BY <2>1
    <2>3. k - 1 \in 0 .. n /\ k - 1 < n /\ k - 1 \notin B
      BY <2>1, <2>2
    <2>4. k - 1 \in M
      BY <2>3
    <2>5. (k - 1) + 1 \in M
      BY <2>3, <2>4
    <2> QED BY <2>2, <2>5
  <1> QED BY <1>1

-----------------------------------------------------------------------------
(* What holds of the tables depends on few of them. *)
LEMMA FilesKept ==
    ASSUME NEW s, NEW t, SameFiles(s, t)
    PROVE  /\ Slots(s) => Slots(t)
           /\ LocksCounted(s) => LocksCounted(t)
           /\ \A f : Refs(t, f) = Refs(s, f)
  <1>1. \A f : Refs(t, f) = Refs(s, f)
    BY DEF Refs, Had, SameFiles
  <1>2. \A i : Opens(t, i) = Opens(s, i)
    BY DEF Opens, SameFiles
  <1>3. Used(t) = Used(s)
    BY DEF Used, SameFiles
  <1>4. Slots(s) => Slots(t)
    BY <1>1, <1>2 DEF Slots, SameFiles
  <1> QED BY <1>1, <1>3, <1>4 DEF LocksCounted, SameFiles

LEMMA HangKept ==
    ASSUME NEW s, NEW t, SameHang(s, t), NEW P
    PROVE  /\ Held(s, P) => Held(t, P)
           /\ Device(s) => Device(t)
           /\ Susp(t) = Susp(s) /\ Rev(t) = Rev(s) /\ Piped(t) = Piped(s) /\ Typing(t) = Typing(s)
  <1>1. Susp(t) = Susp(s) /\ Rev(t) = Rev(s) /\ Piped(t) = Piped(s) /\ Typing(t) = Typing(s)
    BY DEF Susp, Rev, Piped, Typing, SameHang
  <1> QED BY <1>1 DEF Held, Device, SameHang

LEMMA CallsKept ==
    ASSUME NEW s \in Tables, NEW t \in Tables, SameHang(s, t), Calls(s),
           \A p \in Proc : s.fproc[p].suspended => Sees(s, t, p)
    PROVE  Calls(t)
  <1> SUFFICES ASSUME NEW p \in Proc, t.fproc[p].suspended
               PROVE  CallOf(t, t.fproc[p])
    BY DEF Calls
  <1> DEFINE r == s.fproc[p]
             q == t.fproc[p]
             d == r.call.fd
  <1>1. r.suspended /\ q.revived = r.revived /\ q.task = r.task /\ q.call = r.call
    BY DEF SameHang
  <1>2. r \in ProcRec /\ d \in FD
    BY DEF Tables, ProcRec, Call
  <1>3. CallOf(s, r)
    BY <1>1 DEF Calls
  <1>4. r.fd[d] # Nil
    BY <1>3 DEF CallOf
  <1>5. q.fd[d] # Nil /\ t.filp[q.fd[d]].ino = s.filp[r.fd[d]].ino
        /\ t.filp[q.fd[d]].mode = s.filp[r.fd[d]].mode
    BY <1>1, <1>2, <1>4 DEF Sees
  <1> QED BY <1>1, <1>3, <1>5 DEF CallOf

-----------------------------------------------------------------------------
(* Answers and suspension. *)
LEMMA ReplyKeeps ==
    ASSUME NEW s, NEW p \in Proc, Good(s, {p}), NEW t, t = reply(s, p)
    PROVE  Good(t, {})
  <1>1. s \in Tables /\ p \in s.waiting /\ s.stuck = FALSE
    BY DEF Good, Held
  <1>2. t = [s EXCEPT !.waiting = s.waiting \ {p}, !.stuck = FALSE]
    BY <1>1 DEF reply, Tables
  <1>3. t \in Tables /\ t.waiting = s.waiting \ {p} /\ t.stuck = FALSE /\ t.fproc = s.fproc
        /\ t.rev = s.rev /\ t.susp = s.susp /\ t.tty = s.tty /\ t.lost = s.lost /\ t.filp = s.filp
    BY <1>1, <1>2 DEF Tables
  <1>4. SameFiles(s, t)
    BY <1>1, <1>2 DEF SameFiles, Tables
  <1>5. Susp(t) = Susp(s) /\ Rev(t) = Rev(s) /\ Piped(t) = Piped(s) /\ Typing(t) = Typing(s)
    BY <1>3 DEF Susp, Rev, Piped, Typing
  <1>6. Held(t, {})
    BY <1>3, <1>5 DEF Good, Held
  <1>7. Device(t)
    BY <1>3, <1>5 DEF Good, Device
  <1>8. Calls(t)
    <2>1. ASSUME NEW q \in Proc, t.fproc[q].suspended PROVE CallOf(t, t.fproc[q])
      <3>1. CallOf(s, t.fproc[q])
        BY <1>3, <2>1 DEF Good, Calls
      <3> QED BY <1>3, <3>1 DEF CallOf
    <2> QED BY <2>1 DEF Calls
  <1> QED BY <1>3, <1>4, <1>6, <1>7, <1>8, FilesKept DEF Good

(* A call that makes a process wait.  The terminal is told of it, and only *)
(* it.                                                                     *)
LEMMA SuspendIs ==
    ASSUME NEW s \in Tables, NEW p \in Proc, NEW task \in Tasks, NEW c \in Call,
           NEW t, t = suspend(s, p, task, c)
    PROVE  /\ t \in Tables /\ SameFiles(s, t)
           /\ t.fproc = [s.fproc EXCEPT ![p] = Hung(s, p, task, c)]
           /\ t.susp = IF task \in {"XPIPE", "XPOPEN"} THEN s.susp + 1 ELSE s.susp
           /\ t.rev = s.rev /\ t.waiting = s.waiting /\ t.stuck = s.stuck /\ t.tty = s.tty /\ t.lost = s.lost
  <1> DEFINE r == Hung(s, p, task, c)
             n == IF task \in {"XPIPE", "XPOPEN"} THEN s.susp + 1 ELSE s.susp
  <1>1. s.fproc[p] \in ProcRec /\ s.susp \in Nat
    BY DEF Tables
  <1>2. r \in ProcRec /\ r.fd = s.fproc[p].fd
    BY <1>1 DEF ProcRec, Hung
  <1>3. n \in Nat
    BY <1>1
  <1>4. t = [s EXCEPT !.fproc = [s.fproc EXCEPT ![p] = r], !.susp = n]
    BY DEF suspend, Tables, Hung
  <1> HIDE DEF r, n
  <1>5. [s.fproc EXCEPT ![p] = r] \in [Proc -> ProcRec]
    BY <1>2 DEF Tables
  <1>6. t \in Tables
    BY <1>3, <1>4, <1>5 DEF Tables
  <1>7. t.fproc = [s.fproc EXCEPT ![p] = r] /\ t.susp = n
        /\ t.rev = s.rev /\ t.waiting = s.waiting /\ t.stuck = s.stuck /\ t.tty = s.tty /\ t.lost = s.lost
        /\ t.filp = s.filp /\ t.inode = s.inode /\ t.lk = s.lk /\ t.nr = s.nr
    BY <1>4 DEF Tables
  <1>8. SameFiles(s, t)
    BY <1>2, <1>7 DEF SameFiles, Tables
  <1> QED BY <1>6, <1>7, <1>8 DEF r, n

LEMMA SuspendKeeps ==
    ASSUME NEW s, NEW p \in Proc, Good(s, {p}), NEW task \in Tasks \ {"none", "TTY"}, NEW c \in Call,
           CallOf(s, Hung(s, p, task, c)),
           NEW t, t = suspend(s, p, task, c)
    PROVE  Good(t, {})
  <1> DEFINE r == Hung(s, p, task, c)
  <1>1. s \in Tables /\ task \in Tasks
    BY DEF Good
  <1>2. t \in Tables /\ SameFiles(s, t) /\ t.fproc = [s.fproc EXCEPT ![p] = r]
        /\ t.susp = (IF task \in {"XPIPE", "XPOPEN"} THEN s.susp + 1 ELSE s.susp)
        /\ t.rev = s.rev /\ t.waiting = s.waiting /\ t.stuck = s.stuck /\ t.tty = s.tty /\ t.lost = s.lost
    BY <1>1, SuspendIs
  <1>3. s.fproc \in [Proc -> ProcRec] /\ s.fproc[p] \in ProcRec /\ s.susp \in Nat
    BY <1>1 DEF Tables
  <1>4. r.suspended = TRUE /\ r.task = task /\ r.revived = s.fproc[p].revived
    BY <1>3 DEF ProcRec, Hung
  <1> HIDE DEF r
  <1>5. t.fproc[p] = r /\ \A q \in Proc : q # p => t.fproc[q] = s.fproc[q]
    BY <1>2, <1>3
  <1>6. p \notin Susp(s) /\ p \notin Rev(s)
    BY DEF Good, Held
  <1>7. ~s.fproc[p].suspended /\ ~s.fproc[p].revived
    BY <1>3, <1>6 DEF Susp, Rev, ProcRec
  <1>8. Susp(t) = Susp(s) \cup {p}
    BY <1>4, <1>5 DEF Susp
  <1>9. Rev(t) = Rev(s)
    BY <1>4, <1>5 DEF Rev
  <1>10. Typing(t) = Typing(s)
    BY <1>4, <1>5, <1>7 DEF Typing
  <1>11. Piped(t) = IF task \in {"XPIPE", "XPOPEN"} THEN Piped(s) \cup {p} ELSE Piped(s)
    BY <1>4, <1>5, <1>7 DEF Piped
  <1>12. IsFiniteSet(Piped(s)) /\ p \notin Piped(s) /\ Cardinality(Piped(s)) \in Nat
    BY <1>7, Domains, SubFinite DEF Piped
  <1>13. Cardinality(Piped(s) \cup {p}) = Cardinality(Piped(s)) + 1
    BY <1>12, FS_AddElement
  <1>14. t.susp >= Cardinality(Piped(t))
    <2>1. s.susp >= Cardinality(Piped(s))
      BY DEF Good, Held
    <2> QED BY <1>2, <1>3, <1>11, <1>12, <1>13, <2>1
  <1>15. Held(t, {})
    BY <1>2, <1>8, <1>9, <1>14 DEF Good, Held
  <1>16. Device(t)
    BY <1>2, <1>10 DEF Good, Device
  <1>17. Calls(t)
    <2>1. t.filp = s.filp
      BY <1>2 DEF SameFiles
    <2>2. CallOf(t, r)
      BY <2>1 DEF CallOf, r
    <2>3. ASSUME NEW q \in Proc, q # p, t.fproc[q].suspended PROVE CallOf(t, t.fproc[q])
      <3>1. CallOf(s, t.fproc[q])
        BY <1>5, <2>3 DEF Good, Calls
      <3> QED BY <2>1, <3>1 DEF CallOf
    <2> QED BY <1>5, <2>2, <2>3 DEF Calls
  <1> QED BY <1>2, <1>15, <1>16, <1>17, FilesKept DEF Good

-----------------------------------------------------------------------------
(* Reviving. *)
Again(s, Q) == {p \in Q : s.fproc[p].suspended /\ ~s.fproc[p].revived /\ s.fproc[p].task \in {"XPIPE", "XLOCK"}}
Over(s, Q)  == {p \in Q : s.fproc[p].suspended /\ ~s.fproc[p].revived /\ s.fproc[p].task \notin {"XPIPE", "XLOCK"}}

(* t is s after those of Q that hang have been revived. *)
Awake(s, Q, t) ==
    /\ \A p \in Proc : t.fproc[p] = IF p \in Again(s, Q) THEN [s.fproc[p] EXCEPT !.revived = TRUE]
                                    ELSE IF p \in Over(s, Q) THEN Resumed(s.fproc[p]) ELSE s.fproc[p]
    /\ t.waiting = s.waiting \ Over(s, Q)
    /\ t.rev = s.rev + Cardinality(Again(s, Q))

LEMMA ReviveAllIs ==
    ASSUME NEW s \in Tables, NEW P, Held(s, P), NEW Q \in SUBSET Proc, NEW t, t = ReviveAll(s, Q)
    PROVE  /\ t \in Tables /\ SameFiles(s, t) /\ Awake(s, Q, t)
           /\ t.susp = s.susp /\ t.stuck = FALSE /\ t.tty = s.tty /\ t.lost = s.lost
  <1> DEFINE A == Again(s, Q)
             O == Over(s, Q)
             F == [p \in Proc |-> IF p \in A THEN [s.fproc[p] EXCEPT !.revived = TRUE]
                                  ELSE IF p \in O THEN Resumed(s.fproc[p]) ELSE s.fproc[p]]
             H == {p \in Q : s.fproc[p].suspended /\ ~s.fproc[p].revived}
  <1>1. /\ A = {p \in H : s.fproc[p].task \in {"XPIPE", "XLOCK"}}
        /\ O = H \ {p \in H : s.fproc[p].task \in {"XPIPE", "XLOCK"}}
    BY DEF Again, Over
  <1>2. O \subseteq s.waiting
    BY DEF Over, Held, Susp
  <1>3. s.stuck = FALSE /\ s.rev \in Nat /\ s.waiting \in SUBSET Proc
    BY DEF Held, Tables
  <1>4. t = [s EXCEPT !.fproc = F, !.rev = s.rev + Cardinality(A), !.waiting = s.waiting \ O,
                      !.stuck = s.stuck \/ ~(O \subseteq s.waiting)]
    BY <1>1, Zenon DEF ReviveAll
  <1>5. Cardinality(A) \in Nat
    BY Domains, SubFinite DEF Again
  <1>6. F \in [Proc -> ProcRec]
    <2>1. \A p \in Proc : s.fproc[p] \in ProcRec
      BY DEF Tables
    <2>2. NoCall \in Call
      BY Domains DEF NoCall, NoLock, Call, LockReq, FD
    <2>3. \A p \in Proc : [s.fproc[p] EXCEPT !.revived = TRUE] \in ProcRec
      BY <2>1 DEF ProcRec
    <2>4. \A p \in Proc : Resumed(s.fproc[p]) \in ProcRec
      BY <2>1, <2>2 DEF ProcRec, Resumed, Tasks
    <2> QED BY <2>1, <2>3, <2>4
  <1>7. \A p \in Proc : F[p].fd = s.fproc[p].fd
    <2>1. \A p \in Proc : s.fproc[p] \in ProcRec
      BY DEF Tables
    <2> QED BY <2>1 DEF Resumed, ProcRec
  <1> DEFINE X == s.stuck \/ ~(O \subseteq s.waiting)
             r == s.rev + Cardinality(A)
             W == s.waiting \ O
  <1>8. X = FALSE
    BY <1>2, <1>3
  <1>9. r \in Nat /\ W \in SUBSET Proc
    BY <1>3, <1>5
  <1>10. t = [s EXCEPT !.fproc = F, !.rev = r, !.waiting = W, !.stuck = X]
    BY <1>4
  <1> HIDE DEF F, r, W, X
  <1>11. t.fproc = F /\ t.rev = r /\ t.waiting = W /\ t.stuck = FALSE /\ t.susp = s.susp /\ t.tty = s.tty /\ t.lost = s.lost
         /\ t.filp = s.filp /\ t.inode = s.inode /\ t.lk = s.lk /\ t.nr = s.nr
    BY <1>8, <1>10 DEF Tables
  <1>12. t \in Tables
    BY <1>6, <1>8, <1>9, <1>10 DEF Tables
  <1>13. SameFiles(s, t)
    BY <1>7, <1>11 DEF SameFiles
  <1>14. Awake(s, Q, t)
    BY <1>11 DEF Awake, F, r, W
  <1> QED BY <1>11, <1>12, <1>13, <1>14

(* Those that hang on the terminal are not among them. *)
LEMMA ReviveKeeps ==
    ASSUME NEW s, NEW P, Good(s, P), NEW Q \in SUBSET Proc, Q \cap Typing(s) = {},
           NEW t, t = ReviveAll(s, Q)
    PROVE  /\ Good(t, P) /\ SameFiles(s, t)
           /\ Piped(t) = Piped(s) \ Q /\ Susp(t) = Susp(s) \ Over(s, Q)
           /\ t.susp = s.susp /\ Awake(s, Q, t)
  <1> DEFINE A == Again(s, Q)
             O == Over(s, Q)
  <1>1. s \in Tables /\ Held(s, P)
    BY DEF Good
  <1>2. t \in Tables /\ SameFiles(s, t) /\ Awake(s, Q, t) /\ t.susp = s.susp /\ t.stuck = FALSE /\ t.tty = s.tty /\ t.lost = s.lost
    BY <1>1, ReviveAllIs
  <1>3. \A p \in Proc : s.fproc[p] \in ProcRec
    BY <1>1 DEF Tables
  <1>4. /\ \A p \in A : t.fproc[p] = [s.fproc[p] EXCEPT !.revived = TRUE]
        /\ \A p \in O : t.fproc[p] = Resumed(s.fproc[p])
        /\ \A p \in Proc : p \notin A /\ p \notin O => t.fproc[p] = s.fproc[p]
        /\ A \subseteq Proc /\ O \subseteq Proc /\ A \cap O = {}
    BY <1>2 DEF Awake, Again, Over
  <1>5. \A p \in A : s.fproc[p].suspended /\ ~s.fproc[p].revived /\ s.fproc[p].task \in {"XPIPE", "XLOCK"}
    BY DEF Again
  <1>6. \A p \in O : s.fproc[p].suspended /\ ~s.fproc[p].revived /\ s.fproc[p].task \notin {"XPIPE", "XLOCK", "TTY"}
    BY <1>4 DEF Over, Typing
  <1> HIDE DEF A, O
  <1>7. \A p \in A : /\ t.fproc[p].suspended /\ t.fproc[p].revived = TRUE /\ t.fproc[p].task = s.fproc[p].task
                     /\ t.fproc[p].call = s.fproc[p].call /\ t.fproc[p].fd = s.fproc[p].fd
    <2>1. ASSUME NEW p \in A
          PROVE  /\ t.fproc[p].suspended /\ t.fproc[p].revived = TRUE /\ t.fproc[p].task = s.fproc[p].task
                 /\ t.fproc[p].call = s.fproc[p].call /\ t.fproc[p].fd = s.fproc[p].fd
      <3>1. s.fproc[p] \in ProcRec /\ s.fproc[p].suspended
        BY <1>3, <1>4, <1>5
      <3>2. s.fproc[p].suspended = TRUE
        BY <3>1 DEF ProcRec
      <3>3. t.fproc[p] = [s.fproc[p] EXCEPT !.revived = TRUE]
        BY <1>4
      <3> QED BY <3>1, <3>2, <3>3 DEF ProcRec
    <2> QED BY <2>1
  <1>8. \A p \in O : ~t.fproc[p].suspended /\ t.fproc[p].revived = FALSE
    <2>1. ASSUME NEW p \in O PROVE ~t.fproc[p].suspended /\ t.fproc[p].revived = FALSE
      <3>1. s.fproc[p] \in ProcRec
        BY <1>3, <1>4
      <3> QED BY <1>4, <3>1 DEF ProcRec, Resumed
    <2> QED BY <2>1
  <1>9. A = {p \in Q : s.fproc[p].suspended /\ ~s.fproc[p].revived /\ s.fproc[p].task \in {"XPIPE", "XLOCK"}}
        /\ O = {p \in Q : s.fproc[p].suspended /\ ~s.fproc[p].revived /\ s.fproc[p].task \notin {"XPIPE", "XLOCK"}}
    BY DEF Again, Over, A, O
  <1>10. t.waiting = s.waiting \ O /\ t.rev = s.rev + Cardinality(A)
    BY <1>2 DEF Awake, A, O
  <1>11. Susp(t) = Susp(s) \ O
    BY <1>4, <1>5, <1>7, <1>8 DEF Susp
  <1>12. Rev(t) = Rev(s) \cup A
    BY <1>4, <1>6, <1>7, <1>8 DEF Rev
  <1>13. Piped(t) = Piped(s) \ Q
    <2>1. \A p \in Proc : p \in A => p \notin Piped(t) /\ p \in Q
      BY <1>7, <1>9 DEF Piped
    <2>2. \A p \in Proc : p \in O => p \notin Piped(t) /\ p \in Q
      BY <1>8, <1>9 DEF Piped
    <2>3. \A p \in Proc : p \notin A /\ p \notin O => (p \in Piped(t) <=> p \in Piped(s))
      BY <1>4 DEF Piped
    <2>4. \A p \in Proc : p \notin A /\ p \notin O => p \notin Q \/ p \notin Piped(s)
      BY <1>9 DEF Piped
    <2> QED BY <2>1, <2>2, <2>3, <2>4 DEF Piped
  <1>14. Typing(t) = Typing(s)
    BY <1>4, <1>5, <1>6, <1>7, <1>8 DEF Typing
  <1>15. Device(t)
    BY <1>2, <1>14 DEF Good, Device
  <1>16. Held(t, P)
    <2>1. t.waiting = Susp(t) \cup P /\ P \cap Susp(t) = {}
      <3>1. O \subseteq Susp(s)
        BY <1>4, <1>6 DEF Susp
      <3>2. s.waiting = Susp(s) \cup P /\ P \cap Susp(s) = {}
        BY <1>1 DEF Held
      <3> QED BY <1>10, <1>11, <3>1, <3>2
    <2>2. A \cap Rev(s) = {}
      BY <1>5 DEF Rev
    <2>3. IsFiniteSet(A) /\ IsFiniteSet(Rev(s)) /\ Cardinality(A) \in Nat /\ Cardinality(Rev(s)) \in Nat
      BY <1>4, Domains, SubFinite DEF Rev
    <2>4. Cardinality(Rev(t)) = Cardinality(Rev(s)) + Cardinality(A)
      <3>1. Cardinality(Rev(s) \cup A) = Cardinality(Rev(s)) + Cardinality(A) - Cardinality(Rev(s) \cap A)
        BY <2>3, FS_Union
      <3>2. Cardinality(Rev(s) \cap A) = 0
        BY <2>2, FS_EmptySet
      <3> QED BY <1>12, <2>3, <3>1, <3>2
    <2>5. t.rev = Cardinality(Rev(t))
      BY <1>1, <1>10, <2>4 DEF Held
    <2>6. Rev(t) \subseteq Susp(t)
      <3>1. A \subseteq Susp(t)
        BY <1>4, <1>7 DEF Susp
      <3>2. Rev(s) \subseteq Susp(s) /\ Rev(s) \cap O = {}
        BY <1>1, <1>6 DEF Held, Rev
      <3> QED BY <1>11, <1>12, <3>1, <3>2
    <2>7. t.susp >= Cardinality(Piped(t))
      <3>1. IsFiniteSet(Piped(s)) /\ Cardinality(Piped(s)) \in Nat
        BY Domains, SubFinite DEF Piped
      <3>2. Cardinality(Piped(t)) \in Nat /\ Cardinality(Piped(t)) <= Cardinality(Piped(s))
        BY <1>13, <3>1, SubFinite
      <3>3. s.susp >= Cardinality(Piped(s)) /\ s.susp \in Nat
        BY <1>1 DEF Held, Tables
      <3> QED BY <1>2, <3>1, <3>2, <3>3
    <2> QED BY <1>2, <2>1, <2>5, <2>6, <2>7 DEF Held
  <1>17. Calls(t)
    <2>1. t.filp = s.filp
      BY <1>2 DEF SameFiles
    <2>2. ASSUME NEW p \in Proc, t.fproc[p].suspended PROVE CallOf(t, t.fproc[p])
      <3>1. p \notin O
        BY <1>8, <2>2
      <3>2. CASE p \in A
        <4>1. CallOf(s, s.fproc[p])
          BY <1>5, <3>2 DEF Good, Calls
        <4>2. s.fproc[p].task \in {"XPIPE", "XLOCK"}
          BY <1>5, <3>2
        <4> QED BY <1>7, <2>1, <3>2, <4>1, <4>2 DEF CallOf
      <3>3. CASE p \notin A
        <4>1. CallOf(s, t.fproc[p])
          BY <1>4, <2>2, <3>1, <3>3 DEF Good, Calls
        <4> QED BY <2>1, <4>1 DEF CallOf
      <3> QED BY <3>2, <3>3
    <2> QED BY <2>2 DEF Calls
  <1>18. Good(t, P)
    BY <1>2, <1>15, <1>16, <1>17, FilesKept DEF Good
  <1> QED BY <1>2, <1>11, <1>13, <1>18 DEF O

-----------------------------------------------------------------------------
(* What a call does to the others. *)
LEMMA OthersNone == ASSUME NEW s, NEW p PROVE Others(s, s, p)
  BY DEF Others, Sees

LEMMA OthersThen ==
    ASSUME NEW s, NEW t, NEW u, NEW p, Others(s, t, p), Others(t, u, p)
    PROVE  Others(s, u, p)
  <1>1. Susp(u) \subseteq Susp(s) \cup {p}
    BY DEF Others
  <1>2. ASSUME NEW q \in Proc, q # p PROVE u.fproc[q].fd = s.fproc[q].fd /\ Sees(s, u, q)
    <2>1. t.fproc[q].fd = s.fproc[q].fd /\ Sees(s, t, q) /\ u.fproc[q].fd = t.fproc[q].fd /\ Sees(t, u, q)
      BY <1>2 DEF Others
    <2> QED BY <2>1 DEF Sees
  <1>3. ASSUME NEW q \in Proc, q # p, Stays(u, q) PROVE u.fproc[q] = s.fproc[q]
    <2>1. u.fproc[q] = t.fproc[q]
      BY <1>3 DEF Others
    <2>2. Stays(t, q)
      BY <1>3, <2>1 DEF Stays
    <2>3. t.fproc[q] = s.fproc[q]
      BY <1>3, <2>2 DEF Others
    <2> QED BY <2>1, <2>3
  <1> QED BY <1>1, <1>2, <1>3 DEF Others

LEMMA OthersFiles ==
    ASSUME NEW s, NEW t, SameFiles(s, t), NEW p, Susp(t) \subseteq Susp(s) \cup {p},
           \A q \in Proc : q # p /\ Stays(t, q) => t.fproc[q] = s.fproc[q]
    PROVE  Others(s, t, p)
  <1>1. \A q \in Proc : t.fproc[q].fd = s.fproc[q].fd /\ Sees(s, t, q)
    BY DEF SameFiles, Sees
  <1> QED BY <1>1 DEF Others

LEMMA AwakeStays ==
    ASSUME NEW s \in Tables, NEW t, NEW Q, Awake(s, Q, t)
    PROVE  \A q \in Proc : Stays(t, q) => t.fproc[q] = s.fproc[q]
  <1>1. ASSUME NEW q \in Proc, Stays(t, q) PROVE t.fproc[q] = s.fproc[q]
    <2>1. s.fproc[q] \in ProcRec
      BY DEF Tables
    <2>2. t.fproc[q] = IF q \in Again(s, Q) THEN [s.fproc[q] EXCEPT !.revived = TRUE]
                       ELSE IF q \in Over(s, Q) THEN Resumed(s.fproc[q]) ELSE s.fproc[q]
      BY DEF Awake
    <2>3. q \notin Again(s, Q)
      <3>1. [s.fproc[q] EXCEPT !.revived = TRUE].revived = TRUE
        BY <2>1 DEF ProcRec
      <3> QED BY <1>1, <2>2, <3>1 DEF Stays
    <2>4. q \notin Over(s, Q)
      <3>1. Resumed(s.fproc[q]).suspended = FALSE
        BY <2>1 DEF ProcRec, Resumed
      <3> QED BY <1>1, <2>2, <2>3, <3>1 DEF Stays
    <2> QED BY <2>2, <2>3, <2>4
  <1> QED BY <1>1

LEMMA OthersAwake ==
    ASSUME NEW s \in Tables, NEW t, SameFiles(s, t), NEW Q, Awake(s, Q, t), Susp(t) \subseteq Susp(s), NEW p
    PROVE  Others(s, t, p)
  BY AwakeStays, OthersFiles

-----------------------------------------------------------------------------
(* Kinds of inodes. *)
LEMMA Kinds == ASSUME NEW i PROVE /\ IsPipe(i) => i \notin Ttys /\ i \notin Files
                                  /\ i \in Files => i \notin Ttys
                                  /\ IsPipe(i) => i \in Inode
                                  /\ i \in Fifos => IsPipe(i) /\ i \notin Pipes
                                  /\ NoInode \notin Inode
  BY FSAssumption DEF IsPipe, Inode

(* Those that release() finds hang on a pipe. *)
LEMMA HangingIs ==
    ASSUME NEW s \in Tables, Calls(s), NEW i, IsPipe(i), NEW op \in {"READ", "WRITE", "OPEN"}
    PROVE  Hanging(s, i, op) \subseteq Piped(s)
  <1> SUFFICES ASSUME NEW p \in Hanging(s, i, op) PROVE p \in Piped(s)
    OBVIOUS
  <1> DEFINE r == s.fproc[p]
  <1>1. p \in Proc /\ r.suspended /\ ~r.revived /\ r.call.op = op /\ s.filp[r.fd[r.call.fd]].ino = i
    BY DEF Hanging
  <1>2. CallOf(s, r) /\ r.task \in Tasks
    BY <1>1 DEF Calls, Tables, ProcRec
  <1> HIDE DEF r
  <1>3. r.task # "TTY" /\ r.task # "XLOCK" /\ r.task # "none"
    BY <1>1, <1>2, Kinds DEF CallOf
  <1>4. r.task \in {"XPIPE", "XPOPEN"}
    BY <1>2, <1>3 DEF Tasks
  <1> QED BY <1>1, <1>4 DEF Piped, r

LEMMA ReleaseKeeps ==
    ASSUME NEW s, NEW P, Good(s, P), NEW i, IsPipe(i), NEW op \in {"READ", "WRITE", "OPEN"}, NEW count,
           NEW t, t = release(s, i, op, count)
    PROVE  /\ Good(t, P) /\ SameFiles(s, t)
           /\ Piped(t) = Piped(s) \ Released(s, i, op, count)
           /\ Susp(t) \subseteq Susp(s)
           /\ Awake(s, Released(s, i, op, count), t)
  <1> DEFINE Q == Released(s, i, op, count)
             u == ReviveAll(s, Q)
  <1>1. s \in Tables /\ Calls(s) /\ Held(s, P)
    BY DEF Good
  <1>2. Q \subseteq Hanging(s, i, op)
    BY DEF Released
  <1>3. Q \subseteq Piped(s) /\ Piped(s) \subseteq Proc
    BY <1>1, <1>2, HangingIs DEF Piped
  <1>4. Q \cap Typing(s) = {}
    BY <1>3 DEF Piped, Typing
  <1>5. Good(u, P) /\ SameFiles(s, u) /\ Piped(u) = Piped(s) \ Q /\ Susp(u) = Susp(s) \ Over(s, Q)
        /\ u.susp = s.susp /\ Awake(s, Q, u)
    BY <1>3, <1>4, ReviveKeeps
  <1>6. t = [u EXCEPT !.susp = u.susp - Cardinality(Q)]
    BY DEF release
  <1> HIDE DEF Q, u
  <1>7. IsFiniteSet(Piped(s)) /\ IsFiniteSet(Q) /\ Cardinality(Q) \in Nat /\ Cardinality(Piped(s)) \in Nat
        /\ Cardinality(Q) <= Cardinality(Piped(s))
    BY <1>3, Domains, SubFinite
  <1>8. Cardinality(Piped(s) \ Q) = Cardinality(Piped(s)) - Cardinality(Q)
    <2>1. Cardinality(Piped(s) \ Q) = Cardinality(Piped(s)) - Cardinality(Piped(s) \cap Q)
      BY <1>7, FS_Difference
    <2>2. Piped(s) \cap Q = Q
      BY <1>3
    <2> QED BY <2>1, <2>2
  <1>9. s.susp \in Nat /\ s.susp >= Cardinality(Piped(s))
    BY <1>1 DEF Held, Tables
  <1>10. u.susp - Cardinality(Q) \in Nat /\ u.susp - Cardinality(Q) >= Cardinality(Piped(u))
    BY <1>5, <1>7, <1>8, <1>9
  <1>11. u \in Tables
    BY <1>5 DEF Good
  <1>12. t \in Tables /\ t.susp = u.susp - Cardinality(Q) /\ t.fproc = u.fproc /\ t.filp = u.filp
         /\ t.inode = u.inode /\ t.lk = u.lk /\ t.nr = u.nr /\ t.rev = u.rev /\ t.waiting = u.waiting
         /\ t.stuck = u.stuck /\ t.tty = u.tty /\ t.lost = u.lost
    BY <1>6, <1>10, <1>11 DEF Tables
  <1>13. SameFiles(u, t)
    BY <1>12 DEF SameFiles
  <1>14. Susp(t) = Susp(u) /\ Rev(t) = Rev(u) /\ Piped(t) = Piped(u) /\ Typing(t) = Typing(u)
    BY <1>12 DEF Susp, Rev, Piped, Typing
  <1>15. Held(t, P)
    BY <1>5, <1>10, <1>12, <1>14 DEF Good, Held
  <1>16. Device(t)
    BY <1>5, <1>12, <1>14 DEF Good, Device
  <1>17. Calls(t)
    <2>1. ASSUME NEW p \in Proc, t.fproc[p].suspended PROVE CallOf(t, t.fproc[p])
      <3>1. CallOf(u, t.fproc[p])
        BY <1>5, <1>12, <2>1 DEF Good, Calls
      <3> QED BY <1>12, <3>1 DEF CallOf
    <2> QED BY <2>1 DEF Calls
  <1>18. Good(t, P)
    BY <1>5, <1>12, <1>13, <1>15, <1>16, <1>17, FilesKept DEF Good
  <1>19. SameFiles(s, t)
    BY <1>5, <1>12 DEF SameFiles
  <1>20. Awake(s, Q, t)
    BY <1>5, <1>12 DEF Awake
  <1> QED BY <1>5, <1>14, <1>18, <1>19, <1>20 DEF Q

LEMMA LockReviveKeeps ==
    ASSUME NEW s, NEW P, Good(s, P), NEW t, t = lock_revive(s)
    PROVE  /\ Good(t, P) /\ SameFiles(s, t) /\ Susp(t) \subseteq Susp(s)
           /\ Awake(s, {p \in Proc : s.fproc[p].suspended /\ s.fproc[p].task = "XLOCK"}, t)
  <1> DEFINE Q == {p \in Proc : s.fproc[p].suspended /\ s.fproc[p].task = "XLOCK"}
  <1>1. Q \in SUBSET Proc /\ Q \cap Typing(s) = {} /\ t = ReviveAll(s, Q)
    BY DEF Typing, lock_revive
  <1> HIDE DEF Q
  <1>2. Good(t, P) /\ SameFiles(s, t) /\ Susp(t) = Susp(s) \ Over(s, Q) /\ Awake(s, Q, t)
    BY <1>1, ReviveKeeps
  <1> QED BY <1>2 DEF Q

-----------------------------------------------------------------------------
(* A process is let go of: its call is over. *)
Freed(s, p, t) ==
    /\ t.fproc = [s.fproc EXCEPT ![p] = Resumed(s.fproc[p])]
    /\ t.waiting = s.waiting \ {p} /\ t.stuck = FALSE /\ t.rev = s.rev
    /\ t.susp >= Cardinality(Piped(s) \ {p})
    /\ t.tty.pending \cup ({t.tty.sending} \ {Nil}) = Typing(s) \ {p}
    /\ t.tty.sending \notin t.tty.pending

(* q hangs no more in t. *)
Without(s, q, t) ==
    /\ Susp(t) = Susp(s) \ {q} /\ Piped(t) = Piped(s) \ {q} /\ Typing(t) = Typing(s) \ {q}
    /\ \A p \in Proc : p # q => t.fproc[p] = s.fproc[p]

LEMMA LetGo ==
    ASSUME NEW s, NEW P, Good(s, P), NEW p \in Proc, p \in Susp(s), p \notin Rev(s),
           NEW t \in Tables, SameFiles(s, t), Freed(s, p, t)
    PROVE  Good(t, P) /\ Without(s, p, t)
  <1>1. s \in Tables /\ Held(s, P) /\ Calls(s)
    BY DEF Good
  <1>2. s.fproc \in [Proc -> ProcRec] /\ s.fproc[p] \in ProcRec
    BY <1>1 DEF Tables
  <1>3. t.fproc[p] = Resumed(s.fproc[p]) /\ \A q \in Proc : q # p => t.fproc[q] = s.fproc[q]
    BY <1>2 DEF Freed
  <1>4. t.fproc[p].suspended = FALSE /\ t.fproc[p].revived = FALSE
    BY <1>2, <1>3 DEF Resumed, ProcRec
  <1>5. Susp(t) = Susp(s) \ {p}
    BY <1>3, <1>4 DEF Susp
  <1>6. Rev(t) = Rev(s)
    BY <1>3, <1>4 DEF Rev
  <1>7. Piped(t) = Piped(s) \ {p} /\ Typing(t) = Typing(s) \ {p}
    BY <1>3, <1>4 DEF Piped, Typing
  <1>8. Held(t, P)
    <2>1. s.waiting = Susp(s) \cup P /\ P \cap Susp(s) = {} /\ Rev(s) \subseteq Susp(s)
          /\ s.rev = Cardinality(Rev(s))
      BY <1>1 DEF Held
    <2>2. t.waiting = Susp(t) \cup P /\ P \cap Susp(t) = {} /\ Rev(t) \subseteq Susp(t)
      BY <1>5, <1>6, <2>1 DEF Freed
    <2> QED BY <1>6, <1>7, <2>1, <2>2 DEF Held, Freed
  <1>9. Device(t)
    BY <1>7 DEF Device, Freed
  <1>10. Calls(t)
    <2>1. ASSUME NEW q \in Proc, t.fproc[q].suspended PROVE CallOf(t, t.fproc[q])
      <3>1. q # p
        BY <1>4, <2>1
      <3>2. CallOf(s, t.fproc[q])
        BY <1>1, <1>3, <2>1, <3>1 DEF Calls
      <3> QED BY <3>2 DEF CallOf, SameFiles
    <2> QED BY <2>1 DEF Calls
  <1>11. Good(t, P)
    BY <1>8, <1>9, <1>10, FilesKept DEF Good
  <1> QED BY <1>3, <1>5, <1>7, <1>11 DEF Without

(* The REVIVE that the terminal is sending is taken. *)
LEMMA DeviceRevives ==
    ASSUME NEW s, NEW P, Good(s, P), s.tty.sending # Nil,
           NEW t, t = revive([s EXCEPT !.tty.sending = Nil], s.tty.sending)
    PROVE  /\ Good(t, P) /\ SameFiles(s, t)
           /\ s.tty.sending \in Typing(s) /\ Without(s, s.tty.sending, t)
           /\ t.tty = [s.tty EXCEPT !.sending = Nil] /\ t.susp = s.susp /\ t.lost = s.lost
  <1> DEFINE q == s.tty.sending
             y == [s.tty EXCEPT !.sending = Nil]
             u == [s EXCEPT !.tty.sending = Nil]
  <1>1. s \in Tables /\ Held(s, P) /\ Device(s) /\ Calls(s)
    BY DEF Good
  <1>2. s.tty \in TtyRec /\ q \in Proc
    BY <1>1 DEF Tables, TtyRec
  <1>3. y \in TtyRec /\ y.sending = Nil /\ y.pending = s.tty.pending
    BY <1>2 DEF TtyRec
  <1>4. u \in Tables /\ u.fproc = s.fproc /\ u.filp = s.filp /\ u.inode = s.inode /\ u.lk = s.lk /\ u.nr = s.nr
        /\ u.susp = s.susp /\ u.rev = s.rev /\ u.waiting = s.waiting /\ u.stuck = s.stuck /\ u.tty = y /\ u.lost = s.lost
    BY <1>1, <1>3 DEF Tables
  <1>5. t = ReviveAll(u, {q})
    BY DEF revive
  <1>0. q = s.tty.sending /\ {q} \in SUBSET Proc
    BY <1>2
  <1> HIDE DEF y, u, q
  <1>6. Held(u, P)
    <2>1. Susp(u) = Susp(s) /\ Rev(u) = Rev(s) /\ Piped(u) = Piped(s)
      BY <1>4 DEF Susp, Rev, Piped
    <2> QED BY <1>1, <1>4, <2>1 DEF Held
  <1>7. t \in Tables /\ SameFiles(u, t) /\ Awake(u, {q}, t) /\ t.susp = u.susp /\ t.stuck = FALSE /\ t.tty = u.tty /\ t.lost = u.lost
    BY <1>0, <1>4, <1>5, <1>6, ReviveAllIs
  <1>8. q \in Typing(s) /\ q \notin s.tty.pending
    BY <1>0, <1>1, <1>2, Domains DEF Device
  <1>9. s.fproc[q].suspended /\ s.fproc[q].task = "TTY" /\ q \in Susp(s)
    BY <1>8 DEF Typing, Susp
  <1>10. CallOf(s, s.fproc[q])
    BY <1>1, <1>2, <1>9 DEF Calls
  <1>11. ~s.fproc[q].revived
    BY <1>9, <1>10 DEF CallOf
  <1>12. Again(u, {q}) = {} /\ Over(u, {q}) = {q}
    BY <1>4, <1>9, <1>11 DEF Again, Over
  <1>13. SameFiles(s, t)
    BY <1>4, <1>7 DEF SameFiles
  <1>14. s.fproc \in [Proc -> ProcRec] /\ t.fproc \in [Proc -> ProcRec]
    BY <1>1, <1>7 DEF Tables
  <1>15. \A p \in Proc : t.fproc[p] = IF p = q THEN Resumed(s.fproc[p]) ELSE s.fproc[p]
    BY <1>4, <1>7, <1>12 DEF Awake
  <1>16. t.fproc = [s.fproc EXCEPT ![q] = Resumed(s.fproc[q])]
    BY <1>14, <1>15
  <1>17. t.waiting = s.waiting \ {q} /\ t.rev = s.rev
    <2>1. Cardinality({}) = 0 /\ s.rev \in Nat
      BY <1>1, FS_EmptySet DEF Tables
    <2>2. t.waiting = u.waiting \ Over(u, {q}) /\ t.rev = u.rev + Cardinality(Again(u, {q}))
      BY <1>7 DEF Awake
    <2>3. t.waiting = s.waiting \ {q}
      BY <1>4, <1>12, <2>2
    <2>4. t.rev = s.rev + 0
      BY <1>4, <1>12, <2>1, <2>2
    <2> QED BY <2>1, <2>3, <2>4
  <1>18. Piped(s) \ {q} = Piped(s)
    BY <1>9 DEF Piped
  <1>19. t.susp >= Cardinality(Piped(s) \ {q})
    BY <1>1, <1>4, <1>7, <1>18 DEF Held
  <1>20. q \notin Rev(s)
    BY <1>11 DEF Rev
  <1>21. t.tty.pending \cup ({t.tty.sending} \ {Nil}) = Typing(s) \ {q} /\ t.tty.sending \notin t.tty.pending
    <2>1. t.tty.pending = s.tty.pending /\ t.tty.sending = Nil
      BY <1>3, <1>4, <1>7
    <2>2. Typing(s) = s.tty.pending \cup {q} /\ Nil \notin s.tty.pending
      BY <1>0, <1>1, <1>2, Domains DEF Device, TtyRec
    <2>3. Typing(s) \ {q} = s.tty.pending
      BY <1>8, <2>2
    <2>4. {t.tty.sending} \ {Nil} = {}
      BY <2>1
    <2>5. t.tty.pending \cup ({t.tty.sending} \ {Nil}) = s.tty.pending
      BY <2>1, <2>4
    <2> QED BY <2>1, <2>2, <2>3, <2>5
  <1>22. Freed(s, q, t)
    BY <1>7, <1>16, <1>17, <1>19, <1>21 DEF Freed
  <1>23. Good(t, P) /\ Without(s, q, t)
    BY <1>2, <1>7, <1>9, <1>13, <1>20, <1>22, LetGo
  <1> QED BY <1>0, <1>4, <1>7, <1>8, <1>13, <1>23 DEF y

(* Nobody but the one that waited for the terminal is touched. *)
OnlyTyping(s, t) ==
    /\ SameFiles(s, t) /\ Susp(t) \subseteq Susp(s) /\ Piped(t) = Piped(s) /\ t.susp = s.susp
    /\ \A p \in Proc : p \notin Typing(s) \/ Stays(t, p) => t.fproc[p] = s.fproc[p]

LEMMA GenIoKeeps ==
    ASSUME NEW s, NEW P, Good(s, P), NEW p, NEW t, t = gen_io(s, p, FALSE)
    PROVE  Good(t, P) /\ OnlyTyping(s, t) /\ t.tty.sending = Nil
  <1>1. CASE s.tty.sending = Nil
    <2>1. t = s
      BY <1>1 DEF gen_io
    <2> QED BY <1>1, <2>1 DEF OnlyTyping, SameFiles
  <1>2. CASE s.tty.sending # Nil
    <2>1. t = revive([s EXCEPT !.tty.sending = Nil], s.tty.sending)
      BY <1>2 DEF gen_io
    <2>2. /\ Good(t, P) /\ SameFiles(s, t)
          /\ s.tty.sending \in Typing(s) /\ Without(s, s.tty.sending, t)
          /\ t.tty = [s.tty EXCEPT !.sending = Nil] /\ t.susp = s.susp /\ t.lost = s.lost
      BY <1>2, <2>1, DeviceRevives
    <2>3. s.tty \in TtyRec
      BY DEF Good, Tables
    <2>4. t.tty.sending = Nil
      BY <2>2, <2>3 DEF TtyRec
    <2>5. Piped(s) \ {s.tty.sending} = Piped(s)
      BY <2>2 DEF Piped, Typing
    <2>6. Piped(t) = Piped(s) /\ Susp(t) \subseteq Susp(s)
      BY <2>2, <2>5 DEF Without
    <2>7. \A q \in Proc : q \notin Typing(s) \/ Stays(t, q) => t.fproc[q] = s.fproc[q]
      BY <2>2 DEF Without, Stays, Susp
    <2> QED BY <2>2, <2>4, <2>6, <2>7 DEF OnlyTyping
  <1> QED BY <1>1, <1>2

(* A call of the terminal that waits. *)
LEMMA TypingKeeps ==
    ASSUME NEW s, NEW p \in Proc, Good(s, {p}), s.tty.sending = Nil, NEW c \in Call,
           CallOf(s, Hung(s, p, "TTY", c)),
           NEW t, t = suspend([s EXCEPT !.tty.pending = s.tty.pending \cup {p}], p, "TTY", c)
    PROVE  /\ Good(t, {}) /\ SameFiles(s, t) /\ Piped(t) = Piped(s)
           /\ \A q \in Proc : q # p => t.fproc[q] = s.fproc[q]
           /\ Susp(t) = Susp(s) \cup {p} /\ t.fproc[p] = Hung(s, p, "TTY", c)
           /\ t.fproc[p].task = "TTY"
  <1> DEFINE y == [s.tty EXCEPT !.pending = s.tty.pending \cup {p}]
             u == [s EXCEPT !.tty.pending = s.tty.pending \cup {p}]
             r == Hung(s, p, "TTY", c)
  <1>1. s \in Tables /\ Held(s, {p}) /\ Device(s) /\ Calls(s)
    BY DEF Good
  <1>2. s.tty \in TtyRec /\ s.fproc \in [Proc -> ProcRec] /\ s.fproc[p] \in ProcRec
    BY <1>1 DEF Tables
  <1>3. y \in TtyRec /\ y.sending = Nil /\ y.pending = s.tty.pending \cup {p}
    BY <1>2 DEF TtyRec
  <1>4. u \in Tables /\ u.fproc = s.fproc /\ u.filp = s.filp /\ u.inode = s.inode /\ u.lk = s.lk /\ u.nr = s.nr
        /\ u.susp = s.susp /\ u.rev = s.rev /\ u.waiting = s.waiting /\ u.stuck = s.stuck /\ u.tty = y /\ u.lost = s.lost
    BY <1>1, <1>3 DEF Tables
  <1>5. "TTY" \in Tasks /\ "TTY" \notin {"XPIPE", "XPOPEN"}
    BY DEF Tasks
  <1>6. r = Hung(u, p, "TTY", c)
    BY <1>4 DEF Hung
  <1>7. r.suspended = TRUE /\ r.task = "TTY" /\ r.revived = s.fproc[p].revived
    BY <1>2 DEF ProcRec, Hung
  <1>0. t = suspend(u, p, "TTY", c)
    OBVIOUS
  <1> HIDE DEF y, u, r
  <1>8. t \in Tables /\ SameFiles(u, t) /\ t.fproc = [u.fproc EXCEPT ![p] = Hung(u, p, "TTY", c)]
        /\ t.susp = u.susp
        /\ t.rev = u.rev /\ t.waiting = u.waiting /\ t.stuck = u.stuck /\ t.tty = u.tty /\ t.lost = u.lost
    BY <1>0, <1>4, <1>5, SuspendIs
  <1>9. t.fproc[p] = r /\ \A q \in Proc : q # p => t.fproc[q] = s.fproc[q]
    BY <1>2, <1>4, <1>6, <1>8
  <1>10. p \notin Susp(s) /\ p \notin Rev(s) /\ ~s.fproc[p].suspended /\ ~s.fproc[p].revived
    <2>1. p \notin Susp(s) /\ p \notin Rev(s)
      BY <1>1 DEF Held
    <2> QED BY <1>2, <2>1 DEF Susp, Rev, ProcRec
  <1>11. Susp(t) = Susp(s) \cup {p} /\ Typing(t) = Typing(s) \cup {p}
    BY <1>7, <1>9 DEF Susp, Typing
  <1>12. Rev(t) = Rev(s)
    BY <1>7, <1>9 DEF Rev
  <1>13. Piped(t) = Piped(s)
    BY <1>7, <1>9, <1>10 DEF Piped
  <1>14. Held(t, {})
    <2>1. s.waiting = Susp(s) \cup {p} /\ s.stuck = FALSE /\ s.rev = Cardinality(Rev(s)) /\ Rev(s) \subseteq Susp(s)
          /\ s.susp >= Cardinality(Piped(s))
      BY <1>1 DEF Held
    <2>2. t.waiting = Susp(t) \cup {} /\ {} \cap Susp(t) = {} /\ Rev(t) \subseteq Susp(t)
      BY <1>4, <1>8, <1>11, <1>12, <2>1
    <2>3. t.susp = s.susp /\ t.rev = s.rev /\ t.stuck = FALSE
      BY <1>4, <1>5, <1>8, <2>1
    <2> QED BY <1>12, <1>13, <2>1, <2>2, <2>3 DEF Held
  <1>15. Device(t)
    <2>1. Typing(s) = s.tty.pending \cup ({s.tty.sending} \ {Nil})
      BY <1>1 DEF Device
    <2>2. t.tty.pending = s.tty.pending \cup {p} /\ t.tty.sending = Nil /\ s.tty.sending = Nil
      BY <1>3, <1>4, <1>8
    <2>3. {t.tty.sending} \ {Nil} = {} /\ {s.tty.sending} \ {Nil} = {}
      BY <2>2
    <2>4. Typing(t) = t.tty.pending \cup {}
      BY <1>11, <2>1, <2>2, <2>3
    <2>5. Nil \notin t.tty.pending
      BY <1>2, <2>2, Domains DEF TtyRec
    <2> QED BY <2>2, <2>3, <2>4, <2>5 DEF Device
  <1>16. SameFiles(s, t)
    BY <1>4, <1>8 DEF SameFiles
  <1>17. Calls(t)
    <2>1. t.filp = s.filp
      BY <1>16 DEF SameFiles
    <2>2. CallOf(t, r)
      BY <2>1 DEF CallOf, r
    <2>3. ASSUME NEW q \in Proc, q # p, t.fproc[q].suspended PROVE CallOf(t, t.fproc[q])
      <3>1. CallOf(s, t.fproc[q])
        BY <1>1, <1>9, <2>3 DEF Calls
      <3> QED BY <2>1, <3>1 DEF CallOf
    <2> QED BY <1>9, <2>2, <2>3 DEF Calls
  <1>18. Good(t, {})
    BY <1>8, <1>14, <1>15, <1>16, <1>17, FilesKept DEF Good
  <1>19. t.fproc[p].task = "TTY"
    BY <1>7, <1>9
  <1>20. t.fproc[p] = Hung(s, p, "TTY", c)
    BY <1>9 DEF r
  <1> QED BY <1>9, <1>11, <1>13, <1>16, <1>18, <1>19, <1>20

(* A call that is cancelled.  Before an exit() susp_count has been counted *)
(* down already: n is what it has become.                                  *)
LEMMA UnpauseKeeps ==
    ASSUME NEW s, Good(s, {}), NEW p \in Proc, p \in Susp(s), Rev(s) = {},
           NEW n \in Nat, n >= Cardinality(Piped(s) \ {p}),
           s.fproc[p].task = "TTY" => n = s.susp,
           NEW t, t = do_unpause([s EXCEPT !.susp = n], p)
    PROVE  /\ Good(t, {}) /\ SameFiles(s, t) /\ Susp(t) \subseteq Susp(s) \ {p} /\ Piped(t) = Piped(s) \ {p}
           /\ Others(s, t, p)
  <1> DEFINE u == [s EXCEPT !.susp = n]
  <1>1. s \in Tables /\ Held(s, {}) /\ Device(s) /\ Calls(s)
    BY DEF Good
  <1>2. u \in Tables /\ u.fproc = s.fproc /\ u.filp = s.filp /\ u.inode = s.inode /\ u.lk = s.lk /\ u.nr = s.nr
        /\ u.susp = n /\ u.rev = s.rev /\ u.waiting = s.waiting /\ u.stuck = s.stuck /\ u.tty = s.tty /\ u.lost = s.lost
    BY <1>1 DEF Tables
  <1>3. s.fproc[p].suspended /\ p \notin Rev(s) /\ p \in s.waiting
    BY <1>1 DEF Susp, Held
  <1>4. NoCall \in Call /\ "none" \in Tasks
    BY Domains DEF NoCall, NoLock, Call, LockReq, FD, Tasks
  <1>5. CASE s.fproc[p].task # "TTY"
    <2>1. t = reply([u EXCEPT !.fproc[p] = Resumed(u.fproc[p])], p)
      BY <1>2, <1>3, <1>5 DEF do_unpause
    <2>2. u.fproc[p] \in ProcRec
      BY <1>2 DEF Tables
    <2>3. Resumed(u.fproc[p]) \in ProcRec /\ Resumed(u.fproc[p]).fd = u.fproc[p].fd
      BY <1>4, <2>2 DEF Resumed, ProcRec
    <2>4. p \in u.waiting /\ u.stuck = FALSE
      BY <1>1, <1>2, <1>3 DEF Held
    <2> HIDE DEF u
    <2>5. t = [u EXCEPT !.fproc = [u.fproc EXCEPT ![p] = Resumed(u.fproc[p])], !.waiting = u.waiting \ {p},
                        !.stuck = FALSE]
      BY <1>2, <2>1, <2>4 DEF reply, Tables
    <2>6. [u.fproc EXCEPT ![p] = Resumed(u.fproc[p])] \in [Proc -> ProcRec]
      BY <1>2, <2>3 DEF Tables
    <2>7. t \in Tables
      BY <1>2, <2>5, <2>6 DEF Tables
    <2>8. t.fproc = [s.fproc EXCEPT ![p] = Resumed(s.fproc[p])] /\ t.waiting = s.waiting \ {p} /\ t.stuck = FALSE
          /\ t.rev = s.rev /\ t.susp = n /\ t.tty = s.tty /\ t.lost = s.lost /\ t.filp = s.filp /\ t.inode = s.inode
          /\ t.lk = s.lk /\ t.nr = s.nr
      BY <1>2, <2>5 DEF Tables
    <2>9. SameFiles(s, t)
      BY <1>2, <2>3, <2>8 DEF SameFiles, Tables
    <2>10. Typing(s) \ {p} = Typing(s)
      BY <1>5 DEF Typing
    <2>11. Freed(s, p, t)
      BY <1>1, <2>8, <2>10 DEF Freed, Device
    <2>12. Good(t, {}) /\ Without(s, p, t)
      BY <1>3, <2>7, <2>9, <2>11, LetGo
    <2>13. Others(s, t, p)
      BY <2>9, <2>12, OthersFiles DEF Without
    <2> QED BY <2>9, <2>12, <2>13 DEF Without
  <1>6. CASE s.fproc[p].task = "TTY"
    <2>1. n = s.susp /\ u = s /\ p \in Typing(s)
      BY <1>1, <1>3, <1>6 DEF Tables, Typing
    <2> DEFINE v == gen_io(s, p, TRUE)
               w == [v EXCEPT !.tty.pending = v.tty.pending \ {p}]
    <2>2. t = reply([w EXCEPT !.fproc[p] = Resumed(w.fproc[p])], p)
      BY <1>2, <1>3, <1>6, <2>1 DEF do_unpause, Cancel
    (* A good state b in which p hangs; v is b but for what is being sent to p. *)
    <2>3. \E b : /\ Good(b, {}) /\ SameFiles(s, b) /\ p \in Typing(b) /\ Rev(b) = {}
                 /\ Susp(b) \subseteq Susp(s) /\ Piped(b) = Piped(s)
                 /\ \A q \in Proc : q \notin Typing(s) \/ Stays(b, q) => b.fproc[q] = s.fproc[q]
                 /\ v \in Tables /\ v.fproc = b.fproc /\ v.filp = b.filp /\ v.inode = b.inode /\ v.lk = b.lk
                 /\ v.nr = b.nr /\ v.susp = b.susp /\ v.rev = b.rev /\ v.waiting = b.waiting
                 /\ v.stuck = b.stuck /\ v.lost = b.lost
                 /\ v.tty.pending = b.tty.pending
                 /\ v.tty.sending = IF b.tty.sending = p THEN Nil ELSE b.tty.sending
      <3>1. s.tty \in TtyRec
        BY <1>1 DEF Tables
      <3>2. CASE s.tty.sending = p
        <4>1. v = [s EXCEPT !.tty.sending = Nil]
          BY <3>2, Domains DEF gen_io
        <4>2. v = [s EXCEPT !.tty = [s.tty EXCEPT !.sending = Nil]]
          BY <4>1 DEF Tables
        <4>3. [s.tty EXCEPT !.sending = Nil] \in TtyRec
          BY <3>1 DEF TtyRec
        <4>4. v \in Tables /\ v.tty = [s.tty EXCEPT !.sending = Nil] /\ v.lost = s.lost /\ v.fproc = s.fproc /\ v.filp = s.filp
              /\ v.inode = s.inode /\ v.lk = s.lk /\ v.nr = s.nr /\ v.susp = s.susp /\ v.rev = s.rev
              /\ v.waiting = s.waiting /\ v.stuck = s.stuck
          BY <1>1, <4>2, <4>3 DEF Tables
        <4>5. v.tty.pending = s.tty.pending /\ v.tty.sending = Nil
          BY <3>1, <4>4 DEF TtyRec
        <4> HIDE DEF v
        <4>6. SameFiles(s, s)
          BY DEF SameFiles
        <4> QED BY <2>1, <3>2, <4>4, <4>5, <4>6
      <3>3. CASE s.tty.sending = Nil
        <4>1. v = s
          BY <3>3 DEF gen_io
        <4>2. SameFiles(s, s) /\ s.tty.sending # p
          BY <3>3, Domains DEF SameFiles
        <4> HIDE DEF v
        <4> QED BY <1>1, <2>1, <4>1, <4>2
      <3>4. CASE s.tty.sending # Nil /\ s.tty.sending # p
        <4>1. v = revive([s EXCEPT !.tty.sending = Nil], s.tty.sending)
          BY <3>4 DEF gen_io
        <4> HIDE DEF v
        <4>2. /\ Good(v, {}) /\ SameFiles(s, v)
              /\ s.tty.sending \in Typing(s) /\ Without(s, s.tty.sending, v)
              /\ v.tty = [s.tty EXCEPT !.sending = Nil] /\ v.susp = s.susp /\ v.lost = s.lost
          BY <3>4, <4>1, DeviceRevives
        <4>3. v.tty.sending = Nil /\ v.tty.sending # p
          BY <3>1, <4>2, Domains DEF TtyRec
        <4>4. p \in Typing(v) /\ Susp(v) \subseteq Susp(s)
          BY <2>1, <3>4, <4>2 DEF Without
        <4>5. Piped(v) = Piped(s)
          <5>1. Piped(s) \ {s.tty.sending} = Piped(s)
            BY <4>2 DEF Typing, Piped
          <5> QED BY <4>2, <5>1 DEF Without
        <4>6. Rev(v) = {}
          <5>1. \A q \in Proc : q # s.tty.sending => ~v.fproc[q].revived
            BY <4>2 DEF Without, Rev
          <5>2. s.tty.sending \notin Susp(v) /\ Rev(v) \subseteq Susp(v)
            BY <4>2 DEF Without, Good, Held
          <5> QED BY <5>1, <5>2 DEF Rev
        <4>7. \A q \in Proc : q \notin Typing(s) \/ Stays(v, q) => v.fproc[q] = s.fproc[q]
          BY <4>2 DEF Without, Stays, Susp
        <4>8. v \in Tables
          BY <4>2 DEF Good
        <4> QED BY <4>2, <4>3, <4>4, <4>5, <4>6, <4>7, <4>8
      <3> QED BY <3>2, <3>3, <3>4
    <2>4. PICK b : /\ Good(b, {}) /\ SameFiles(s, b) /\ p \in Typing(b) /\ Rev(b) = {}
                   /\ Susp(b) \subseteq Susp(s) /\ Piped(b) = Piped(s)
                   /\ \A q \in Proc : q \notin Typing(s) \/ Stays(b, q) => b.fproc[q] = s.fproc[q]
                   /\ v \in Tables /\ v.fproc = b.fproc /\ v.filp = b.filp /\ v.inode = b.inode /\ v.lk = b.lk
                   /\ v.nr = b.nr /\ v.susp = b.susp /\ v.rev = b.rev /\ v.waiting = b.waiting
                   /\ v.stuck = b.stuck /\ v.lost = b.lost
                   /\ v.tty.pending = b.tty.pending
                   /\ v.tty.sending = IF b.tty.sending = p THEN Nil ELSE b.tty.sending
      BY <2>3, Zenon
    <2> HIDE DEF v
    <2>5. b \in Tables /\ Held(b, {}) /\ Device(b) /\ p \in Susp(b) /\ p \in b.waiting /\ b.stuck = FALSE
      BY <2>4 DEF Good, Held, Typing, Susp
    <2>6. v.tty \in TtyRec /\ b.tty \in TtyRec /\ b.fproc[p] \in ProcRec /\ b.susp \in Nat
      BY <2>4, <2>5 DEF Tables
    <2> DEFINE y == [v.tty EXCEPT !.pending = v.tty.pending \ {p}]
    <2>7. y \in TtyRec /\ y.pending = b.tty.pending \ {p}
          /\ y.sending = IF b.tty.sending = p THEN Nil ELSE b.tty.sending
      BY <2>4, <2>6 DEF TtyRec
    <2>8. w \in Tables /\ w.fproc = b.fproc /\ w.filp = b.filp /\ w.inode = b.inode /\ w.lk = b.lk /\ w.nr = b.nr
          /\ w.susp = b.susp /\ w.rev = b.rev /\ w.waiting = b.waiting /\ w.stuck = b.stuck /\ w.tty = y /\ w.lost = b.lost
      BY <2>4, <2>7 DEF Tables
    <2> HIDE DEF w, y
    <2>9. Resumed(b.fproc[p]) \in ProcRec /\ Resumed(b.fproc[p]).fd = b.fproc[p].fd
      BY <1>4, <2>6 DEF Resumed, ProcRec
    <2>10. t = [w EXCEPT !.fproc = [w.fproc EXCEPT ![p] = Resumed(w.fproc[p])], !.waiting = w.waiting \ {p},
                         !.stuck = FALSE]
      BY <2>2, <2>5, <2>8 DEF reply, Tables
    <2>11. [w.fproc EXCEPT ![p] = Resumed(w.fproc[p])] \in [Proc -> ProcRec]
      BY <2>8, <2>9 DEF Tables
    <2>12. t \in Tables
      BY <2>8, <2>10, <2>11 DEF Tables
    <2>13. t.fproc = [b.fproc EXCEPT ![p] = Resumed(b.fproc[p])] /\ t.waiting = b.waiting \ {p} /\ t.stuck = FALSE
           /\ t.rev = b.rev /\ t.susp = b.susp /\ t.tty = y /\ t.lost = b.lost /\ t.filp = b.filp /\ t.inode = b.inode
           /\ t.lk = b.lk /\ t.nr = b.nr
      BY <2>8, <2>10 DEF Tables
    <2>14. SameFiles(b, t)
      BY <2>5, <2>9, <2>13 DEF SameFiles, Tables
    <2>15. t.tty.pending \cup ({t.tty.sending} \ {Nil}) = Typing(b) \ {p} /\ t.tty.sending \notin t.tty.pending
      <3>1. Typing(b) = b.tty.pending \cup ({b.tty.sending} \ {Nil}) /\ b.tty.sending \notin b.tty.pending
        BY <2>5 DEF Device
      <3>2. Nil \notin b.tty.pending
        BY <2>6, Domains DEF TtyRec
      <3>3. CASE b.tty.sending = p
        <4>1. {t.tty.sending} \ {Nil} = {} /\ t.tty.pending = b.tty.pending \ {p} /\ t.tty.sending = Nil
          BY <2>7, <2>13, <3>3
        <4> QED BY <3>1, <3>2, <3>3, <4>1, Domains
      <3>4. CASE b.tty.sending # p
        <4>1. t.tty.sending = b.tty.sending /\ t.tty.pending = b.tty.pending \ {p}
          BY <2>7, <2>13, <3>4
        <4> QED BY <3>1, <3>2, <3>4, <4>1
      <3> QED BY <3>3, <3>4
    <2>16. t.susp >= Cardinality(Piped(b) \ {p})
      <3>1. Piped(b) \ {p} = Piped(b)
        BY <2>4 DEF Typing, Piped
      <3> QED BY <2>5, <2>13, <3>1 DEF Held
    <2>17. Freed(b, p, t)
      BY <2>13, <2>15, <2>16 DEF Freed
    <2>18. Good(t, {}) /\ Without(b, p, t)
      BY <2>4, <2>5, <2>12, <2>14, <2>17, LetGo
    <2>19. SameFiles(s, t)
      BY <2>4, <2>14 DEF SameFiles
    <2>20. \A q \in Proc : q # p /\ Stays(t, q) => t.fproc[q] = s.fproc[q]
      <3>1. \A q \in Proc : q # p => t.fproc[q] = b.fproc[q]
        BY <2>18 DEF Without
      <3> QED BY <2>4, <3>1 DEF Stays
    <2>21. Susp(t) \subseteq Susp(s)
      BY <2>4, <2>18 DEF Without
    <2>22. Others(s, t, p)
      BY <2>19, <2>20, <2>21, OthersFiles
    <2> QED BY <2>4, <2>18, <2>19, <2>22 DEF Without
  <1> QED BY <1>5, <1>6

(* A process that was revived has its call repeated. *)
Repeated(s, p) == [s EXCEPT !.fproc[p] = Resumed(s.fproc[p]), !.rev = s.rev - 1]

LEMMA RepeatKeeps ==
    ASSUME NEW s, Good(s, {}), NEW p \in Proc, p \in Rev(s), NEW t, t = Repeated(s, p)
    PROVE  /\ Good(t, {p}) /\ SameFiles(s, t) /\ t.susp = s.susp
           /\ Susp(t) = Susp(s) \ {p} /\ Piped(t) = Piped(s)
           /\ \A q \in Proc : q # p => t.fproc[q] = s.fproc[q]
  <1>0. t = [s EXCEPT !.fproc[p] = Resumed(s.fproc[p]), !.rev = s.rev - 1]
    BY DEF Repeated
  <1>1. s \in Tables /\ Held(s, {}) /\ Device(s) /\ Calls(s)
    BY DEF Good
  <1>2. s.fproc[p] \in ProcRec /\ s.fproc \in [Proc -> ProcRec] /\ s.rev \in Nat
    BY <1>1 DEF Tables
  <1>3. s.fproc[p].revived /\ p \in Susp(s) /\ s.fproc[p].suspended
    BY <1>1 DEF Rev, Held, Susp
  <1>4. Resumed(s.fproc[p]) \in ProcRec /\ Resumed(s.fproc[p]).fd = s.fproc[p].fd
        /\ Resumed(s.fproc[p]).suspended = FALSE /\ Resumed(s.fproc[p]).revived = FALSE
    <2>1. NoCall \in Call /\ "none" \in Tasks
      BY Domains DEF NoCall, NoLock, Call, LockReq, FD, Tasks
    <2> QED BY <1>2, <2>1 DEF Resumed, ProcRec
  <1>5. IsFiniteSet(Rev(s)) /\ Cardinality(Rev(s)) \in Nat
    BY Domains, SubFinite DEF Rev
  <1>6. Cardinality(Rev(s) \ {p}) = Cardinality(Rev(s)) - 1 /\ Cardinality(Rev(s) \ {p}) \in Nat
    <2>1. Cardinality(Rev(s) \ {p}) = Cardinality(Rev(s)) - 1
      BY <1>5, FS_RemoveElement
    <2>2. Cardinality(Rev(s) \ {p}) \in Nat
      BY <1>5, SubFinite
    <2> QED BY <2>1, <2>2
  <1>7. s.rev - 1 \in Nat /\ s.rev - 1 = Cardinality(Rev(s) \ {p})
    BY <1>1, <1>6 DEF Held
  <1>8. t = [s EXCEPT !.fproc = [s.fproc EXCEPT ![p] = Resumed(s.fproc[p])], !.rev = s.rev - 1]
    BY <1>0, <1>1 DEF Tables
  <1>9. [s.fproc EXCEPT ![p] = Resumed(s.fproc[p])] \in [Proc -> ProcRec]
    BY <1>2, <1>4
  <1>10. t \in Tables
    BY <1>1, <1>7, <1>8, <1>9 DEF Tables
  <1>11. t.fproc = [s.fproc EXCEPT ![p] = Resumed(s.fproc[p])] /\ t.rev = s.rev - 1 /\ t.filp = s.filp
         /\ t.inode = s.inode /\ t.lk = s.lk /\ t.nr = s.nr /\ t.susp = s.susp /\ t.waiting = s.waiting
         /\ t.stuck = s.stuck /\ t.tty = s.tty /\ t.lost = s.lost
    BY <1>1, <1>8 DEF Tables
  <1>12. /\ t.fproc[p].suspended = FALSE /\ t.fproc[p].revived = FALSE /\ t.fproc[p].fd = s.fproc[p].fd
         /\ \A q \in Proc : q # p => t.fproc[q] = s.fproc[q]
    BY <1>2, <1>4, <1>11
  <1>13. SameFiles(s, t)
    BY <1>11, <1>12 DEF SameFiles
  <1>14. Susp(t) = Susp(s) \ {p} /\ Rev(t) = Rev(s) \ {p}
    BY <1>12 DEF Susp, Rev
  <1>15. CallOf(s, s.fproc[p])
    BY <1>1, <1>3 DEF Calls
  <1>16. s.fproc[p].task # "TTY"
    BY <1>3, <1>15 DEF CallOf
  <1>17. Piped(t) = Piped(s) /\ Typing(t) = Typing(s)
    BY <1>3, <1>12, <1>16 DEF Piped, Typing
  <1>18. Held(t, {p})
    <2>1. s.waiting = Susp(s) \cup {} /\ s.stuck = FALSE /\ Rev(s) \subseteq Susp(s)
          /\ s.susp >= Cardinality(Piped(s))
      BY <1>1 DEF Held
    <2>2. t.waiting = Susp(t) \cup {p} /\ {p} \cap Susp(t) = {} /\ Rev(t) \subseteq Susp(t)
      BY <1>3, <1>11, <1>14, <2>1
    <2>3. t.stuck = FALSE /\ t.susp >= Cardinality(Piped(t)) /\ t.rev = Cardinality(Rev(t))
      BY <1>7, <1>11, <1>14, <1>17, <2>1
    <2> QED BY <2>2, <2>3 DEF Held
  <1>19. Device(t)
    BY <1>1, <1>11, <1>17 DEF Device
  <1>20. Calls(t)
    <2>1. ASSUME NEW q \in Proc, t.fproc[q].suspended PROVE CallOf(t, t.fproc[q])
      <3>1. q # p
        BY <1>12, <2>1
      <3>2. CallOf(s, t.fproc[q])
        BY <1>1, <1>12, <2>1, <3>1 DEF Calls
      <3> QED BY <1>11, <3>2 DEF CallOf
    <2> QED BY <2>1 DEF Calls
  <1>21. Good(t, {p})
    BY <1>10, <1>13, <1>18, <1>19, <1>20, FilesKept DEF Good
  <1> QED BY <1>11, <1>12, <1>13, <1>14, <1>17, <1>21

-----------------------------------------------------------------------------
(* Descriptors and filps. *)
LEMMA AdriftIs ==
    ASSUME NEW n
    PROVE  /\ IsFiniteSet(Adrift(n)) /\ (n \in Nat => Cardinality(Adrift(n)) = n)
           /\ \A x \in Adrift(n) : x \notin Proc \X FD
  <1>1. CASE n \in Nat
    <2>1. IsFiniteSet({Nil}) /\ Cardinality({Nil}) = 1
      BY FS_Singleton
    <2>2. IsFiniteSet(1 .. n) /\ Cardinality(1 .. n) = IF 1 > n THEN 0 ELSE n - 1 + 1
      BY <1>1, FS_Interval
    <2>3. IsFiniteSet({Nil} \X (1 .. n)) /\ Cardinality({Nil} \X (1 .. n)) = Cardinality({Nil}) * Cardinality(1 .. n)
      BY <2>1, <2>2, FS_Product
    <2>4. Cardinality(1 .. n) = n
      BY <1>1, <2>2
    <2>5. Cardinality({Nil} \X (1 .. n)) = n
      BY <1>1, <2>1, <2>3, <2>4
    <2> QED BY <1>1, <2>3, <2>5, Domains DEF Adrift
  <1>2. CASE n \notin Nat
    BY <1>2, FS_EmptySet DEF Adrift
  <1> QED BY <1>1, <1>2

LEMMA HadFinite == ASSUME NEW s, NEW f PROVE IsFiniteSet(Had(s, f)) /\ Cardinality(Had(s, f)) \in Nat
  <1>1. IsFiniteSet(Proc \X FD)
    BY Domains, FS_Product
  <1>2. Had(s, f) \subseteq Proc \X FD
    BY DEF Had
  <1> QED BY <1>1, <1>2, SubFinite

LEMMA RefsFinite == ASSUME NEW s, NEW f PROVE IsFiniteSet(Refs(s, f)) /\ Cardinality(Refs(s, f)) \in Nat
  BY AdriftIs, HadFinite, FS_Union, FS_CardinalityType DEF Refs

(* The descriptors and what is lost. *)
LEMMA RefsCount ==
    ASSUME NEW s, NEW f, s.lost[f] \in Nat
    PROVE  Cardinality(Refs(s, f)) = Cardinality(Had(s, f)) + s.lost[f]
  <1> DEFINE A == Adrift(s.lost[f])
             H == Had(s, f)
  <1>1. IsFiniteSet(A) /\ Cardinality(A) = s.lost[f] /\ IsFiniteSet(H) /\ Cardinality(H) \in Nat
    BY AdriftIs, HadFinite
  <1>2. H \cap A = {}
    BY AdriftIs DEF Had
  <1>3. Refs(s, f) = H \cup A
    BY DEF Refs
  <1> HIDE DEF A, H
  <1>4. Cardinality(H \cup A) = Cardinality(H) + Cardinality(A) - Cardinality(H \cap A)
    BY <1>1, FS_Union
  <1>5. Cardinality(H \cap A) = 0
    BY <1>2, FS_EmptySet
  <1> QED BY <1>1, <1>3, <1>4, <1>5 DEF H

LEMMA OpensFinite == ASSUME NEW s, NEW i PROVE IsFiniteSet(Opens(s, i)) /\ Cardinality(Opens(s, i)) \in Nat
  BY Domains, SubFinite DEF Opens

(* What a descriptor refers to is in use, and so is its inode. *)
LEMMA InUse ==
    ASSUME NEW s \in Tables, Slots(s), NEW p \in Proc, NEW d \in FD, s.fproc[p].fd[d] # Nil,
           NEW f, f = s.fproc[p].fd[d]
    PROVE  /\ f \in Filp /\ s.filp[f].count > 0 /\ <<p, d>> \in Refs(s, f) /\ s.filp[f].ino \in Inode
           /\ f \in Opens(s, s.filp[f].ino) /\ s.inode[s.filp[f].ino].count > 0
  <1>1. f \in Filp
    BY DEF Tables, ProcRec
  <1>2. <<p, d>> \in Refs(s, f)
    BY DEF Refs, Had
  <1>3. Cardinality(Refs(s, f)) # 0
    BY <1>2, RefsFinite, FS_EmptySet
  <1>4. s.filp[f].count = Cardinality(Refs(s, f)) /\ s.filp[f].count > 0
    BY <1>1, <1>3, RefsFinite DEF Slots
  <1>5. s.filp[f].ino \in Inode
    BY <1>1, <1>4 DEF Slots
  <1>6. f \in Opens(s, s.filp[f].ino)
    BY <1>1, <1>4 DEF Opens
  <1>7. Cardinality(Opens(s, s.filp[f].ino)) # 0
    BY <1>6, OpensFinite, FS_EmptySet
  <1>8. s.inode[s.filp[f].ino].count > 0
    <2> DEFINE n == Cardinality(Opens(s, s.filp[f].ino))
    <2>1. s.inode[s.filp[f].ino].count = n
      BY <1>5 DEF Slots
    <2>2. n \in Nat /\ n # 0
      BY <1>7, OpensFinite
    <2> HIDE DEF n
    <2>3. n > 0
      BY <2>2
    <2> QED BY <2>1, <2>3
  <1> QED BY <1>1, <1>2, <1>4, <1>5, <1>6, <1>8

(* A filp with a count of 1 has one owner. *)
LEMMA SoleOwner ==
    ASSUME NEW s \in Tables, Slots(s), NEW p \in Proc, NEW d \in FD, s.fproc[p].fd[d] # Nil,
           NEW f, f = s.fproc[p].fd[d], s.filp[f].count = 1
    PROVE  \A q \in Proc, e \in FD : s.fproc[q].fd[e] = f => q = p /\ e = d
  <1> SUFFICES ASSUME NEW q \in Proc, NEW e \in FD, s.fproc[q].fd[e] = f
               PROVE  q = p /\ e = d
    OBVIOUS
  <1>1. f \in Filp /\ <<p, d>> \in Refs(s, f)
    BY InUse
  <1>2. Cardinality(Refs(s, f)) = 1
    BY <1>1 DEF Slots
  <1>3. \E x : Refs(s, f) = {x}
    BY <1>2, RefsFinite, FS_Singleton
  <1>4. <<q, e>> \in Refs(s, f)
    BY DEF Refs, Had
  <1> QED BY <1>1, <1>3, <1>4

(* In t descriptor d of p is b, and nothing else has changed. *)
Moved(s, t, p, d, b) ==
    /\ t.lost = s.lost
    /\ \A q \in Proc, e \in FD : t.fproc[q].fd[e] = IF q = p /\ e = d THEN b ELSE s.fproc[q].fd[e]

LEMMA RefsMove ==
    ASSUME NEW s, NEW t, NEW p \in Proc, NEW d \in FD, NEW a, NEW b, a # b,
           s.fproc[p].fd[d] = a, Moved(s, t, p, d, b)
    PROVE  /\ Cardinality(Refs(t, a)) = Cardinality(Refs(s, a)) - 1
           /\ Cardinality(Refs(t, b)) = Cardinality(Refs(s, b)) + 1
           /\ \A f : f # a /\ f # b => Refs(t, f) = Refs(s, f)
  <1> DEFINE x == <<p, d>>
  <1>1. \A y \in Proc \X FD : t.fproc[y[1]].fd[y[2]] = IF y = x THEN b ELSE s.fproc[y[1]].fd[y[2]]
    BY DEF Moved
  <1>2. x \in Proc \X FD /\ s.fproc[x[1]].fd[x[2]] = a
    OBVIOUS
  <1> HIDE DEF x
  <1>0. t.lost = s.lost /\ \A n : x \notin Adrift(n)
    BY <1>2, AdriftIs DEF Moved
  <1>3. Refs(t, a) = Refs(s, a) \ {x} /\ x \in Refs(s, a)
    BY <1>0, <1>1, <1>2 DEF Refs, Had
  <1>4. Refs(t, b) = Refs(s, b) \cup {x} /\ x \notin Refs(s, b)
    BY <1>0, <1>1, <1>2 DEF Refs, Had
  <1>5. ASSUME NEW f, f # a, f # b PROVE Refs(t, f) = Refs(s, f)
    <2>1. \A y \in Proc \X FD : t.fproc[y[1]].fd[y[2]] = f <=> s.fproc[y[1]].fd[y[2]] = f
      BY <1>1, <1>2, <1>5
    <2> QED BY <1>0, <2>1 DEF Refs, Had
  <1>6. Cardinality(Refs(t, a)) = Cardinality(Refs(s, a)) - 1
    <2>1. IsFiniteSet(Refs(s, a))
      BY RefsFinite
    <2>2. Cardinality(Refs(s, a) \ {x}) = Cardinality(Refs(s, a)) - 1
      BY <1>3, <2>1, FS_RemoveElement
    <2> QED BY <1>3, <2>2
  <1>7. Cardinality(Refs(t, b)) = Cardinality(Refs(s, b)) + 1
    BY <1>4, RefsFinite, FS_AddElement
  <1> QED BY <1>5, <1>6, <1>7

(* A descriptor is filled, changed or emptied. *)
Put(s, p, d, b) == [s.fproc EXCEPT ![p] = [s.fproc[p] EXCEPT !.fd = [s.fproc[p].fd EXCEPT ![d] = b]]]

LEMMA PutIs ==
    ASSUME NEW s \in Tables, NEW p \in Proc, NEW d \in FD, NEW b \in Filp \cup {Nil},
           NEW t, t.fproc = Put(s, p, d, b),
           t.susp = s.susp, t.rev = s.rev, t.waiting = s.waiting, t.stuck = s.stuck, t.tty = s.tty, t.lost = s.lost
    PROVE  /\ t.fproc \in [Proc -> ProcRec] /\ Moved(s, t, p, d, b) /\ SameHang(s, t)
           /\ \A q \in Proc : q # p => t.fproc[q] = s.fproc[q]
           /\ t.fproc[p].fd[d] = b
  <1>1. s.fproc \in [Proc -> ProcRec] /\ s.fproc[p] \in ProcRec
    BY DEF Tables
  <1> DEFINE g == [s.fproc[p].fd EXCEPT ![d] = b]
             r == [s.fproc[p] EXCEPT !.fd = g]
  <1>2. s.fproc[p].fd \in [FD -> Filp \cup {Nil}]
    BY <1>1 DEF ProcRec
  <1>3. g \in [FD -> Filp \cup {Nil}] /\ g[d] = b /\ \A e \in FD : e # d => g[e] = s.fproc[p].fd[e]
    BY <1>2
  <1> HIDE DEF g
  <1>4. r \in ProcRec /\ r.fd = g /\ r.suspended = s.fproc[p].suspended /\ r.revived = s.fproc[p].revived
        /\ r.task = s.fproc[p].task /\ r.call = s.fproc[p].call /\ r.cum = s.fproc[p].cum
    BY <1>1, <1>3 DEF ProcRec
  <1>5. t.fproc = [s.fproc EXCEPT ![p] = r]
    BY DEF Put, g
  <1> HIDE DEF r
  <1>6. t.fproc \in [Proc -> ProcRec] /\ t.fproc[p] = r /\ \A q \in Proc : q # p => t.fproc[q] = s.fproc[q]
    BY <1>1, <1>4, <1>5
  <1>7. Moved(s, t, p, d, b)
    BY <1>3, <1>4, <1>6 DEF Moved
  <1>8. SameHang(s, t)
    BY <1>4, <1>6 DEF SameHang
  <1> QED BY <1>3, <1>4, <1>6, <1>7, <1>8

(* The filps that a process can see are untouched, so it hangs as it did. *)
Spares(s, t, p, f) ==
    /\ \A q \in Proc : q # p => t.fproc[q] = s.fproc[q]
    /\ \A q \in Proc, e \in FD : q # p => s.fproc[q].fd[e] # f
    /\ \A h \in Filp : h # f => t.filp[h].ino = s.filp[h].ino /\ t.filp[h].mode = s.filp[h].mode

LEMMA Spared ==
    ASSUME NEW s \in Tables, Calls(s), NEW p, \A q \in Proc : s.fproc[q].suspended => q # p,
           NEW t \in Tables, SameHang(s, t), NEW f, Spares(s, t, p, f)
    PROVE  Calls(t) /\ \A q \in Proc : q # p => Sees(s, t, q)
  <1>2. ASSUME NEW q \in Proc, q # p PROVE Sees(s, t, q)
    <2>1. \A e \in FD : s.fproc[q].fd[e] # Nil => s.fproc[q].fd[e] \in Filp
      BY DEF Tables, ProcRec
    <2>2. \A e \in FD : s.fproc[q].fd[e] # f /\ t.fproc[q].fd[e] = s.fproc[q].fd[e]
      BY <1>2 DEF Spares
    <2>3. ASSUME NEW h \in Filp, h # f PROVE t.filp[h].ino = s.filp[h].ino /\ t.filp[h].mode = s.filp[h].mode
      BY <2>3 DEF Spares
    <2> QED BY <2>1, <2>2, <2>3 DEF Sees
  <1>4. \A q \in Proc : s.fproc[q].suspended => Sees(s, t, q)
    BY <1>2
  <1>5. Calls(t)
    BY <1>4, CallsKept
  <1> QED BY <1>2, <1>5

NewFilp(m, i, nonblock) == [count |-> 1, mode |-> m, ino |-> i, pos |-> 0, nonblock |-> nonblock,
                            append |-> Append(i, m)]
Opened(s, f, m, i, nonblock) == [s.filp EXCEPT ![f] = NewFilp(m, i, nonblock)]
Counted(s, i, n) == [s.inode EXCEPT ![i] = [s.inode[i] EXCEPT !.count = n]]

LEMMA CountedIs ==
    ASSUME NEW s \in Tables, NEW i \in Inode, NEW n \in Nat
    PROVE  /\ Counted(s, i, n) \in [Inode -> InodeRec] /\ Counted(s, i, n)[i].count = n
           /\ \A j \in Inode : j # i => Counted(s, i, n)[j] = s.inode[j]
           /\ \A j \in Inode : /\ Counted(s, i, n)[j].size = s.inode[j].size
                               /\ Counted(s, i, n)[j].gap = s.inode[j].gap
                               /\ Counted(s, i, n)[j].rpos = s.inode[j].rpos
                               /\ Counted(s, i, n)[j].wpos = s.inode[j].wpos
  <1>1. s.inode \in [Inode -> InodeRec] /\ s.inode[i] \in InodeRec
    BY DEF Tables
  <1> DEFINE r == [s.inode[i] EXCEPT !.count = n]
  <1>2. r \in InodeRec /\ r.count = n /\ r.size = s.inode[i].size /\ r.rpos = s.inode[i].rpos /\ r.wpos = s.inode[i].wpos
        /\ r.gap = s.inode[i].gap
    BY <1>1 DEF InodeRec
  <1>3. Counted(s, i, n) = [s.inode EXCEPT ![i] = r]
    BY DEF Counted
  <1> HIDE DEF r
  <1> QED BY <1>1, <1>2, <1>3

(* A free descriptor and a free filp for inode i. *)
MayClaim(s, p, d, f, i, m, nonblock) ==
    /\ d \in FreeFDs(s, p) /\ f \in FreeFilps(s) /\ i \in Inode /\ m \in SUBSET {"R", "W"}
    /\ IsPipe(i) => m \in {{"R"}, {"W"}}
    /\ nonblock \in BOOLEAN

Claimed(s, p, d, f, i, m, nonblock) ==
    [s EXCEPT !.fproc = Put(s, p, d, f), !.filp = [s.filp EXCEPT ![f] = NewFilp(m, i, nonblock)],
              !.inode = Counted(s, i, s.inode[i].count + 1)]

LEMMA ClaimIs ==
    ASSUME NEW s \in Tables, NEW p, NEW d, NEW f, NEW i, NEW m, NEW nonblock
    PROVE  Claim(s, p, d, f, i, m, nonblock) = Claimed(s, p, d, f, i, m, nonblock)
  BY DEF Claim, Claimed, Put, NewFilp, Counted, Tables

LEMMA ClaimKeeps ==
    ASSUME NEW s, NEW p \in Proc, Good(s, {p}), NEW d, NEW f, NEW i, NEW m, NEW nonblock,
           MayClaim(s, p, d, f, i, m, nonblock), NEW t, t = Claim(s, p, d, f, i, m, nonblock)
    PROVE  /\ Good(t, {p}) /\ SameHang(s, t) /\ t.lk = s.lk /\ t.nr = s.nr
           /\ t.fproc = Put(s, p, d, f)
           /\ t.filp = Opened(s, f, m, i, nonblock)
           /\ t.inode = Counted(s, i, s.inode[i].count + 1)
           /\ \A q \in Proc : Sees(s, t, q)
           /\ t.fproc[p].fd[d] = f /\ t.filp[f] = NewFilp(m, i, nonblock)
  <1>0. /\ d \in FreeFDs(s, p) /\ f \in FreeFilps(s) /\ i \in Inode /\ m \in SUBSET {"R", "W"}
        /\ IsPipe(i) => m \in {{"R"}, {"W"}}
        /\ nonblock \in BOOLEAN
    BY DEF MayClaim
  <1> USE <1>0
  <1>1. s \in Tables /\ Slots(s)
    BY DEF Good
  <1>2. d \in FD /\ s.fproc[p].fd[d] = Nil /\ f \in Filp /\ s.filp[f].count = 0
    BY DEF FreeFDs, FreeFilps
  <1> DEFINE N == NewFilp(m, i, nonblock)
             C == Counted(s, i, s.inode[i].count + 1)
             G == Put(s, p, d, f)
  <1>3. t = [s EXCEPT !.fproc = G, !.filp = [s.filp EXCEPT ![f] = N], !.inode = C]
    <2>1. t = Claimed(s, p, d, f, i, m, nonblock)
      BY <1>1, ClaimIs
    <2> QED BY <2>1 DEF Claimed
  <1>4. N \in FilpRec /\ N.count = 1 /\ N.ino = i /\ N.mode = m
    BY DEF NewFilp, FilpRec, Append
  <1>5. s.inode[i].count \in Nat /\ s.filp \in [Filp -> FilpRec]
    BY <1>1 DEF Tables, InodeRec
  <1> HIDE DEF N, C, G
  <1>6. C \in [Inode -> InodeRec] /\ C[i].count = s.inode[i].count + 1 /\ \A j \in Inode : j # i => C[j] = s.inode[j]
    BY <1>1, <1>5, CountedIs DEF C
  <1>7. /\ t.fproc = G /\ t.filp = [s.filp EXCEPT ![f] = N] /\ t.inode = C /\ t.lk = s.lk /\ t.nr = s.nr
        /\ t.susp = s.susp /\ t.rev = s.rev /\ t.waiting = s.waiting /\ t.stuck = s.stuck /\ t.tty = s.tty /\ t.lost = s.lost
    BY <1>1, <1>3 DEF Tables
  <1>8. /\ t.fproc \in [Proc -> ProcRec] /\ Moved(s, t, p, d, f) /\ SameHang(s, t)
        /\ \A q \in Proc : q # p => t.fproc[q] = s.fproc[q]
        /\ t.fproc[p].fd[d] = f
    BY <1>1, <1>2, <1>7, PutIs DEF G
  <1>9. t.filp[f] = N /\ \A h \in Filp : h # f => t.filp[h] = s.filp[h]
    BY <1>2, <1>5, <1>7
  <1>10. [s.filp EXCEPT ![f] = N] \in [Filp -> FilpRec]
    BY <1>4, <1>5
  <1>11. t \in Tables
    BY <1>1, <1>3, <1>6, <1>7, <1>8, <1>10 DEF Tables
  <1>12. \A q \in Proc, e \in FD : s.fproc[q].fd[e] # f
    <2>1. ASSUME NEW q \in Proc, NEW e \in FD, s.fproc[q].fd[e] = f PROVE FALSE
      <3>1. s.fproc[q].fd[e] # Nil /\ f = s.fproc[q].fd[e]
        BY <1>2, <2>1, Domains
      <3>2. s.filp[f].count > 0
        BY <1>1, <2>1, <3>1, InUse
      <3> QED BY <1>2, <3>2
    <2> QED BY <2>1
  <1>13. \A h \in Filp : h # f => t.filp[h].ino = s.filp[h].ino /\ t.filp[h].mode = s.filp[h].mode
    BY <1>9
  <1>14. Calls(s) /\ \A q \in Proc : s.fproc[q].suspended => q # p
    BY DEF Good, Held, Susp
  <1>15. Calls(t) /\ \A q \in Proc : q # p => Sees(s, t, q)
    <2>1. Spares(s, t, p, f)
      BY <1>8, <1>12, <1>13 DEF Spares
    <2> QED BY <1>1, <1>8, <1>11, <1>14, <2>1, Spared
  <1>16. Sees(s, t, p)
    <2>1. \A e \in FD : s.fproc[p].fd[e] # Nil => e # d /\ s.fproc[p].fd[e] \in Filp
      BY <1>1, <1>2 DEF Tables, ProcRec
    <2>2. \A e \in FD : e # d => t.fproc[p].fd[e] = s.fproc[p].fd[e]
      BY <1>8 DEF Moved
    <2> QED BY <1>12, <1>13, <2>1, <2>2 DEF Sees
  <1>17. Slots(t)
    <2>1. f # Nil
      BY <1>2, Domains
    <2>2. Cardinality(Refs(t, f)) = Cardinality(Refs(s, f)) + 1 /\ \A h : h # Nil /\ h # f => Refs(t, h) = Refs(s, h)
      BY <1>2, <1>8, <2>1, RefsMove
    <2>3. \A h \in Filp : t.filp[h].count = Cardinality(Refs(t, h))
      <3>1. Cardinality(Refs(s, f)) = 0
        BY <1>1, <1>2 DEF Slots
      <3>2. \A h \in Filp : h # f => t.filp[h].count = Cardinality(Refs(t, h))
        BY <1>1, <1>9, <2>2, Domains DEF Slots
      <3> QED BY <1>4, <1>9, <2>2, <3>1, <3>2
    <2>4. \A j \in Inode : t.inode[j].count = Cardinality(Opens(t, j))
      <3>1. f \notin Opens(s, i) /\ Opens(t, i) = Opens(s, i) \cup {f}
        BY <1>2, <1>4, <1>9 DEF Opens
      <3>2. Cardinality(Opens(t, i)) = Cardinality(Opens(s, i)) + 1
        BY <3>1, OpensFinite, FS_AddElement
      <3>3. t.inode[i].count = Cardinality(Opens(t, i))
        BY <1>1, <1>6, <1>7, <3>2 DEF Slots
      <3>4. ASSUME NEW j \in Inode, j # i PROVE t.inode[j].count = Cardinality(Opens(t, j))
        <4>1. Opens(t, j) = Opens(s, j)
          BY <1>2, <1>4, <1>9, <3>4 DEF Opens
        <4> QED BY <1>1, <1>6, <1>7, <3>4, <4>1 DEF Slots
      <3> QED BY <3>3, <3>4
    <2>5. \A h \in Filp : t.filp[h].count > 0 => t.filp[h].ino \in Inode
      BY <1>1, <1>4, <1>9 DEF Slots
    <2>6. \A h \in Filp : t.filp[h].count > 0 /\ IsPipe(t.filp[h].ino) => t.filp[h].mode \in {{"R"}, {"W"}}
      BY <1>1, <1>4, <1>9 DEF Slots
    <2> QED BY <2>3, <2>4, <2>5, <2>6 DEF Slots
  <1>18. LocksCounted(t)
    BY <1>7 DEF Good, LocksCounted, Used
  <1>19. Good(t, {p})
    BY <1>8, <1>11, <1>15, <1>17, <1>18, HangKept DEF Good
  <1> QED BY <1>7, <1>8, <1>9, <1>15, <1>16, <1>19 DEF N, C, G, Opened

(* Descriptor d of p is filp f, of inode i. *)
Has(s, p, d, f, i) == f # Nil /\ s.fproc[p].fd[d] = f /\ s.filp[f].ino = i

(* The three ways in which p loses filp f: as the last one, as one of      *)
(* several, and for another one, g.                                        *)
Dropped(s, p, d, f, i, r) ==
    [s EXCEPT !.fproc = Put(s, p, d, Nil), !.filp = [s.filp EXCEPT ![f] = FreeFilp],
              !.inode = [s.inode EXCEPT ![i] = r]]
OneLess(s, f) == [s.filp EXCEPT ![f] = [s.filp[f] EXCEPT !.count = s.filp[f].count - 1]]
Vacated(s, f) == [s.filp EXCEPT ![f] = FreeFilp]
Made(s, i, r) == [s.inode EXCEPT ![i] = r]
Lost(s, i, r) == r \in InodeRec /\ r.count = s.inode[i].count - 1
Left(s, p, d, f) == [s EXCEPT !.fproc = Put(s, p, d, Nil), !.filp = OneLess(s, f)]
Traded(s, f, g, nonblock, b) ==
    [s.filp EXCEPT ![f] = FreeFilp,
                   ![g] = [s.filp[g] EXCEPT !.count = s.filp[g].count + 1, !.nonblock = nonblock,
                                               !.append = b]]
Joined(s, p, d, f, i, g, nonblock, b) ==
    [s EXCEPT !.fproc = Put(s, p, d, g), !.filp = Traded(s, f, g, nonblock, b),
              !.inode = Counted(s, i, s.inode[i].count - 1)]

LEMMA HasIs ==
    ASSUME NEW s \in Tables, Slots(s), NEW p \in Proc, NEW d \in FD, NEW f, NEW i, Has(s, p, d, f, i)
    PROVE  /\ f \in Filp /\ i \in Inode /\ f \in Opens(s, i) /\ s.inode[i].count > 0 /\ f # Nil
           /\ s.filp[f].count > 0 /\ s.fproc[p].fd[d] = f /\ s.filp[f].ino = i
           /\ s.inode[i].count \in Nat /\ s.inode[i] \in InodeRec /\ s.filp[f] \in FilpRec
  <1>1. s.fproc[p].fd[d] # Nil /\ f = s.fproc[p].fd[d] /\ i = s.filp[f].ino
    BY DEF Has
  <1>2. f \in Filp /\ i \in Inode /\ f \in Opens(s, i) /\ s.inode[i].count > 0 /\ s.filp[f].count > 0
    BY <1>1, InUse
  <1> QED BY <1>1, <1>2 DEF Tables, InodeRec

LEMMA HasSole ==
    ASSUME NEW s \in Tables, Slots(s), NEW p \in Proc, NEW d \in FD, NEW f, NEW i, Has(s, p, d, f, i),
           s.filp[f].count = 1
    PROVE  \A q \in Proc, e \in FD : s.fproc[q].fd[e] = f => q = p /\ e = d
  <1>1. s.fproc[p].fd[d] # Nil /\ f = s.fproc[p].fd[d]
    BY DEF Has
  <1> QED BY <1>1, SoleOwner

(* The last descriptor of a filp is given up: the slot is free. *)
LEMMA DropKeeps ==
    ASSUME NEW s, NEW P, Good(s, P), NEW p \in Proc, ~s.fproc[p].suspended, NEW d \in FD,
           NEW f, NEW i, Has(s, p, d, f, i), s.filp[f].count = 1,
           NEW r, Lost(s, i, r),
           NEW t, t = Dropped(s, p, d, f, i, r)
    PROVE  /\ Good(t, P) /\ SameHang(s, t) /\ t.lk = s.lk /\ t.nr = s.nr
           /\ Moved(s, t, p, d, Nil)
           /\ t.filp = Vacated(s, f) /\ t.inode = Made(s, i, r)
           /\ \A q \in Proc : q # p => Sees(s, t, q) /\ t.fproc[q] = s.fproc[q]
  <1>1. s \in Tables /\ Slots(s) /\ Calls(s) /\ r \in InodeRec /\ r.count = s.inode[i].count - 1
    BY DEF Good, Lost
  <1>2. f \in Filp /\ i \in Inode /\ f \in Opens(s, i) /\ s.inode[i].count > 0
    BY <1>1, HasIs
  <1>3. \A q \in Proc, e \in FD : s.fproc[q].fd[e] = f => q = p /\ e = d
    BY <1>1, HasSole
  <1>4. FreeFilp \in FilpRec /\ FreeFilp.count = 0
    BY DEF FreeFilp, FilpRec
  <1>5. s.filp \in [Filp -> FilpRec] /\ s.inode \in [Inode -> InodeRec]
    BY <1>1 DEF Tables
  <1> DEFINE G == Put(s, p, d, Nil)
             F == [s.filp EXCEPT ![f] = FreeFilp]
             C == [s.inode EXCEPT ![i] = r]
  <1>6. F \in [Filp -> FilpRec] /\ F[f] = FreeFilp /\ \A h \in Filp : h # f => F[h] = s.filp[h]
    BY <1>2, <1>4, <1>5
  <1>7. C \in [Inode -> InodeRec] /\ C[i] = r /\ \A j \in Inode : j # i => C[j] = s.inode[j]
    BY <1>1, <1>2, <1>5
  <1>8. t = [s EXCEPT !.fproc = G, !.filp = F, !.inode = C]
    BY DEF Dropped
  <1>a. G = Put(s, p, d, Nil) /\ F = Vacated(s, f) /\ C = Made(s, i, r)
    BY DEF Vacated, Made
  <1> HIDE DEF G, F, C
  <1>9. /\ t.fproc = G /\ t.filp = F /\ t.inode = C /\ t.lk = s.lk /\ t.nr = s.nr
        /\ t.susp = s.susp /\ t.rev = s.rev /\ t.waiting = s.waiting /\ t.stuck = s.stuck /\ t.tty = s.tty /\ t.lost = s.lost
    BY <1>1, <1>8 DEF Tables
  <1>10. /\ t.fproc \in [Proc -> ProcRec] /\ Moved(s, t, p, d, Nil) /\ SameHang(s, t)
         /\ \A q \in Proc : q # p => t.fproc[q] = s.fproc[q]
         /\ t.fproc[p].fd[d] = Nil
    <2>1. Nil \in Filp \cup {Nil}
      OBVIOUS
    <2> QED BY <1>1, <1>9, <2>1, PutIs DEF G
  <1>11. t \in Tables
    BY <1>1, <1>6, <1>7, <1>8, <1>9, <1>10 DEF Tables
  <1>12. Calls(t) /\ \A q \in Proc : q # p => Sees(s, t, q)
    <2>1. Spares(s, t, p, f)
      BY <1>3, <1>6, <1>9, <1>10 DEF Spares
    <2>2. \A q \in Proc : s.fproc[q].suspended => q # p
      OBVIOUS
    <2> QED BY <1>1, <1>10, <1>11, <2>1, <2>2, Spared
  <1>13. Slots(t)
    <2>1. f # Nil /\ s.fproc[p].fd[d] = f
      BY <1>1, HasIs
    <2>2. Cardinality(Refs(t, f)) = Cardinality(Refs(s, f)) - 1 /\ \A h : h # Nil /\ h # f => Refs(t, h) = Refs(s, h)
      BY <1>2, <1>10, <2>1, RefsMove
    <2>3. \A h \in Filp : t.filp[h].count = Cardinality(Refs(t, h))
      <3>1. Cardinality(Refs(s, f)) = 1
        BY <1>1, <1>2 DEF Slots
      <3>2. \A h \in Filp : h # f => t.filp[h].count = Cardinality(Refs(t, h))
        BY <1>1, <1>6, <1>9, <2>2, Domains DEF Slots
      <3> QED BY <1>4, <1>6, <1>9, <2>2, <3>1, <3>2
    <2>4. \A j \in Inode : t.inode[j].count = Cardinality(Opens(t, j))
      <3>1. f \in Opens(s, i) /\ Opens(t, i) = Opens(s, i) \ {f}
        BY <1>2, <1>4, <1>6, <1>9 DEF Opens
      <3>2. Cardinality(Opens(s, i) \ {f}) = Cardinality(Opens(s, i)) - 1
        BY <3>1, OpensFinite, FS_RemoveElement
      <3>3. t.inode[i].count = Cardinality(Opens(t, i))
        BY <1>1, <1>2, <1>7, <1>9, <3>1, <3>2 DEF Slots
      <3>4. ASSUME NEW j \in Inode, j # i PROVE t.inode[j].count = Cardinality(Opens(t, j))
        <4>1. Opens(t, j) = Opens(s, j)
          BY <1>2, <1>4, <1>6, <1>9, <3>4 DEF Opens
        <4> QED BY <1>1, <1>7, <1>9, <3>4, <4>1 DEF Slots
      <3> QED BY <3>3, <3>4
    <2>5. \A h \in Filp : t.filp[h].count > 0 => t.filp[h].ino \in Inode
      BY <1>1, <1>4, <1>6, <1>9 DEF Slots
    <2>6. \A h \in Filp : t.filp[h].count > 0 /\ IsPipe(t.filp[h].ino) => t.filp[h].mode \in {{"R"}, {"W"}}
      BY <1>1, <1>4, <1>6, <1>9 DEF Slots
    <2> QED BY <2>3, <2>4, <2>5, <2>6 DEF Slots
  <1>14. LocksCounted(t)
    BY <1>9 DEF Good, LocksCounted, Used
  <1>15. Good(t, P)
    BY <1>10, <1>11, <1>12, <1>13, <1>14, HangKept DEF Good
  <1> QED BY <1>9, <1>10, <1>12, <1>15, <1>a

(* One of several descriptors of a filp is given up. *)
LEMMA LeaveKeeps ==
    ASSUME NEW s, NEW P, Good(s, P), NEW p \in Proc, ~s.fproc[p].suspended, NEW d \in FD,
           NEW f, NEW i, Has(s, p, d, f, i), s.filp[f].count > 1, NEW t, t = Left(s, p, d, f)
    PROVE  /\ Good(t, P) /\ SameHang(s, t) /\ t.lk = s.lk /\ t.nr = s.nr
           /\ Moved(s, t, p, d, Nil) /\ t.inode = s.inode
           /\ t.filp = OneLess(s, f)
           /\ \A q \in Proc : q # p => Sees(s, t, q) /\ t.fproc[q] = s.fproc[q]
  <1>1. s \in Tables /\ Slots(s) /\ Calls(s)
    BY DEF Good
  <1>2. f \in Filp
    BY <1>1, HasIs
  <1>3. s.filp \in [Filp -> FilpRec] /\ s.filp[f] \in FilpRec
    BY <1>1, <1>2 DEF Tables
  <1> DEFINE G == Put(s, p, d, Nil)
             N == [s.filp[f] EXCEPT !.count = s.filp[f].count - 1]
             F == [s.filp EXCEPT ![f] = N]
  <1>4. N \in FilpRec /\ N.count = s.filp[f].count - 1 /\ N.count > 0
        /\ N.ino = s.filp[f].ino /\ N.mode = s.filp[f].mode
    BY <1>3 DEF FilpRec
  <1>a. G = Put(s, p, d, Nil) /\ F = OneLess(s, f)
        /\ t = [s EXCEPT !.fproc = G, !.filp = F]
    BY DEF Left, OneLess
  <1> HIDE DEF N
  <1>5. F \in [Filp -> FilpRec] /\ F[f] = N /\ \A h \in Filp : h # f => F[h] = s.filp[h]
    BY <1>2, <1>3, <1>4
  <1> HIDE DEF G, F
  <1>6. /\ t.fproc = G /\ t.filp = F /\ t.inode = s.inode /\ t.lk = s.lk /\ t.nr = s.nr
        /\ t.susp = s.susp /\ t.rev = s.rev /\ t.waiting = s.waiting /\ t.stuck = s.stuck /\ t.tty = s.tty /\ t.lost = s.lost
    BY <1>1, <1>a DEF Tables
  <1>7. /\ t.fproc \in [Proc -> ProcRec] /\ Moved(s, t, p, d, Nil) /\ SameHang(s, t)
        /\ \A q \in Proc : q # p => t.fproc[q] = s.fproc[q]
        /\ t.fproc[p].fd[d] = Nil
    <2>1. Nil \in Filp \cup {Nil}
      OBVIOUS
    <2> QED BY <1>1, <1>6, <2>1, PutIs DEF G
  <1>8. t \in Tables
    BY <1>1, <1>5, <1>6, <1>7, <1>a DEF Tables
  <1>9. \A h \in Filp : t.filp[h].ino = s.filp[h].ino /\ t.filp[h].mode = s.filp[h].mode
    BY <1>4, <1>5, <1>6
  <1>10. ASSUME NEW q \in Proc, q # p PROVE Sees(s, t, q)
    <2>1. \A e \in FD : s.fproc[q].fd[e] # Nil => s.fproc[q].fd[e] \in Filp
      BY <1>1 DEF Tables, ProcRec
    <2> QED BY <1>7, <1>9, <1>10, <2>1 DEF Sees
  <1>11. Calls(t)
    <2>1. \A q \in Proc : s.fproc[q].suspended => Sees(s, t, q)
      BY <1>10
    <2> QED BY <1>1, <1>7, <1>8, <2>1, CallsKept
  <1>12. Slots(t)
    <2>1. f # Nil /\ s.fproc[p].fd[d] = f
      BY <1>1, HasIs
    <2>2. Cardinality(Refs(t, f)) = Cardinality(Refs(s, f)) - 1 /\ \A h : h # Nil /\ h # f => Refs(t, h) = Refs(s, h)
      BY <1>7, <2>1, RefsMove
    <2>3. \A h \in Filp : t.filp[h].count = Cardinality(Refs(t, h))
      <3>1. Cardinality(Refs(s, f)) = s.filp[f].count
        BY <1>1, <1>2 DEF Slots
      <3>2. \A h \in Filp : h # f => t.filp[h].count = Cardinality(Refs(t, h))
        BY <1>1, <1>5, <1>6, <2>2, Domains DEF Slots
      <3> QED BY <1>4, <1>5, <1>6, <2>2, <3>1, <3>2
    <2>4. \A h \in Filp : t.filp[h].count > 0 <=> s.filp[h].count > 0
      <3>1. t.filp[f].count > 0 /\ s.filp[f].count > 0
        BY <1>1, <1>4, <1>5, <1>6, HasIs
      <3> QED BY <1>5, <1>6, <3>1
    <2>5. \A j : Opens(t, j) = Opens(s, j)
      BY <1>9, <2>4 DEF Opens
    <2> QED BY <1>1, <1>6, <1>9, <2>3, <2>4, <2>5 DEF Slots
  <1>13. LocksCounted(t)
    BY <1>6 DEF Good, LocksCounted, Used
  <1>14. Good(t, P)
    BY <1>7, <1>8, <1>11, <1>12, <1>13, HangKept DEF Good
  <1> QED BY <1>6, <1>7, <1>10, <1>14, <1>a

(* A descriptor that has a filp of its own shares another one instead. *)
LEMMA JoinKeeps ==
    ASSUME NEW s, NEW P, Good(s, P), NEW p \in Proc, ~s.fproc[p].suspended, NEW d \in FD,
           NEW f, NEW i, Has(s, p, d, f, i), s.filp[f].count = 1, NEW g \in Filp, g # f, s.filp[g].count > 0, s.filp[g].ino = i,
           NEW nonblock \in BOOLEAN, NEW b \in BOOLEAN,
           NEW t, t = Joined(s, p, d, f, i, g, nonblock, b)
    PROVE  /\ Good(t, P) /\ SameHang(s, t) /\ t.lk = s.lk /\ t.nr = s.nr
           /\ Moved(s, t, p, d, g)
           /\ t.filp = Traded(s, f, g, nonblock, b)
           /\ t.inode = Counted(s, i, s.inode[i].count - 1)
           /\ \A q \in Proc : q # p => Sees(s, t, q) /\ t.fproc[q] = s.fproc[q]
  <1>1. s \in Tables /\ Slots(s) /\ Calls(s)
    BY DEF Good
  <1>2. f \in Filp /\ i \in Inode /\ f \in Opens(s, i) /\ s.inode[i].count > 0
    BY <1>1, HasIs
  <1>3. \A q \in Proc, e \in FD : s.fproc[q].fd[e] = f => q = p /\ e = d
    BY <1>1, HasSole
  <1>4. FreeFilp \in FilpRec /\ FreeFilp.count = 0
    BY DEF FreeFilp, FilpRec
  <1>5. s.filp \in [Filp -> FilpRec] /\ s.inode[i].count - 1 \in Nat /\ s.filp[g] \in FilpRec
    BY <1>1, <1>2 DEF Tables, InodeRec
  <1> DEFINE N == [s.filp[g] EXCEPT !.count = s.filp[g].count + 1, !.nonblock = nonblock,
                                               !.append = b]
  <1>6. N \in FilpRec /\ N.count = s.filp[g].count + 1 /\ N.ino = i /\ N.mode = s.filp[g].mode
    <2>1. s.filp[g].count + 1 \in Nat
      BY <1>5 DEF FilpRec
    <2> DEFINE n == s.filp[g].count + 1
               M == [s.filp[g] EXCEPT !.count = n, !.nonblock = nonblock, !.append = b]
    <2>2. N = M /\ n \in Nat
      BY <2>1
    <2> HIDE DEF n, N
    <2>3. M \in FilpRec /\ M.count = n /\ M.ino = s.filp[g].ino /\ M.mode = s.filp[g].mode
      BY <1>5, <2>2 DEF FilpRec
    <2> QED BY <2>2, <2>3 DEF n
  <1> DEFINE G == Put(s, p, d, g)
             F == [s.filp EXCEPT ![f] = FreeFilp, ![g] = N]
             C == Counted(s, i, s.inode[i].count - 1)
  <1>a. G = Put(s, p, d, g) /\ F = Traded(s, f, g, nonblock, b)
        /\ C = Counted(s, i, s.inode[i].count - 1)
        /\ t = [s EXCEPT !.fproc = G, !.filp = F, !.inode = C]
    BY DEF Joined, Traded
  <1> HIDE DEF N
  <1>7. F \in [Filp -> FilpRec] /\ F[f] = FreeFilp /\ F[g] = N /\ \A h \in Filp : h # f /\ h # g => F[h] = s.filp[h]
    BY <1>2, <1>4, <1>5, <1>6
  <1>8. C \in [Inode -> InodeRec] /\ C[i].count = s.inode[i].count - 1 /\ \A j \in Inode : j # i => C[j] = s.inode[j]
    BY <1>1, <1>2, <1>5, CountedIs
  <1> HIDE DEF G, F, C
  <1>9. /\ t.fproc = G /\ t.filp = F /\ t.inode = C /\ t.lk = s.lk /\ t.nr = s.nr
        /\ t.susp = s.susp /\ t.rev = s.rev /\ t.waiting = s.waiting /\ t.stuck = s.stuck /\ t.tty = s.tty /\ t.lost = s.lost
    BY <1>1, <1>a DEF Tables
  <1>10. /\ t.fproc \in [Proc -> ProcRec] /\ Moved(s, t, p, d, g) /\ SameHang(s, t)
         /\ \A q \in Proc : q # p => t.fproc[q] = s.fproc[q]
         /\ t.fproc[p].fd[d] = g
    <2>1. g \in Filp \cup {Nil}
      OBVIOUS
    <2> QED BY <1>1, <1>9, <2>1, PutIs DEF G
  <1>11. t \in Tables
    BY <1>1, <1>7, <1>8, <1>9, <1>10, <1>a DEF Tables
  <1>12. Calls(t) /\ \A q \in Proc : q # p => Sees(s, t, q)
    <2>1. Spares(s, t, p, f)
      BY <1>3, <1>6, <1>7, <1>9, <1>10 DEF Spares
    <2>2. \A q \in Proc : s.fproc[q].suspended => q # p
      OBVIOUS
    <2> QED BY <1>1, <1>10, <1>11, <2>1, <2>2, Spared
  <1>13. Slots(t)
    <2>2. Cardinality(Refs(t, f)) = Cardinality(Refs(s, f)) - 1 /\ Cardinality(Refs(t, g)) = Cardinality(Refs(s, g)) + 1
          /\ \A h : h # g /\ h # f => Refs(t, h) = Refs(s, h)
      BY <1>1, <1>10, HasIs, RefsMove
    <2>3. \A h \in Filp : t.filp[h].count = Cardinality(Refs(t, h))
      <3>1. Cardinality(Refs(s, f)) = 1 /\ Cardinality(Refs(s, g)) = s.filp[g].count
        BY <1>1, <1>2 DEF Slots
      <3>2. \A h \in Filp : h # f /\ h # g => t.filp[h].count = Cardinality(Refs(t, h))
        BY <1>1, <1>7, <1>9, <2>2 DEF Slots
      <3>3. t.filp[g].count = Cardinality(Refs(t, g))
        BY <1>6, <1>7, <1>9, <2>2, <3>1
      <3>4. t.filp[f].count = Cardinality(Refs(t, f))
        BY <1>4, <1>7, <1>9, <2>2, <3>1
      <3> QED BY <3>2, <3>3, <3>4
    <2>7. t.filp[g].count > 0 /\ t.filp[g].ino = s.filp[g].ino /\ t.filp[g].mode = s.filp[g].mode
      BY <1>5, <1>6, <1>7, <1>9 DEF FilpRec
    <2>4. \A j \in Inode : t.inode[j].count = Cardinality(Opens(t, j))
      <3>1. f \in Opens(s, i) /\ Opens(t, i) = Opens(s, i) \ {f}
        <4>1. f \in Opens(s, i) /\ f \notin Opens(t, i)
          BY <1>2, <1>4, <1>7, <1>9 DEF Opens
        <4>2. g \in Opens(s, i) /\ g \in Opens(t, i)
          BY <2>7 DEF Opens
        <4>3. \A h \in Filp : h # f /\ h # g => (h \in Opens(t, i) <=> h \in Opens(s, i))
          BY <1>7, <1>9 DEF Opens
        <4> QED BY <4>1, <4>2, <4>3 DEF Opens
      <3>2. Cardinality(Opens(s, i) \ {f}) = Cardinality(Opens(s, i)) - 1
        <4>1. IsFiniteSet(Opens(s, i))
          BY OpensFinite
        <4> QED BY <3>1, <4>1, FS_RemoveElement
      <3>3. t.inode[i].count = Cardinality(Opens(t, i))
        BY <1>1, <1>2, <1>8, <1>9, <3>1, <3>2 DEF Slots
      <3>4. ASSUME NEW j \in Inode, j # i PROVE t.inode[j].count = Cardinality(Opens(t, j))
        <4>1. Opens(t, j) = Opens(s, j)
          BY <1>2, <1>4, <1>7, <1>9, <2>7, <3>4 DEF Opens
        <4> QED BY <1>1, <1>8, <1>9, <3>4, <4>1 DEF Slots
      <3> QED BY <3>3, <3>4
    <2>5. \A h \in Filp : t.filp[h].count > 0 => t.filp[h].ino \in Inode
      BY <1>1, <1>4, <1>7, <1>9, <2>7 DEF Slots
    <2>6. \A h \in Filp : t.filp[h].count > 0 /\ IsPipe(t.filp[h].ino) => t.filp[h].mode \in {{"R"}, {"W"}}
      <3>1. IsPipe(t.filp[g].ino) => t.filp[g].mode \in {{"R"}, {"W"}}
        BY <1>1, <2>7 DEF Slots
      <3> QED BY <1>1, <1>4, <1>7, <1>9, <3>1 DEF Slots
    <2> QED BY <2>3, <2>4, <2>5, <2>6 DEF Slots
  <1>14. LocksCounted(t)
    BY <1>9 DEF Good, LocksCounted, Used
  <1>15. Good(t, P)
    BY <1>10, <1>11, <1>12, <1>13, <1>14, HangKept DEF Good
  <1> QED BY <1>9, <1>10, <1>12, <1>15, <1>a

-----------------------------------------------------------------------------
(* close(). *)

(* r is what put_inode() makes of inode i. *)
PutBack(s, i, r) ==
    /\ r \in InodeRec /\ r.count = s.inode[i].count - 1
    /\ s.inode[i].count > 1 \/ ~IsPipe(i) =>
          r.size = s.inode[i].size /\ r.rpos = s.inode[i].rpos /\ r.wpos = s.inode[i].wpos
    /\ s.inode[i].count = 1 /\ IsPipe(i) => r.size = 0 /\ r.rpos = 0 /\ r.wpos = 0

LEMMA PutInodeIs ==
    ASSUME NEW s, NEW i \in Inode, s.inode \in [Inode -> InodeRec], s.inode[i].count > 0
    PROVE  \E r : PutBack(s, i, r) /\ put_inode(s, i) = [s EXCEPT !.inode = [s.inode EXCEPT ![i] = r]]
  <1>1. s.inode[i] \in InodeRec /\ s.inode[i].count \in Nat /\ s.inode[i].count - 1 \in Nat
    BY DEF InodeRec
  <1>2. CASE s.inode[i].count > 1 \/ ~IsPipe(i)
    <2> DEFINE n == s.inode[i].count - 1
               r == [s.inode[i] EXCEPT !.count = n]
    <2>1. n \in Nat /\ n = s.inode[i].count - 1
      BY <1>1
    <2>2. put_inode(s, i) = [s EXCEPT !.inode = [s.inode EXCEPT ![i] = r]]
      BY <1>2 DEF put_inode
    <2> HIDE DEF n
    <2>3. r \in InodeRec /\ r.count = n /\ r.size = s.inode[i].size /\ r.rpos = s.inode[i].rpos
          /\ r.wpos = s.inode[i].wpos
      BY <1>1, <2>1 DEF InodeRec
    <2>4. ~(s.inode[i].count = 1 /\ IsPipe(i))
      BY <1>2
    <2> HIDE DEF r
    <2>5. PutBack(s, i, r)
      BY <2>1, <2>3, <2>4 DEF PutBack
    <2> QED BY <2>2, <2>5
  <1>3. CASE ~(s.inode[i].count > 1 \/ ~IsPipe(i))
    <2> DEFINE r == FreeInode
    <2>1. s.inode[i].count = 1
      BY <1>1, <1>3
    <2>2. 0 \in 0 .. PIPE_SIZE
      BY FSAssumption
    <2>3. r \in InodeRec
      BY <2>2 DEF InodeRec, FreeInode
    <2>4. PutBack(s, i, r)
      BY <1>3, <2>1, <2>3 DEF PutBack, FreeInode
    <2>5. put_inode(s, i) = [s EXCEPT !.inode = [s.inode EXCEPT ![i] = r]]
      BY <1>3 DEF put_inode
    <2> QED BY <2>4, <2>5
  <1> QED BY <1>2, <1>3

(* What the last one to close filp f leaves in inode i. *)
Parting(s, f, i, r) ==
    /\ r \in InodeRec /\ r.count = s.inode[i].count - 1
    /\ s.inode[i].count > 1 => r.size = s.inode[i].size
    /\ s.inode[i].count = 1 /\ IsPipe(i) => r.size = 0 /\ r.rpos = 0 /\ r.wpos = 0
    /\ s.inode[i].count > 1 /\ i \in Fifos /\ s.filp[f].mode = {"R"} =>
          r.rpos = s.filp[f].pos /\ r.wpos = s.inode[i].wpos
    /\ s.inode[i].count > 1 /\ i \in Fifos /\ s.filp[f].mode # {"R"} =>
          r.wpos = s.filp[f].pos /\ r.rpos = s.inode[i].rpos

Shut(s, p, d, f) == [CloseFilp(s, f) EXCEPT !.fproc[p].fd[d] = Nil]

LEMMA ShutLast ==
    ASSUME NEW s \in Tables, Slots(s), NEW p \in Proc, NEW d \in FD, NEW f, NEW i, Has(s, p, d, f, i),
           s.filp[f].count = 1
    PROVE  \E r : Parting(s, f, i, r) /\ Shut(s, p, d, f) = Dropped(s, p, d, f, i, r)
  <1>1. f \in Filp /\ i \in Inode /\ s.inode[i].count > 0 /\ s.filp[f].ino = i
        /\ s.inode[i] \in InodeRec /\ s.filp[f] \in FilpRec
    BY HasIs
  <1>2. s.inode \in [Inode -> InodeRec] /\ s.filp \in [Filp -> FilpRec] /\ s.filp[f].pos \in Nat
    BY <1>1 DEF Tables, FilpRec
  <1> DEFINE F == [s.filp EXCEPT ![f] = FreeFilp]
             t == [s EXCEPT !.filp = F]
             keep == i \in Fifos /\ s.inode[i].count > 1
             k == IF ~keep THEN s.inode[i]
                  ELSE IF s.filp[f].mode = {"R"} THEN [s.inode[i] EXCEPT !.rpos = s.filp[f].pos]
                  ELSE [s.inode[i] EXCEPT !.wpos = s.filp[f].pos]
             u == [t EXCEPT !.inode = [s.inode EXCEPT ![i] = k]]
  <1>3. k \in InodeRec /\ k.count = s.inode[i].count /\ k.size = s.inode[i].size
        /\ (keep /\ s.filp[f].mode = {"R"} => k.rpos = s.filp[f].pos /\ k.wpos = s.inode[i].wpos)
        /\ (keep /\ s.filp[f].mode # {"R"} => k.wpos = s.filp[f].pos /\ k.rpos = s.inode[i].rpos)
    <2>1. CASE ~keep
      BY <1>1, <2>1
    <2>2. CASE keep /\ s.filp[f].mode = {"R"}
      <3>1. k = [s.inode[i] EXCEPT !.rpos = s.filp[f].pos]
        BY <2>2
      <3> QED BY <1>1, <1>2, <2>2, <3>1 DEF InodeRec
    <2>3. CASE keep /\ s.filp[f].mode # {"R"}
      <3>1. k = [s.inode[i] EXCEPT !.wpos = s.filp[f].pos]
        BY <2>3
      <3> QED BY <1>1, <1>2, <2>3, <3>1 DEF InodeRec
    <2> QED BY <2>1, <2>2, <2>3
  <1>4. t.inode = s.inode /\ t.filp = F /\ t.fproc = s.fproc
    BY DEF Tables
  <1>5. CloseFilp(s, f) = put_inode(u, i)
    <2> DEFINE n == s.filp[f].count - 1
    <2>0. n = 0
      OBVIOUS
    <2>1. [s EXCEPT !.filp[f] = IF n = 0 THEN FreeFilp ELSE [@ EXCEPT !.count = n]] = t
      BY <2>0 DEF Tables
    <2>2. ~(s.filp[f].count > 1)
      OBVIOUS
    <2>3. CASE ~keep
      <3>1. k = s.inode[i]
        BY <2>3
      <3>2. [s.inode EXCEPT ![i] = k] = s.inode
        BY <1>1, <1>2, <3>1
      <3>3. u = t
        BY <1>4, <3>2 DEF Tables
      <3>4. CloseFilp(s, f) = put_inode(t, i)
        BY <1>1, <2>1, <2>2, <2>3 DEF CloseFilp
      <3> QED BY <3>3, <3>4
    <2>4. CASE keep /\ s.filp[f].mode = {"R"}
      <3>1. u = [t EXCEPT !.inode[i].rpos = s.filp[f].pos]
        BY <1>4, <2>4
      <3> QED BY <1>1, <2>1, <2>2, <2>4, <3>1 DEF CloseFilp
    <2>5. CASE keep /\ s.filp[f].mode # {"R"}
      <3>1. u = [t EXCEPT !.inode[i].wpos = s.filp[f].pos]
        BY <1>4, <2>5
      <3> QED BY <1>1, <2>1, <2>2, <2>5, <3>1 DEF CloseFilp
    <2> QED BY <2>3, <2>4, <2>5
  <1>6. u.inode = [s.inode EXCEPT ![i] = k] /\ u = [s EXCEPT !.filp = F, !.inode = [s.inode EXCEPT ![i] = k]]
    BY <1>4 DEF Tables
  <1> HIDE DEF k, u, t
  <1>7. u.inode \in [Inode -> InodeRec] /\ u.inode[i] = k /\ u.inode[i].count > 0
    BY <1>1, <1>2, <1>3, <1>6
  <1>8. PICK r : PutBack(u, i, r) /\ put_inode(u, i) = [u EXCEPT !.inode = [u.inode EXCEPT ![i] = r]]
    BY <1>1, <1>7, PutInodeIs
  <1>9. Parting(s, f, i, r)
    <2>1. r \in InodeRec /\ r.count = k.count - 1
          /\ (k.count > 1 \/ ~IsPipe(i) => r.size = k.size /\ r.rpos = k.rpos /\ r.wpos = k.wpos)
          /\ (k.count = 1 /\ IsPipe(i) => r.size = 0 /\ r.rpos = 0 /\ r.wpos = 0)
      BY <1>7, <1>8 DEF PutBack
    <2> QED BY <1>3, <2>1 DEF Parting
  <1>10. [u.inode EXCEPT ![i] = r] = [s.inode EXCEPT ![i] = r]
    BY <1>1, <1>2, <1>6
  <1>11. CloseFilp(s, f) = [s EXCEPT !.filp = F, !.inode = [s.inode EXCEPT ![i] = r]]
    BY <1>5, <1>6, <1>8, <1>10 DEF Tables
  <1>12. Shut(s, p, d, f) = Dropped(s, p, d, f, i, r)
    BY <1>11 DEF Shut, Dropped, Put, Tables
  <1> QED BY <1>9, <1>12

LEMMA ShutMore ==
    ASSUME NEW s \in Tables, NEW p, NEW d, NEW f, f \in Filp, s.filp[f].count > 1
    PROVE  Shut(s, p, d, f) = Left(s, p, d, f)
  <1> DEFINE n == s.filp[f].count - 1
  <1>1. n # 0
    BY DEF Tables, FilpRec
  <1>2. CloseFilp(s, f) = [s EXCEPT !.filp[f] = IF n = 0 THEN FreeFilp ELSE [@ EXCEPT !.count = n]]
    BY DEF CloseFilp
  <1>3. CloseFilp(s, f) = [s EXCEPT !.filp = OneLess(s, f)]
    BY <1>1, <1>2 DEF OneLess
  <1> QED BY <1>3 DEF Shut, Left, Put, Tables

(* Only the locks change. *)
Holding(s, L, n) == [s EXCEPT !.lk = L, !.nr = n]
LocksAre(L, n) == /\ L \in [1 .. NR_LOCKS -> LockRec] /\ n \in 0 .. NR_LOCKS
                  /\ n = Cardinality({k \in 1 .. NR_LOCKS : L[k].type # "free"})

LEMMA LocksKeep ==
    ASSUME NEW s, NEW P, Good(s, P), NEW L, NEW n, LocksAre(L, n), NEW t, t = Holding(s, L, n)
    PROVE  /\ Good(t, P) /\ SameHang(s, t) /\ t.lk = L /\ t.nr = n
           /\ t.fproc = s.fproc /\ t.filp = s.filp /\ t.inode = s.inode
  <1>1. s \in Tables
    BY DEF Good
  <1>2. /\ t \in Tables /\ t.lk = L /\ t.nr = n /\ t.fproc = s.fproc /\ t.filp = s.filp /\ t.inode = s.inode
        /\ t.susp = s.susp /\ t.rev = s.rev /\ t.waiting = s.waiting /\ t.stuck = s.stuck /\ t.tty = s.tty /\ t.lost = s.lost
    BY <1>1 DEF Tables, Holding, LocksAre
  <1>3. SameHang(s, t)
    BY <1>2 DEF SameHang
  <1>4. LocksCounted(t)
    BY <1>2 DEF LocksCounted, Used, LocksAre
  <1>5. Slots(t)
    BY <1>2 DEF Good, Slots, Refs, Had, Opens
  <1>6. Calls(t)
    <2>1. \A q \in Proc : s.fproc[q].suspended => Sees(s, t, q)
      BY <1>2 DEF Sees
    <2>2. Calls(s) /\ t \in Tables
      BY <1>2 DEF Good
    <2> HIDE DEF Good
    <2> QED BY <1>1, <1>3, <2>1, <2>2, CallsKept
  <1>7. Good(t, P)
    BY <1>2, <1>3, <1>4, <1>5, <1>6, HangKept DEF Good
  <1> QED BY <1>2, <1>3, <1>7

(* Only what filps and inodes hold changes. *)
SameSlots(s, t) ==
    /\ t.lk = s.lk /\ t.nr = s.nr
    /\ \A p \in Proc : t.fproc[p].fd = s.fproc[p].fd
    /\ \A f \in Filp : /\ t.filp[f].count = s.filp[f].count /\ t.filp[f].ino = s.filp[f].ino
                       /\ t.filp[f].mode = s.filp[f].mode
    /\ \A i \in Inode : t.inode[i].count = s.inode[i].count

LEMMA DataKeep ==
    ASSUME NEW s, NEW P, Good(s, P), NEW t \in Tables, SameHang(s, t), SameSlots(s, t)
    PROVE  Good(t, P)
  <1>1. s \in Tables
    BY DEF Good
  <1>2. \A f : Refs(t, f) = Refs(s, f)
    BY DEF Refs, Had, SameHang, SameSlots
  <1>3. \A i : Opens(t, i) = Opens(s, i)
    BY DEF Opens, SameSlots
  <1>4. Slots(t)
    BY <1>2, <1>3 DEF Good, Slots, SameSlots
  <1>5. \A q \in Proc : Sees(s, t, q)
    <2>1. \A q \in Proc, e \in FD : s.fproc[q].fd[e] # Nil => s.fproc[q].fd[e] \in Filp
      BY <1>1 DEF Tables, ProcRec
    <2> QED BY <2>1 DEF Sees, SameSlots
  <1>6. Calls(t)
    BY <1>1, <1>5, CallsKept DEF Good
  <1>7. LocksCounted(t)
    BY DEF Good, LocksCounted, Used, SameSlots
  <1> QED BY <1>4, <1>6, <1>7, HangKept DEF Good

(* The descriptors but d of p are what they were. *)
Kept(s, t, p, d) ==
    /\ Moved(s, t, p, d, Nil)
    /\ \A q \in Proc, e \in FD : t.fproc[q].fd[e] # Nil =>
           /\ t.filp[t.fproc[q].fd[e]].ino = s.filp[t.fproc[q].fd[e]].ino
           /\ t.filp[t.fproc[q].fd[e]].mode = s.filp[t.fproc[q].fd[e]].mode

LEMMA ShutKeeps ==
    ASSUME NEW s, NEW P, Good(s, P), NEW p \in Proc, ~s.fproc[p].suspended, NEW d \in FD,
           NEW f, NEW i, Has(s, p, d, f, i), NEW t, t = Shut(s, p, d, f)
    PROVE  Good(t, P) /\ SameHang(s, t) /\ t.lk = s.lk /\ t.nr = s.nr /\ Kept(s, t, p, d) /\ Others(s, t, p)
  <1>1. s \in Tables /\ Slots(s)
    BY DEF Good
  <1>2. /\ f \in Filp /\ s.filp[f].count > 0 /\ s.filp[f].count \in Nat /\ s.filp \in [Filp -> FilpRec]
        /\ s.filp[f] \in FilpRec
    BY <1>1, HasIs DEF Tables, FilpRec
  <1>3. CASE s.filp[f].count = 1
    <2>1. PICK r : Parting(s, f, i, r) /\ t = Dropped(s, p, d, f, i, r)
      BY <1>1, <1>3, ShutLast
    <2>2. Lost(s, i, r)
      BY <2>1 DEF Parting, Lost
    <2>3. Good(t, P) /\ SameHang(s, t) /\ t.lk = s.lk /\ t.nr = s.nr /\ Moved(s, t, p, d, Nil)
          /\ t.filp = Vacated(s, f)
      BY <1>3, <2>1, <2>2, DropKeeps
    <2>4. \A q \in Proc, e \in FD : s.fproc[q].fd[e] = f => q = p /\ e = d
      BY <1>1, <1>3, HasSole
    <2>5. \A h : h \in Filp /\ h # f => t.filp[h] = s.filp[h]
      BY <1>2, <2>3 DEF Vacated
    <2>6. ASSUME NEW q \in Proc, NEW e \in FD, t.fproc[q].fd[e] # Nil
          PROVE  t.fproc[q].fd[e] \in Filp /\ t.fproc[q].fd[e] # f
      <3>1. ~(q = p /\ e = d) /\ t.fproc[q].fd[e] = s.fproc[q].fd[e]
        BY <2>3, <2>6 DEF Moved
      <3>2. t.fproc[q].fd[e] # f
        BY <2>4, <3>1
      <3>3. s.fproc[q].fd[e] \in Filp
        BY <1>1, <2>6, <3>1 DEF Tables, ProcRec
      <3> QED BY <3>1, <3>2, <3>3
    <2>7. Kept(s, t, p, d)
      BY <2>3, <2>5, <2>6 DEF Kept
    <2>8. \A q \in Proc : q # p => Sees(s, t, q) /\ t.fproc[q] = s.fproc[q]
      BY <1>3, <2>1, <2>2, DropKeeps
    <2>9. Others(s, t, p)
      BY <2>3, <2>8 DEF Others, SameHang, Susp
    <2> QED BY <2>3, <2>7, <2>9
  <1>4. CASE s.filp[f].count > 1
    <2>1. t = Left(s, p, d, f)
      BY <1>1, <1>2, <1>4, ShutMore
    <2>2. Good(t, P) /\ SameHang(s, t) /\ t.lk = s.lk /\ t.nr = s.nr /\ Moved(s, t, p, d, Nil)
          /\ t.filp = OneLess(s, f)
      BY <1>4, <2>1, LeaveKeeps
    <2> DEFINE N == [s.filp[f] EXCEPT !.count = s.filp[f].count - 1]
    <2>3. N.ino = s.filp[f].ino /\ N.mode = s.filp[f].mode
      BY <1>2 DEF FilpRec
    <2>4. t.filp = [s.filp EXCEPT ![f] = N]
      BY <2>2 DEF OneLess
    <2> HIDE DEF N
    <2>5. \A h : h \in Filp => t.filp[h].ino = s.filp[h].ino /\ t.filp[h].mode = s.filp[h].mode
      BY <1>2, <2>3, <2>4
    <2>6. ASSUME NEW q \in Proc, NEW e \in FD, t.fproc[q].fd[e] # Nil
          PROVE  t.fproc[q].fd[e] \in Filp
      BY <1>1, <2>2, <2>6 DEF Tables, ProcRec, Moved
    <2>7. Kept(s, t, p, d)
      BY <2>2, <2>5, <2>6 DEF Kept
    <2>8. \A q \in Proc : q # p => Sees(s, t, q) /\ t.fproc[q] = s.fproc[q]
      BY <1>4, <2>1, LeaveKeeps
    <2>9. Others(s, t, p)
      BY <2>2, <2>8 DEF Others, SameHang, Susp
    <2> QED BY <2>2, <2>7, <2>9
  <1> QED BY <1>2, <1>3, <1>4

(* The locks of p on file i are gone. *)
Gone(s, i, p) == {k \in 1 .. NR_LOCKS : s.lk[k].type # "free" /\ s.lk[k].ino = i /\ s.lk[k].pid = p}
Unlocked(s, i, p) == [k \in 1 .. NR_LOCKS |-> IF k \in Gone(s, i, p) THEN Unused ELSE s.lk[k]]

LEMMA UnusedIs == Unused \in LockRec /\ Unused.type = "free"
  BY DEF Unused, LockRec

(* Those that wait for a lock try again, if there was one. *)
LocksGone(s, i, p, t) ==
    IF Gone(s, i, p) = {} THEN t = s
    ELSE Awake(s, {q \in Proc : s.fproc[q].suspended /\ s.fproc[q].task = "XLOCK"}, t)

LEMMA UnlockAllKeeps ==
    ASSUME NEW s, NEW P, Good(s, P), NEW p, NEW i, NEW t, t = UnlockAll(s, i, p)
    PROVE  /\ Good(t, P) /\ t.filp = s.filp /\ t.inode = s.inode /\ t.lost = s.lost /\ Susp(t) \subseteq Susp(s)
           /\ \A q \in Proc : t.fproc[q].fd = s.fproc[q].fd
           /\ t.lk = Unlocked(s, i, p)
           /\ LocksGone(s, i, p, t) /\ \A q : Others(s, t, q)
  <1> DEFINE G == Gone(s, i, p)
             L == Unlocked(s, i, p)
             n == s.nr - Cardinality(G)
             u == [s EXCEPT !.lk = L, !.nr = n]
  <1>1. s \in Tables /\ LocksCounted(s) /\ s.lk \in [1 .. NR_LOCKS -> LockRec] /\ s.nr \in 0 .. NR_LOCKS
    BY DEF Good, Tables
  <1>2. CASE G = {}
    <2>1. t = s
      BY <1>2 DEF UnlockAll, Gone
    <2>2. L = s.lk
      BY <1>1, <1>2 DEF Unlocked
    <2> QED BY <1>2, <2>1, <2>2, OthersNone DEF LocksGone
  <1>3. CASE G # {}
    <2>1. t = lock_revive(u)
      BY <1>3 DEF UnlockAll, Gone, Unlocked
    <2>2. L \in [1 .. NR_LOCKS -> LockRec]
      BY <1>1, UnusedIs DEF Unlocked
    <2>3. G \subseteq Used(s) /\ {k \in 1 .. NR_LOCKS : L[k].type # "free"} = Used(s) \ G
      BY UnusedIs DEF Unlocked, Gone, Used
    <2>4. IsFiniteSet(Used(s)) /\ Cardinality(Used(s)) \in Nat /\ Cardinality(Used(s) \cap G) = Cardinality(G)
          /\ Cardinality(G) \in Nat /\ Cardinality(G) <= Cardinality(Used(s))
      <3>1. IsFiniteSet(Used(s)) /\ Cardinality(Used(s)) \in Nat
        BY Domains, SubFinite DEF Used
      <3>2. Used(s) \cap G = G
        BY <2>3
      <3>3. Cardinality(G) \in Nat /\ Cardinality(G) <= Cardinality(Used(s))
        BY <2>3, <3>1, SubFinite
      <3> QED BY <3>1, <3>2, <3>3
    <2> HIDE DEF G, L
    <2>5. Cardinality(Used(s) \ G) = Cardinality(Used(s)) - Cardinality(Used(s) \cap G)
      BY <2>4, FS_Difference
    <2>6. n = Cardinality({k \in 1 .. NR_LOCKS : L[k].type # "free"}) /\ n \in 0 .. NR_LOCKS
      <3>1. s.nr = Cardinality(Used(s)) /\ NR_LOCKS \in Nat
        BY <1>1, Domains DEF LocksCounted
      <3>2. n = Cardinality(Used(s) \ G)
        BY <2>4, <2>5, <3>1
      <3>3. n \in 0 .. NR_LOCKS
        BY <1>1, <2>4, <3>1
      <3> QED BY <2>3, <3>2, <3>3
    <2>a. u = Holding(s, L, n) /\ LocksAre(L, n)
      BY <2>2, <2>6 DEF Holding, LocksAre
    <2> HIDE DEF n, u
    <2>7. Good(u, P) /\ SameHang(s, u) /\ u.lk = L /\ u.fproc = s.fproc /\ u.filp = s.filp /\ u.inode = s.inode
      BY <2>a, LocksKeep
    <2> DEFINE Q == {q \in Proc : s.fproc[q].suspended /\ s.fproc[q].task = "XLOCK"}
    <2>8. Q = {q \in Proc : u.fproc[q].suspended /\ u.fproc[q].task = "XLOCK"}
      BY <2>7
    <2>9. u.waiting = s.waiting /\ u.rev = s.rev /\ Susp(u) = Susp(s)
      BY <2>7 DEF SameHang, Susp
    <2>10. /\ Good(t, P) /\ SameFiles(u, t) /\ Susp(t) \subseteq Susp(u)
           /\ Awake(u, {q \in Proc : u.fproc[q].suspended /\ u.fproc[q].task = "XLOCK"}, t)
      BY <2>1, <2>7, LockReviveKeeps
    <2>11. Awake(s, Q, t)
      <3>1. Awake(u, Q, t)
        BY <2>8, <2>10
      <3>2. Again(s, Q) = Again(u, Q) /\ Over(s, Q) = Over(u, Q)
        BY <2>7 DEF Again, Over
      <3> HIDE DEF Q
      <3> QED BY <2>7, <2>9, <3>1, <3>2 DEF Awake
    <2>12. t.filp = s.filp /\ t.inode = s.inode /\ t.lost = s.lost /\ t.lk = L
           /\ \A q \in Proc : t.fproc[q].fd = s.fproc[q].fd
      BY <2>7, <2>10 DEF SameFiles, SameHang
    <2>13. LocksGone(s, i, p, t)
      BY <1>3, <2>11 DEF LocksGone, G
    <2>14. ASSUME NEW q PROVE Others(s, t, q)
      <3>1. Others(u, t, q)
        <4>1. u \in Tables
          BY <2>7 DEF Good
        <4> QED BY <2>10, <4>1, OthersAwake
      <3>2. Others(s, u, q)
        BY <2>7, <2>9 DEF Others, Sees
      <3> QED BY <3>1, <3>2, OthersThen
    <2> QED BY <2>9, <2>10, <2>12, <2>13, <2>14 DEF L
  <1> QED BY <1>2, <1>3

(* What the other side of a pipe, or the terminal, sees of a close(). *)
Told(s, p, f, i) ==
    IF IsPipe(i) THEN release(s, i, IF "R" \in s.filp[f].mode THEN "WRITE" ELSE "READ", NR_PROCS)
    ELSE IF i \in Ttys /\ s.filp[f].count = 1 THEN gen_io(s, p, FALSE)
    ELSE s

LEMMA ToldKeeps ==
    ASSUME NEW s, NEW P, Good(s, P), NEW p, NEW f, NEW i, NEW t, t = Told(s, p, f, i)
    PROVE  Good(t, P) /\ SameFiles(s, t) /\ Susp(t) \subseteq Susp(s) /\ \A q : Others(s, t, q)
  <1> DEFINE op == IF "R" \in s.filp[f].mode THEN "WRITE" ELSE "READ"
  <1>1. CASE IsPipe(i)
    <2>1. t = release(s, i, op, NR_PROCS)
      BY <1>1 DEF Told
    <2>2. op \in {"READ", "WRITE", "OPEN"}
      OBVIOUS
    <2> HIDE DEF op
    <2>3. s \in Tables
      BY DEF Good
    <2>4. Good(t, P) /\ SameFiles(s, t) /\ Susp(t) \subseteq Susp(s) /\ Awake(s, Released(s, i, op, NR_PROCS), t)
      BY <1>1, <2>1, <2>2, ReleaseKeeps
    <2> QED BY <2>3, <2>4, OthersAwake
  <1>2. CASE ~IsPipe(i) /\ i \in Ttys /\ s.filp[f].count = 1
    <2>1. t = gen_io(s, p, FALSE)
      BY <1>2 DEF Told
    <2>2. Good(t, P) /\ OnlyTyping(s, t)
      BY <2>1, GenIoKeeps
    <2>3. \A q : Others(s, t, q)
      BY <2>2, OthersFiles DEF OnlyTyping
    <2> QED BY <2>2, <2>3 DEF OnlyTyping
  <1>3. CASE ~IsPipe(i) /\ ~(i \in Ttys /\ s.filp[f].count = 1)
    <2>1. t = s
      BY <1>3 DEF Told
    <2> QED BY <2>1, OthersNone DEF SameFiles
  <1> QED BY <1>1, <1>2, <1>3

LEMMA Waits == ASSUME NEW s, NEW P, Good(s, P), NEW p \in Proc
               PROVE  /\ p \in Susp(s) <=> s.fproc[p].suspended
                      /\ p \in P => ~s.fproc[p].suspended
                      /\ p \in s.waiting <=> s.fproc[p].suspended \/ p \in P
  BY DEF Good, Held, Susp

(* Descriptor d of p is empty. *)
Emptied(s, t, p, d) ==
    /\ Kept(s, t, p, d) /\ Susp(t) \subseteq Susp(s)
    /\ t.lk = IF s.fproc[p].fd[d] = Nil THEN s.lk ELSE Unlocked(s, s.filp[s.fproc[p].fd[d]].ino, p)

LEMMA CloseKeeps ==
    ASSUME NEW s, NEW P, Good(s, P), NEW p \in Proc, ~s.fproc[p].suspended, NEW d \in FD,
           NEW t, t = do_close(s, p, d)
    PROVE  Good(t, P) /\ Emptied(s, t, p, d) /\ Others(s, t, p)
  <1>1. CASE s.fproc[p].fd[d] = Nil
    <2>1. t = s
      BY <1>1 DEF do_close
    <2> QED BY <1>1, <2>1, OthersNone DEF Emptied, Kept, Moved
  <1>2. CASE s.fproc[p].fd[d] # Nil
    <2> DEFINE f == s.fproc[p].fd[d]
               i == s.filp[f].ino
               s1 == Told(s, p, f, i)
               s2 == Shut(s1, p, d, f)
    <2>1. t = UnlockAll(s2, i, p)
      BY <1>2 DEF do_close, Told, Shut
    <2>2. Has(s, p, d, f, i)
      BY <1>2 DEF Has
    <2>3. i = s.filp[s.fproc[p].fd[d]].ino
      OBVIOUS
    <2> HIDE DEF f, i, s1, s2
    <2>4. Good(s1, P) /\ SameFiles(s, s1) /\ Susp(s1) \subseteq Susp(s) /\ Others(s, s1, p)
      BY ToldKeeps DEF s1
    <2>5. Has(s1, p, d, f, i)
      BY <2>2, <2>4 DEF Has, SameFiles
    <2>6. ~s1.fproc[p].suspended
      BY <2>4 DEF Susp
    <2>7. Good(s2, P) /\ SameHang(s1, s2) /\ s2.lk = s1.lk /\ s2.nr = s1.nr /\ Kept(s1, s2, p, d)
          /\ Others(s1, s2, p)
      BY <2>4, <2>5, <2>6, ShutKeeps DEF s2
    <2>8. Good(t, P) /\ t.filp = s2.filp /\ t.lost = s2.lost /\ Susp(t) \subseteq Susp(s2)
          /\ (\A q \in Proc : t.fproc[q].fd = s2.fproc[q].fd) /\ t.lk = Unlocked(s2, i, p)
          /\ Others(s2, t, p)
      BY <2>1, <2>7, UnlockAllKeeps
    <2>9. Unlocked(s2, i, p) = Unlocked(s, i, p)
      BY <2>4, <2>7 DEF Unlocked, Gone, SameFiles
    <2>10. Susp(s2) = Susp(s1)
      BY <2>7 DEF SameHang, Susp
    <2>11. Kept(s, t, p, d)
      <3>1. \A q \in Proc : s1.fproc[q].fd = s.fproc[q].fd /\ t.fproc[q].fd = s2.fproc[q].fd
        BY <2>4, <2>8 DEF SameFiles
      <3>2. s1.filp = s.filp /\ t.filp = s2.filp
        BY <2>4, <2>8 DEF SameFiles
      <3>3. Moved(s, t, p, d, Nil)
        <4>1. Moved(s1, s2, p, d, Nil) /\ s1.lost = s.lost /\ t.lost = s2.lost
          BY <2>4, <2>7, <2>8 DEF Kept, SameFiles
        <4> QED BY <3>1, <4>1 DEF Moved
      <3>4. ASSUME NEW q \in Proc, NEW e \in FD, t.fproc[q].fd[e] # Nil
            PROVE  /\ t.filp[t.fproc[q].fd[e]].ino = s.filp[t.fproc[q].fd[e]].ino
                   /\ t.filp[t.fproc[q].fd[e]].mode = s.filp[t.fproc[q].fd[e]].mode
        BY <2>7, <3>1, <3>2, <3>4 DEF Kept
      <3> QED BY <3>3, <3>4 DEF Kept
    <2>12. Others(s, s2, p)
      BY <2>4, <2>7, OthersThen
    <2>13. Others(s, t, p)
      BY <2>8, <2>12, OthersThen
    <2> QED BY <1>2, <2>3, <2>4, <2>8, <2>9, <2>10, <2>11, <2>13 DEF Emptied
  <1> QED BY <1>1, <1>2


(* ------------------------- Who has which locks ------------------------- *)
(* q has file i open. *)
HasOpen(s, q, i) == \E d \in FD : s.fproc[q].fd[d] # Nil /\ s.filp[s.fproc[q].fd[d]].ino = i

(* l and h may not be in the table together. *)
Clash(l, h) ==
    /\ h.ino = l.ino /\ h.pid # l.pid /\ h.first <= l.last /\ l.first <= h.last
    /\ ~(h.type = "RDLCK" /\ l.type = "RDLCK")

Apart(L) ==
    \A k \in 1 .. NR_LOCKS : L[k].type # "free" =>
        /\ L[k].first <= L[k].last
        /\ \A j \in 1 .. NR_LOCKS : L[j].type # "free" => ~Clash(L[k], L[j])

Owned(s) ==
    \A k \in 1 .. NR_LOCKS : s.lk[k].type # "free" =>
        s.lk[k].pid \in Proc /\ HasOpen(s, s.lk[k].pid, s.lk[k].ino)

LocksOK(s) == Apart(s.lk) /\ Owned(s)
LocksGo(s, t) == LocksOK(s) => LocksOK(t)

OpensKept(s, t) == \A q \in Proc : \A i : HasOpen(s, q, i) => HasOpen(t, q, i)

(* As long as the locks are what they were, it is enough that nobody loses *)
(* a file.                                                                 *)
LEMMA LocksStay ==
    ASSUME NEW s, NEW t, t.lk = s.lk, OpensKept(s, t)
    PROVE  LocksGo(s, t)
  <1> SUFFICES ASSUME LocksOK(s) PROVE LocksOK(t)
    BY DEF LocksGo
  <1>1. Apart(s.lk) /\ Owned(s)
    BY DEF LocksOK
  <1>2. Owned(t)
    BY <1>1 DEF Owned, OpensKept
  <1> QED BY <1>1, <1>2 DEF LocksOK

LEMMA LocksThen ==
    ASSUME NEW s, NEW t, NEW u, LocksGo(s, t), LocksGo(t, u)
    PROVE  LocksGo(s, u)
  BY DEF LocksGo

LEMMA LocksFiles ==
    ASSUME NEW s, NEW t, SameFiles(s, t)
    PROVE  LocksGo(s, t)
  <1>1. t.lk = s.lk /\ OpensKept(s, t)
    BY DEF SameFiles, HasOpen, OpensKept
  <1> QED BY <1>1, LocksStay

LEMMA LocksClosed ==
    ASSUME NEW s, NEW t, NEW p \in Proc, NEW d \in FD, Emptied(s, t, p, d)
    PROVE  LocksGo(s, t)
  <1> SUFFICES ASSUME LocksOK(s) PROVE LocksOK(t)
    BY DEF LocksGo
  <1>1. Kept(s, t, p, d) /\ Apart(s.lk) /\ Owned(s)
    BY DEF Emptied, LocksOK
  <1>2. ASSUME NEW q \in Proc, NEW e \in FD, ~(q = p /\ e = d), s.fproc[q].fd[e] # Nil
        PROVE  /\ t.fproc[q].fd[e] # Nil
               /\ t.filp[t.fproc[q].fd[e]].ino = s.filp[s.fproc[q].fd[e]].ino
    <2>1. t.fproc[q].fd[e] = s.fproc[q].fd[e]
      BY <1>1, <1>2 DEF Kept, Moved
    <2> QED BY <1>1, <1>2, <2>1 DEF Kept
  <1>3. CASE s.fproc[p].fd[d] = Nil
    <2>1. t.lk = s.lk
      BY <1>3 DEF Emptied
    <2>2. ASSUME NEW q \in Proc, NEW i, HasOpen(s, q, i) PROVE HasOpen(t, q, i)
      BY <1>2, <1>3, <2>2 DEF HasOpen
    <2> QED BY <2>1, <2>2, LocksStay DEF OpensKept, LocksGo
  <1>4. CASE s.fproc[p].fd[d] # Nil
    <2> DEFINE i == s.filp[s.fproc[p].fd[d]].ino
    <2>1. t.lk = Unlocked(s, i, p)
      BY <1>4 DEF Emptied
    <2>2. \A e \in FD : s.fproc[p].fd[e] # Nil /\ s.filp[s.fproc[p].fd[e]].ino # i => e # d
      OBVIOUS
    <2> HIDE DEF i
    <2>3. \A k \in 1 .. NR_LOCKS : t.lk[k].type # "free" =>
             /\ s.lk[k].type # "free" /\ t.lk[k] = s.lk[k]
             /\ ~(s.lk[k].ino = i /\ s.lk[k].pid = p)
      BY <2>1, UnusedIs DEF Unlocked, Gone
    <2>4. Apart(t.lk)
      BY <1>1, <2>3 DEF Apart
    <2>5. ASSUME NEW k \in 1 .. NR_LOCKS, t.lk[k].type # "free"
          PROVE  t.lk[k].pid \in Proc /\ HasOpen(t, t.lk[k].pid, t.lk[k].ino)
      <3> DEFINE q == s.lk[k].pid
                 j == s.lk[k].ino
      <3>1. q \in Proc /\ HasOpen(s, q, j) /\ ~(j = i /\ q = p) /\ t.lk[k].pid = q /\ t.lk[k].ino = j
        BY <1>1, <2>3, <2>5 DEF Owned
      <3> HIDE DEF q, j
      <3>2. PICK e \in FD : s.fproc[q].fd[e] # Nil /\ s.filp[s.fproc[q].fd[e]].ino = j
        BY <3>1 DEF HasOpen
      <3>3. ~(q = p /\ e = d)
        BY <2>2, <3>1, <3>2
      <3>4. HasOpen(t, q, j)
        BY <1>2, <3>1, <3>2, <3>3 DEF HasOpen
      <3> QED BY <3>1, <3>4
    <2>6. Owned(t)
      BY <2>5 DEF Owned
    <2> QED BY <2>4, <2>6 DEF LocksOK
  <1> QED BY <1>3, <1>4

(* close() of several descriptors, one after the other.  The function by   *)
(* which CloseAll is defined exists: induction shows it for every length.  *)
CloseOne(a, p, D, k) == IF k - 1 \in D THEN do_close(a, p, k - 1) ELSE a
ClosedTo(c, m, s, p, D) == c = [k \in 0 .. m |-> IF k = 0 THEN s ELSE CloseOne(c[k - 1], p, D, k)]
Closes(c, s, p, D) == ClosedTo(c, OPEN_MAX, s, p, D)

LEMMA ClosesExists ==
    ASSUME NEW s, NEW p, NEW D
    PROVE  \E c : Closes(c, s, p, D)
  <1> DEFINE M == {m \in 0 .. OPEN_MAX : \E c : ClosedTo(c, m, s, p, D)}
  <1>1. OPEN_MAX \in Nat
    BY Domains
  <1>2. 0 \in M
    <2> DEFINE c == [k \in 0 .. 0 |-> s]
    <2>1. c = [k \in 0 .. 0 |-> IF k = 0 THEN s ELSE CloseOne(c[k - 1], p, D, k)]
      OBVIOUS
    <2>2. ClosedTo(c, 0, s, p, D)
      BY <2>1 DEF ClosedTo
    <2> QED BY <1>1, <2>2
  <1>3. ASSUME NEW m \in 0 .. OPEN_MAX, m < OPEN_MAX, m \in M PROVE m + 1 \in M
    <2>1. PICK b : ClosedTo(b, m, s, p, D)
      BY <1>3
    <2> DEFINE e == CloseOne(b[m], p, D, m + 1)
               c == [k \in 0 .. m + 1 |-> IF k = m + 1 THEN e ELSE b[k]]
    <2>2. \A k \in 0 .. m : b[k] = IF k = 0 THEN s ELSE CloseOne(b[k - 1], p, D, k)
      BY <2>1 DEF ClosedTo
    <2>3. \A k \in 0 .. m : c[k] = b[k]
      BY <1>3
    <2>4. c[m + 1] = CloseOne(c[m], p, D, m + 1)
      BY <1>3, <2>3
    <2>5. ASSUME NEW k \in 0 .. m + 1 PROVE c[k] = IF k = 0 THEN s ELSE CloseOne(c[k - 1], p, D, k)
      <3>1. CASE k = m + 1
        BY <2>4, <3>1
      <3>2. CASE k = 0
        BY <2>2, <2>3, <3>2
      <3>3. CASE k # 0 /\ k # m + 1
        <4>1. k \in 0 .. m /\ k - 1 \in 0 .. m
          BY <3>3
        <4>2. c[k] = b[k] /\ c[k - 1] = b[k - 1]
          BY <2>3, <4>1
        <4>3. b[k] = CloseOne(b[k - 1], p, D, k)
          BY <2>2, <3>3, <4>1
        <4> HIDE DEF c
        <4> QED BY <3>3, <4>2, <4>3
      <3> QED BY <3>1, <3>2, <3>3
    <2>6. c = [k \in 0 .. m + 1 |-> c[k]]
      OBVIOUS
    <2> HIDE DEF c
    <2>7. ClosedTo(c, m + 1, s, p, D)
      BY <2>5, <2>6, Zenon DEF ClosedTo
    <2> QED BY <1>1, <1>3, <2>7
  <1> HIDE DEF M
  <1>4. \A m \in 0 .. OPEN_MAX : m \in M
    BY <1>1, <1>2, <1>3, Upwards
  <1>5. OPEN_MAX \in M
    BY <1>1, <1>4
  <1> QED BY <1>5 DEF M, Closes

LEMMA CloseAllIs ==
    ASSUME NEW s, NEW p, NEW D
    PROVE  \E c : Closes(c, s, p, D) /\ CloseAll(s, p, D) = c[OPEN_MAX]
  <1>1. CloseAll(s, p, D) = (CHOOSE c : Closes(c, s, p, D))[OPEN_MAX]
    BY Zenon DEF CloseAll, Closes, ClosedTo, CloseOne
  <1> QED BY <1>1, ClosesExists

(* The descriptors of D below k are empty. *)
EmptiedTo(s, t, p, D, k) ==
    /\ Susp(t) \subseteq Susp(s)
    /\ \A q \in Proc, e \in FD : t.fproc[q].fd[e] = IF q = p /\ e \in D /\ e < k THEN Nil ELSE s.fproc[q].fd[e]

LEMMA CloseAllKeeps ==
    ASSUME NEW s, NEW P, Good(s, P), NEW p \in Proc, ~s.fproc[p].suspended, NEW D \in SUBSET FD,
           NEW t, t = CloseAll(s, p, D)
    PROVE  Good(t, P) /\ EmptiedTo(s, t, p, D, OPEN_MAX) /\ Others(s, t, p) /\ LocksGo(s, t)
  <1>1. PICK c : Closes(c, s, p, D) /\ t = c[OPEN_MAX]
    BY CloseAllIs
  <1>2. \A k \in 0 .. OPEN_MAX : c[k] = IF k = 0 THEN s ELSE CloseOne(c[k - 1], p, D, k)
    BY <1>1 DEF Closes, ClosedTo
  <1>0. OPEN_MAX \in Nat
    BY Domains
  <1> DEFINE Fits(k) == Good(c[k], P) /\ EmptiedTo(s, c[k], p, D, k) /\ Others(s, c[k], p) /\ LocksGo(s, c[k])
             M == {k \in 0 .. OPEN_MAX : Fits(k)}
  <1>3. 0 \in M
    <2>1. c[0] = s
      BY <1>0, <1>2
    <2>2. EmptiedTo(s, s, p, D, 0)
      BY DEF EmptiedTo, FD
    <2> QED BY <1>0, <2>1, <2>2, OthersNone DEF LocksGo
  <1>4. ASSUME NEW k \in 0 .. OPEN_MAX, k < OPEN_MAX, k \in M PROVE k + 1 \in M
    <2> DEFINE a == c[k]
               b == c[k + 1]
    <2>1. b = CloseOne(a, p, D, k + 1) /\ Good(a, P) /\ EmptiedTo(s, a, p, D, k)
          /\ Others(s, a, p) /\ LocksGo(s, a)
      <3>1. k + 1 \in 0 .. OPEN_MAX /\ k + 1 # 0 /\ (k + 1) - 1 = k
        BY <1>0, <1>4
      <3> QED BY <1>2, <1>4, <3>1
    <2>2. k \in FD /\ (k + 1) - 1 = k
      BY <1>0, <1>4 DEF FD
    <2> HIDE DEF a, b
    <2>3. CASE k \notin D
      <3>1. b = a
        BY <2>1, <2>2, <2>3 DEF CloseOne
      <3>2. EmptiedTo(s, a, p, D, k + 1)
        <4>1. \A e \in FD : e \in D => (e < k + 1 <=> e < k)
          BY <1>4, <2>3 DEF FD
        <4>2. ASSUME NEW q \in Proc, NEW e \in FD
              PROVE  a.fproc[q].fd[e] = IF q = p /\ e \in D /\ e < k + 1 THEN Nil ELSE s.fproc[q].fd[e]
          <5>1. a.fproc[q].fd[e] = IF q = p /\ e \in D /\ e < k THEN Nil ELSE s.fproc[q].fd[e]
            BY <2>1 DEF EmptiedTo
          <5>2. e \in D => (e < k + 1 <=> e < k)
            BY <4>1
          <5> QED BY <5>1, <5>2
        <4>3. Susp(a) \subseteq Susp(s)
          BY <2>1 DEF EmptiedTo
        <4> QED BY <4>2, <4>3, Zenon DEF EmptiedTo
      <3>3. k + 1 \in 0 .. OPEN_MAX
        BY <1>0, <1>4
      <3> QED BY <2>1, <3>1, <3>2, <3>3 DEF a, b
    <2>4. CASE k \in D
      <3>1. b = do_close(a, p, k)
        BY <2>1, <2>2, <2>4 DEF CloseOne
      <3>2. ~a.fproc[p].suspended
        BY <2>1 DEF EmptiedTo, Susp
      <3>3. Good(b, P) /\ Emptied(a, b, p, k) /\ Others(a, b, p)
        BY <2>1, <2>2, <3>1, <3>2, CloseKeeps
      <3>4. Moved(a, b, p, k, Nil) /\ Susp(b) \subseteq Susp(a)
        BY <3>3 DEF Emptied, Kept
      <3>5. \A e \in FD : (e \in D /\ e < k + 1) <=> ((e \in D /\ e < k) \/ e = k)
        BY <1>4, <2>2, <2>4 DEF FD
      <3>6. EmptiedTo(s, b, p, D, k + 1)
        <4>1. ASSUME NEW q \in Proc, NEW e \in FD
              PROVE  b.fproc[q].fd[e] = IF q = p /\ e \in D /\ e < k + 1 THEN Nil ELSE s.fproc[q].fd[e]
          <5>1. a.fproc[q].fd[e] = IF q = p /\ e \in D /\ e < k THEN Nil ELSE s.fproc[q].fd[e]
            BY <2>1 DEF EmptiedTo
          <5>2. b.fproc[q].fd[e] = IF q = p /\ e = k THEN Nil ELSE a.fproc[q].fd[e]
            BY <3>4 DEF Moved
          <5> QED BY <3>5, <5>1, <5>2
        <4>2. Susp(b) \subseteq Susp(s)
          BY <2>1, <3>4 DEF EmptiedTo
        <4> QED BY <4>1, <4>2, Zenon DEF EmptiedTo
      <3>7. k + 1 \in 0 .. OPEN_MAX
        BY <1>0, <1>4
      <3>8. Others(s, b, p)
        BY <2>1, <3>3, OthersThen
      <3>9. LocksGo(s, b)
        BY <2>1, <2>2, <3>3, LocksClosed, LocksThen
      <3> QED BY <3>3, <3>6, <3>7, <3>8, <3>9 DEF b
    <2> QED BY <2>3, <2>4
  <1> HIDE DEF M
  <1>5. \A k \in 0 .. OPEN_MAX : k \in M
    BY <1>0, <1>3, <1>4, Upwards
  <1> QED BY <1>0, <1>1, <1>5 DEF M

-----------------------------------------------------------------------------
(* The outcome of a call of p: it has its answer, or hangs. *)
Done(s, x, p) ==
    /\ IF x.r = "SUSPEND" THEN Good(x.s, {}) ELSE Good(x.s, {p})
    /\ Others(s, x.s, p)

(* What p may hang on. *)
MayHang(s, p, task, c) ==
    /\ s.fproc[p].fd[c.fd] # Nil
    /\ LET f == s.filp[s.fproc[p].fd[c.fd]]
       IN  \/ /\ task = "XPIPE" /\ IsPipe(f.ino) /\ c.op \in {"READ", "WRITE"}
              /\ (IF c.op = "READ" THEN "R" ELSE "W") \in f.mode
           \/ task = "XPOPEN" /\ f.ino \in Fifos /\ c.op = "OPEN"
           \/ task = "XLOCK" /\ f.ino \in Files /\ c.op = "FCNTL" /\ Sane(c.lock)
           \/ task = "TTY" /\ f.ino \in Ttys /\ c.op \in {"READ", "WRITE"}

LEMMA MayHangIs ==
    ASSUME NEW s, NEW p \in Proc, Good(s, {p}), NEW task \in Tasks, NEW c \in Call, MayHang(s, p, task, c)
    PROVE  CallOf(s, Hung(s, p, task, c))
  <1>1. s.fproc[p] \in ProcRec
    BY DEF Good, Tables
  <1>2. ~s.fproc[p].revived
    BY DEF Good, Held, Rev
  <1> DEFINE r == Hung(s, p, task, c)
  <1>3. r.task = task /\ r.call = c /\ r.fd = s.fproc[p].fd /\ ~r.revived
    BY <1>1, <1>2 DEF Hung, ProcRec
  <1> HIDE DEF r
  <1>4. CallOf(s, r)
    BY <1>3 DEF CallOf, MayHang
  <1> QED BY <1>4 DEF r

LEMMA HungIs ==
    ASSUME NEW s, NEW p \in Proc, Good(s, {p}), NEW task \in Tasks \ {"none", "TTY"}, NEW c \in Call,
           MayHang(s, p, task, c), NEW t, t = suspend(s, p, task, c)
    PROVE  Good(t, {}) /\ SameFiles(s, t) /\ Others(s, t, p) /\ t.fproc[p] = Hung(s, p, task, c)
  <1>1. s \in Tables /\ task \in Tasks
    BY DEF Good
  <1>2. Good(t, {})
    <2>1. CallOf(s, Hung(s, p, task, c))
      BY <1>1, MayHangIs
    <2> QED BY <2>1, SuspendKeeps
  <1>3. SameFiles(s, t) /\ t.fproc = [s.fproc EXCEPT ![p] = Hung(s, p, task, c)]
    BY <1>1, SuspendIs
  <1>4. \A q \in Proc : q # p => t.fproc[q] = s.fproc[q]
    BY <1>1, <1>3 DEF Tables
  <1>5. Susp(t) \subseteq Susp(s) \cup {p}
    BY <1>4 DEF Susp
  <1>6. t.fproc[p] = Hung(s, p, task, c)
    BY <1>1, <1>3 DEF Tables
  <1> QED BY <1>2, <1>3, <1>4, <1>5, <1>6, OthersFiles

-----------------------------------------------------------------------------
(* Locks. *)

(* Every lock of L is a part of one of K. *)
Shrunk(K, L) ==
    \A k \in 1 .. NR_LOCKS : L[k].type # "free" =>
        \E j \in 1 .. NR_LOCKS :
            /\ K[j].type = L[k].type /\ K[j].pid = L[k].pid /\ K[j].ino = L[k].ino
            /\ K[j].first <= L[k].first /\ L[k].last <= K[j].last
            /\ K[j].first <= K[j].last => L[k].first <= L[k].last

LEMMA ShrunkThen ==
    ASSUME NEW K \in [1 .. NR_LOCKS -> LockRec], NEW L \in [1 .. NR_LOCKS -> LockRec],
           NEW M \in [1 .. NR_LOCKS -> LockRec], Shrunk(K, L), Shrunk(L, M)
    PROVE  Shrunk(K, M)
  <1> SUFFICES ASSUME NEW k \in 1 .. NR_LOCKS, M[k].type # "free"
               PROVE  \E j \in 1 .. NR_LOCKS :
                        /\ K[j].type = M[k].type /\ K[j].pid = M[k].pid /\ K[j].ino = M[k].ino
                        /\ K[j].first <= M[k].first /\ M[k].last <= K[j].last
                        /\ K[j].first <= K[j].last => M[k].first <= M[k].last
    BY DEF Shrunk
  <1>1. PICK m \in 1 .. NR_LOCKS : /\ L[m].type = M[k].type /\ L[m].pid = M[k].pid /\ L[m].ino = M[k].ino
                                   /\ L[m].first <= M[k].first /\ M[k].last <= L[m].last
                                   /\ L[m].first <= L[m].last => M[k].first <= M[k].last
    BY DEF Shrunk
  <1>2. PICK j \in 1 .. NR_LOCKS : /\ K[j].type = L[m].type /\ K[j].pid = L[m].pid /\ K[j].ino = L[m].ino
                                   /\ K[j].first <= L[m].first /\ L[m].last <= K[j].last
                                   /\ K[j].first <= K[j].last => L[m].first <= L[m].last
    BY <1>1 DEF Shrunk
  <1>3. /\ K[j].first \in Nat /\ K[j].last \in Nat /\ L[m].first \in Nat /\ L[m].last \in Nat
        /\ M[k].first \in Nat /\ M[k].last \in Nat
    BY DEF LockRec
  <1> WITNESS j \in 1 .. NR_LOCKS
  <1> QED BY <1>1, <1>2, <1>3

(* A state of unlock()'s loop: only the locks differ from s, and they only *)
(* shrink.                                                                 *)
Step == [s : Tables, cut : BOOLEAN, full : BOOLEAN]
Relocked(s, t) ==
    /\ SameHang(s, t) /\ t.fproc = s.fproc /\ t.filp = s.filp /\ t.inode = s.inode /\ Shrunk(s.lk, t.lk)

LEMMA RelockedIs ==
    ASSUME NEW s, NEW P, Good(s, P), NEW L, NEW n, LocksAre(L, n), Shrunk(s.lk, L),
           NEW t, t = Holding(s, L, n)
    PROVE  Good(t, P) /\ Relocked(s, t)
  <1>1. /\ Good(t, P) /\ SameHang(s, t) /\ t.lk = L /\ t.nr = n
        /\ t.fproc = s.fproc /\ t.filp = s.filp /\ t.inode = s.inode
    BY LocksKeep
  <1> QED BY <1>1 DEF Relocked

(* A lock that is cut is replaced by l, of the same owner. *)
LEMMA CutKeeps ==
    ASSUME NEW s, NEW P, Good(s, P), NEW k \in 1 .. NR_LOCKS, NEW l \in LockRec, s.lk[k].type # "free",
           l.type = s.lk[k].type, l.pid = s.lk[k].pid, l.ino = s.lk[k].ino,
           s.lk[k].first <= l.first, l.last <= s.lk[k].last, l.first <= l.last,
           NEW t, t = Holding(s, [s.lk EXCEPT ![k] = l], s.nr)
    PROVE  Good(t, P) /\ Relocked(s, t)
  <1> DEFINE L == [s.lk EXCEPT ![k] = l]
  <1>1. s.lk \in [1 .. NR_LOCKS -> LockRec] /\ s.nr \in 0 .. NR_LOCKS /\ s.nr = Cardinality(Used(s))
    BY DEF Good, Tables, LocksCounted
  <1>2. L \in [1 .. NR_LOCKS -> LockRec] /\ L[k] = l /\ \A j \in 1 .. NR_LOCKS : j # k => L[j] = s.lk[j]
    BY <1>1
  <1>3. t = Holding(s, L, s.nr)
    OBVIOUS
  <1> HIDE DEF L
  <1>4. {j \in 1 .. NR_LOCKS : L[j].type # "free"} = Used(s)
    BY <1>2 DEF Used
  <1>5. LocksAre(L, s.nr)
    BY <1>1, <1>2, <1>4 DEF LocksAre
  <1>6. Shrunk(s.lk, L)
    <2>1. ASSUME NEW j \in 1 .. NR_LOCKS, L[j].type # "free"
          PROVE  \E m \in 1 .. NR_LOCKS :
                    /\ s.lk[m].type = L[j].type /\ s.lk[m].pid = L[j].pid /\ s.lk[m].ino = L[j].ino
                    /\ s.lk[m].first <= L[j].first /\ L[j].last <= s.lk[m].last
                    /\ s.lk[m].first <= s.lk[m].last => L[j].first <= L[j].last
      <3>1. s.lk[j] \in LockRec
        BY <1>1
      <3>2. s.lk[j].first \in Nat /\ s.lk[j].last \in Nat
        BY <3>1 DEF LockRec
      <3>3. CASE j = k
        BY <1>2, <3>3
      <3>4. CASE j # k
        BY <1>2, <3>2, <3>4
      <3> QED BY <3>3, <3>4
    <2> QED BY <2>1 DEF Shrunk
  <1> QED BY <1>3, <1>5, <1>6, RelockedIs

LEMMA LocksShrunk ==
    ASSUME NEW s \in Tables, NEW t \in Tables, Relocked(s, t)
    PROVE  LocksGo(s, t)
  <1> SUFFICES ASSUME LocksOK(s) PROVE LocksOK(t)
    BY DEF LocksGo
  <1> DEFINE K == s.lk
             L == t.lk
             Within(l, h) == /\ h.type = l.type /\ h.pid = l.pid /\ h.ino = l.ino
                             /\ h.first <= l.first /\ l.last <= h.last
                             /\ h.first <= h.last => l.first <= l.last
  <1>1. K \in [1 .. NR_LOCKS -> LockRec] /\ L \in [1 .. NR_LOCKS -> LockRec]
    BY DEF Tables
  <1>2. Apart(K) /\ Owned(s) /\ Shrunk(K, L) /\ t.fproc = s.fproc /\ t.filp = s.filp
    BY DEF LocksOK, Relocked
  <1>3. \A k \in 1 .. NR_LOCKS : L[k].type # "free" => \E j \in 1 .. NR_LOCKS : Within(L[k], K[j])
    BY <1>2 DEF Shrunk
  <1>4. \A k \in 1 .. NR_LOCKS : /\ K[k].first \in Nat /\ K[k].last \in Nat
                                 /\ L[k].first \in Nat /\ L[k].last \in Nat
    BY <1>1 DEF LockRec
  <1>o. \A k \in 1 .. NR_LOCKS : K[k].type # "free" => K[k].pid \in Proc /\ HasOpen(s, K[k].pid, K[k].ino)
    BY <1>2 DEF Owned
  <1> HIDE DEF K, L
  <1>5. Apart(L)
    <2> SUFFICES ASSUME NEW k \in 1 .. NR_LOCKS, L[k].type # "free",
                        NEW j \in 1 .. NR_LOCKS, L[j].type # "free"
                 PROVE  L[k].first <= L[k].last /\ ~Clash(L[k], L[j])
      BY DEF Apart
    <2>1. PICK a \in 1 .. NR_LOCKS : Within(L[k], K[a])
      BY <1>3
    <2>2. PICK b \in 1 .. NR_LOCKS : Within(L[j], K[b])
      BY <1>3
    <2>3. K[a].first <= K[a].last /\ ~Clash(K[a], K[b])
      BY <1>2, <2>1, <2>2 DEF Apart
    <2>4. L[k].first <= L[k].last
      BY <2>1, <2>3
    <2>5. ASSUME Clash(L[k], L[j]) PROVE Clash(K[a], K[b])
      <3>1. K[b].ino = K[a].ino /\ K[b].pid # K[a].pid /\ ~(K[b].type = "RDLCK" /\ K[a].type = "RDLCK")
        BY <2>1, <2>2, <2>5 DEF Clash
      <3>2. L[j].first <= L[k].last /\ L[k].first <= L[j].last
        BY <2>5 DEF Clash
      <3>3. K[b].first <= K[a].last /\ K[a].first <= K[b].last
        BY <1>4, <2>1, <2>2, <3>2
      <3> QED BY <3>1, <3>3 DEF Clash
    <2> QED BY <2>3, <2>4, <2>5
  <1>6. Owned(t)
    <2> SUFFICES ASSUME NEW k \in 1 .. NR_LOCKS, L[k].type # "free"
                 PROVE  L[k].pid \in Proc /\ HasOpen(t, L[k].pid, L[k].ino)
      BY DEF Owned, L
    <2>1. PICK j \in 1 .. NR_LOCKS : Within(L[k], K[j])
      BY <1>3
    <2>2. K[j].pid \in Proc /\ HasOpen(s, K[j].pid, K[j].ino) /\ K[j].pid = L[k].pid /\ K[j].ino = L[k].ino
      BY <1>o, <2>1
    <2>3. HasOpen(t, K[j].pid, K[j].ino)
      BY <1>2, <2>2 DEF HasOpen
    <2> QED BY <2>2, <2>3
  <1> QED BY <1>5, <1>6 DEF LocksOK, L

(* A lock that nobody has a conflicting one for. *)
Filled(s, e, l) == [s.lk EXCEPT ![e] = l]
Free(s, l) == \A k \in 1 .. NR_LOCKS : s.lk[k].type # "free" => ~Clash(l, s.lk[k])

LEMMA LocksMore ==
    ASSUME NEW s, s.lk \in [1 .. NR_LOCKS -> LockRec], NEW e \in 1 .. NR_LOCKS,
           NEW l \in LockRec, l.first <= l.last, l.pid \in Proc, HasOpen(s, l.pid, l.ino), Free(s, l),
           NEW t, t.lk = Filled(s, e, l), t.fproc = s.fproc, t.filp = s.filp
    PROVE  LocksGo(s, t)
  <1> SUFFICES ASSUME LocksOK(s) PROVE LocksOK(t)
    BY DEF LocksGo
  <1> DEFINE L == t.lk
  <1>1. L[e] = l /\ \A j \in 1 .. NR_LOCKS : j # e => L[j] = s.lk[j]
    BY DEF Filled
  <1>2. Apart(s.lk) /\ Owned(s)
    BY DEF LocksOK
  <1> HIDE DEF L
  <1>3. \A g, h \in LockRec : Clash(g, h) => Clash(h, g)
    BY DEF Clash
  <1>4. \A j \in 1 .. NR_LOCKS : s.lk[j] \in LockRec
    OBVIOUS
  <1>5. ~Clash(l, l)
    BY DEF Clash
  <1>6. Apart(L)
    <2> SUFFICES ASSUME NEW k \in 1 .. NR_LOCKS, L[k].type # "free",
                        NEW j \in 1 .. NR_LOCKS, L[j].type # "free"
                 PROVE  L[k].first <= L[k].last /\ ~Clash(L[k], L[j])
      BY DEF Apart
    <2>1. CASE k = e /\ j = e
      BY <1>1, <1>5, <2>1
    <2>2. CASE k = e /\ j # e
      BY <1>1, <2>2 DEF Free
    <2>3. CASE k # e /\ j = e
      <3>1. s.lk[k].type # "free" /\ L[k] = s.lk[k] /\ L[j] = l
        BY <1>1, <2>3
      <3>2. s.lk[k].first <= s.lk[k].last /\ ~Clash(l, s.lk[k])
        BY <1>2, <3>1 DEF Apart, Free
      <3> QED BY <1>3, <1>4, <3>1, <3>2
    <2>4. CASE k # e /\ j # e
      BY <1>1, <1>2, <2>4 DEF Apart
    <2> QED BY <2>1, <2>2, <2>3, <2>4
  <1>7. \A q, i : HasOpen(s, q, i) => HasOpen(t, q, i)
    BY DEF HasOpen
  <1>8. Owned(t)
    <2> SUFFICES ASSUME NEW k \in 1 .. NR_LOCKS, L[k].type # "free"
                 PROVE  L[k].pid \in Proc /\ HasOpen(t, L[k].pid, L[k].ino)
      BY DEF Owned, L
    <2> QED BY <1>1, <1>2, <1>7 DEF Owned
  <1> QED BY <1>6, <1>8 DEF LocksOK, L

LEMMA LocksTyped ==
    ASSUME NEW s, NEW P, Good(s, P)
    PROVE  /\ s.lk \in [1 .. NR_LOCKS -> LockRec] /\ s.nr \in 0 .. NR_LOCKS /\ s.nr = Cardinality(Used(s))
           /\ s.nr \in Nat /\ NR_LOCKS \in Nat /\ IsFiniteSet(Used(s)) /\ s \in Tables
           /\ \A k \in 1 .. NR_LOCKS : s.lk[k].first \in Nat /\ s.lk[k].last \in Nat
  <1>1. s.lk \in [1 .. NR_LOCKS -> LockRec] /\ s.nr \in 0 .. NR_LOCKS /\ s.nr = Cardinality(Used(s)) /\ s \in Tables
    BY DEF Good, Tables, LocksCounted
  <1>2. IsFiniteSet(Used(s))
    BY Domains, SubFinite DEF Used
  <1>3. \A k \in 1 .. NR_LOCKS : s.lk[k] \in LockRec
    BY <1>1
  <1> QED BY <1>1, <1>2, <1>3, Domains DEF LockRec

(* A lock that is covered is gone. *)
LEMMA ClearKeeps ==
    ASSUME NEW s, NEW P, Good(s, P), NEW k \in 1 .. NR_LOCKS, s.lk[k].type # "free",
           NEW t, t = Holding(s, [s.lk EXCEPT ![k] = Unused], s.nr - 1)
    PROVE  Good(t, P) /\ Relocked(s, t)
  <1> DEFINE L == [s.lk EXCEPT ![k] = Unused]
             n == s.nr - 1
  <1>1. s.lk \in [1 .. NR_LOCKS -> LockRec] /\ s.nr \in 0 .. NR_LOCKS /\ s.nr = Cardinality(Used(s))
        /\ s.nr \in Nat /\ IsFiniteSet(Used(s)) /\ \A j \in 1 .. NR_LOCKS : s.lk[j].first \in Nat /\ s.lk[j].last \in Nat
    BY LocksTyped
  <1>2. L \in [1 .. NR_LOCKS -> LockRec] /\ L[k] = Unused /\ \A j \in 1 .. NR_LOCKS : j # k => L[j] = s.lk[j]
    BY <1>1, UnusedIs
  <1>3. t = Holding(s, L, n)
    OBVIOUS
  <1>n. n = s.nr - 1
    OBVIOUS
  <1> HIDE DEF L, n
  <1>4. {j \in 1 .. NR_LOCKS : L[j].type # "free"} = Used(s) \ {k} /\ k \in Used(s)
    BY <1>2, UnusedIs DEF Used
  <1>5. Cardinality(Used(s) \ {k}) = Cardinality(Used(s)) - 1 /\ Cardinality(Used(s) \ {k}) \in Nat
    BY <1>1, <1>4, FS_RemoveElement, FS_CardinalityType, SubFinite
  <1>6. n \in 0 .. NR_LOCKS /\ n = Cardinality({j \in 1 .. NR_LOCKS : L[j].type # "free"})
    <2>1. n = Cardinality(Used(s) \ {k}) /\ n \in Nat
      BY <1>1, <1>5, <1>n
    <2>2. n <= NR_LOCKS /\ NR_LOCKS \in Nat
      BY <1>1, <1>n, Domains
    <2>3. n \in 0 .. NR_LOCKS
      BY <2>1, <2>2
    <2> QED BY <1>4, <2>1, <2>3
  <1>7. LocksAre(L, n)
    BY <1>2, <1>6 DEF LocksAre
  <1>8. Shrunk(s.lk, L)
    <2>1. ASSUME NEW j \in 1 .. NR_LOCKS, L[j].type # "free"
          PROVE  \E m \in 1 .. NR_LOCKS :
                    /\ s.lk[m].type = L[j].type /\ s.lk[m].pid = L[j].pid /\ s.lk[m].ino = L[j].ino
                    /\ s.lk[m].first <= L[j].first /\ L[j].last <= s.lk[m].last
                    /\ s.lk[m].first <= s.lk[m].last => L[j].first <= L[j].last
      BY <1>1, <1>2, <2>1, UnusedIs
    <2> QED BY <2>1 DEF Shrunk
  <1> QED BY <1>3, <1>7, <1>8, RelockedIs

(* A lock is cut in two. *)
LEMMA SplitKeeps ==
    ASSUME NEW s, NEW P, Good(s, P), NEW k \in 1 .. NR_LOCKS, NEW l \in LockRec, NEW h \in LockRec,
           s.lk[k].type # "free", NEW e \in FreeLocks(s),
           l.type = s.lk[k].type, l.pid = s.lk[k].pid, l.ino = s.lk[k].ino,
           s.lk[k].first <= l.first, l.last <= s.lk[k].last, l.first <= l.last,
           h.type = s.lk[k].type, h.pid = s.lk[k].pid, h.ino = s.lk[k].ino,
           s.lk[k].first <= h.first, h.last <= s.lk[k].last, h.first <= h.last,
           NEW t, t = Holding(s, [s.lk EXCEPT ![e] = h, ![k] = l], s.nr + 1)
    PROVE  Good(t, P) /\ Relocked(s, t)
  <1> DEFINE L == [s.lk EXCEPT ![e] = h, ![k] = l]
             n == s.nr + 1
  <1>1. s.lk \in [1 .. NR_LOCKS -> LockRec] /\ s.nr \in 0 .. NR_LOCKS /\ s.nr = Cardinality(Used(s))
        /\ s.nr \in Nat /\ IsFiniteSet(Used(s)) /\ \A j \in 1 .. NR_LOCKS : s.lk[j].first \in Nat /\ s.lk[j].last \in Nat
    BY LocksTyped
  <1>a. e \in 1 .. NR_LOCKS /\ s.lk[e].type = "free" /\ e # k
    BY DEF FreeLocks
  <1>2. L \in [1 .. NR_LOCKS -> LockRec] /\ L[k] = l /\ L[e] = h
        /\ \A j \in 1 .. NR_LOCKS : j # k /\ j # e => L[j] = s.lk[j]
    BY <1>1, <1>a
  <1>3. t = Holding(s, L, n)
    OBVIOUS
  <1>n. n = s.nr + 1
    OBVIOUS
  <1> HIDE DEF L, n
  <1>4. {j \in 1 .. NR_LOCKS : L[j].type # "free"} = Used(s) \cup {e} /\ e \notin Used(s)
    BY <1>2, <1>a DEF Used
  <1>5. Cardinality(Used(s) \cup {e}) = Cardinality(Used(s)) + 1
    BY <1>1, <1>4, FS_AddElement
  <1>6. n \in 0 .. NR_LOCKS /\ n = Cardinality({j \in 1 .. NR_LOCKS : L[j].type # "free"})
    <2>1. Used(s) \cup {e} \subseteq 1 .. NR_LOCKS
      BY <1>a DEF Used
    <2>2. Cardinality(Used(s) \cup {e}) <= Cardinality(1 .. NR_LOCKS) /\ Cardinality(1 .. NR_LOCKS) = NR_LOCKS
      <3>1. Cardinality(1 .. NR_LOCKS) = NR_LOCKS
        BY Domains, FS_Interval
      <3> QED BY <2>1, <3>1, Domains, SubFinite
    <2>3. n = Cardinality(Used(s) \cup {e}) /\ n \in Nat /\ NR_LOCKS \in Nat
      BY <1>1, <1>5, <1>n, Domains
    <2>4. n <= NR_LOCKS
      BY <2>2, <2>3
    <2>5. n \in 0 .. NR_LOCKS
      BY <2>3, <2>4
    <2> QED BY <1>4, <2>3, <2>5
  <1>7. LocksAre(L, n)
    BY <1>2, <1>6 DEF LocksAre
  <1>8. Shrunk(s.lk, L)
    <2>1. ASSUME NEW j \in 1 .. NR_LOCKS, L[j].type # "free"
          PROVE  \E m \in 1 .. NR_LOCKS :
                    /\ s.lk[m].type = L[j].type /\ s.lk[m].pid = L[j].pid /\ s.lk[m].ino = L[j].ino
                    /\ s.lk[m].first <= L[j].first /\ L[j].last <= s.lk[m].last
                    /\ s.lk[m].first <= s.lk[m].last => L[j].first <= L[j].last
      <3>1. CASE j = k
        BY <1>2, <3>1
      <3>2. CASE j = e
        BY <1>2, <3>2
      <3>3. CASE j # k /\ j # e
        <4>1. L[j] = s.lk[j]
          BY <1>2, <3>3
        <4>2. s.lk[j].first \in Nat /\ s.lk[j].last \in Nat
          BY <1>1
        <4>3. s.lk[j].first <= s.lk[j].first /\ s.lk[j].last <= s.lk[j].last
          BY <4>2
        <4> WITNESS j \in 1 .. NR_LOCKS
        <4> QED BY <4>1, <4>3
      <3> QED BY <3>1, <3>2, <3>3
    <2> QED BY <2>1 DEF Shrunk
  <1> QED BY <1>3, <1>7, <1>8, RelockedIs

(* There is a free slot unless nr_locks says otherwise. *)
LEMMA FreeLock ==
    ASSUME NEW s, NEW P, Good(s, P), s.nr # NR_LOCKS
    PROVE  FreeLocks(s) # {} /\ First(FreeLocks(s)) \in FreeLocks(s)
  <1>1. s.nr = Cardinality(Used(s)) /\ NR_LOCKS \in Nat
    BY LocksTyped
  <1>2. Cardinality(1 .. NR_LOCKS) = NR_LOCKS
    BY <1>1, FS_Interval
  <1>3. Used(s) # 1 .. NR_LOCKS
    BY <1>1, <1>2
  <1>4. FreeLocks(s) # {} /\ FreeLocks(s) \in SUBSET Nat
    BY <1>3 DEF Used, FreeLocks
  <1> QED BY <1>4, FirstIs

(* One turn of the loop. *)
Turned(s, P, a) == a \in Step /\ Good(a.s, P) /\ Relocked(s, a.s) /\ (~a.cut => a.s = s)

LEMMA RelockedThen ==
    ASSUME NEW s, NEW t, NEW u, s \in Tables, t \in Tables, u \in Tables, Relocked(s, t), Relocked(t, u)
    PROVE  Relocked(s, u)
  <1>1. SameHang(s, u) /\ u.fproc = s.fproc /\ u.filp = s.filp /\ u.inode = s.inode
    BY DEF Relocked, SameHang
  <1>2. Shrunk(s.lk, u.lk)
    BY ShrunkThen DEF Relocked, Tables
  <1> QED BY <1>1, <1>2 DEF Relocked

LEMMA UnlockKeeps ==
    ASSUME NEW s, NEW P, s \in Tables, NEW a, Turned(s, P, a), NEW k \in 1 .. NR_LOCKS, NEW i, NEW q \in LockReq,
           NEW b, b = Unlock(a, k, i, q)
    PROVE  Turned(s, P, b)
  <1> DEFINE l == a.s.lk[k]
             e == First(FreeLocks(a.s))
             skip == a.full \/ l.type = "free" \/ l.ino # i \/ ~Overlaps(q, l)
             u == b.s
  <1>1. a \in Step /\ Good(a.s, P) /\ Relocked(s, a.s) /\ a.s \in Tables
    BY DEF Turned, Step
  <1>2. a.s.lk \in [1 .. NR_LOCKS -> LockRec] /\ a.s.nr \in Nat /\ l \in LockRec
    BY <1>1, LocksTyped
  <1>3. l.first \in Nat /\ l.last \in Nat /\ q.first \in Nat /\ q.last \in Nat
    BY <1>2 DEF LockRec, LockReq
  <1>4. ASSUME b = [s |-> u, cut |-> TRUE, full |-> a.full], Good(u, P), Relocked(a.s, u) PROVE Turned(s, P, b)
    <2>1. u \in Tables /\ a.full \in BOOLEAN
      BY <1>1, <1>4 DEF Good, Step
    <2>2. Relocked(s, u)
      BY <1>1, <1>4, <2>1, RelockedThen
    <2> HIDE DEF u
    <2>3. b \in Step /\ b.cut /\ b.s = u
      BY <1>4, <2>1 DEF Step
    <2> QED BY <1>4, <2>2, <2>3 DEF Turned
  <1>5. CASE skip
    <2>1. b = a
      BY <1>5 DEF Unlock
    <2> QED BY <2>1
  <1>6. CASE ~skip /\ q.first <= l.first /\ q.last >= l.last
    <2>1. b = [a EXCEPT !.cut = TRUE, !.s.lk[k] = Unused, !.s.nr = @ - 1]
      BY <1>6 DEF Unlock
    <2>2. u = Holding(a.s, [a.s.lk EXCEPT ![k] = Unused], a.s.nr - 1) /\ b = [s |-> u, cut |-> TRUE, full |-> a.full]
      BY <1>1, <2>1 DEF Holding, Step, Tables
    <2>3. Good(u, P) /\ Relocked(a.s, u)
      BY <1>1, <1>6, <2>2, ClearKeeps
    <2> QED BY <1>4, <2>2, <2>3
  <1>7. CASE ~skip /\ q.first <= l.first /\ ~(q.last >= l.last)
    <2> DEFINE m == q.last + 1
               g == [l EXCEPT !.first = m]
    <2>1. b = [a EXCEPT !.cut = TRUE, !.s.lk[k].first = m]
      BY <1>7 DEF Unlock
    <2>2. m \in Nat /\ l.first <= m /\ m <= l.last
      BY <1>3, <1>7 DEF Overlaps
    <2> HIDE DEF m
    <2>3. g \in LockRec /\ g.type = l.type /\ g.pid = l.pid /\ g.ino = l.ino /\ g.first = m /\ g.last = l.last
      BY <1>2, <2>2 DEF LockRec
    <2>4. u = Holding(a.s, [a.s.lk EXCEPT ![k] = g], a.s.nr) /\ b = [s |-> u, cut |-> TRUE, full |-> a.full]
      <3> DEFINE X == [a.s.lk EXCEPT ![k] = g]
      <3>1. b = [a EXCEPT !.cut = TRUE, !.s = [a.s EXCEPT !.lk = X]]
        BY <2>1
      <3> HIDE DEF X
      <3>2. [a.s EXCEPT !.lk = X] = Holding(a.s, X, a.s.nr)
        BY <1>1 DEF Holding, Tables
      <3>3. b = [a EXCEPT !.cut = TRUE, !.s = Holding(a.s, X, a.s.nr)]
        BY <3>1, <3>2
      <3>4. u = Holding(a.s, X, a.s.nr) /\ b = [s |-> Holding(a.s, X, a.s.nr), cut |-> TRUE, full |-> a.full]
        BY <1>1, <3>3 DEF Step
      <3> QED BY <3>4 DEF X
    <2>5. l.first <= g.first /\ g.last <= l.last /\ g.first <= g.last /\ l.type # "free"
      BY <1>3, <1>7, <2>2, <2>3
    <2> HIDE DEF g, u
    <2>6. Good(u, P) /\ Relocked(a.s, u)
      BY <1>1, <2>3, <2>4, <2>5, CutKeeps
    <2> QED BY <1>4, <2>4, <2>6
  <1>8. CASE ~skip /\ ~(q.first <= l.first) /\ q.last >= l.last
    <2> DEFINE m == q.first - 1
               g == [l EXCEPT !.last = m]
    <2>1. b = [a EXCEPT !.cut = TRUE, !.s.lk[k].last = m]
      BY <1>8 DEF Unlock
    <2>2. m \in Nat /\ l.first <= m /\ m <= l.last
      BY <1>3, <1>8 DEF Overlaps
    <2> HIDE DEF m
    <2>3. g \in LockRec /\ g.type = l.type /\ g.pid = l.pid /\ g.ino = l.ino /\ g.first = l.first /\ g.last = m
      BY <1>2, <2>2 DEF LockRec
    <2>4. u = Holding(a.s, [a.s.lk EXCEPT ![k] = g], a.s.nr) /\ b = [s |-> u, cut |-> TRUE, full |-> a.full]
      <3> DEFINE X == [a.s.lk EXCEPT ![k] = g]
      <3>1. b = [a EXCEPT !.cut = TRUE, !.s = [a.s EXCEPT !.lk = X]]
        BY <2>1
      <3> HIDE DEF X
      <3>2. [a.s EXCEPT !.lk = X] = Holding(a.s, X, a.s.nr)
        BY <1>1 DEF Holding, Tables
      <3>3. b = [a EXCEPT !.cut = TRUE, !.s = Holding(a.s, X, a.s.nr)]
        BY <3>1, <3>2
      <3>4. u = Holding(a.s, X, a.s.nr) /\ b = [s |-> Holding(a.s, X, a.s.nr), cut |-> TRUE, full |-> a.full]
        BY <1>1, <3>3 DEF Step
      <3> QED BY <3>4 DEF X
    <2>5. l.first <= g.first /\ g.last <= l.last /\ g.first <= g.last /\ l.type # "free"
      BY <1>3, <1>8, <2>2, <2>3
    <2> HIDE DEF g, u
    <2>6. Good(u, P) /\ Relocked(a.s, u)
      BY <1>1, <2>3, <2>4, <2>5, CutKeeps
    <2> QED BY <1>4, <2>4, <2>6
  <1>9. CASE ~skip /\ ~(q.first <= l.first) /\ ~(q.last >= l.last) /\ a.s.nr = NR_LOCKS
    <2>1. b = [a EXCEPT !.full = TRUE]
      BY <1>9 DEF Unlock
    <2>2. b \in Step /\ b.s = a.s /\ b.cut = a.cut
      BY <1>1, <2>1 DEF Step
    <2> QED BY <2>2 DEF Turned
  <1>10. CASE ~skip /\ ~(q.first <= l.first) /\ ~(q.last >= l.last) /\ a.s.nr # NR_LOCKS
    <2> DEFINE m == q.last + 1
               n == q.first - 1
               h == [l EXCEPT !.first = m]
               g == [l EXCEPT !.last = n]
    <2>1. b = [a EXCEPT !.cut = TRUE, !.s.nr = @ + 1, !.s.lk = [@ EXCEPT ![e] = h, ![k] = g]]
      BY <1>10 DEF Unlock
    <2>2. m \in Nat /\ l.first <= m /\ m <= l.last /\ n \in Nat /\ l.first <= n /\ n <= l.last
      BY <1>3, <1>10 DEF Overlaps
    <2> HIDE DEF m, n
    <2>3. g \in LockRec /\ g.type = l.type /\ g.pid = l.pid /\ g.ino = l.ino /\ g.first = l.first /\ g.last = n
      BY <1>2, <2>2 DEF LockRec
    <2>4. h \in LockRec /\ h.type = l.type /\ h.pid = l.pid /\ h.ino = l.ino /\ h.first = m /\ h.last = l.last
      BY <1>2, <2>2 DEF LockRec
    <2> HIDE DEF g, h
    <2>5. u = Holding(a.s, [a.s.lk EXCEPT ![e] = h, ![k] = g], a.s.nr + 1)
          /\ b = [s |-> u, cut |-> TRUE, full |-> a.full]
      <3> DEFINE X == [a.s.lk EXCEPT ![e] = h, ![k] = g]
      <3>1. b = [a EXCEPT !.cut = TRUE, !.s = [a.s EXCEPT !.nr = a.s.nr + 1, !.lk = X]]
        BY <2>1
      <3> HIDE DEF X
      <3>2. [a.s EXCEPT !.nr = a.s.nr + 1, !.lk = X] = Holding(a.s, X, a.s.nr + 1)
        BY <1>1 DEF Holding, Tables
      <3>3. b = [a EXCEPT !.cut = TRUE, !.s = Holding(a.s, X, a.s.nr + 1)]
        BY <3>1, <3>2
      <3>4. u = Holding(a.s, X, a.s.nr + 1) /\ b = [s |-> Holding(a.s, X, a.s.nr + 1), cut |-> TRUE, full |-> a.full]
        BY <1>1, <3>3 DEF Step
      <3> QED BY <3>4 DEF X
    <2>6. l.first <= g.first /\ g.last <= l.last /\ g.first <= g.last /\ l.type # "free"
      BY <1>3, <1>10, <2>2, <2>3
    <2>7. l.first <= h.first /\ h.last <= l.last /\ h.first <= h.last
      BY <1>3, <2>2, <2>4
    <2>8. e \in FreeLocks(a.s)
      BY <1>1, <1>10, FreeLock
    <2> HIDE DEF u, e
    <2>9. Good(u, P) /\ Relocked(a.s, u)
      BY <1>1, <2>3, <2>4, <2>5, <2>6, <2>7, <2>8, SplitKeeps
    <2> QED BY <1>4, <2>5, <2>9
  <1> QED BY <1>5, <1>6, <1>7, <1>8, <1>9, <1>10

(* unlock() goes through the table: the function exists, and every turn    *)
(* keeps what the last one left.                                           *)
FirstTurn(s) == [s |-> s, cut |-> FALSE, full |-> FALSE]
TurnedTo(u, m, s, i, q) == u = [k \in 0 .. m |-> IF k = 0 THEN FirstTurn(s) ELSE Unlock(u[k - 1], k, i, q)]
Turns(u, s, i, q) == TurnedTo(u, NR_LOCKS, s, i, q)

LEMMA TurnsExist ==
    ASSUME NEW s, NEW i, NEW q
    PROVE  \E u : Turns(u, s, i, q)
  <1> DEFINE M == {m \in 0 .. NR_LOCKS : \E u : TurnedTo(u, m, s, i, q)}
  <1>1. NR_LOCKS \in Nat
    BY Domains
  <1>2. 0 \in M
    <2> DEFINE u == [k \in 0 .. 0 |-> FirstTurn(s)]
    <2>1. u = [k \in 0 .. 0 |-> IF k = 0 THEN FirstTurn(s) ELSE Unlock(u[k - 1], k, i, q)]
      OBVIOUS
    <2>2. TurnedTo(u, 0, s, i, q)
      BY <2>1 DEF TurnedTo
    <2> QED BY <1>1, <2>2
  <1>3. ASSUME NEW m \in 0 .. NR_LOCKS, m < NR_LOCKS, m \in M PROVE m + 1 \in M
    <2>1. PICK b : TurnedTo(b, m, s, i, q)
      BY <1>3
    <2> DEFINE e == Unlock(b[m], m + 1, i, q)
               u == [k \in 0 .. m + 1 |-> IF k = m + 1 THEN e ELSE b[k]]
    <2>2. \A k \in 0 .. m : b[k] = IF k = 0 THEN FirstTurn(s) ELSE Unlock(b[k - 1], k, i, q)
      BY <2>1 DEF TurnedTo
    <2>3. \A k \in 0 .. m : u[k] = b[k]
      BY <1>3
    <2>4. u[m + 1] = Unlock(u[m], m + 1, i, q)
      BY <1>3, <2>3
    <2>5. ASSUME NEW k \in 0 .. m + 1 PROVE u[k] = IF k = 0 THEN FirstTurn(s) ELSE Unlock(u[k - 1], k, i, q)
      <3>1. CASE k = m + 1
        BY <2>4, <3>1
      <3>2. CASE k = 0
        BY <2>2, <2>3, <3>2
      <3>3. CASE k # 0 /\ k # m + 1
        <4>1. k \in 0 .. m /\ k - 1 \in 0 .. m
          BY <3>3
        <4>2. u[k] = b[k] /\ u[k - 1] = b[k - 1]
          BY <2>3, <4>1
        <4>3. b[k] = Unlock(b[k - 1], k, i, q)
          BY <2>2, <3>3, <4>1
        <4> HIDE DEF u
        <4> QED BY <3>3, <4>2, <4>3
      <3> QED BY <3>1, <3>2, <3>3
    <2>6. u = [k \in 0 .. m + 1 |-> u[k]]
      OBVIOUS
    <2> HIDE DEF u
    <2>7. TurnedTo(u, m + 1, s, i, q)
      BY <2>5, <2>6, Zenon DEF TurnedTo
    <2> QED BY <1>1, <1>3, <2>7
  <1> HIDE DEF M
  <1>4. \A m \in 0 .. NR_LOCKS : m \in M
    BY <1>1, <1>2, <1>3, Upwards
  <1>5. NR_LOCKS \in M
    BY <1>1, <1>4
  <1> QED BY <1>5 DEF M, Turns

(* What unlock() answers, once the loop has left a. *)
Unlocks(a) == IF a.full THEN Result(a.s, "ENOLCK")
              ELSE Result(IF a.cut THEN lock_revive(a.s) ELSE a.s, "OK")

LEMMA unlockIs ==
    ASSUME NEW s, NEW P, Good(s, P), NEW i, NEW q \in LockReq
    PROVE  \E a : Turned(s, P, a) /\ unlock(s, i, q) = Unlocks(a)
  <1> DEFINE v == CHOOSE u : Turns(u, s, i, q)
  <1>1. unlock(s, i, q) = Unlocks(v[NR_LOCKS])
    BY Zenon DEF unlock, Unlocks, Turns, TurnedTo, FirstTurn
  <1>2. Turns(v, s, i, q)
    BY TurnsExist
  <1> HIDE DEF v
  <1>3. \A k \in 0 .. NR_LOCKS : v[k] = IF k = 0 THEN FirstTurn(s) ELSE Unlock(v[k - 1], k, i, q)
    BY <1>2 DEF Turns, TurnedTo
  <1>4. NR_LOCKS \in Nat /\ s \in Tables /\ s.lk \in [1 .. NR_LOCKS -> LockRec]
        /\ \A k \in 1 .. NR_LOCKS : s.lk[k].first \in Nat /\ s.lk[k].last \in Nat
    BY LocksTyped
  <1> DEFINE M == {k \in 0 .. NR_LOCKS : Turned(s, P, v[k])}
  <1>5. 0 \in M
    <2>1. v[0] = FirstTurn(s)
      BY <1>3, <1>4
    <2>2. FirstTurn(s) \in Step /\ FirstTurn(s).s = s
      BY <1>4 DEF FirstTurn, Step
    <2>3. Shrunk(s.lk, s.lk)
      BY <1>4 DEF Shrunk
    <2>4. Relocked(s, s)
      BY <2>3 DEF Relocked, SameHang
    <2>5. Turned(s, P, FirstTurn(s))
      BY <2>2, <2>4 DEF Turned
    <2> QED BY <1>4, <2>1, <2>5
  <1>6. ASSUME NEW k \in 0 .. NR_LOCKS, k < NR_LOCKS, k \in M PROVE k + 1 \in M
    <2>1. k + 1 \in 0 .. NR_LOCKS /\ k + 1 \in 1 .. NR_LOCKS /\ k + 1 # 0 /\ (k + 1) - 1 = k
      BY <1>4, <1>6
    <2>2. v[k + 1] = Unlock(v[k], k + 1, i, q) /\ Turned(s, P, v[k])
      BY <1>3, <1>6, <2>1
    <2>3. Turned(s, P, v[k + 1])
      BY <1>4, <2>1, <2>2, UnlockKeeps
    <2> QED BY <2>1, <2>3
  <1> HIDE DEF M
  <1>7. \A k \in 0 .. NR_LOCKS : k \in M
    BY <1>4, <1>5, <1>6, Upwards
  <1>8. Turned(s, P, v[NR_LOCKS])
    BY <1>4, <1>7 DEF M
  <1> QED BY <1>1, <1>8

LEMMA RelockedOthers ==
    ASSUME NEW s, NEW t, Relocked(s, t), NEW p
    PROVE  Others(s, t, p)
  BY DEF Relocked, Others, Sees, Susp

LEMMA unlockKeeps ==
    ASSUME NEW s, NEW p \in Proc, Good(s, {p}), NEW i, NEW q \in LockReq, NEW x, x = unlock(s, i, q)
    PROVE  Done(s, x, p) /\ LocksGo(s, x.s)
  <1>1. PICK a : Turned(s, {p}, a) /\ x = Unlocks(a)
    BY unlockIs
  <1>2. Good(a.s, {p}) /\ Others(s, a.s, p) /\ a.s \in Tables
    BY <1>1, RelockedOthers DEF Turned, Good
  <1>l. LocksGo(s, a.s)
    BY <1>1, <1>2, LocksShrunk DEF Turned, Good
  <1>3. CASE a.full \/ ~a.cut
    <2>1. x.s = a.s /\ x.r # "SUSPEND"
      BY <1>1, <1>3 DEF Unlocks, Result
    <2> QED BY <1>2, <1>l, <2>1 DEF Done
  <1>4. CASE ~a.full /\ a.cut
    <2>1. x.s = lock_revive(a.s) /\ x.r # "SUSPEND"
      BY <1>1, <1>4 DEF Unlocks, Result
    <2> DEFINE Q == {q1 \in Proc : a.s.fproc[q1].suspended /\ a.s.fproc[q1].task = "XLOCK"}
    <2>2. Good(x.s, {p}) /\ SameFiles(a.s, x.s) /\ Susp(x.s) \subseteq Susp(a.s) /\ Awake(a.s, Q, x.s)
      BY <1>2, <2>1, LockReviveKeeps
    <2> HIDE DEF Q
    <2>3. Others(a.s, x.s, p)
      BY <1>2, <2>2, OthersAwake
    <2>4. Others(s, x.s, p)
      BY <1>2, <2>3, OthersThen
    <2>5. LocksGo(s, x.s)
      BY <1>l, <2>2, LocksFiles, LocksThen
    <2> QED BY <2>1, <2>2, <2>4, <2>5 DEF Done
  <1> QED BY <1>3, <1>4

(* A new lock. *)
LEMMA SetLockKeeps ==
    ASSUME NEW s, NEW P, Good(s, P), NEW e \in FreeLocks(s), NEW l \in LockRec, l.type # "free",
           NEW t, t = Holding(s, [s.lk EXCEPT ![e] = l], s.nr + 1)
    PROVE  /\ Good(t, P) /\ SameHang(s, t) /\ t.fproc = s.fproc /\ t.filp = s.filp /\ t.inode = s.inode
  <1> DEFINE L == [s.lk EXCEPT ![e] = l]
             n == s.nr + 1
  <1>1. s.lk \in [1 .. NR_LOCKS -> LockRec] /\ s.nr = Cardinality(Used(s))
        /\ s.nr \in Nat /\ IsFiniteSet(Used(s)) /\ NR_LOCKS \in Nat
    BY LocksTyped
  <1>a. e \in 1 .. NR_LOCKS /\ s.lk[e].type = "free"
    BY DEF FreeLocks
  <1>2. L \in [1 .. NR_LOCKS -> LockRec] /\ L[e] = l /\ \A j \in 1 .. NR_LOCKS : j # e => L[j] = s.lk[j]
    BY <1>1, <1>a
  <1>3. t = Holding(s, L, n)
    OBVIOUS
  <1>n. n = s.nr + 1
    OBVIOUS
  <1> HIDE DEF L, n
  <1>4. {j \in 1 .. NR_LOCKS : L[j].type # "free"} = Used(s) \cup {e} /\ e \notin Used(s)
    BY <1>2, <1>a DEF Used
  <1>5. Cardinality(Used(s) \cup {e}) = Cardinality(Used(s)) + 1
    BY <1>1, <1>4, FS_AddElement
  <1>6. n \in 0 .. NR_LOCKS /\ n = Cardinality({j \in 1 .. NR_LOCKS : L[j].type # "free"})
    <2>1. Used(s) \cup {e} \subseteq 1 .. NR_LOCKS
      BY <1>a DEF Used
    <2>2. Cardinality(Used(s) \cup {e}) <= Cardinality(1 .. NR_LOCKS) /\ Cardinality(1 .. NR_LOCKS) = NR_LOCKS
      <3>1. Cardinality(1 .. NR_LOCKS) = NR_LOCKS
        BY Domains, FS_Interval
      <3> QED BY <2>1, <3>1, Domains, SubFinite
    <2>3. n = Cardinality(Used(s) \cup {e}) /\ n \in Nat
      BY <1>1, <1>5, <1>n
    <2>4. n <= NR_LOCKS
      BY <2>2, <2>3
    <2>5. n \in 0 .. NR_LOCKS
      BY <1>1, <2>3, <2>4
    <2> QED BY <1>4, <2>3, <2>5
  <1>7. LocksAre(L, n)
    BY <1>2, <1>6 DEF LocksAre
  <1> QED BY <1>3, <1>7, LocksKeep

NewLock(q, p, i) == [type |-> q.type, pid |-> p, ino |-> i, first |-> q.first, last |-> q.last]

LEMMA lock_opKeeps ==
    ASSUME NEW s, NEW p \in Proc, Good(s, {p}), NEW c \in Call, c.op = "FCNTL", NEW f, NEW i,
           Has(s, p, c.fd, f, i), Sane(c.lock), NEW x, x = lock_op(s, p, c, f, i)
    PROVE  Done(s, x, p) /\ LocksGo(s, x.s)
  <1> DEFINE q == c.lock
             e == First(FreeLocks(s))
  <1>0. q \in LockReq /\ Others(s, s, p) /\ s \in Tables
    BY OthersNone DEF Call, Good
  <1>1. ASSUME x.s = s, x.r # "SUSPEND" PROVE Done(s, x, p) /\ LocksGo(s, x.s)
    BY <1>0, <1>1 DEF Done, LocksGo
  <1>2. CASE i \notin Files
    <2>1. x = Result(s, "EINVAL")
      BY <1>2 DEF lock_op
    <2> QED BY <1>1, <2>1 DEF Result
  <1>3. CASE i \in Files /\ q.type = "UNLCK"
    <2>1. x = unlock(s, i, q)
      BY <1>3 DEF lock_op
    <2> QED BY <1>0, <2>1, unlockKeeps
  <1>4. CASE i \in Files /\ q.type # "UNLCK" /\ (IF q.type = "RDLCK" THEN "R" ELSE "W") \notin s.filp[f].mode
    <2>1. x = Result(s, "EBADF")
      BY <1>4 DEF lock_op
    <2> QED BY <1>1, <2>1 DEF Result
  <1> DEFINE on == i \in Files /\ q.type # "UNLCK" /\ (IF q.type = "RDLCK" THEN "R" ELSE "W") \in s.filp[f].mode
  <1>5. CASE on /\ Conflicts(s, p, i, q) # {} /\ q.wait
    <2>1. x = Result(suspend(s, p, "XLOCK", c), "SUSPEND")
      BY <1>5 DEF lock_op
    <2>2. MayHang(s, p, "XLOCK", c) /\ "XLOCK" \in Tasks \ {"none", "TTY"}
      BY <1>5 DEF MayHang, Has, Tasks
    <2>3. x.s = suspend(s, p, "XLOCK", c) /\ x.r = "SUSPEND"
      BY <2>1 DEF Result
    <2>4. Good(x.s, {}) /\ SameFiles(s, x.s) /\ Others(s, x.s, p)
      BY <2>2, <2>3, HungIs
    <2> QED BY <2>3, <2>4, LocksFiles DEF Done
  <1>6. CASE on /\ Conflicts(s, p, i, q) # {} /\ ~q.wait
    <2>1. x = Result(s, "EAGAIN")
      BY <1>6 DEF lock_op
    <2> QED BY <1>1, <2>1 DEF Result
  <1>7. CASE on /\ Conflicts(s, p, i, q) = {} /\ FreeLocks(s) = {}
    <2>1. x = Result(s, "ENOLCK")
      BY <1>7 DEF lock_op
    <2> QED BY <1>1, <2>1 DEF Result
  <1>8. CASE on /\ Conflicts(s, p, i, q) = {} /\ FreeLocks(s) # {}
    <2> DEFINE l == NewLock(q, p, i)
               t == [s EXCEPT !.nr = @ + 1, !.lk[e] = l]
    <2>1. x = Result(t, "OK")
      BY <1>8 DEF lock_op, NewLock
    <2>2. l \in LockRec /\ l.type # "free"
      BY <1>0, <1>8 DEF LockReq, LockRec, NewLock, Sane
    <2>3. e \in FreeLocks(s)
      <3>1. FreeLocks(s) \in SUBSET Nat
        BY DEF FreeLocks
      <3> QED BY <1>8, <3>1, FirstIs
    <2>l. e \in 1 .. NR_LOCKS /\ l.pid = p /\ l.ino = i /\ l.type = q.type /\ l.first = q.first /\ l.last = q.last
      BY <2>3 DEF NewLock, FreeLocks
    <2>g. l.first <= l.last /\ HasOpen(s, p, i) /\ c.fd \in FD
      BY <2>l DEF Sane, Has, HasOpen, Call
    <2> HIDE DEF l, e
    <2>h. Free(s, l)
      <3> SUFFICES ASSUME NEW k \in 1 .. NR_LOCKS, s.lk[k].type # "free", Clash(l, s.lk[k]) PROVE FALSE
        BY DEF Free
      <3>1. k \in Conflicts(s, p, i, q)
        BY <2>l DEF Clash, Conflicts, Overlaps
      <3> QED BY <1>8, <3>1
    <2>4. t = Holding(s, [s.lk EXCEPT ![e] = l], s.nr + 1)
      BY <1>0 DEF Holding, Tables
    <2> HIDE DEF t
    <2>5. Good(t, {p}) /\ SameHang(s, t) /\ t.fproc = s.fproc /\ t.filp = s.filp /\ t.inode = s.inode
      BY <2>2, <2>3, <2>4, SetLockKeeps
    <2>6. Others(s, t, p)
      BY <2>5 DEF Others, Sees, Susp
    <2>7. t.lk = Filled(s, e, l) /\ s.lk \in [1 .. NR_LOCKS -> LockRec]
      BY <1>0, <2>4 DEF Holding, Filled, Tables
    <2>8. LocksGo(s, t)
      BY <2>2, <2>l, <2>g, <2>h, <2>5, <2>7, LocksMore
    <2> QED BY <2>1, <2>5, <2>6, <2>8 DEF Done, Result
  <1> QED BY <1>2, <1>3, <1>4, <1>5, <1>6, <1>7, <1>8

-----------------------------------------------------------------------------
(* Pipes and the terminal. *)

(* A call that is not about locks: p's descriptors, but for those in E,    *)
(* stand for the same inodes, and it does not come to wait for a lock.     *)
SameIno(s, t, p, d) ==
    /\ t.fproc[p].fd[d] = Nil <=> s.fproc[p].fd[d] = Nil
    /\ s.fproc[p].fd[d] # Nil =>
          t.filp[t.fproc[p].fd[d]].ino = s.filp[s.fproc[p].fd[d]].ino

SameInos(s, t, p, E) == \A d \in FD \ E : SameIno(s, t, p, d)

Calm(s, t, p, E) ==
    /\ t.lk = s.lk /\ SameInos(s, t, p, E)
    /\ Stays(t, p) /\ t.fproc[p].task = "XLOCK" => t.fproc[p] = s.fproc[p]

Quiet(s, t, p) == Others(s, t, p) /\ Calm(s, t, p, {})

QuietDone(s, x, p) == Done(s, x, p) /\ Calm(s, x.s, p, {})

(* The same, but p may get descriptors. *)
Mild(s, t, p) == Others(s, t, p) /\ Calm(s, t, p, FreeFDs(s, p))

MildDone(s, x, p) == Done(s, x, p) /\ Calm(s, x.s, p, FreeFDs(s, p))

LEMMA CalmFiles ==
    ASSUME NEW s, NEW t, SameFiles(s, t), NEW p \in Proc, NEW E,
           Stays(t, p) /\ t.fproc[p].task = "XLOCK" => t.fproc[p] = s.fproc[p]
    PROVE  Calm(s, t, p, E)
  BY DEF Calm, SameInos, SameIno, SameFiles

LEMMA CalmThen ==
    ASSUME NEW s, NEW t, NEW u, NEW p, NEW E, Calm(s, t, p, E), Calm(t, u, p, E)
    PROVE  Calm(s, u, p, E)
  <1>1. u.lk = s.lk
    BY DEF Calm
  <1>2. SameInos(s, u, p, E)
    BY DEF Calm, SameInos, SameIno
  <1>3. ASSUME Stays(u, p), u.fproc[p].task = "XLOCK" PROVE u.fproc[p] = s.fproc[p]
    <2>1. u.fproc[p] = t.fproc[p]
      BY <1>3 DEF Calm
    <2>2. Stays(t, p) /\ t.fproc[p].task = "XLOCK"
      BY <1>3, <2>1 DEF Stays
    <2> QED BY <2>1, <2>2 DEF Calm
  <1> QED BY <1>1, <1>2, <1>3 DEF Calm

LEMMA CalmMore ==
    ASSUME NEW s, NEW t, NEW p, NEW D, Calm(s, t, p, D), NEW E, D \subseteq E
    PROVE  Calm(s, t, p, E)
  BY DEF Calm, SameInos

LEMMA QuietNone == ASSUME NEW s, NEW p PROVE Quiet(s, s, p)
  <1>1. Calm(s, s, p, {})
    BY DEF Calm, SameInos, SameIno
  <1> QED BY <1>1, OthersNone DEF Quiet

LEMMA QuietThen ==
    ASSUME NEW s, NEW t, NEW u, NEW p, Quiet(s, t, p), Quiet(t, u, p)
    PROVE  Quiet(s, u, p)
  BY OthersThen, CalmThen DEF Quiet

LEMMA QuietIs ==
    ASSUME NEW s, NEW t, NEW p, Quiet(s, t, p)
    PROVE  Mild(s, t, p) /\ Tame(s, t, p)
  <1>1. Calm(s, t, p, FreeFDs(s, p))
    BY CalmMore DEF Quiet
  <1>2. Tame(s, t, p)
    BY DEF Quiet, Calm, SameInos, SameIno, Tame, OnlyPipes
  <1> QED BY <1>1, <1>2 DEF Quiet, Mild

LEMMA QuietDoneIs ==
    ASSUME NEW s, NEW x, NEW p, QuietDone(s, x, p)
    PROVE  MildDone(s, x, p) /\ Tame(s, x.s, p)
  <1> DEFINE t == x.s
  <1>1. Done(s, x, p) /\ Quiet(s, t, p)
    BY DEF QuietDone, Quiet, Done
  <1> HIDE DEF t
  <1>2. Mild(s, t, p) /\ Tame(s, t, p)
    BY <1>1, QuietIs
  <1> QED BY <1>1, <1>2 DEF MildDone, Mild, t

(* Others that hang on i are woken. *)
LEMMA WokenKeeps ==
    ASSUME NEW s, NEW P, Good(s, P), NEW i, IsPipe(i), NEW op \in {"READ", "WRITE", "OPEN"}, NEW count,
           NEW t, t = release(s, i, op, count)
    PROVE  Good(t, P) /\ SameFiles(s, t) /\ \A q \in Proc : Quiet(s, t, q)
  <1>1. s \in Tables
    BY DEF Good
  <1>2. Good(t, P) /\ SameFiles(s, t) /\ Susp(t) \subseteq Susp(s) /\ Awake(s, Released(s, i, op, count), t)
    BY ReleaseKeeps
  <1>3. \A q \in Proc : Stays(t, q) => t.fproc[q] = s.fproc[q]
    BY <1>1, <1>2, AwakeStays
  <1>4. ASSUME NEW q \in Proc PROVE Quiet(s, t, q)
    <2>1. Others(s, t, q)
      BY <1>1, <1>2, OthersAwake
    <2>2. Calm(s, t, q, {})
      BY <1>2, <1>3, CalmFiles
    <2> QED BY <2>1, <2>2 DEF Quiet
  <1> QED BY <1>2, <1>4

(* Bytes are moved: F and I are what they leave, n what p has written of a *)
(* write() that hangs.                                                     *)
Poured(s, F, I, p, n) ==
    [s EXCEPT !.fproc = [s.fproc EXCEPT ![p] = [s.fproc[p] EXCEPT !.cum = n]], !.filp = F, !.inode = I]

SameFilps(s, F) ==
    /\ F \in [Filp -> FilpRec]
    /\ \A f \in Filp : F[f].count = s.filp[f].count /\ F[f].ino = s.filp[f].ino /\ F[f].mode = s.filp[f].mode
SameInodes(s, I) == I \in [Inode -> InodeRec] /\ \A i \in Inode : I[i].count = s.inode[i].count

LEMMA PouredKeeps ==
    ASSUME NEW s, NEW P, Good(s, P), NEW p \in Proc, NEW n \in Nat, NEW F, NEW I,
           SameFilps(s, F), SameInodes(s, I), NEW t, t = Poured(s, F, I, p, n)
    PROVE  /\ Good(t, P) /\ SameHang(s, t) /\ SameSlots(s, t) /\ Others(s, t, p)
           /\ t.filp = F /\ t.inode = I /\ t.fproc[p].cum = n
           /\ \A q \in Proc : q # p => t.fproc[q] = s.fproc[q]
  <1>1. s \in Tables /\ s.fproc \in [Proc -> ProcRec] /\ s.fproc[p] \in ProcRec
    BY DEF Good, Tables
  <1> DEFINE r == [s.fproc[p] EXCEPT !.cum = n]
             G == [s.fproc EXCEPT ![p] = r]
  <1>2. r \in ProcRec /\ r.fd = s.fproc[p].fd /\ r.suspended = s.fproc[p].suspended
        /\ r.revived = s.fproc[p].revived /\ r.task = s.fproc[p].task /\ r.call = s.fproc[p].call /\ r.cum = n
    BY <1>1 DEF ProcRec
  <1>3. t = [s EXCEPT !.fproc = G, !.filp = F, !.inode = I]
    BY DEF Poured
  <1> HIDE DEF r
  <1>4. G \in [Proc -> ProcRec] /\ G[p] = r /\ \A q \in Proc : q # p => G[q] = s.fproc[q]
    BY <1>1, <1>2
  <1> HIDE DEF G
  <1>5. F \in [Filp -> FilpRec] /\ I \in [Inode -> InodeRec]
    BY DEF SameFilps, SameInodes
  <1>6. /\ t \in Tables /\ t.fproc = G /\ t.filp = F /\ t.inode = I /\ t.lk = s.lk /\ t.nr = s.nr
        /\ t.susp = s.susp /\ t.rev = s.rev /\ t.waiting = s.waiting /\ t.stuck = s.stuck /\ t.tty = s.tty /\ t.lost = s.lost
    BY <1>1, <1>3, <1>4, <1>5 DEF Tables
  <1>7. SameHang(s, t)
    BY <1>2, <1>4, <1>6 DEF SameHang
  <1>8. SameSlots(s, t)
    BY <1>2, <1>4, <1>6 DEF SameSlots, SameFilps, SameInodes
  <1>9. Good(t, P)
    BY <1>6, <1>7, <1>8, DataKeep
  <1>10. Others(s, t, p)
    <2>1. \A q \in Proc, e \in FD : s.fproc[q].fd[e] # Nil => s.fproc[q].fd[e] \in Filp
      BY <1>1 DEF ProcRec
    <2>2. \A q \in Proc : Sees(s, t, q)
      BY <1>8, <2>1 DEF Sees, SameSlots
    <2>3. Susp(t) = Susp(s)
      BY <1>7 DEF Susp, SameHang
    <2> QED BY <1>4, <1>6, <1>8, <2>2, <2>3 DEF Others, SameSlots
  <1> QED BY <1>2, <1>4, <1>6, <1>7, <1>8, <1>9, <1>10

LEMMA PouredQuiet ==
    ASSUME NEW s, NEW P, Good(s, P), NEW p \in Proc, ~s.fproc[p].suspended, NEW n \in Nat, NEW F, NEW I,
           SameFilps(s, F), SameInodes(s, I), NEW t, t = Poured(s, F, I, p, n)
    PROVE  /\ Good(t, P) /\ SameHang(s, t) /\ SameSlots(s, t) /\ Quiet(s, t, p)
  <1>1. Good(t, P) /\ SameHang(s, t) /\ SameSlots(s, t) /\ Others(s, t, p)
    BY PouredKeeps
  <1>2. ~Stays(t, p)
    BY <1>1 DEF Stays, SameHang
  <1>3. s.fproc[p].fd \in [FD -> Filp \cup {Nil}]
    BY DEF Good, Tables, ProcRec
  <1>4. SameInos(s, t, p, {})
    BY <1>1, <1>3 DEF SameInos, SameIno, SameSlots
  <1>5. Calm(s, t, p, {})
    BY <1>1, <1>2, <1>4 DEF Calm, SameSlots
  <1> QED BY <1>1, <1>5 DEF Quiet

(* Filp f has another position or another O_NONBLOCK. *)
LEMMA FilpData ==
    ASSUME NEW s \in Tables, NEW f \in Filp, NEW r \in FilpRec,
           r.count = s.filp[f].count, r.ino = s.filp[f].ino, r.mode = s.filp[f].mode
    PROVE  SameFilps(s, [s.filp EXCEPT ![f] = r])
  <1> DEFINE F == [s.filp EXCEPT ![f] = r]
  <1>1. s.filp \in [Filp -> FilpRec]
    BY DEF Tables
  <1>2. F \in [Filp -> FilpRec] /\ F[f] = r /\ \A h \in Filp : h # f => F[h] = s.filp[h]
    BY <1>1
  <1> HIDE DEF F
  <1>3. SameFilps(s, F)
    BY <1>2 DEF SameFilps
  <1> QED BY <1>3 DEF F

LEMMA InodeData ==
    ASSUME NEW s \in Tables, NEW i \in Inode, NEW r \in InodeRec, r.count = s.inode[i].count
    PROVE  SameInodes(s, [s.inode EXCEPT ![i] = r])
  <1> DEFINE I == [s.inode EXCEPT ![i] = r]
  <1>1. s.inode \in [Inode -> InodeRec]
    BY DEF Tables
  <1>2. I \in [Inode -> InodeRec] /\ I[i] = r /\ \A j \in Inode : j # i => I[j] = s.inode[j]
    BY <1>1
  <1> HIDE DEF I
  <1>3. SameInodes(s, I)
    BY <1>2 DEF SameInodes
  <1> QED BY <1>3 DEF I

LEMMA DataItself ==
    ASSUME NEW s \in Tables, NEW p \in Proc
    PROVE  /\ SameFilps(s, s.filp) /\ SameInodes(s, s.inode)
           /\ s.fproc[p].cum \in Nat
           /\ \A n : [s EXCEPT !.fproc[p].cum = n] = Poured(s, s.filp, s.inode, p, n)
  <1>1. SameFilps(s, s.filp) /\ SameInodes(s, s.inode) /\ s.fproc[p].cum \in Nat
    BY DEF SameFilps, SameInodes, Tables, ProcRec
  <1>2. ASSUME NEW n PROVE [s EXCEPT !.fproc[p].cum = n] = Poured(s, s.filp, s.inode, p, n)
    BY DEF Poured, Tables
  <1> QED BY <1>1, <1>2

LEMMA dev_ioKeeps ==
    ASSUME NEW s, NEW p \in Proc, Good(s, {p}), NEW c \in Call, c.op \in {"READ", "WRITE"}, NEW f, NEW i,
           Has(s, p, c.fd, f, i), i \in Ttys, NEW nonblock, NEW done, NEW x, x = dev_io(s, p, c, i, nonblock, done)
    PROVE  QuietDone(s, x, p)
  <1> DEFINE t == gen_io(s, p, FALSE)
  <1>1. Good(t, {p}) /\ OnlyTyping(s, t) /\ t.tty.sending = Nil
    BY GenIoKeeps
  <1>a. t = gen_io(s, p, FALSE)
    OBVIOUS
  <1> HIDE DEF t
  <1>2. SameFiles(s, t) /\ Quiet(s, t, p) /\ t \in Tables
    <2>1. SameFiles(s, t) /\ Others(s, t, p) /\ t \in Tables
      BY <1>1, OthersFiles DEF OnlyTyping, Good
    <2>2. Calm(s, t, p, {})
      BY <1>1, <2>1, CalmFiles DEF OnlyTyping
    <2> QED BY <2>1, <2>2 DEF Quiet
  <1>s. ~t.fproc[p].suspended
    BY <1>1, Waits
  <1> DEFINE busy == Readers(t, i) # {}
  <1>b. x = IF busy THEN Result(t, "EIO")
            ELSE IF done THEN Result([t EXCEPT !.fproc[p].cum = 0], "OK")
            ELSE IF nonblock THEN Result(t, "EAGAIN")
            ELSE Result(suspend([t EXCEPT !.tty.pending = t.tty.pending \cup {p}], p, "TTY", c), "SUSPEND")
    BY <1>a DEF dev_io
  <1> HIDE DEF busy
  <1>3. CASE ~busy /\ done
    <2>1. x = Result([t EXCEPT !.fproc[p].cum = 0], "OK")
      BY <1>3, <1>b
    <2> DEFINE u == [t EXCEPT !.fproc[p].cum = 0]
    <2>2. u = Poured(t, t.filp, t.inode, p, 0) /\ SameFilps(t, t.filp) /\ SameInodes(t, t.inode)
      BY <1>2, DataItself
    <2> HIDE DEF u
    <2>3. Good(u, {p}) /\ Quiet(t, u, p)
      BY <1>1, <1>s, <2>2, PouredQuiet
    <2>4. Quiet(s, u, p)
      BY <1>2, <2>3, QuietThen
    <2>5. x.s = u /\ x.r = "OK"
      BY <2>1 DEF Result, u
    <2> QED BY <2>3, <2>4, <2>5 DEF Done, QuietDone, Quiet
  <1>4. CASE busy \/ (~done /\ nonblock)
    <2>1. x.s = t /\ x.r # "SUSPEND"
      BY <1>4, <1>b DEF Result
    <2> QED BY <1>1, <1>2, <2>1 DEF Done, QuietDone, Quiet
  <1>5. CASE ~busy /\ ~done /\ ~nonblock
    <2>1. x = Result(suspend([t EXCEPT !.tty.pending = t.tty.pending \cup {p}], p, "TTY", c), "SUSPEND")
      BY <1>5, <1>b
    <2> DEFINE u == suspend([t EXCEPT !.tty.pending = t.tty.pending \cup {p}], p, "TTY", c)
    <2>2. x.s = u /\ x.r = "SUSPEND" /\ "TTY" \in Tasks
      BY <2>1 DEF Result, Tasks
    <2>3. t.fproc[p].fd[c.fd] = f /\ f # Nil /\ t.filp[f].ino = i
      BY <1>2 DEF Has, SameFiles
    <2>4. MayHang(t, p, "TTY", c)
      BY <2>3 DEF MayHang
    <2>5. CallOf(t, Hung(t, p, "TTY", c))
      BY <1>1, <2>2, <2>4, MayHangIs
    <2>6. /\ Good(u, {}) /\ SameFiles(t, u) /\ Susp(u) = Susp(t) \cup {p}
          /\ \A q \in Proc : q # p => u.fproc[q] = t.fproc[q]
          /\ u.fproc[p].task = "TTY"
      BY <1>1, <2>5, TypingKeeps
    <2> HIDE DEF u
    <2>7. Quiet(t, u, p)
      <3>1. Others(t, u, p)
        BY <2>6, OthersFiles
      <3>2. SameFiles(t, u) /\ u.fproc[p].task # "XLOCK"
        BY <2>6
      <3>3. Calm(t, u, p, {})
        BY <3>2, CalmFiles
      <3> QED BY <3>1, <3>3 DEF Quiet
    <2>8. Quiet(s, u, p)
      BY <1>2, <2>7, QuietThen
    <2> QED BY <2>2, <2>6, <2>8 DEF Done, QuietDone, Quiet
  <1> QED BY <1>3, <1>4, <1>5

LEMMA LocksMild ==
    ASSUME NEW s, NEW t, NEW p \in Proc, Mild(s, t, p)
    PROVE  LocksGo(s, t)
  <1>1. t.lk = s.lk
    BY DEF Mild, Calm
  <1>2. ASSUME NEW q \in Proc, NEW i, HasOpen(s, q, i) PROVE HasOpen(t, q, i)
    <2>1. PICK d \in FD : s.fproc[q].fd[d] # Nil /\ s.filp[s.fproc[q].fd[d]].ino = i
      BY <1>2 DEF HasOpen
    <2>2. t.fproc[q].fd[d] # Nil /\ t.filp[t.fproc[q].fd[d]].ino = i
      <3>1. CASE q = p
        BY <2>1, <3>1 DEF Mild, Calm, SameInos, SameIno, FreeFDs
      <3>2. CASE q # p
        BY <2>1, <3>2 DEF Mild, Others, Sees
      <3> QED BY <3>1, <3>2
    <2> QED BY <2>2 DEF HasOpen
  <1> QED BY <1>1, <1>2, LocksStay DEF OpensKept

(* A call of p on filp f of pipe i. *)
OnPipe(s, p, c, f, i) ==
    /\ Good(s, {p}) /\ Has(s, p, c.fd, f, i) /\ IsPipe(i) /\ c \in Call
    /\ c.op \in {"READ", "WRITE"} /\ (IF c.op = "READ" THEN "R" ELSE "W") \in s.filp[f].mode

LEMMA PipeHangs ==
    ASSUME NEW s, NEW p \in Proc, NEW c, NEW f, NEW i, OnPipe(s, p, c, f, i),
           NEW e, e \in Call, e.op = c.op, e.fd = c.fd, NEW t, t = suspend(s, p, "XPIPE", e)
    PROVE  Good(t, {}) /\ SameFiles(s, t) /\ Quiet(s, t, p)
  <1>1. Good(s, {p}) /\ "XPIPE" \in Tasks \ {"none", "TTY"}
    BY DEF OnPipe, Tasks
  <1>2. MayHang(s, p, "XPIPE", e)
    BY DEF MayHang, OnPipe, Has
  <1>3. Good(t, {}) /\ SameFiles(s, t) /\ Others(s, t, p) /\ t.fproc[p] = Hung(s, p, "XPIPE", e)
    BY <1>1, <1>2, HungIs
  <1>4. s.fproc[p] \in ProcRec
    BY <1>1 DEF Good, Tables
  <1>5. t.fproc[p].task = "XPIPE"
    BY <1>3, <1>4 DEF Hung, ProcRec
  <1>6. Calm(s, t, p, {})
    BY <1>3, <1>5, CalmFiles
  <1> QED BY <1>3, <1>6 DEF Quiet

LEMMA ReadPipeKeeps ==
    ASSUME NEW s, NEW p \in Proc, NEW c, NEW f, NEW i, OnPipe(s, p, c, f, i), c.op = "READ",
           NEW x, x = ReadPipe(s, p, c, f, i)
    PROVE  QuietDone(s, x, p)
  <1>1. Good(s, {p}) /\ s \in Tables /\ Slots(s) /\ IsPipe(i) /\ c \in Call /\ Has(s, p, c.fd, f, i)
    BY DEF OnPipe, Good
  <1>s. ~s.fproc[p].suspended
    BY <1>1, Waits
  <1>2. f \in Filp /\ i \in Inode /\ s.inode[i] \in InodeRec /\ s.filp[f] \in FilpRec
    BY <1>1, HasIs DEF Call
  <1> DEFINE pos0 == s.filp[f].pos
             nb   == s.filp[f].nonblock
             k    == ReadCheck(s, p, c, i, pos0, nb)
             u    == suspend(s, p, "XPIPE", c)
             v    == IF nb THEN s ELSE u
             w    == IF v.susp > 0 THEN release(v, i, "WRITE", v.susp) ELSE v
  <1>3. CASE pos0 < s.inode[i].size
    <2> DEFINE left == s.inode[i].size - pos0
               pos  == pos0 + (IF c.nb < left THEN c.nb ELSE left)
               W    == find_filp(s, i, "W")
               t    == [s EXCEPT !.fproc[p].cum = 0]
    <2>1. k = Check(s, "go", c.nb) /\ k.s = s /\ k.r = "go"
      BY <1>3 DEF ReadCheck, Check
    <2>2. pos0 \in Nat /\ s.inode[i].size \in 0 .. PIPE_SIZE /\ PIPE_SIZE \in Nat /\ c.nb \in Nat
      BY <1>1, <1>2, FSAssumption DEF FilpRec, InodeRec, Call
    <2>3. pos \in Nat
      BY <1>3, <2>2
    <2>4. t = Poured(s, s.filp, s.inode, p, 0) /\ SameFilps(s, s.filp) /\ SameInodes(s, s.inode)
          /\ t.filp = s.filp /\ t.inode = s.inode
      BY <1>1, DataItself DEF Tables
    <2>5. CASE pos < s.inode[i].size
      <3>1. x = Result([t EXCEPT !.filp[f].pos = pos], "OK")
        BY <2>1, <2>5 DEF ReadPipe
      <3> HIDE DEF pos
      <3> DEFINE r == [s.filp[f] EXCEPT !.pos = pos]
                 F == [s.filp EXCEPT ![f] = r]
                 z == [t EXCEPT !.filp[f].pos = pos]
      <3>2. r \in FilpRec /\ r.count = s.filp[f].count /\ r.ino = s.filp[f].ino /\ r.mode = s.filp[f].mode
        BY <1>2, <2>3 DEF FilpRec
      <3> HIDE DEF t
      <3>3. z = [t EXCEPT !.filp = F]
        BY <2>4
      <3> HIDE DEF r
      <3>4. SameFilps(s, F)
        BY <1>1, <1>2, <3>2, FilpData
      <3> HIDE DEF F, z
      <3>5. z = Poured(s, F, s.inode, p, 0)
        BY <1>1, <2>4, <3>3 DEF Poured, Tables
      <3>6. Good(z, {p}) /\ Quiet(s, z, p)
        BY <1>1, <1>s, <2>4, <3>4, <3>5, PouredQuiet
      <3> QED BY <3>1, <3>6 DEF Done, QuietDone, Quiet, Result, z
    <2>6. CASE ~(pos < s.inode[i].size)
      <3> DEFINE F == [g \in Filp |-> IF g = f \/ (W # {} /\ g = First(W))
                                      THEN [s.filp[g] EXCEPT !.pos = 0] ELSE s.filp[g]]
                 r == [s.inode[i] EXCEPT !.size = 0, !.gap = FALSE]
                 I == [s.inode EXCEPT ![i] = r]
                 z == [t EXCEPT !.inode[i] = [@ EXCEPT !.size = 0, !.gap = FALSE],
                                !.filp = [g \in Filp |-> IF g = f \/ (W # {} /\ g = First(W))
                                                         THEN [@[g] EXCEPT !.pos = 0] ELSE @[g]]]
      <3>1. x = Result(z, "OK")
        BY <2>1, <2>6 DEF ReadPipe
      <3> HIDE DEF pos, t
      <3>2. z = [t EXCEPT !.inode = I, !.filp = F]
        BY <2>4
      <3>3. F \in [Filp -> FilpRec] /\ \A g \in Filp : F[g].count = s.filp[g].count /\ F[g].ino = s.filp[g].ino
                                                     /\ F[g].mode = s.filp[g].mode
        <4>1. \A g \in Filp : s.filp[g] \in FilpRec
          BY <1>1 DEF Tables
        <4> QED BY <4>1 DEF FilpRec
      <3>4. r \in InodeRec /\ r.count = s.inode[i].count
        <4> DEFINE q == [s.inode[i] EXCEPT !.size = 0]
        <4>1. q \in InodeRec /\ q.count = s.inode[i].count /\ r = [q EXCEPT !.gap = FALSE]
          BY <1>2, <2>2 DEF InodeRec
        <4> HIDE DEF q, r
        <4> QED BY <4>1 DEF InodeRec
      <3> HIDE DEF F, r
      <3>5. SameFilps(s, F) /\ SameInodes(s, I)
        BY <1>1, <1>2, <3>3, <3>4, InodeData DEF SameFilps
      <3> HIDE DEF I, z
      <3>6. z = Poured(s, F, I, p, 0)
        BY <1>1, <2>4, <3>2 DEF Poured, Tables
      <3>7. Good(z, {p}) /\ Quiet(s, z, p)
        BY <1>1, <1>s, <3>5, <3>6, PouredQuiet
      <3> QED BY <3>1, <3>7 DEF Done, QuietDone, Quiet, Result, z
    <2> QED BY <2>5, <2>6
  <1>4. CASE ~(pos0 < s.inode[i].size) /\ find_filp(s, i, "W") = {}
    <2>1. x.s = s /\ x.r = "EOF"
      BY <1>4 DEF ReadPipe, ReadCheck, Check, Result
    <2> QED BY <1>1, <2>1, QuietNone DEF Done, QuietDone, Quiet
  <1>5. CASE ~(pos0 < s.inode[i].size) /\ find_filp(s, i, "W") # {}
    <2>1. x.s = w /\ x.r = IF nb THEN "EAGAIN" ELSE "SUSPEND"
      BY <1>5 DEF ReadPipe, ReadCheck, Check, Result
    <2>2. Good(v, IF nb THEN {p} ELSE {}) /\ Quiet(s, v, p)
      <3>1. Good(u, {}) /\ Quiet(s, u, p)
        BY <1>1, PipeHangs
      <3> HIDE DEF u
      <3> QED BY <1>1, <3>1, QuietNone
    <2> HIDE DEF v, nb
    <2> DEFINE P == IF nb THEN {p} ELSE {}
    <2>3. Good(w, P) /\ Quiet(v, w, p)
      <3> HIDE DEF P
      <3>1. CASE v.susp > 0
        <4>1. w = release(v, i, "WRITE", v.susp) /\ "WRITE" \in {"READ", "WRITE", "OPEN"}
          BY <3>1
        <4> QED BY <1>1, <2>2, <4>1, WokenKeeps DEF P
      <3>2. CASE ~(v.susp > 0)
        <4>1. w = v
          BY <3>2
        <4> QED BY <2>2, <4>1, QuietNone DEF P
      <3> QED BY <3>1, <3>2
    <2> HIDE DEF w
    <2>4. Quiet(s, w, p)
      BY <2>2, <2>3, QuietThen
    <2> QED BY <2>1, <2>3, <2>4 DEF Done, QuietDone, Quiet
  <1> QED BY <1>3, <1>4, <1>5

LEMMA WriteAtKeeps ==
    ASSUME NEW s, NEW p \in Proc, NEW c, NEW f, NEW i, OnPipe(s, p, c, f, i), c.op = "WRITE",
           NEW from \in Nat, NEW x, x = WriteAt(s, p, c, f, i, from)
    PROVE  QuietDone(s, x, p)
  <1>1. Good(s, {p}) /\ s \in Tables /\ Slots(s) /\ IsPipe(i) /\ c \in Call /\ Has(s, p, c.fd, f, i)
    BY DEF OnPipe, Good
  <1>s. ~s.fproc[p].suspended
    BY <1>1, Waits
  <1>2. f \in Filp /\ i \in Inode /\ s.inode[i] \in InodeRec /\ s.filp[f] \in FilpRec /\ s.filp[f].ino = i
    BY <1>1, HasIs DEF Call
  <1> DEFINE nb   == s.filp[f].nonblock
             k    == WriteCheck(s, p, c, i, from, nb)
             room == PIPE_SIZE - from
  <1>3. from \in Nat /\ PIPE_SIZE \in Nat /\ c.nb \in Nat /\ s.inode[i].size \in 0 .. PIPE_SIZE
    BY <1>1, <1>2, FSAssumption DEF FilpRec, InodeRec, Call
  <1> DEFINE Goes(y) == /\ k.s = y /\ k.r \in {"go", "partial"} /\ k.n \in Nat /\ from + k.n <= PIPE_SIZE
                        /\ k.r = "partial" => k.n <= c.nb
             Stops(y) == k.s = y /\ k.r \notin {"go", "partial"}
  <1>4. \/ Goes(s) \/ Goes(release(s, i, "READ", s.susp)) \/ (Stops(s) /\ k.r # "SUSPEND")
        \/ (Stops(suspend(s, p, "XPIPE", c)) /\ k.r = "SUSPEND")
    <2>1. CASE find_filp(s, i, "R") = {}
      <3>1. k = Check(s, "EPIPE", 0)
        BY <2>1 DEF WriteCheck
      <3> QED BY <3>1 DEF Check
    <2>2. CASE find_filp(s, i, "R") # {} /\ c.nb <= room
      <3>1. k = Check(IF from = 0 THEN release(s, i, "READ", s.susp) ELSE s, "go", c.nb)
        BY <2>2 DEF WriteCheck
      <3>2. from + c.nb <= PIPE_SIZE
        BY <1>3, <2>2
      <3> QED BY <1>3, <3>1, <3>2 DEF Check
    <2>3. CASE find_filp(s, i, "R") # {} /\ ~(c.nb <= room) /\ nb /\ c.nb < PIPE_SIZE
      <3>1. k = Check(s, "EAGAIN", 0)
        BY <2>3 DEF WriteCheck
      <3> QED BY <3>1 DEF Check
    <2>4. CASE find_filp(s, i, "R") # {} /\ ~(c.nb <= room) /\ ~(nb /\ c.nb < PIPE_SIZE)
               /\ c.nb > PIPE_SIZE /\ room > 0
      <3>1. k = Check(release(s, i, "READ", s.susp), "partial", room)
        BY <2>4 DEF WriteCheck
      <3>2. room \in Nat /\ from + room <= PIPE_SIZE /\ room <= c.nb
        BY <1>3, <2>4
      <3> HIDE DEF room
      <3> QED BY <3>1, <3>2 DEF Check
    <2>5. CASE find_filp(s, i, "R") # {} /\ ~(c.nb <= room) /\ ~(nb /\ c.nb < PIPE_SIZE)
               /\ ~(c.nb > PIPE_SIZE /\ room > 0) /\ nb /\ c.nb > PIPE_SIZE
      <3>1. k = Check(s, "EAGAIN", 0)
        BY <2>5 DEF WriteCheck
      <3> QED BY <3>1 DEF Check
    <2>6. CASE find_filp(s, i, "R") # {} /\ ~(c.nb <= room) /\ ~(nb /\ c.nb < PIPE_SIZE)
               /\ ~(c.nb > PIPE_SIZE /\ room > 0) /\ ~(nb /\ c.nb > PIPE_SIZE)
      <3>1. k = Check(suspend(s, p, "XPIPE", c), "SUSPEND", 0)
        BY <2>6 DEF WriteCheck
      <3> QED BY <3>1 DEF Check
    <2> QED BY <2>1, <2>2, <2>3, <2>4, <2>5, <2>6
  <1>5. CASE Stops(s) /\ k.r # "SUSPEND"
    <2>1. x.s = s /\ x.r # "SUSPEND"
      BY <1>5 DEF WriteAt, Result
    <2> QED BY <1>1, <2>1, QuietNone DEF Done, QuietDone, Quiet
  <1>6. CASE Stops(suspend(s, p, "XPIPE", c)) /\ k.r = "SUSPEND"
    <2>1. x.s = suspend(s, p, "XPIPE", c) /\ x.r = "SUSPEND"
      BY <1>6 DEF WriteAt, Result
    <2>2. Good(x.s, {}) /\ Quiet(s, x.s, p)
      BY <1>1, <2>1, PipeHangs
    <2> QED BY <2>1, <2>2 DEF Done, QuietDone, Quiet
  <1>7. ASSUME NEW y, Good(y, {p}), SameFiles(s, y), Quiet(s, y, p), Goes(y) PROVE QuietDone(s, x, p)
    <2> DEFINE n    == k.n
               pos  == from + n
               size == IF pos > s.inode[i].size THEN pos ELSE s.inode[i].size
               rf   == [s.filp[f] EXCEPT !.pos = pos]
               ri   == [s.inode[i] EXCEPT !.size = size]
               F    == [s.filp EXCEPT ![f] = rf]
               I    == [s.inode EXCEPT ![i] = ri]
               t    == [k.s EXCEPT !.filp[f].pos = pos, !.inode[i].size = IF pos > @ THEN pos ELSE @]
               hang == k.r = "partial" /\ ~s.filp[f].nonblock
    <2>s. ~y.fproc[p].suspended
      BY <1>7, Waits
    <2>1. y \in Tables /\ y.filp = s.filp /\ y.inode = s.inode /\ y.fproc[p].fd = s.fproc[p].fd
      BY <1>7 DEF Good, SameFiles
    <2>2. pos \in Nat /\ size \in 0 .. PIPE_SIZE /\ n \in Nat /\ k.s = y
      BY <1>3, <1>7
    <2>3. x = IF hang THEN Result(suspend([t EXCEPT !.fproc[p].cum = @ + n], p, "XPIPE", [c EXCEPT !.nb = @ - n]),
                                  "SUSPEND")
              ELSE Result([t EXCEPT !.fproc[p].cum = 0], "OK")
      BY <1>7 DEF WriteAt
    <2>h. hang => n <= c.nb
      BY <1>7
    <2> HIDE DEF k
    <2>4. t = [y EXCEPT !.filp = F, !.inode = I]
      <3>1. t = [y EXCEPT !.filp[f].pos = pos, !.inode[i].size = size]
        BY <2>1, <2>2
      <3> HIDE DEF pos, size, t
      <3> QED BY <2>1, <3>1
    <2>5. rf \in FilpRec /\ rf.count = s.filp[f].count /\ rf.ino = s.filp[f].ino /\ rf.mode = s.filp[f].mode
      <3> HIDE DEF pos
      <3> QED BY <1>2, <2>2 DEF FilpRec
    <2>6. ri \in InodeRec /\ ri.count = s.inode[i].count
      <3> HIDE DEF size
      <3> QED BY <1>2, <2>2 DEF InodeRec
    <2> HIDE DEF rf, ri, t, n, hang
    <2>7. SameFilps(y, F) /\ SameInodes(y, I)
      <3>1. SameFilps(s, F) /\ SameInodes(s, I)
        BY <1>1, <1>2, <2>5, <2>6, FilpData, InodeData
      <3> HIDE DEF F, I
      <3> QED BY <2>1, <3>1 DEF SameFilps, SameInodes
    <2> HIDE DEF F, I
    <2>8. y.fproc[p].cum \in Nat
      BY <2>1 DEF Tables, ProcRec
    <2>9. ASSUME NEW m \in Nat
          PROVE  [t EXCEPT !.fproc[p].cum = m] = Poured(y, F, I, p, m)
      BY <2>1, <2>4 DEF Poured, Tables
    <2>10. CASE ~hang
      <3> DEFINE z == [t EXCEPT !.fproc[p].cum = 0]
      <3>1. x.s = z /\ x.r = "OK"
        BY <2>3, <2>10 DEF Result
      <3>2. z = Poured(y, F, I, p, 0)
        BY <2>9
      <3> HIDE DEF z
      <3>3. Good(z, {p}) /\ Quiet(y, z, p)
        BY <1>7, <2>s, <2>7, <3>2, PouredQuiet
      <3>4. Quiet(s, z, p)
        BY <1>7, <3>3, QuietThen
      <3> QED BY <3>1, <3>3, <3>4 DEF Done, QuietDone, Quiet
    <2>11. CASE hang
      <3> DEFINE m == y.fproc[p].cum + n
                 z == [t EXCEPT !.fproc[p].cum = @ + n]
                 e == [c EXCEPT !.nb = c.nb - n]
      <3>1. x.s = suspend(z, p, "XPIPE", e) /\ x.r = "SUSPEND"
        BY <2>3, <2>11 DEF Result
      <3>2. m \in Nat
        BY <2>2, <2>8
      <3>3. z = [t EXCEPT !.fproc[p].cum = m]
        <4>1. t.fproc = y.fproc
          BY <2>1, <2>4 DEF Tables
        <4> QED BY <4>1
      <3>4. c.nb - n \in Nat
        BY <1>3, <2>2, <2>h, <2>11
      <3>5. e \in Call /\ e.op = c.op /\ e.fd = c.fd
        <4> DEFINE b == c.nb - n
        <4>1. b \in Nat /\ e = [c EXCEPT !.nb = b]
          BY <3>4
        <4> HIDE DEF b, e
        <4> QED BY <1>1, <4>1 DEF Call
      <3> HIDE DEF m, z, e
      <3>6. z = Poured(y, F, I, p, m)
        BY <2>9, <3>2, <3>3
      <3>7. Good(z, {p}) /\ Quiet(y, z, p) /\ SameSlots(y, z)
        BY <1>7, <2>s, <2>7, <3>2, <3>6, PouredQuiet
      <3>8. OnPipe(z, p, c, f, i)
        <4>1. z.fproc[p].fd = s.fproc[p].fd /\ z.filp[f].ino = s.filp[f].ino /\ z.filp[f].mode = s.filp[f].mode
          BY <1>2, <2>1, <3>7 DEF SameSlots
        <4> QED BY <3>7, <4>1 DEF OnPipe, Has
      <3>9. Good(x.s, {}) /\ Quiet(z, x.s, p)
        BY <3>1, <3>5, <3>8, PipeHangs
      <3>10. Quiet(s, x.s, p)
        BY <1>7, <3>7, <3>9, QuietThen
      <3> QED BY <3>1, <3>9, <3>10 DEF Done, QuietDone, Quiet
    <2> QED BY <2>10, <2>11
  <1>8. CASE Goes(s)
    <2>1. SameFiles(s, s)
      BY DEF SameFiles
    <2> HIDE DEF k
    <2> QED BY <1>1, <1>7, <1>8, <2>1, QuietNone
  <1>9. CASE Goes(release(s, i, "READ", s.susp))
    <2> DEFINE y == release(s, i, "READ", s.susp)
    <2>1. Good(y, {p}) /\ SameFiles(s, y) /\ Quiet(s, y, p)
      BY <1>1, WokenKeeps
    <2> HIDE DEF k, y
    <2> QED BY <1>7, <1>9, <2>1 DEF y
  <1> QED BY <1>4, <1>5, <1>6, <1>8, <1>9

(* Whether a FIFO has been written elsewhere than at its end matters to    *)
(* nothing.                                                                *)
Marked(s, i, g) == [s.inode EXCEPT ![i] = [s.inode[i] EXCEPT !.gap = g]]

LEMMA MarkKeeps ==
    ASSUME NEW s, NEW p \in Proc, Good(s, {p}), NEW i \in Inode, NEW g \in BOOLEAN,
           NEW u, u = [s EXCEPT !.inode = Marked(s, i, g)]
    PROVE  /\ Good(u, {p}) /\ Quiet(s, u, p) /\ u.filp = s.filp /\ u.fproc = s.fproc
  <1>1. s \in Tables /\ s.inode \in [Inode -> InodeRec] /\ s.inode[i] \in InodeRec
        /\ s.fproc \in [Proc -> ProcRec] /\ s.fproc[p] \in ProcRec
    BY DEF Good, Tables
  <1>s. ~s.fproc[p].suspended
    BY Waits
  <1> DEFINE r == [s.inode[i] EXCEPT !.gap = g]
             I == Marked(s, i, g)
             n == s.fproc[p].cum
  <1>2. r \in InodeRec /\ r.count = s.inode[i].count
    BY <1>1 DEF InodeRec
  <1>3. I = [s.inode EXCEPT ![i] = r]
    BY DEF Marked
  <1> HIDE DEF r
  <1>4. SameInodes(s, I)
    BY <1>1, <1>2, <1>3, InodeData
  <1>5. SameFilps(s, s.filp) /\ n \in Nat
    BY <1>1, DataItself
  <1> HIDE DEF I
  <1>6. u = Poured(s, s.filp, I, p, n)
    <2>1. [s.fproc[p] EXCEPT !.cum = n] = s.fproc[p]
      BY <1>1 DEF ProcRec
    <2>2. [s.fproc EXCEPT ![p] = [s.fproc[p] EXCEPT !.cum = n]] = s.fproc
      BY <1>1, <2>1
    <2> HIDE DEF n
    <2>3. u = [s EXCEPT !.inode = I]
      BY DEF I
    <2> QED BY <1>1, <2>2, <2>3 DEF Poured, Tables
  <1>7. Good(u, {p}) /\ Quiet(s, u, p)
    BY <1>4, <1>5, <1>6, <1>s, PouredQuiet
  <1>8. u.filp = s.filp /\ u.fproc = s.fproc
    BY <1>1 DEF Tables
  <1> QED BY <1>7, <1>8

LEMMA WritePipeKeeps ==
    ASSUME NEW s, NEW p \in Proc, NEW c, NEW f, NEW i, OnPipe(s, p, c, f, i), c.op = "WRITE",
           NEW x, x = WritePipe(s, p, c, f, i)
    PROVE  QuietDone(s, x, p)
  <1>1. Good(s, {p}) /\ s \in Tables /\ Slots(s) /\ IsPipe(i) /\ c \in Call /\ Has(s, p, c.fd, f, i)
    BY DEF OnPipe, Good
  <1>2. f \in Filp /\ i \in Inode /\ s.inode[i] \in InodeRec /\ s.filp[f] \in FilpRec
    BY <1>1, HasIs DEF Call
  <1> DEFINE size == s.inode[i].size
             from == IF s.filp[f].append THEN size ELSE s.filp[f].pos
             g    == s.inode[i].gap \/ from # size
             u    == [s EXCEPT !.inode = Marked(s, i, g)]
  <1>3. from \in Nat
    BY <1>2, FSAssumption DEF FilpRec, InodeRec
  <1>4. g \in BOOLEAN
    BY <1>2 DEF InodeRec
  <1>5. x = WriteAt(u, p, c, f, i, from)
    BY <1>1 DEF WritePipe, Marked, Tables
  <1> HIDE DEF from, g
  <1>6. Good(u, {p}) /\ Quiet(s, u, p) /\ u.filp = s.filp /\ u.fproc = s.fproc
    BY <1>1, <1>2, <1>4, MarkKeeps
  <1> HIDE DEF u
  <1>7. OnPipe(u, p, c, f, i)
    BY <1>1, <1>6 DEF OnPipe, Has
  <1>8. QuietDone(u, x, p)
    BY <1>3, <1>5, <1>7, WriteAtKeeps
  <1> QED BY <1>6, <1>8, QuietThen DEF QuietDone, Done, Quiet

LEMMA TransferDone ==
    ASSUME NEW s, NEW p \in Proc, Good(s, {p}), NEW c \in Call, c.op \in {"READ", "WRITE"},
           s.filp[s.fproc[p].fd[c.fd]].ino \notin Files,
           NEW done, NEW x, x = DoCall(s, p, c, done)
    PROVE  QuietDone(s, x, p)
  <1> DEFINE f == s.fproc[p].fd[c.fd]
             i == s.filp[f].ino
             m == IF c.op = "READ" THEN "R" ELSE "W"
  <1>1. s \in Tables /\ Slots(s) /\ c.fd \in FD
    BY DEF Good, Call
  <1>2. ASSUME x = Result(s, "EBADF") PROVE QuietDone(s, x, p)
    BY <1>2, QuietNone DEF Done, QuietDone, Quiet, Result
  <1>3. CASE f = Nil
    BY <1>2, <1>3 DEF DoCall
  <1>4. ASSUME f # Nil PROVE Has(s, p, c.fd, f, i) /\ i \in Inode
    <2>1. Has(s, p, c.fd, f, i)
      BY <1>4 DEF Has
    <2> HIDE DEF f, i
    <2>2. i \in Inode
      BY <1>1, <2>1, HasIs
    <2> QED BY <2>1, <2>2
  <1>6. CASE f # Nil /\ m \notin s.filp[f].mode
    BY <1>2, <1>6 DEF DoCall
  <1>7. CASE f # Nil /\ m \in s.filp[f].mode /\ i \in Ttys
    <2>1. x = dev_io(s, p, c, i, s.filp[f].nonblock, done)
      BY <1>7 DEF DoCall
    <2> HIDE DEF f, i
    <2> QED BY <1>4, <1>7, <2>1, dev_ioKeeps
  <1>8. CASE f # Nil /\ m \in s.filp[f].mode /\ i \notin Ttys
    <2>1. IsPipe(i)
      BY <1>4, <1>8 DEF IsPipe, Inode
    <2>2. x = IF c.op = "READ" THEN ReadPipe(s, p, c, f, i) ELSE WritePipe(s, p, c, f, i)
      BY <1>8 DEF DoCall
    <2>3. OnPipe(s, p, c, f, i)
      BY <1>4, <1>8, <2>1 DEF OnPipe
    <2> HIDE DEF f, i
    <2> QED BY <1>8, <2>2, <2>3, ReadPipeKeeps, WritePipeKeeps
  <1> QED BY <1>3, <1>6, <1>7, <1>8

LEMMA LockDone ==
    ASSUME NEW s, NEW p \in Proc, Good(s, {p}), NEW c \in Call, c.op = "FCNTL", Sane(c.lock),
           NEW done, NEW x, x = DoCall(s, p, c, done)
    PROVE  Done(s, x, p) /\ LocksGo(s, x.s)
  <1> DEFINE f == s.fproc[p].fd[c.fd]
             i == s.filp[f].ino
  <1>0. ASSUME x = Result(s, "EBADF") PROVE Done(s, x, p) /\ LocksGo(s, x.s)
    BY <1>0, OthersNone DEF Done, LocksGo, Result
  <1>1. CASE f = Nil
    BY <1>0, <1>1 DEF DoCall
  <1>2. CASE f # Nil
    <2>1. x = lock_op(s, p, c, f, i)
      BY <1>2 DEF DoCall
    <2>2. Has(s, p, c.fd, f, i)
      BY <1>2 DEF Has
    <2> HIDE DEF f, i
    <2> QED BY <2>1, <2>2, lock_opKeeps
  <1> QED BY <1>1, <1>2

-----------------------------------------------------------------------------
(* open(), pipe() and fork(). *)

LEMMA DoneThen ==
    ASSUME NEW s, NEW t, NEW p, Others(s, t, p), NEW x, Done(t, x, p)
    PROVE  Done(s, x, p)
  BY OthersThen DEF Done

(* The caller's own descriptor still stands for its file, in the mode it   *)
(* asked for.                                                              *)
Entered(s, t, p, d, i) ==
    /\ Good(t, {p}) /\ Others(s, t, p) /\ Calm(s, t, p, {d}) /\ t.susp = s.susp
    /\ t.fproc[p].fd[d] # Nil /\ t.filp[t.fproc[p].fd[d]].ino = i

OpenCallOn(d) == [NoCall EXCEPT !.op = "OPEN", !.fd = d]

LEMMA OpenCallIs == ASSUME NEW d \in FD
                    PROVE  OpenCallOn(d) \in Call /\ OpenCallOn(d).op = "OPEN" /\ OpenCallOn(d).fd = d
  BY DEF OpenCallOn, NoCall, NoLock, Call, LockReq

(* The filp a descriptor has just been given is exchanged for one that     *)
(* others have of the same FIFO, or keeps a position.                      *)
Shares(s, f, i, a) == find_filp([s EXCEPT !.filp[f].count = 0], i, a)
Goes(s, p, d, f, i, a, nonblock, b) ==
    IF Shares(s, f, i, a) # {}
    THEN [s EXCEPT !.fproc[p].fd[d] = First(Shares(s, f, i, a)), !.filp[f] = FreeFilp,
                   !.filp[First(Shares(s, f, i, a))].count = @ + 1,
                   !.filp[First(Shares(s, f, i, a))].nonblock = nonblock,
                   !.filp[First(Shares(s, f, i, a))].append = b,
                   !.inode[i].count = @ - 1]
    ELSE [s EXCEPT !.filp[f].pos = IF a = "R" THEN s.inode[i].rpos ELSE s.inode[i].wpos]

LEMMA SharesIs ==
    ASSUME NEW s \in Tables, NEW f \in Filp, NEW i, NEW a, NEW g \in Shares(s, f, i, a)
    PROVE  g \in Filp /\ g # f /\ s.filp[g].count > 0 /\ s.filp[g].ino = i /\ a \in s.filp[g].mode
  <1> DEFINE t == [s EXCEPT !.filp[f].count = 0]
  <1>1. s.filp \in [Filp -> FilpRec]
    BY DEF Tables
  <1>2. t.filp[f].count = 0 /\ \A h \in Filp : h # f => t.filp[h] = s.filp[h]
    BY <1>1 DEF Tables, FilpRec
  <1>3. g \in Filp /\ t.filp[g].count # 0 /\ t.filp[g].ino = i /\ a \in t.filp[g].mode
    BY DEF Shares, find_filp
  <1> HIDE DEF t
  <1>4. g # f /\ s.filp[g].count # 0 /\ s.filp[g].ino = i /\ a \in s.filp[g].mode
    BY <1>2, <1>3
  <1>5. s.filp[g].count \in Nat
    BY <1>1, <1>3 DEF FilpRec
  <1> QED BY <1>3, <1>4, <1>5

LEMMA GoesKeeps ==
    ASSUME NEW s, NEW p \in Proc, Good(s, {p}), NEW d \in FD, NEW f, NEW i \in Fifos, Has(s, p, d, f, i),
           s.filp[f].count = 1, NEW a, NEW nonblock \in BOOLEAN, NEW b \in BOOLEAN,
           NEW t, t = Goes(s, p, d, f, i, a, nonblock, b)
    PROVE  Entered(s, t, p, d, i)
  <1>1. s \in Tables /\ Slots(s) /\ ~s.fproc[p].suspended
    BY Waits DEF Good
  <1>2. f \in Filp /\ i \in Inode /\ s.inode[i] \in InodeRec /\ s.filp[f] \in FilpRec
        /\ s.fproc[p].fd[d] = f /\ f # Nil /\ s.filp[f].ino = i
    BY <1>1, HasIs
  <1>3. CASE Shares(s, f, i, a) # {}
    <2> DEFINE g == First(Shares(s, f, i, a))
    <2>1. Shares(s, f, i, a) \in SUBSET Nat
      BY DEF Shares, find_filp, Filp
    <2>2. g \in Shares(s, f, i, a)
      BY <1>3, <2>1, FirstIs
    <2> HIDE DEF g
    <2>3. g \in Filp /\ g # f /\ s.filp[g].count > 0 /\ s.filp[g].ino = i
      BY <1>1, <1>2, <2>2, SharesIs
    <2>4. t = [s EXCEPT !.fproc[p].fd[d] = g, !.filp[f] = FreeFilp, !.filp[g].count = @ + 1,
                        !.filp[g].nonblock = nonblock, !.filp[g].append = b, !.inode[i].count = @ - 1]
      BY <1>3 DEF Goes, g
    <2>5. t = Joined(s, p, d, f, i, g, nonblock, b)
      <3>1. [s.filp EXCEPT ![f] = FreeFilp, ![g].count = @ + 1, ![g].nonblock = nonblock, ![g].append = b]
            = Traded(s, f, g, nonblock, b)
        BY <1>1, <1>2, <2>3 DEF Traded, Tables, FilpRec
      <3>2. t = [s EXCEPT !.fproc = [s.fproc EXCEPT ![p].fd[d] = g],
                          !.filp = [s.filp EXCEPT ![f] = FreeFilp, ![g].count = @ + 1, ![g].nonblock = nonblock, ![g].append = b],
                          !.inode = [s.inode EXCEPT ![i].count = @ - 1]]
        BY <2>4
      <3> QED BY <1>1, <3>1, <3>2 DEF Joined, Put, Counted, Tables
    <2>6. /\ Good(t, {p}) /\ SameHang(s, t) /\ t.lk = s.lk /\ Moved(s, t, p, d, g) /\ t.filp = Traded(s, f, g, nonblock, b)
          /\ \A q \in Proc : q # p => Sees(s, t, q) /\ t.fproc[q] = s.fproc[q]
      BY <1>1, <2>3, <2>5, JoinKeeps
    <2>7. t.filp[g].ino = i
      BY <1>1, <1>2, <2>3, <2>6 DEF Traded, Tables, FilpRec
    <2>8. Others(s, t, p)
      BY <2>6, HangKept DEF Others
    <2>9. t.fproc[p].fd[d] = g /\ g # Nil
      BY <2>3, <2>6, Domains DEF Moved
    <2>10. ~Stays(t, p)
      BY <1>1, <2>6 DEF Stays, SameHang
    <2>11. SameInos(s, t, p, {d})
      <3> SUFFICES ASSUME NEW e \in FD \ {d} PROVE SameIno(s, t, p, e)
        BY DEF SameInos
      <3> DEFINE h == s.fproc[p].fd[e]
      <3>1. t.fproc[p].fd[e] = h
        BY <2>6 DEF Moved
      <3> SUFFICES ASSUME h # Nil PROVE t.filp[h].ino = s.filp[h].ino
        BY <3>1 DEF SameIno
      <3>2. h \in Filp
        BY <1>1 DEF Tables, ProcRec
      <3>3. h # f
        BY <1>1, HasSole
      <3> QED BY <1>1, <1>2, <2>3, <2>6, <3>2, <3>3 DEF Traded, Tables, FilpRec
    <2>12. Calm(s, t, p, {d})
      BY <2>6, <2>10, <2>11 DEF Calm
    <2> QED BY <2>6, <2>7, <2>8, <2>9, <2>12 DEF Entered, SameHang
  <1>4. CASE Shares(s, f, i, a) = {}
    <2> DEFINE q == IF a = "R" THEN s.inode[i].rpos ELSE s.inode[i].wpos
               r == [s.filp[f] EXCEPT !.pos = q]
               F == [s.filp EXCEPT ![f] = r]
    <2>1. t = [s EXCEPT !.filp[f].pos = q]
      BY <1>4 DEF Goes
    <2>2. q \in Nat
      BY <1>2 DEF InodeRec
    <2> HIDE DEF q
    <2>3. r \in FilpRec /\ r.count = s.filp[f].count /\ r.ino = s.filp[f].ino /\ r.mode = s.filp[f].mode
      BY <1>2, <2>2 DEF FilpRec
    <2>4. t = [s EXCEPT !.filp = F]
      BY <1>1, <2>1
    <2> HIDE DEF r
    <2>5. SameFilps(s, F)
      BY <1>1, <1>2, <2>3, FilpData
    <2>6. SameInodes(s, s.inode) /\ s.fproc[p].cum \in Nat
      BY <1>1, DataItself
    <2> HIDE DEF F
    <2> DEFINE n == s.fproc[p].cum
    <2>7. t = Poured(s, F, s.inode, p, n)
      <3>1. s.fproc \in [Proc -> ProcRec] /\ s.fproc[p] \in ProcRec
        BY <1>1 DEF Tables
      <3>2. [s.fproc[p] EXCEPT !.cum = n] = s.fproc[p]
        BY <3>1 DEF ProcRec
      <3>3. [s.fproc EXCEPT ![p] = [s.fproc[p] EXCEPT !.cum = n]] = s.fproc
        BY <3>1, <3>2
      <3> HIDE DEF n
      <3> QED BY <1>1, <2>4, <3>3 DEF Poured, Tables
    <2> HIDE DEF n
    <2>8. Good(t, {p}) /\ SameHang(s, t) /\ SameSlots(s, t) /\ Quiet(s, t, p)
      BY <1>1, <2>5, <2>6, <2>7, PouredQuiet DEF n
    <2>9. Calm(s, t, p, {d})
      BY <2>8, CalmMore DEF Quiet
    <2> QED BY <1>2, <2>8, <2>9 DEF Entered, SameHang, SameSlots, Quiet
  <1> QED BY <1>3, <1>4

LEMMA EnteredThen ==
    ASSUME NEW s, NEW t, NEW p, NEW d, NEW i, Entered(s, t, p, d, i), NEW u, Quiet(t, u, p)
    PROVE  Others(s, u, p) /\ Calm(s, u, p, {d})
  <1>1. Others(s, u, p)
    BY OthersThen DEF Entered, Quiet
  <1>2. Calm(t, u, p, {d})
    BY CalmMore DEF Quiet
  <1> QED BY <1>1, <1>2, CalmThen DEF Entered

LEMMA OpenFifoKeeps ==
    ASSUME NEW s, NEW p \in Proc, Good(s, {p}), NEW d \in FD, NEW f, NEW i \in Fifos, Has(s, p, d, f, i),
           s.filp[f].count = 1, NEW m, NEW nonblock \in BOOLEAN,
           NEW x, x = OpenFifo(s, p, d, f, i, m, nonblock)
    PROVE  Done(s, x, p) /\ Calm(s, x.s, p, {d})
  <1>1. s \in Tables /\ Slots(s) /\ ~s.fproc[p].suspended
    BY Waits DEF Good
  <1>2. f \in Filp /\ i \in Inode /\ s.inode[i].count > 0 /\ s.inode \in [Inode -> InodeRec]
        /\ s.fproc[p].fd[d] = f /\ f # Nil
    BY <1>1, HasIs DEF Tables
  <1> DEFINE other == IF "W" \in m THEN "R" ELSE "W"
             a     == CHOOSE y \in m : TRUE
             b     == Append(i, m)
             alone == find_filp(s, i, other) = {}
             t     == Goes(s, p, d, f, i, a, nonblock, b)
             u     == [s EXCEPT !.fproc[p].fd[d] = Nil, !.filp[f] = FreeFilp]
             e     == OpenCallOn(d)
  <1>3. x = IF alone /\ nonblock /\ "W" \in m THEN Result(put_inode(u, i), "ENXIO")
            ELSE IF alone /\ ~nonblock THEN Result(suspend(t, p, "XPOPEN", e), "SUSPEND")
            ELSE Result(IF ~alone /\ s.susp > 0 THEN release(t, i, "OPEN", s.susp) ELSE t, "OK")
    BY DEF OpenFifo, Goes, Shares, OpenCallOn
  <1>b. b \in BOOLEAN
    BY DEF Append
  <1> HIDE DEF alone, a, b
  <1>4. Entered(s, t, p, d, i)
    BY <1>b, GoesKeeps
  <1>5. CASE alone /\ nonblock /\ "W" \in m
    <2>1. x.s = put_inode(u, i) /\ x.r = "ENXIO"
      BY <1>3, <1>5 DEF Result
    <2>2. u = [s EXCEPT !.fproc = Put(s, p, d, Nil), !.filp = Vacated(s, f)]
      BY <1>1 DEF Put, Vacated, Tables
    <2>3. u.inode = s.inode
      BY <1>1, <2>2 DEF Tables
    <2> HIDE DEF u
    <2>4. PICK r : PutBack(u, i, r) /\ put_inode(u, i) = [u EXCEPT !.inode = [u.inode EXCEPT ![i] = r]]
      BY <1>2, <2>3, PutInodeIs
    <2>5. Lost(s, i, r)
      BY <2>3, <2>4 DEF PutBack, Lost
    <2>6. x.s = Dropped(s, p, d, f, i, r)
      BY <1>1, <2>1, <2>2, <2>3, <2>4 DEF Dropped, Vacated, Tables
    <2> DEFINE v == x.s
    <2> HIDE DEF v
    <2>7. /\ Good(v, {p}) /\ SameHang(s, v) /\ v.lk = s.lk /\ Moved(s, v, p, d, Nil) /\ v.filp = Vacated(s, f)
          /\ \A q \in Proc : q # p => Sees(s, v, q) /\ v.fproc[q] = s.fproc[q]
      BY <1>1, <2>5, <2>6, DropKeeps DEF v
    <2>8. Others(s, v, p)
      BY <2>7, HangKept DEF Others
    <2>9. SameInos(s, v, p, {d})
      <3> SUFFICES ASSUME NEW y \in FD \ {d} PROVE SameIno(s, v, p, y)
        BY DEF SameInos
      <3> DEFINE h == s.fproc[p].fd[y]
      <3>1. v.fproc[p].fd[y] = h
        BY <2>7 DEF Moved
      <3> SUFFICES ASSUME h # Nil PROVE v.filp[h].ino = s.filp[h].ino
        BY <3>1 DEF SameIno
      <3>2. h \in Filp
        BY <1>1 DEF Tables, ProcRec
      <3>3. h # f
        BY <1>1, HasSole
      <3>4. v.filp[h] = s.filp[h]
        BY <1>1, <2>7, <3>2, <3>3 DEF Vacated, Tables
      <3> QED BY <3>4
    <2>10. Calm(s, v, p, {d})
      BY <1>1, <2>7, <2>9 DEF Calm, Stays, SameHang
    <2> QED BY <2>1, <2>7, <2>8, <2>10 DEF Done, v
  <1>6. CASE alone /\ ~nonblock
    <2>1. x.s = suspend(t, p, "XPOPEN", e) /\ x.r = "SUSPEND"
      BY <1>3, <1>6 DEF Result
    <2>2. e \in Call /\ e.op = "OPEN" /\ e.fd = d
      BY OpenCallIs
    <2> HIDE DEF t, e
    <2>3. MayHang(t, p, "XPOPEN", e)
      BY <1>4, <2>2 DEF MayHang, Entered
    <2>4. "XPOPEN" \in Tasks \ {"none", "TTY"}
      BY DEF Tasks
    <2>5. Good(x.s, {}) /\ Quiet(t, x.s, p)
      <3> DEFINE v == x.s
      <3> HIDE DEF v
      <3>1. v = suspend(t, p, "XPOPEN", e)
        BY <2>1 DEF v
      <3>2. Good(v, {}) /\ SameFiles(t, v) /\ Others(t, v, p) /\ v.fproc[p] = Hung(t, p, "XPOPEN", e)
        BY <1>4, <2>2, <2>3, <2>4, <3>1, HungIs DEF Entered
      <3>3. t.fproc[p] \in ProcRec
        BY <1>4 DEF Entered, Good, Tables
      <3>4. v.fproc[p].task = "XPOPEN"
        BY <3>2, <3>3 DEF Hung, ProcRec
      <3>5. Calm(t, v, p, {})
        BY <3>2, <3>4, CalmFiles
      <3> QED BY <3>2, <3>5 DEF v, Quiet
    <2>6. Others(s, x.s, p) /\ Calm(s, x.s, p, {d})
      BY <1>4, <2>5, EnteredThen
    <2> QED BY <2>1, <2>5, <2>6 DEF Done
  <1>7. CASE ~(alone /\ nonblock /\ "W" \in m) /\ ~(alone /\ ~nonblock)
    <2> DEFINE v == IF ~alone /\ s.susp > 0 THEN release(t, i, "OPEN", s.susp) ELSE t
    <2>1. x.s = v /\ x.r = "OK"
      BY <1>3, <1>7 DEF Result
    <2> HIDE DEF t
    <2>2. Good(v, {p}) /\ Quiet(t, v, p)
      <3>1. CASE ~alone /\ s.susp > 0
        <4>1. v = release(t, i, "OPEN", s.susp) /\ IsPipe(i)
          BY <3>1, Kinds
        <4> HIDE DEF v
        <4> QED BY <1>4, <4>1, WokenKeeps DEF Entered
      <3>2. CASE ~(~alone /\ s.susp > 0)
        <4>1. v = t
          BY <3>2
        <4> QED BY <1>4, <4>1, QuietNone DEF Entered
      <3> QED BY <3>1, <3>2
    <2> HIDE DEF v
    <2>3. Others(s, v, p) /\ Calm(s, v, p, {d})
      BY <1>4, <2>2, EnteredThen
    <2> QED BY <2>1, <2>2, <2>3 DEF Done
  <1> QED BY <1>5, <1>6, <1>7

SameBut(s, t, f) == \A g \in Filp : g # f => t.filp[g] = s.filp[g]

(* What p has done when it has claimed descriptor d and filp f for inode i. *)
Entering(s, t, p, d, f, i) ==
    /\ Good(t, {p}) /\ Mild(s, t, p) /\ Has(t, p, d, f, i) /\ t.filp[f].count = 1
    /\ Calm(s, t, p, {d}) /\ (i \in Pipes => Tame(s, t, p))
    /\ Moved(s, t, p, d, f) /\ SameBut(s, t, f)
    /\ t.susp = s.susp

LEMMA ClaimOthers ==
    ASSUME NEW s, NEW p \in Proc, Good(s, {p}), NEW d, NEW f, NEW i, NEW m, NEW nonblock,
           MayClaim(s, p, d, f, i, m, nonblock), NEW t, t = Claim(s, p, d, f, i, m, nonblock)
    PROVE  Entering(s, t, p, d, f, i)
  <1>1. /\ Good(t, {p}) /\ SameHang(s, t)
        /\ t.fproc = Put(s, p, d, f)
        /\ \A q \in Proc : Sees(s, t, q)
        /\ t.fproc[p].fd[d] = f /\ t.filp[f] = NewFilp(m, i, nonblock)
        /\ t.filp = Opened(s, f, m, i, nonblock)
    BY ClaimKeeps
  <1>l. t.lk = s.lk
    <2> DEFINE N == NewFilp(m, i, nonblock)
               C == Counted(s, i, s.inode[i].count + 1)
               G == Put(s, p, d, f)
    <2>1. t = [s EXCEPT !.fproc = G, !.filp = [s.filp EXCEPT ![f] = N], !.inode = C]
      <3>1. s \in Tables
        BY DEF Good
      <3>2. t = Claimed(s, p, d, f, i, m, nonblock)
        BY <3>1, ClaimIs
      <3> QED BY <3>2 DEF Claimed
    <2> HIDE DEF N, C, G
    <2> QED BY <2>1 DEF Good, Tables
  <1>2. s \in Tables /\ d \in FD /\ f \in Filp \cup {Nil} /\ f # Nil
    BY Domains DEF Good, FreeFDs, FreeFilps, MayClaim
  <1>3. Moved(s, t, p, d, f) /\ \A q \in Proc : q # p => t.fproc[q] = s.fproc[q]
    BY <1>1, <1>2, PutIs DEF SameHang
  <1>4. Others(s, t, p)
    BY <1>1, <1>3, HangKept DEF Others
  <1>5. SameBut(s, t, f)
    BY <1>1, <1>2 DEF Opened, Tables, SameBut
  <1>i. \A e \in FD : e # d => SameIno(s, t, p, e)
    BY <1>1, <1>3 DEF Sees, SameIno, Moved
  <1>6. Calm(s, t, p, {d})
    <2>1. ~Stays(t, p)
      BY <1>1, Waits DEF Stays
    <2>2. SameInos(s, t, p, {d})
      BY <1>i DEF SameInos
    <2> QED BY <1>1, <1>l, <2>1, <2>2 DEF Calm
  <1>7. Mild(s, t, p)
    <2>1. d \in FreeFDs(s, p)
      BY DEF MayClaim
    <2>2. Calm(s, t, p, FreeFDs(s, p))
      BY <1>6, <2>1, CalmMore
    <2> QED BY <1>4, <2>2 DEF Mild
  <1>8. t.filp[f].ino = i /\ t.filp[f].count = 1
    BY <1>1 DEF NewFilp
  <1>9. i \in Pipes => Tame(s, t, p)
    <2> SUFFICES ASSUME i \in Pipes, OnlyPipes(s, p), NEW e \in FD, t.fproc[p].fd[e] # Nil
                 PROVE  t.filp[t.fproc[p].fd[e]].ino \in Pipes
      BY DEF Tame, OnlyPipes
    <2>1. CASE e = d
      BY <1>1, <1>8, <2>1
    <2>2. CASE e # d
      BY <1>i, <2>2 DEF SameIno, OnlyPipes
    <2> QED BY <2>1, <2>2
  <1> QED BY <1>1, <1>2, <1>3, <1>5, <1>6, <1>7, <1>8, <1>9 DEF Has, SameHang, Entering

LEMMA FreeOnes ==
    ASSUME NEW s, NEW p
    PROVE  /\ FreeFDs(s, p) # {} => First(FreeFDs(s, p)) \in FreeFDs(s, p)
           /\ FreeFilps(s) # {} => First(FreeFilps(s)) \in FreeFilps(s)
           /\ FreeFDs(s, p) \subseteq FD /\ FreeFilps(s) \subseteq Filp
  <1>1. FreeFDs(s, p) \in SUBSET Nat /\ FreeFilps(s) \in SUBSET Nat
    BY DEF FreeFDs, FreeFilps, FD, Filp
  <1> QED BY <1>1, FirstIs DEF FreeFDs, FreeFilps

LEMMA common_openKeeps ==
    ASSUME NEW s, NEW p \in Proc, Good(s, {p}), NEW i \in Inode \ Pipes, NEW m \in SUBSET {"R", "W"},
           i \in Fifos => m \in {{"R"}, {"W"}}, NEW nonblock \in BOOLEAN,
           NEW x, x = common_open(s, p, i, m, nonblock)
    PROVE  MildDone(s, x, p)
  <1> DEFINE d == First(FreeFDs(s, p))
             f == First(FreeFilps(s))
             t == Claim(s, p, d, f, i, m, nonblock)
  <1>1. CASE FreeFDs(s, p) = {} \/ FreeFilps(s) = {}
    <2>1. x = Result(s, "EMFILE")
      BY <1>1 DEF common_open
    <2>2. x.s = s /\ x.r = "EMFILE"
      BY <2>1 DEF Result
    <2>3. QuietDone(s, x, p)
      BY <2>2, QuietNone DEF Done, QuietDone, Quiet
    <2> QED BY <2>3, QuietDoneIs
  <1>2. CASE ~(FreeFDs(s, p) = {} \/ FreeFilps(s) = {})
    <2>1. x = IF i \in Fifos THEN OpenFifo(t, p, d, f, i, m, nonblock)
              ELSE Result(IF i \in Ttys THEN gen_io(t, p, FALSE) ELSE t, "OK")
      BY <1>2 DEF common_open
    <2>2. d \in FreeFDs(s, p) /\ f \in FreeFilps(s) /\ d \in FD
      BY <1>2, FreeOnes
    <2> HIDE DEF d, f
    <2>3. IsPipe(i) => m \in {{"R"}, {"W"}}
      BY DEF IsPipe
    <2>4. /\ Good(t, {p}) /\ Mild(s, t, p) /\ Has(t, p, d, f, i) /\ t.filp[f].count = 1
          /\ Calm(s, t, p, {d})
      <3>1. MayClaim(s, p, d, f, i, m, nonblock)
        BY <2>2, <2>3 DEF MayClaim
      <3>2. t = Claim(s, p, d, f, i, m, nonblock)
        OBVIOUS
      <3> HIDE DEF t
      <3>3. Entering(s, t, p, d, f, i)
        BY <3>1, <3>2, ClaimOthers
      <3> QED BY <3>3 DEF Entering
    <2> HIDE DEF t
    <2>5. CASE i \in Fifos
      <3>1. Done(t, x, p) /\ Calm(t, x.s, p, {d})
        BY <2>1, <2>2, <2>4, <2>5, OpenFifoKeeps
      <3>2. Done(s, x, p)
        BY <2>4, <3>1, DoneThen DEF Mild
      <3>3. Calm(s, x.s, p, {d})
        BY <2>4, <3>1, CalmThen
      <3>4. Calm(s, x.s, p, FreeFDs(s, p))
        BY <2>2, <3>3, CalmMore
      <3> QED BY <3>2, <3>4 DEF MildDone
    <2>6. CASE i \notin Fifos
      <3> DEFINE u == IF i \in Ttys THEN gen_io(t, p, FALSE) ELSE t
      <3>1. x.s = u /\ x.r = "OK"
        BY <2>1, <2>6 DEF Result
      <3>2. Good(u, {p}) /\ Quiet(t, u, p)
        <4>1. CASE i \in Ttys
          <5>1. u = gen_io(t, p, FALSE)
            BY <4>1
          <5> HIDE DEF u
          <5>2. Good(u, {p}) /\ OnlyTyping(t, u)
            BY <2>4, <5>1, GenIoKeeps
          <5>3. Others(t, u, p) /\ SameFiles(t, u)
            BY <5>2, OthersFiles DEF OnlyTyping
          <5>4. ~Stays(u, p)
            BY <5>2, Waits DEF Stays
          <5>5. Calm(t, u, p, {})
            BY <5>3, <5>4, CalmFiles
          <5> QED BY <5>2, <5>3, <5>5 DEF Quiet
        <4>2. CASE i \notin Ttys
          BY <2>4, <4>2, QuietNone
        <4> QED BY <4>1, <4>2
      <3> HIDE DEF u
      <3>3. Others(s, u, p)
        BY <2>4, <3>2, OthersThen DEF Mild, Quiet
      <3>4. Calm(t, u, p, FreeFDs(s, p))
        BY <3>2, CalmMore DEF Quiet
      <3>5. Calm(s, u, p, FreeFDs(s, p))
        BY <2>4, <3>4, CalmThen DEF Mild
      <3> QED BY <3>1, <3>2, <3>3, <3>5 DEF Done, MildDone
    <2> QED BY <2>5, <2>6
  <1> QED BY <1>1, <1>2

LEMMA do_pipeKeeps ==
    ASSUME NEW s, NEW p \in Proc, Good(s, {p}), NEW x, x = do_pipe(s, p)
    PROVE  MildDone(s, x, p) /\ Tame(s, x.s, p)
  <1> DEFINE few == \/ Cardinality(FreeFDs(s, p)) < 2 \/ Cardinality(FreeFilps(s)) < 2
                    \/ \A y \in Pipes : s.inode[y].count # 0
             d0 == First(FreeFDs(s, p))
             f0 == First(FreeFilps(s))
             i  == CHOOSE y \in Pipes : s.inode[y].count = 0
             s1 == Claim(s, p, d0, f0, i, {"R"}, FALSE)
             d1 == First(FreeFDs(s1, p))
             f1 == First(FreeFilps(s1))
             s2 == Claim(s1, p, d1, f1, i, {"W"}, FALSE)
  <1>1. CASE few
    <2>1. x = Result(s, "EMFILE")
      BY <1>1 DEF do_pipe
    <2>2. x.s = s /\ x.r = "EMFILE"
      BY <2>1 DEF Result
    <2>3. QuietDone(s, x, p)
      BY <2>2, QuietNone DEF Done, QuietDone, Quiet
    <2> QED BY <2>3, QuietDoneIs
  <1>2. CASE ~few
    <2>1. x = Result(s2, "OK") /\ i \in Pipes
      BY <1>2 DEF do_pipe
    <2>2. FreeFDs(s, p) # {} /\ FreeFilps(s) # {} /\ FreeFDs(s, p) # {d0} /\ FreeFilps(s) # {f0}
      <3>1. Cardinality({}) = 0 /\ Cardinality({d0}) = 1 /\ Cardinality({f0}) = 1
        <4> HIDE DEF d0, f0
        <4> QED BY FS_EmptySet, FS_Singleton
      <3>2. ~(Cardinality(FreeFDs(s, p)) < 2) /\ ~(Cardinality(FreeFilps(s)) < 2)
        BY <1>2
      <3> HIDE DEF d0, f0
      <3> QED BY <3>1, <3>2
    <2>3. d0 \in FreeFDs(s, p) /\ f0 \in FreeFilps(s) /\ d0 \in FD /\ f0 \in Filp
      BY <2>2, FreeOnes
    <2>4. i \in Inode /\ IsPipe(i) /\ i \in Pipes
      BY <2>1 DEF Inode, IsPipe
    <2> HIDE DEF d0, f0, i
    <2>k. {"R"} \in SUBSET {"R", "W"} /\ {"W"} \in SUBSET {"R", "W"} /\ FALSE \in BOOLEAN
          /\ {"R"} \in {{"R"}, {"W"}} /\ {"W"} \in {{"R"}, {"W"}}
      OBVIOUS
    <2>5. /\ Good(s1, {p}) /\ Mild(s, s1, p) /\ Moved(s, s1, p, d0, f0)
          /\ SameBut(s, s1, f0) /\ Tame(s, s1, p)
      <3>1. MayClaim(s, p, d0, f0, i, {"R"}, FALSE)
        BY <2>3, <2>4, <2>k DEF MayClaim
      <3>2. s1 = Claim(s, p, d0, f0, i, {"R"}, FALSE)
        OBVIOUS
      <3> HIDE DEF s1
      <3>3. Entering(s, s1, p, d0, f0, i)
        BY <3>1, <3>2, ClaimOthers
      <3> QED BY <2>4, <3>3 DEF Entering
    <2> HIDE DEF s1
    <2>6. FreeFDs(s1, p) # {}
      <3>1. PICK e \in FreeFDs(s, p) : e # d0
        BY <2>2, <2>3
      <3>2. e \in FreeFDs(s1, p)
        BY <2>5, <3>1 DEF FreeFDs, Moved
      <3> QED BY <3>2
    <2>7. FreeFilps(s1) # {}
      <3>1. PICK g \in FreeFilps(s) : g # f0
        BY <2>2, <2>3
      <3>2. s1.filp[g] = s.filp[g]
        BY <2>5, <3>1 DEF FreeFilps, SameBut
      <3>3. g \in FreeFilps(s1)
        BY <3>1, <3>2 DEF FreeFilps
      <3> QED BY <3>3
    <2>8. d1 \in FreeFDs(s1, p) /\ f1 \in FreeFilps(s1)
      BY <2>6, <2>7, FreeOnes
    <2> HIDE DEF d1, f1
    <2>9. Good(s2, {p}) /\ Mild(s1, s2, p) /\ Tame(s1, s2, p)
      <3>1. MayClaim(s1, p, d1, f1, i, {"W"}, FALSE)
        BY <2>4, <2>8, <2>k DEF MayClaim
      <3>2. s2 = Claim(s1, p, d1, f1, i, {"W"}, FALSE)
        OBVIOUS
      <3> HIDE DEF s2
      <3>3. Entering(s1, s2, p, d1, f1, i)
        BY <2>5, <3>1, <3>2, ClaimOthers
      <3> QED BY <2>4, <3>3 DEF Entering
    <2> HIDE DEF s2
    <2>10. FreeFDs(s1, p) \subseteq FreeFDs(s, p)
      BY <2>3, <2>5, Domains DEF FreeFDs, Moved
    <2>11. Calm(s1, s2, p, FreeFDs(s, p))
      BY <2>9, <2>10, CalmMore DEF Mild
    <2>12. Calm(s, s2, p, FreeFDs(s, p)) /\ Others(s, s2, p)
      BY <2>5, <2>9, <2>11, CalmThen, OthersThen DEF Mild
    <2>13. Tame(s, s2, p)
      BY <2>5, <2>9 DEF Tame
    <2>14. x.s = s2 /\ x.r = "OK"
      BY <2>1 DEF Result
    <2> QED BY <2>9, <2>12, <2>13, <2>14 DEF Done, MildDone
  <1> HIDE DEF few
  <1> QED BY <1>1, <1>2

(* What fork() leaves: the child has the descriptors of its parent. *)
Mine(s, p, f) == {d \in FD : s.fproc[p].fd[d] = f}
MoreFilps(s, p) == [f \in Filp |-> LET n == Cardinality(Mine(s, p, f))
                                   IN  [s.filp[f] EXCEPT !.count = @ + n]]
Forked(s, p, c) == [s EXCEPT !.fproc[c] = s.fproc[p], !.filp = MoreFilps(s, p)]

LEMMA MineFinite == ASSUME NEW s, NEW p, NEW f
                    PROVE  IsFiniteSet(Mine(s, p, f)) /\ Cardinality(Mine(s, p, f)) \in Nat
  <1>1. Mine(s, p, f) \subseteq FD
    BY DEF Mine
  <1> QED BY <1>1, Domains, SubFinite

LEMMA MoreFilpsIs ==
    ASSUME NEW s \in Tables, NEW p \in Proc
    PROVE  /\ MoreFilps(s, p) \in [Filp -> FilpRec]
           /\ \A f \in Filp : /\ MoreFilps(s, p)[f].count = s.filp[f].count + Cardinality(Mine(s, p, f))
                              /\ MoreFilps(s, p)[f].ino = s.filp[f].ino
                              /\ MoreFilps(s, p)[f].mode = s.filp[f].mode
                              /\ MoreFilps(s, p)[f].pos = s.filp[f].pos
  <1>1. ASSUME NEW f \in Filp
        PROVE  LET r == MoreFilps(s, p)[f]
               IN  /\ r \in FilpRec /\ r.count = s.filp[f].count + Cardinality(Mine(s, p, f))
                   /\ r.ino = s.filp[f].ino /\ r.mode = s.filp[f].mode /\ r.pos = s.filp[f].pos
    <2> DEFINE n == Cardinality(Mine(s, p, f))
               r == MoreFilps(s, p)[f]
               m == s.filp[f].count + n
    <2>1. r = [s.filp[f] EXCEPT !.count = s.filp[f].count + n]
      BY DEF MoreFilps
    <2>2. n \in Nat /\ s.filp[f] \in FilpRec
      BY MineFinite DEF Tables
    <2> HIDE DEF n
    <2>3. m \in Nat /\ r = [s.filp[f] EXCEPT !.count = m]
      BY <2>1, <2>2 DEF FilpRec
    <2> HIDE DEF m, r
    <2>4. r \in FilpRec /\ r.count = m /\ r.ino = s.filp[f].ino /\ r.mode = s.filp[f].mode /\ r.pos = s.filp[f].pos
      BY <2>2, <2>3 DEF FilpRec
    <2> QED BY <2>4 DEF m, n, r
  <1>2. MoreFilps(s, p) = [f \in Filp |-> MoreFilps(s, p)[f]]
    BY DEF MoreFilps
  <1>3. MoreFilps(s, p) \in [Filp -> FilpRec]
    BY <1>1, <1>2
  <1> QED BY <1>1, <1>3

(* fork() overwrites the slot of the child: who hangs there is forgotten,  *)
(* and what it has is lost.                                                *)
MoreLost(s, c) == [f \in Filp |-> s.lost[f] + Cardinality(Mine(s, c, f))]
Vacant(s, c) == [s EXCEPT !.fproc = [s.fproc EXCEPT ![c] = Empty], !.waiting = s.waiting \ {c},
                          !.lost = MoreLost(s, c)]

LEMMA EmptyIs == /\ Empty \in ProcRec /\ ~Empty.suspended /\ ~Empty.revived
                 /\ \A d \in FD : Empty.fd[d] = Nil
  <1>1. 0 \in FD
    BY Domains DEF FD
  <1>2. NoLock \in LockReq
    BY DEF NoLock, LockReq
  <1>3. NoCall \in Call
    BY <1>1, <1>2 DEF NoCall, Call
  <1> QED BY <1>3 DEF Empty, ProcRec, Tasks

LEMMA VacantKeeps ==
    ASSUME NEW s, Good(s, {}), s.rev = 0, NEW c \in Proc,
           \A d \in FD : s.fproc[c].fd[d] # Nil => s.filp[s.fproc[c].fd[d]].ino \in Pipes,
           NEW u, u = Vacant(s, c)
    PROVE  /\ Good(u, {}) /\ Susp(u) = Susp(s) \ {c}
           /\ u.fproc[c] = Empty /\ \A q \in Proc : q # c => u.fproc[q] = s.fproc[q]
           /\ u.filp = s.filp /\ u.inode = s.inode /\ u.lk = s.lk /\ u.nr = s.nr /\ u.susp = s.susp
           /\ u.rev = s.rev /\ u.tty = s.tty /\ u.stuck = s.stuck /\ u.waiting = s.waiting \ {c}
           /\ u.lost = MoreLost(s, c)
  <1>1. s \in Tables /\ Slots(s) /\ Calls(s) /\ Held(s, {}) /\ Device(s) /\ LocksCounted(s)
    BY DEF Good
  <1> DEFINE G == [s.fproc EXCEPT ![c] = Empty]
             W == s.waiting \ {c}
             L == MoreLost(s, c)
  <1>2. G \in [Proc -> ProcRec] /\ G[c] = Empty /\ \A q \in Proc : q # c => G[q] = s.fproc[q]
    BY <1>1, EmptyIs DEF Tables
  <1>3. L \in [Filp -> Nat] /\ \A f \in Filp : L[f] = s.lost[f] + Cardinality(Mine(s, c, f))
    BY <1>1, MineFinite DEF MoreLost, Tables
  <1>4. u = [s EXCEPT !.fproc = G, !.waiting = W, !.lost = L]
    BY DEF Vacant
  <1>5. W \in SUBSET Proc
    BY <1>1 DEF Tables
  <1> HIDE DEF G, L, W
  <1>6. /\ u \in Tables /\ u.fproc = G /\ u.filp = s.filp /\ u.inode = s.inode /\ u.lk = s.lk /\ u.nr = s.nr
        /\ u.susp = s.susp /\ u.rev = s.rev /\ u.waiting = W /\ u.stuck = s.stuck /\ u.tty = s.tty /\ u.lost = L
    BY <1>1, <1>2, <1>3, <1>4, <1>5 DEF Tables
  <1>7. Rev(s) = {}
    <2>1. Rev(s) \subseteq Proc /\ Cardinality(Rev(s)) = 0
      BY <1>1 DEF Held, Rev
    <2> QED BY <2>1, Domains, SubFinite, FS_EmptySet
  <1>8. c \notin Typing(s)
    <2> SUFFICES ASSUME s.fproc[c].suspended, s.fproc[c].task = "TTY" PROVE FALSE
      BY DEF Typing
    <2> DEFINE r == s.fproc[c]
               d == r.call.fd
    <2>1. CallOf(s, r) /\ d \in FD
      BY <1>1 DEF Calls, Tables, ProcRec, Call
    <2>2. r.fd[d] # Nil /\ s.filp[r.fd[d]].ino \in Ttys
      BY <2>1 DEF CallOf
    <2>3. s.filp[r.fd[d]].ino \in Pipes
      BY <2>1, <2>2
    <2> QED BY <2>2, <2>3, FSAssumption
  <1>9. Susp(u) = Susp(s) \ {c} /\ Rev(u) = Rev(s) /\ Piped(u) \subseteq Piped(s) /\ Typing(u) = Typing(s)
    <2>1. Susp(u) = Susp(s) \ {c}
      BY <1>2, <1>6, EmptyIs DEF Susp
    <2>2. Rev(u) = Rev(s)
      BY <1>2, <1>6, <1>7, EmptyIs DEF Rev
    <2>3. Piped(u) \subseteq Piped(s)
      BY <1>2, <1>6, EmptyIs DEF Piped
    <2>4. Typing(u) = Typing(s)
      BY <1>2, <1>6, <1>8, EmptyIs DEF Typing
    <2> QED BY <2>1, <2>2, <2>3, <2>4
  <1>10. Held(u, {})
    <2>1. IsFiniteSet(Piped(s)) /\ Cardinality(Piped(s)) \in Nat
      BY Domains, SubFinite DEF Piped
    <2>2. Cardinality(Piped(u)) <= Cardinality(Piped(s)) /\ Cardinality(Piped(u)) \in Nat
      BY <1>9, <2>1, SubFinite
    <2>3. u.susp >= Cardinality(Piped(u))
      BY <1>1, <1>6, <2>1, <2>2 DEF Held, Tables
    <2>4. u.waiting = Susp(u)
      BY <1>1, <1>6, <1>9 DEF Held, W
    <2>5. u.rev = Cardinality(Rev(u)) /\ Rev(u) \subseteq Susp(u) /\ u.stuck = FALSE
      BY <1>1, <1>6, <1>7, <1>9 DEF Held
    <2> QED BY <2>3, <2>4, <2>5 DEF Held
  <1>11. Device(u)
    BY <1>1, <1>6, <1>9 DEF Device
  <1>12. Calls(u)
    <2> SUFFICES ASSUME NEW q \in Proc, u.fproc[q].suspended PROVE CallOf(u, u.fproc[q])
      BY DEF Calls
    <2>1. q # c /\ u.fproc[q] = s.fproc[q] /\ s.fproc[q].suspended
      BY <1>2, <1>6, EmptyIs
    <2>2. CallOf(s, s.fproc[q])
      BY <1>1, <2>1 DEF Calls
    <2> QED BY <1>6, <2>1, <2>2 DEF CallOf
  <1>13. ASSUME NEW f \in Filp PROVE u.filp[f].count = Cardinality(Refs(u, f))
    <2> DEFINE A == Had(s, f)
               B == {c} \X Mine(s, c, f)
               n == Cardinality(Mine(s, c, f))
    <2>1. f # Nil
      BY Domains
    <2>2. B \subseteq A
      BY DEF Had, Mine
    <2>3. Had(u, f) = A \ B
      <3>1. ASSUME NEW x \in Proc \X FD PROVE x \in Had(u, f) <=> x \in A /\ x \notin B
        <4>1. CASE x[1] = c
          <5>1. u.fproc[x[1]].fd[x[2]] = Nil
            BY <1>2, <1>6, <4>1, EmptyIs
          <5>2. x \in B <=> x[2] \in Mine(s, c, f)
            BY <4>1
          <5>3. x \in A => x \in B
            BY <4>1, <5>2 DEF Had, Mine
          <5> QED BY <2>1, <5>1, <5>3 DEF Had
        <4>2. CASE x[1] # c
          <5>1. u.fproc[x[1]].fd[x[2]] = s.fproc[x[1]].fd[x[2]]
            BY <1>2, <1>6, <4>2
          <5>2. x \notin B
            BY <4>2
          <5> QED BY <5>1, <5>2 DEF Had
        <4> QED BY <4>1, <4>2
      <3>2. Had(u, f) \subseteq Proc \X FD /\ A \subseteq Proc \X FD
        BY DEF Had
      <3> HIDE DEF A, B
      <3> QED BY <3>1, <3>2
    <2>4. IsFiniteSet(A) /\ Cardinality(A) \in Nat /\ IsFiniteSet(Had(u, f)) /\ Cardinality(Had(u, f)) \in Nat
      BY HadFinite
    <2>5. IsFiniteSet(Mine(s, c, f)) /\ n \in Nat
      BY MineFinite
    <2>6. IsFiniteSet(B) /\ Cardinality(B) = n
      <3>1. IsFiniteSet({c}) /\ Cardinality({c}) = 1
        BY FS_Singleton
      <3>2. IsFiniteSet(B) /\ Cardinality(B) = Cardinality({c}) * Cardinality(Mine(s, c, f))
        BY <2>5, <3>1, FS_Product
      <3> HIDE DEF B
      <3> QED BY <2>5, <3>1, <3>2
    <2>l. s.lost[f] \in Nat /\ u.lost[f] = s.lost[f] + n
      BY <1>1, <1>3, <1>6 DEF Tables
    <2>a. Cardinality(Refs(s, f)) = Cardinality(A) + s.lost[f]
      BY <2>l, RefsCount
    <2> HIDE DEF n
    <2>b. Cardinality(Refs(u, f)) = Cardinality(Had(u, f)) + u.lost[f]
      <3>1. u.lost[f] \in Nat
        BY <2>5, <2>l
      <3> QED BY <3>1, RefsCount
    <2> HIDE DEF A, B
    <2>7. Cardinality(A \ B) = Cardinality(A) - Cardinality(B)
      <3>1. A = (A \ B) \cup B /\ (A \ B) \cap B = {}
        BY <2>2
      <3>2. IsFiniteSet(A \ B) /\ Cardinality(A \ B) \in Nat
        BY <2>3, <2>4
      <3>3. Cardinality((A \ B) \cup B) = Cardinality(A \ B) + Cardinality(B) - Cardinality((A \ B) \cap B)
        BY <2>6, <3>2, FS_Union
      <3>4. Cardinality((A \ B) \cap B) = 0
        BY <3>1, FS_EmptySet
      <3>5. Cardinality(A) = Cardinality(A \ B) + n - 0
        BY <2>6, <3>1, <3>3, <3>4
      <3> QED BY <2>4, <2>5, <2>6, <3>2, <3>5
    <2>8. s.filp[f].count = Cardinality(A) + s.lost[f]
      BY <1>1, <2>a DEF Slots
    <2> QED BY <1>6, <2>3, <2>4, <2>5, <2>6, <2>l, <2>b, <2>7, <2>8
  <1>14. Slots(u)
    <2>1. \A i : Opens(u, i) = Opens(s, i)
      BY <1>6 DEF Opens
    <2> QED BY <1>1, <1>6, <1>13, <2>1 DEF Slots
  <1>15. LocksCounted(u)
    BY <1>1, <1>6 DEF LocksCounted, Used
  <1>16. Good(u, {})
    BY <1>6, <1>10, <1>11, <1>12, <1>14, <1>15 DEF Good
  <1> QED BY <1>2, <1>6, <1>9, <1>16 DEF L, W

LEMMA ForkKeeps ==
    ASSUME NEW s, Good(s, {}), NEW p \in Proc, NEW c \in Proc, p # c,
           ~s.fproc[p].suspended, ~s.fproc[c].suspended, \A d \in FD : s.fproc[c].fd[d] = Nil,
           NEW t, t = Forked(s, p, c)
    PROVE  /\ Good(t, {}) /\ Susp(t) = Susp(s) /\ Piped(t) = Piped(s)
           /\ t.fproc[c] = s.fproc[p] /\ \A q \in Proc : q # c => t.fproc[q] = s.fproc[q]
           /\ t.filp = MoreFilps(s, p) /\ t.inode = s.inode /\ t.lk = s.lk /\ t.nr = s.nr
  <1>1. s \in Tables /\ Slots(s) /\ Calls(s) /\ Held(s, {}) /\ Device(s) /\ LocksCounted(s)
    BY DEF Good
  <1> DEFINE F == MoreFilps(s, p)
             G == [s.fproc EXCEPT ![c] = s.fproc[p]]
  <1>2. F \in [Filp -> FilpRec]
        /\ \A f \in Filp : /\ F[f].count = s.filp[f].count + Cardinality(Mine(s, p, f))
                           /\ F[f].ino = s.filp[f].ino /\ F[f].mode = s.filp[f].mode
    BY <1>1, MoreFilpsIs
  <1>3. G \in [Proc -> ProcRec] /\ G[c] = s.fproc[p] /\ \A q \in Proc : q # c => G[q] = s.fproc[q]
    BY <1>1 DEF Tables
  <1>4. t = [s EXCEPT !.fproc = G, !.filp = F]
    BY DEF Forked
  <1> HIDE DEF F, G
  <1>5. /\ t \in Tables /\ t.fproc = G /\ t.filp = F /\ t.inode = s.inode /\ t.lk = s.lk /\ t.nr = s.nr
        /\ t.susp = s.susp /\ t.rev = s.rev /\ t.waiting = s.waiting /\ t.stuck = s.stuck /\ t.tty = s.tty /\ t.lost = s.lost
    BY <1>1, <1>2, <1>3, <1>4 DEF Tables
  <1>6. ~s.fproc[p].revived /\ ~s.fproc[c].revived
    BY <1>1 DEF Held, Rev, Susp
  <1>7. Susp(t) = Susp(s) /\ Rev(t) = Rev(s) /\ Piped(t) = Piped(s) /\ Typing(t) = Typing(s)
    <2>1. Susp(t) = Susp(s)
      BY <1>3, <1>5 DEF Susp
    <2>2. Rev(t) = Rev(s)
      BY <1>3, <1>5, <1>6 DEF Rev
    <2>3. Piped(t) = Piped(s)
      BY <1>3, <1>5 DEF Piped
    <2>4. Typing(t) = Typing(s)
      BY <1>3, <1>5 DEF Typing
    <2> QED BY <2>1, <2>2, <2>3, <2>4
  <1>8. Held(t, {}) /\ Device(t)
    BY <1>1, <1>5, <1>7 DEF Held, Device
  <1>9. Calls(t)
    <2> SUFFICES ASSUME NEW q \in Proc, t.fproc[q].suspended PROVE CallOf(t, t.fproc[q])
      BY DEF Calls
    <2>1. q # c /\ t.fproc[q] = s.fproc[q] /\ s.fproc[q].suspended
      BY <1>3, <1>5
    <2> DEFINE r == s.fproc[q]
               f == r.fd[r.call.fd]
    <2>2. CallOf(s, r)
      BY <1>1, <2>1 DEF Calls
    <2>3. r \in ProcRec
      BY <1>1 DEF Tables
    <2>4. f # Nil /\ f \in Filp
      BY <2>2, <2>3 DEF CallOf, ProcRec, Call
    <2>5. t.filp[f].ino = s.filp[f].ino /\ t.filp[f].mode = s.filp[f].mode
      BY <1>2, <1>5, <2>4
    <2>6. CallOf(t, r)
      BY <2>2, <2>5 DEF CallOf
    <2> QED BY <2>1, <2>6
  <1>10. ASSUME NEW f \in Filp
         PROVE  /\ t.filp[f].count = Cardinality(Refs(t, f))
                /\ t.filp[f].count > 0 <=> s.filp[f].count > 0
    <2> DEFINE A == Had(s, f)
               B == {c} \X Mine(s, p, f)
    <2>1. f # Nil
      BY Domains
    <2>2. Had(t, f) = A \cup B
      <3>1. ASSUME NEW x \in Proc \X FD PROVE x \in Had(t, f) <=> x \in A \cup B
        <4>1. CASE x[1] = c
          <5>1. t.fproc[x[1]].fd[x[2]] = s.fproc[p].fd[x[2]]
            BY <1>3, <1>5, <4>1
          <5>2. x \notin A
            BY <2>1, <4>1 DEF Had
          <5>3. x \in B <=> x[2] \in Mine(s, p, f)
            BY <4>1
          <5> QED BY <5>1, <5>2, <5>3 DEF Had, Mine
        <4>2. CASE x[1] # c
          <5>1. t.fproc[x[1]].fd[x[2]] = s.fproc[x[1]].fd[x[2]]
            BY <1>3, <1>5, <4>2
          <5>2. x \notin B
            BY <4>2
          <5> QED BY <5>1, <5>2 DEF Had
        <4> QED BY <4>1, <4>2
      <3>2. Had(t, f) \subseteq Proc \X FD /\ A \subseteq Proc \X FD /\ B \subseteq Proc \X FD
        BY DEF Had, Mine
      <3> HIDE DEF A, B
      <3> QED BY <3>1, <3>2
    <2>3. A \cap B = {}
      <3>1. ASSUME NEW x \in A, x \in B PROVE FALSE
        <4>1. x[1] = c /\ x \in Proc \X FD /\ s.fproc[x[1]].fd[x[2]] = f
          BY <3>1 DEF Had
        <4>2. s.fproc[c].fd[x[2]] = Nil
          BY <4>1
        <4> QED BY <2>1, <4>1, <4>2
      <3> QED BY <3>1
    <2>4. IsFiniteSet(A) /\ Cardinality(A) \in Nat
      BY HadFinite
    <2>l. s.lost[f] \in Nat /\ t.lost[f] = s.lost[f]
      BY <1>1, <1>5 DEF Tables
    <2>a. Cardinality(Refs(s, f)) = Cardinality(A) + s.lost[f]
      BY <2>l, RefsCount
    <2>b. Cardinality(Refs(t, f)) = Cardinality(A \cup B) + s.lost[f]
      BY <2>2, <2>l, RefsCount
    <2>5. IsFiniteSet(Mine(s, p, f)) /\ Cardinality(Mine(s, p, f)) \in Nat
      BY MineFinite
    <2>6. IsFiniteSet(B) /\ Cardinality(B) = Cardinality(Mine(s, p, f))
      <3>1. IsFiniteSet({c}) /\ Cardinality({c}) = 1
        BY FS_Singleton
      <3>2. IsFiniteSet(B) /\ Cardinality(B) = Cardinality({c}) * Cardinality(Mine(s, p, f))
        BY <2>5, <3>1, FS_Product
      <3> HIDE DEF B
      <3> QED BY <2>5, <3>1, <3>2
    <2> HIDE DEF A, B
    <2>7. Cardinality(A \cup B) = Cardinality(A) + Cardinality(B)
      <3>1. Cardinality(A \cup B) = Cardinality(A) + Cardinality(B) - Cardinality(A \cap B)
        BY <2>4, <2>6, FS_Union
      <3>2. Cardinality(A \cap B) = 0
        BY <2>3, FS_EmptySet
      <3> QED BY <2>4, <2>5, <2>6, <3>1, <3>2
    <2>8. s.filp[f].count = Cardinality(A) + s.lost[f]
      BY <1>1, <2>a DEF Slots
    <2>9. t.filp[f].count = s.filp[f].count + Cardinality(Mine(s, p, f))
      BY <1>2, <1>5
    <2>10. t.filp[f].count = Cardinality(Refs(t, f))
      BY <2>4, <2>5, <2>b, <2>l, <2>6, <2>7, <2>8, <2>9
    <2>11. Mine(s, p, f) # {} => s.filp[f].count > 0
      BY <1>1, <2>1, InUse DEF Mine
    <2>12. Mine(s, p, f) = {} => Cardinality(Mine(s, p, f)) = 0
      BY FS_EmptySet
    <2> QED BY <2>4, <2>5, <2>l, <2>8, <2>9, <2>10, <2>11, <2>12
  <1>11. Slots(t)
    <2>1. \A i : Opens(t, i) = Opens(s, i)
      BY <1>2, <1>5, <1>10 DEF Opens
    <2>2. \A i \in Inode : t.inode[i].count = Cardinality(Opens(t, i))
      BY <1>1, <1>5, <2>1 DEF Slots
    <2>3. \A f \in Filp : t.filp[f].count > 0 => t.filp[f].ino \in Inode
      BY <1>1, <1>2, <1>5, <1>10 DEF Slots
    <2>4. \A f \in Filp : t.filp[f].count > 0 /\ IsPipe(t.filp[f].ino) => t.filp[f].mode \in {{"R"}, {"W"}}
      BY <1>1, <1>2, <1>5, <1>10 DEF Slots
    <2> QED BY <1>10, <2>2, <2>3, <2>4 DEF Slots
  <1>12. LocksCounted(t)
    BY <1>1, <1>5 DEF LocksCounted, Used
  <1>13. Good(t, {})
    BY <1>5, <1>8, <1>9, <1>11, <1>12 DEF Good
  <1> QED BY <1>3, <1>5, <1>7, <1>13 DEF F

(* fcntl(F_SETFL). *)
LEMMA FlagKeeps ==
    ASSUME NEW s, NEW P, Good(s, P), NEW p \in Proc, NEW f \in Filp, NEW b \in BOOLEAN, NEW a \in BOOLEAN,
           NEW t, t = [s EXCEPT !.filp[f].nonblock = b, !.filp[f].append = a]
    PROVE  Good(t, P) /\ SameHang(s, t) /\ SameSlots(s, t) /\ (~s.fproc[p].suspended => Quiet(s, t, p))
  <1>1. s \in Tables /\ s.filp[f] \in FilpRec
    BY DEF Good, Tables
  <1> DEFINE r == [s.filp[f] EXCEPT !.nonblock = b, !.append = a]
             F == [s.filp EXCEPT ![f] = r]
             n == s.fproc[p].cum
  <1>2. r \in FilpRec /\ r.count = s.filp[f].count /\ r.ino = s.filp[f].ino /\ r.mode = s.filp[f].mode
    BY <1>1 DEF FilpRec
  <1>3. t = [s EXCEPT !.filp = F]
    BY <1>1
  <1> HIDE DEF r
  <1>4. SameFilps(s, F)
    BY <1>1, <1>2, FilpData
  <1>5. SameInodes(s, s.inode) /\ n \in Nat
    BY <1>1, DataItself
  <1> HIDE DEF F
  <1>6. t = Poured(s, F, s.inode, p, n)
    <2>1. s.fproc \in [Proc -> ProcRec] /\ s.fproc[p] \in ProcRec
      BY <1>1 DEF Tables
    <2>2. [s.fproc[p] EXCEPT !.cum = n] = s.fproc[p]
      BY <2>1 DEF ProcRec
    <2>3. [s.fproc EXCEPT ![p] = [s.fproc[p] EXCEPT !.cum = n]] = s.fproc
      BY <2>1, <2>2
    <2> HIDE DEF n
    <2> QED BY <1>1, <1>3, <2>3 DEF Poured, Tables
  <1> HIDE DEF n
  <1>7. Good(t, P) /\ SameHang(s, t) /\ SameSlots(s, t)
    BY <1>4, <1>5, <1>6, PouredKeeps
  <1>8. ASSUME ~s.fproc[p].suspended PROVE Quiet(s, t, p)
    BY <1>4, <1>5, <1>6, <1>8, PouredQuiet
  <1> QED BY <1>7, <1>8

-----------------------------------------------------------------------------
(* The invariant: between two messages FS owes an answer to exactly those  *)
(* it holds as suspended.                                                  *)
FSInv ==
    /\ alive \in [Proc -> {"no", "yes", "dying"}]
    /\ Good(Now, {})
    /\ Idle(Now, alive)

LEMMA NowIs ==
    /\ Now.fproc = fproc /\ Now.filp = filp /\ Now.inode = inode /\ Now.lk = file_lock
    /\ Now.nr = nr_locks /\ Now.susp = susp_count /\ Now.rev = reviving
    /\ Now.waiting = waiting /\ Now.stuck = stuck /\ Now.tty = tty /\ Now.lost = lost
  BY DEF Now

LEMMA BecomesIs ==
    ASSUME NEW s \in Tables, Becomes(s)
    PROVE  Now' = s
  <1>1. s = [fproc |-> s.fproc, filp |-> s.filp, inode |-> s.inode, lk |-> s.lk, nr |-> s.nr,
             susp |-> s.susp, rev |-> s.rev, waiting |-> s.waiting, stuck |-> s.stuck, tty |-> s.tty,
             lost |-> s.lost]
    BY DEF Tables
  <1>2. Now' = [fproc |-> fproc', filp |-> filp', inode |-> inode', lk |-> file_lock', nr |-> nr_locks',
                susp |-> susp_count', rev |-> reviving', waiting |-> waiting', stuck |-> stuck', tty |-> tty',
                lost |-> lost']
    BY DEF Now
  <1> QED BY <1>1, <1>2 DEF Becomes

LEMMA IdleKept ==
    ASSUME NEW s, NEW t, NEW p \in Proc, NEW al, Idle(s, al), Others(s, t, p),
           al[p] = "yes" \/ Tame(s, t, p)
    PROVE  Idle(t, al)
  <1> SUFFICES ASSUME NEW q \in Proc, al[q] # "yes" PROVE OnlyPipes(t, q)
    BY DEF Idle
  <1>1. OnlyPipes(s, q)
    BY DEF Idle
  <1>2. CASE q = p
    BY <1>1, <1>2 DEF Tame
  <1>3. CASE q # p
    <2>1. t.fproc[q].fd = s.fproc[q].fd /\ Sees(s, t, q)
      BY <1>3 DEF Others
    <2> QED BY <1>1, <2>1 DEF OnlyPipes, Sees
  <1> QED BY <1>2, <1>3

(* A process with a file open is there. *)
LEMMA OpenIsAlive ==
    ASSUME NEW s, NEW al, Idle(s, al), NEW p \in Proc, NEW d \in FD,
           s.fproc[p].fd[d] # Nil, s.filp[s.fproc[p].fd[d]].ino \in Files
    PROVE  al[p] = "yes"
  <1>1. Files \cap Pipes = {}
    BY FSAssumption
  <1> QED BY <1>1 DEF Idle, OnlyPipes

(* p has called FS. *)
LEMMA AskKeeps ==
    ASSUME NEW s, Good(s, {}), NEW p \in Proc, p \notin s.waiting,
           NEW t, t = [s EXCEPT !.waiting = s.waiting \cup {p}]
    PROVE  /\ Good(t, {p}) /\ Quiet(s, t, p) /\ t.fproc = s.fproc /\ t.filp = s.filp /\ t.inode = s.inode
           /\ t.lk = s.lk /\ t.susp = s.susp
  <1>1. s \in Tables /\ Held(s, {}) /\ Device(s) /\ Calls(s)
    BY DEF Good
  <1>2. /\ t \in Tables /\ t.fproc = s.fproc /\ t.filp = s.filp /\ t.inode = s.inode /\ t.lk = s.lk /\ t.nr = s.nr
        /\ t.susp = s.susp /\ t.rev = s.rev /\ t.waiting = s.waiting \cup {p} /\ t.stuck = s.stuck /\ t.tty = s.tty /\ t.lost = s.lost
    BY <1>1 DEF Tables
  <1>3. Susp(t) = Susp(s) /\ Rev(t) = Rev(s) /\ Piped(t) = Piped(s) /\ Typing(t) = Typing(s)
    BY <1>2 DEF Susp, Rev, Piped, Typing
  <1>4. Held(t, {p}) /\ Device(t)
    BY <1>1, <1>2, <1>3 DEF Held, Device
  <1>5. Calls(t)
    <2>1. \A q \in Proc : CallOf(s, s.fproc[q]) => CallOf(t, s.fproc[q])
      BY <1>2 DEF CallOf
    <2> QED BY <1>1, <1>2, <2>1 DEF Calls
  <1>6. SameFiles(s, t)
    BY <1>2 DEF SameFiles
  <1>7. Slots(t) /\ LocksCounted(t)
    BY <1>6, FilesKept DEF Good
  <1>8. Others(s, t, p)
    BY <1>2, <1>3, <1>6, OthersFiles
  <1>9. Calm(s, t, p, {})
    BY <1>2, <1>6, CalmFiles
  <1> QED BY <1>2, <1>4, <1>5, <1>7, <1>8, <1>9 DEF Good, Quiet

LEMMA AskedKeeps ==
    ASSUME FSInv, NEW p \in Proc, p \notin waiting
    PROVE  /\ Good(Asked(p), {p}) /\ Quiet(Now, Asked(p), p) /\ Asked(p).fproc = fproc
           /\ Asked(p).filp = filp /\ Asked(p).inode = inode /\ Asked(p).lk = file_lock
           /\ Asked(p).susp = susp_count
  <1> DEFINE t == Asked(p)
  <1>1. t = [Now EXCEPT !.waiting = Now.waiting \cup {p}] /\ p \notin Now.waiting /\ Good(Now, {})
    BY NowIs DEF Asked, FSInv
  <1> HIDE DEF t
  <1>2. /\ Good(t, {p}) /\ Quiet(Now, t, p) /\ t.fproc = Now.fproc /\ t.filp = Now.filp
        /\ t.inode = Now.inode /\ t.lk = Now.lk /\ t.susp = Now.susp
    BY <1>1, AskKeeps
  <1> QED BY <1>2, NowIs DEF t

(* A call that is done with the answer, or hangs. *)
Answered(s, x, p, t) ==
    /\ Good(t, {}) /\ Others(s, t, p)
    /\ t.fproc = x.s.fproc /\ t.filp = x.s.filp /\ t.inode = x.s.inode /\ t.lk = x.s.lk
    /\ t.susp = x.s.susp /\ t = IF x.r = "SUSPEND" THEN x.s ELSE reply(x.s, p)

LEMMA AnsweredIs ==
    ASSUME NEW s, NEW p \in Proc, NEW x, Done(s, x, p),
           NEW t, t = IF x.r = "SUSPEND" THEN x.s ELSE reply(x.s, p)
    PROVE  Answered(s, x, p, t)
  <1> DEFINE y == x.s
  <1>1. CASE x.r = "SUSPEND"
    <2>1. t = x.s
      BY <1>1
    <2> QED BY <1>1, <2>1 DEF Done, Answered
  <1>2. CASE x.r # "SUSPEND"
    <2>1. Good(y, {p}) /\ Others(s, y, p) /\ t = reply(y, p)
      BY <1>2 DEF Done
    <2> HIDE DEF y
    <2>2. y \in Tables
      BY <2>1 DEF Good
    <2>3. Good(t, {})
      BY <2>1, ReplyKeeps
    <2>4. t.fproc = y.fproc /\ t.filp = y.filp /\ t.inode = y.inode /\ t.lk = y.lk /\ t.nr = y.nr /\ t.susp = y.susp
          /\ t.lost = y.lost
      BY <2>1, <2>2 DEF reply, Tables
    <2>5. SameFiles(y, t) /\ Susp(t) = Susp(y)
      BY <2>4 DEF SameFiles, Susp
    <2>6. Others(y, t, p)
      BY <2>4, <2>5, OthersFiles
    <2>7. Others(s, t, p)
      BY <2>1, <2>6, OthersThen
    <2> QED BY <2>3, <2>4, <2>7 DEF Answered, y
  <1> QED BY <1>1, <1>2

LEMMA Ended ==
    ASSUME FSInv, NEW t, Good(t, {}), NEW p \in Proc, Others(Now, t, p),
           alive[p] = "yes" \/ Tame(Now, t, p), Becomes(t), UNCHANGED alive
    PROVE  FSInv' /\ Now' = t
  <1>1. t \in Tables
    BY DEF Good
  <1>2. Now' = t
    BY <1>1, BecomesIs
  <1>3. Idle(t, alive)
    BY IdleKept DEF FSInv
  <1> QED BY <1>2, <1>3 DEF FSInv

LEMMA FinishKeeps ==
    ASSUME FSInv, NEW p \in Proc, p \notin waiting, NEW x, Done(Asked(p), x, p),
           alive[p] = "yes" \/ Tame(Asked(p), x.s, p), Finish(x, p), UNCHANGED alive
    PROVE  FSInv' /\ Answered(Asked(p), x, p, Now')
  <1> DEFINE t == IF x.r = "SUSPEND" THEN x.s ELSE reply(x.s, p)
  <1>1. Becomes(t)
    BY DEF Finish
  <1>2. Answered(Asked(p), x, p, t)
    BY AnsweredIs
  <1> HIDE DEF t
  <1>3. Good(t, {}) /\ Others(Asked(p), t, p)
    BY <1>2 DEF Answered
  <1>4. Others(Now, t, p)
    BY <1>3, AskedKeeps, OthersThen DEF Quiet
  <1>5. alive[p] = "yes" \/ Tame(Now, t, p)
    <2>1. t.fproc = x.s.fproc /\ t.filp = x.s.filp
      BY <1>2 DEF Answered
    <2>2. Asked(p).fproc = Now.fproc /\ Asked(p).filp = Now.filp
      BY AskedKeeps, NowIs
    <2> QED BY <2>1, <2>2 DEF Tame, OnlyPipes
  <1>6. FSInv' /\ Now' = t
    BY <1>1, <1>3, <1>4, <1>5, Ended
  <1> QED BY <1>2, <1>6

(* The same for a call that has nothing to do with locks. *)
LEMMA FinishQuiet ==
    ASSUME FSInv, NEW p \in Proc, p \notin waiting, NEW x, MildDone(Asked(p), x, p),
           alive[p] = "yes" \/ Tame(Asked(p), x.s, p), Finish(x, p), UNCHANGED alive
    PROVE  FSInv' /\ Mild(Now, Now', p)
  <1> DEFINE E == FreeFDs(Now, p)
  <1>1. Done(Asked(p), x, p) /\ Calm(Asked(p), x.s, p, E)
    BY AskedKeeps, NowIs DEF MildDone, FreeFDs
  <1>2. FSInv' /\ Answered(Asked(p), x, p, Now')
    BY <1>1, FinishKeeps
  <1> DEFINE s == Asked(p)
             t == Now'
  <1>3. Others(s, t, p) /\ t.fproc = x.s.fproc /\ t.filp = x.s.filp /\ t.lk = x.s.lk
    BY <1>2 DEF Answered
  <1>4. Quiet(Now, s, p)
    BY AskedKeeps
  <1> HIDE DEF s, t, E
  <1>5. Calm(s, t, p, E)
    BY <1>1, <1>3 DEF Calm, SameInos, SameIno, Stays, s
  <1>6. Calm(Now, s, p, E)
    BY <1>4, CalmMore DEF Quiet
  <1>7. Calm(Now, t, p, E) /\ Others(Now, t, p)
    BY <1>3, <1>4, <1>5, <1>6, CalmThen, OthersThen DEF Quiet
  <1> QED BY <1>2, <1>7 DEF t, E, Mild

(* The same for fcntl(). *)
LEMMA LocksAnswered ==
    ASSUME NEW s, NEW p, NEW x, NEW t, Answered(s, x, p, t), LocksGo(s, x.s)
    PROVE  LocksGo(s, t)
  <1> DEFINE y == x.s
  <1>1. t.lk = y.lk /\ t.fproc = y.fproc /\ t.filp = y.filp
    BY DEF Answered
  <1> HIDE DEF y
  <1>2. OpensKept(y, t)
    BY <1>1 DEF OpensKept, HasOpen
  <1>3. LocksGo(y, t)
    BY <1>1, <1>2, LocksStay
  <1> QED BY <1>3, LocksThen DEF y

LEMMA FinishLocks ==
    ASSUME FSInv, NEW p \in Proc, alive[p] = "yes", p \notin waiting, NEW x, Done(Asked(p), x, p),
           LocksGo(Asked(p), x.s), Finish(x, p), UNCHANGED alive
    PROVE  FSInv' /\ LocksGo(Now, Now')
  <1> DEFINE s == Asked(p)
             t == Now'
  <1>1. FSInv' /\ Answered(s, x, p, t)
    BY FinishKeeps
  <1>2. LocksGo(s, x.s) /\ LocksGo(Now, s)
    BY AskedKeeps, QuietIs, LocksMild
  <1> HIDE DEF s, t
  <1>3. LocksGo(s, t)
    BY <1>1, <1>2, LocksAnswered
  <1>4. LocksGo(Now, t)
    BY <1>2, <1>3, LocksThen
  <1> QED BY <1>1, <1>4 DEF t

LEMMA FSInvInit == Init => FSInv
  <1> SUFFICES ASSUME Init PROVE FSInv
    OBVIOUS
  <1>1. alive \in [Proc -> {"no", "yes", "dying"}]
    BY DEF Init
  <1>2. Empty \in ProcRec /\ ~Empty.suspended /\ ~Empty.revived /\ \A d \in FD : Empty.fd[d] = Nil
    BY EmptyIs
  <1>3. FreeFilp \in FilpRec /\ FreeFilp.count = 0
    BY DEF FreeFilp, FilpRec
  <1>4. FreeInode \in InodeRec /\ FreeInode.count = 0
    BY FSAssumption DEF InodeRec, FreeInode
  <1>5. /\ fproc \in [Proc -> ProcRec] /\ filp \in [Filp -> FilpRec] /\ inode \in [Inode -> InodeRec]
        /\ file_lock \in [1 .. NR_LOCKS -> LockRec] /\ nr_locks \in 0 .. NR_LOCKS
        /\ tty \in TtyRec /\ susp_count \in Nat /\ reviving \in Nat /\ waiting \in SUBSET Proc /\ stuck \in BOOLEAN
        /\ lost \in [Filp -> Nat]
    <2>1. fproc \in [Proc -> ProcRec]
      BY <1>2 DEF Init
    <2>2. filp \in [Filp -> FilpRec]
      BY <1>3 DEF Init
    <2>3. inode \in [Inode -> InodeRec]
      BY <1>4 DEF Init
    <2>4. file_lock \in [1 .. NR_LOCKS -> LockRec]
      BY UnusedIs DEF Init
    <2>5. tty \in TtyRec
      BY DEF Init, TtyRec
    <2>6. nr_locks \in 0 .. NR_LOCKS
      BY FSAssumption DEF Init
    <2>7. susp_count \in Nat /\ reviving \in Nat /\ waiting \in SUBSET Proc /\ stuck \in BOOLEAN
      BY DEF Init
    <2>8. lost \in [Filp -> Nat]
      BY DEF Init
    <2> QED BY <2>1, <2>2, <2>3, <2>4, <2>5, <2>6, <2>7, <2>8
  <1>6. Now \in Tables
    BY <1>5 DEF Now, Tables
  <1>7. \A p \in Proc : Now.fproc[p] = Empty
    BY NowIs DEF Init
  <1>8. Susp(Now) = {} /\ Rev(Now) = {} /\ Piped(Now) = {} /\ Typing(Now) = {}
    BY <1>2, <1>7 DEF Susp, Rev, Piped, Typing
  <1>9. Cardinality({}) = 0
    BY FS_EmptySet
  <1>10. Held(Now, {})
    BY <1>8, <1>9, NowIs DEF Held, Init
  <1>11. Device(Now)
    BY <1>8, NowIs DEF Device, Init
  <1>12. Calls(Now)
    BY <1>2, <1>7 DEF Calls
  <1>13. Slots(Now)
    <2>1. \A f \in Filp : Now.filp[f].count = 0
      BY <1>3, NowIs DEF Init
    <2>2. \A f \in Filp : Refs(Now, f) = {}
      <3> SUFFICES ASSUME NEW f \in Filp PROVE Refs(Now, f) = {}
        OBVIOUS
      <3>1. Had(Now, f) = {}
        BY <1>2, <1>7, Domains DEF Had
      <3>2. Now.lost[f] = 0
        BY NowIs DEF Init
      <3>3. Adrift(0) = {}
        BY DEF Adrift
      <3> QED BY <3>1, <3>2, <3>3 DEF Refs
    <2>3. \A i \in Inode : Opens(Now, i) = {}
      BY <2>1 DEF Opens
    <2>4. \A i \in Inode : Now.inode[i].count = 0
      BY <1>4, NowIs DEF Init
    <2>5. \A f \in Filp : Now.filp[f].count = Cardinality(Refs(Now, f))
      BY <1>9, <2>1, <2>2
    <2>6. \A i \in Inode : Now.inode[i].count = Cardinality(Opens(Now, i))
      BY <1>9, <2>3, <2>4
    <2>7. \A f \in Filp : ~(Now.filp[f].count > 0)
      BY <2>1
    <2> QED BY <2>5, <2>6, <2>7 DEF Slots
  <1>14. LocksCounted(Now)
    <2>1. Used(Now) = {}
      BY UnusedIs, NowIs DEF Used, Init
    <2> QED BY <1>9, <2>1, NowIs DEF LocksCounted, Init
  <1>15. Idle(Now, alive)
    BY <1>2, <1>7 DEF Idle, OnlyPipes
  <1> QED BY <1>1, <1>6, <1>10, <1>11, <1>12, <1>13, <1>14, <1>15 DEF FSInv, Good

(* ------------------------------ The steps ------------------------------ *)
LEMMA AsksIs ==
    ASSUME FSInv, NEW p \in Proc, Asks(p)
    PROVE  /\ alive[p] # "no" /\ p \notin waiting /\ UNCHANGED alive /\ reviving = 0
           /\ ~fproc[p].suspended /\ Rev(Now) = {}
  <1>1. alive[p] # "no" /\ p \notin waiting /\ UNCHANGED alive /\ reviving = 0
    BY DEF Asks, Runs, Receives
  <1>2. Held(Now, {}) /\ Good(Now, {})
    BY DEF FSInv, Good
  <1>3. ~fproc[p].suspended
    BY <1>1, <1>2, Waits, NowIs
  <1>4. Rev(Now) = {}
    <2>1. Cardinality(Rev(Now)) = 0
      BY <1>1, <1>2, NowIs DEF Held
    <2>2. IsFiniteSet(Rev(Now))
      <3>1. Rev(Now) \subseteq Proc
        BY DEF Rev
      <3> QED BY <3>1, Domains, SubFinite
    <2> QED BY <2>1, <2>2, FS_EmptySet
  <1> QED BY <1>1, <1>3, <1>4

LEMMA TransferKeeps ==
    ASSUME FSInv, NEW p \in Proc, Transfer(p)
    PROVE  FSInv' /\ Mild(Now, Now', p)
  <1>1. PICK d \in FD, n \in Sizes, op \in {"READ", "WRITE"}, done \in BOOLEAN :
           /\ Asks(p) /\ filp[fproc[p].fd[d]].ino \notin Files
           /\ Finish(DoCall(Asked(p), p, [NoCall EXCEPT !.op = op, !.fd = d, !.nb = n], done), p)
    BY DEF Transfer
  <1>2. p \notin waiting /\ UNCHANGED alive
    BY <1>1, AsksIs
  <1> DEFINE s == Asked(p)
             c == [NoCall EXCEPT !.op = op, !.fd = d, !.nb = n]
             x == DoCall(s, p, c, done)
  <1>3. Good(s, {p}) /\ s.fproc = fproc /\ s.filp = filp
    BY <1>2, AskedKeeps
  <1>4. c \in Call /\ c.op = op /\ c.fd = d
    BY FSAssumption DEF NoCall, NoLock, Call, LockReq
  <1> HIDE DEF c, s
  <1>5. s.filp[s.fproc[p].fd[c.fd]].ino \notin Files
    BY <1>1, <1>3, <1>4
  <1>6. MildDone(s, x, p) /\ Tame(s, x.s, p)
    BY <1>3, <1>4, <1>5, TransferDone, QuietDoneIs
  <1>7. Finish(x, p)
    BY <1>1 DEF c, s
  <1> HIDE DEF x
  <1> QED BY <1>2, <1>6, <1>7, FinishQuiet DEF s

LEMMA LockCallKeeps ==
    ASSUME FSInv, NEW p \in Proc, LockCall(p)
    PROVE  FSInv' /\ LocksGo(Now, Now')
  <1>1. PICK d \in FD, t \in {"RDLCK", "WRLCK", "UNLCK"}, w \in BOOLEAN, g \in Regions :
           /\ Asks(p) /\ fproc[p].fd[d] # Nil /\ filp[fproc[p].fd[d]].ino \in Files
           /\ Finish(DoCall(Asked(p), p,
                            [op |-> "FCNTL", fd |-> d, nb |-> 0,
                             lock |-> [type |-> t, wait |-> w, first |-> g.first, last |-> g.last]],
                            FALSE), p)
    BY DEF LockCall
  <1>2. alive[p] = "yes" /\ p \notin waiting /\ UNCHANGED alive
    <2>1. Idle(Now, alive)
      BY DEF FSInv
    <2> QED BY <1>1, <2>1, AsksIs, OpenIsAlive, NowIs
  <1> DEFINE s == Asked(p)
             q == [type |-> t, wait |-> w, first |-> g.first, last |-> g.last]
             c == [op |-> "FCNTL", fd |-> d, nb |-> 0, lock |-> q]
             x == DoCall(s, p, c, FALSE)
  <1>3. Good(s, {p})
    BY <1>2, AskedKeeps
  <1>4. q \in LockReq /\ Sane(q)
    BY FSAssumption DEF LockReq, Sane
  <1>7. Finish(x, p)
    BY <1>1
  <1> HIDE DEF q
  <1>5. c \in Call /\ c.op = "FCNTL" /\ Sane(c.lock)
    BY <1>4 DEF Call
  <1> HIDE DEF c, s
  <1>6. Done(s, x, p) /\ LocksGo(s, x.s)
    BY <1>3, <1>5, LockDone
  <1> HIDE DEF x
  <1> QED BY <1>2, <1>6, <1>7, FinishLocks DEF s

LEMMA PipeCallKeeps ==
    ASSUME FSInv, NEW p \in Proc, PipeCall(p)
    PROVE  FSInv' /\ Mild(Now, Now', p)
  <1>1. Asks(p) /\ Finish(do_pipe(Asked(p), p), p)
    BY DEF PipeCall
  <1>2. p \notin waiting /\ UNCHANGED alive
    BY <1>1, AsksIs
  <1> DEFINE x == do_pipe(Asked(p), p)
  <1>3. Good(Asked(p), {p})
    BY <1>2, AskedKeeps
  <1>4. MildDone(Asked(p), x, p) /\ Tame(Asked(p), x.s, p)
    BY <1>3, do_pipeKeeps
  <1> HIDE DEF x
  <1> QED BY <1>1, <1>2, <1>4, FinishQuiet DEF x

LEMMA OneMode == ASSUME NEW m \in SUBSET {"R", "W"}, Cardinality(m) = 1 PROVE m \in {{"R"}, {"W"}}
  <1>1. IsFiniteSet({"R", "W"})
    <2>1. IsFiniteSet({"R"})
      BY FS_Singleton
    <2>2. IsFiniteSet({"R"} \cup {"W"})
      BY <2>1, FS_AddElement
    <2>3. {"R"} \cup {"W"} = {"R", "W"}
      OBVIOUS
    <2> QED BY <2>2, <2>3
  <1>2. IsFiniteSet(m)
    BY <1>1, SubFinite
  <1>3. PICK a : m = {a}
    BY <1>2, FS_Singleton
  <1> QED BY <1>3

LEMMA OpenCallKeeps ==
    ASSUME FSInv, NEW p \in Proc, OpenCall(p)
    PROVE  FSInv' /\ Mild(Now, Now', p)
  <1>1. PICK i \in Inode \ Pipes, m \in Modes, nonblock \in Nonblock :
           /\ Asks(p) /\ (i \in Fifos => Cardinality(m) = 1)
           /\ Finish(IF alive[p] = "dying" THEN Result(Asked(p), "ENOENT")
                     ELSE common_open(Asked(p), p, i, m, nonblock), p)
    BY DEF OpenCall
  <1>2. alive[p] \in {"yes", "dying"} /\ p \notin waiting /\ UNCHANGED alive
    BY <1>1, AsksIs DEF FSInv
  <1> DEFINE y == common_open(Asked(p), p, i, m, nonblock)
             x == IF alive[p] = "dying" THEN Result(Asked(p), "ENOENT") ELSE y
  <1>3. Good(Asked(p), {p})
    BY <1>2, AskedKeeps
  <1>4. m \in SUBSET {"R", "W"} /\ nonblock \in BOOLEAN
    BY FSAssumption
  <1>5. i \in Fifos => m \in {{"R"}, {"W"}}
    BY <1>1, <1>4, OneMode
  <1>6. MildDone(Asked(p), x, p) /\ (alive[p] = "yes" \/ Tame(Asked(p), x.s, p))
    <2>1. CASE alive[p] = "yes"
      <3>1. x = y
        BY <2>1
      <3>2. MildDone(Asked(p), y, p)
        BY <1>3, <1>4, <1>5, common_openKeeps
      <3> HIDE DEF x, y
      <3> QED BY <2>1, <3>1, <3>2
    <2>2. CASE alive[p] = "dying"
      <3>1. x.s = Asked(p) /\ x.r = "ENOENT"
        BY <2>2 DEF Result
      <3> HIDE DEF x
      <3>2. QuietDone(Asked(p), x, p)
        BY <1>3, <3>1, QuietNone DEF Done, QuietDone, Quiet
      <3> QED BY <3>2, QuietDoneIs
    <2> QED BY <1>2, <2>1, <2>2
  <1> HIDE DEF x
  <1> QED BY <1>1, <1>2, <1>6, FinishQuiet DEF x

LEMMA CloseCallKeeps ==
    ASSUME FSInv, NEW p \in Proc, CloseCall(p)
    PROVE  FSInv' /\ LocksGo(Now, Now')
  <1>1. PICK d \in FD : Asks(p) /\ Becomes(do_close(Now, p, d))
    BY DEF CloseCall
  <1>2. UNCHANGED alive /\ ~Now.fproc[p].suspended
    BY <1>1, AsksIs, NowIs
  <1> DEFINE t == do_close(Now, p, d)
  <1>3. Good(Now, {})
    BY DEF FSInv
  <1>4. Good(t, {}) /\ Others(Now, t, p) /\ LocksGo(Now, t) /\ Tame(Now, t, p)
    <2>1. Good(t, {}) /\ Emptied(Now, t, p, d) /\ Others(Now, t, p)
      BY <1>2, <1>3, CloseKeeps
    <2> HIDE DEF t
    <2>2. ASSUME NEW e \in FD, t.fproc[p].fd[e] # Nil
          PROVE  /\ t.fproc[p].fd[e] = Now.fproc[p].fd[e]
                 /\ t.filp[t.fproc[p].fd[e]].ino = Now.filp[t.fproc[p].fd[e]].ino
      BY <2>1, <2>2 DEF Emptied, Kept, Moved
    <2>3. Tame(Now, t, p)
      BY <2>2 DEF Tame, OnlyPipes
    <2> QED BY <2>1, <2>3, LocksClosed
  <1>5. Becomes(t)
    BY <1>1
  <1> HIDE DEF t
  <1>6. FSInv' /\ Now' = t
    BY <1>2, <1>4, <1>5, Ended
  <1> QED BY <1>4, <1>6

LEMMA SetFlagsKeeps ==
    ASSUME FSInv, NEW p \in Proc, SetFlags(p)
    PROVE  FSInv' /\ Mild(Now, Now', p)
  <1>1. PICK d \in FD, b \in Nonblock, a \in BOOLEAN :
           /\ Asks(p) /\ fproc[p].fd[d] # Nil
           /\ Becomes([Now EXCEPT !.filp[fproc[p].fd[d]].nonblock = b, !.filp[fproc[p].fd[d]].append = a])
    BY DEF SetFlags
  <1>2. UNCHANGED alive /\ ~Now.fproc[p].suspended
    BY <1>1, AsksIs, NowIs
  <1> DEFINE f == fproc[p].fd[d]
             t == [Now EXCEPT !.filp[f].nonblock = b, !.filp[f].append = a]
  <1>3. Good(Now, {}) /\ Now \in Tables
    BY DEF FSInv, Good
  <1>4. f \in Filp /\ b \in BOOLEAN
    BY <1>1, <1>3, NowIs, FSAssumption DEF Tables, ProcRec
  <1>5. Becomes(t)
    BY <1>1
  <1> HIDE DEF f
  <1>6. Good(t, {}) /\ Quiet(Now, t, p)
    BY <1>2, <1>3, <1>4, FlagKeeps
  <1> HIDE DEF t
  <1>7. Mild(Now, t, p) /\ Tame(Now, t, p)
    BY <1>6, QuietIs
  <1>8. FSInv' /\ Now' = t
    BY <1>2, <1>5, <1>6, <1>7, Ended DEF Quiet
  <1> QED BY <1>7, <1>8

LEMMA do_execKeeps ==
    ASSUME FSInv, NEW p \in Proc, do_exec(p)
    PROVE  FSInv' /\ LocksGo(Now, Now')
  <1>1. PICK D \in SUBSET {d \in FD : fproc[p].fd[d] # Nil} :
           Asks(p) /\ alive[p] = "yes" /\ Becomes(CloseAll(Now, p, D))
    BY DEF do_exec
  <1>2. alive[p] = "yes" /\ UNCHANGED alive /\ ~Now.fproc[p].suspended
    BY <1>1, AsksIs, NowIs
  <1> DEFINE t == CloseAll(Now, p, D)
  <1>3. Good(Now, {}) /\ D \in SUBSET FD
    BY DEF FSInv
  <1>4. Good(t, {}) /\ Others(Now, t, p) /\ LocksGo(Now, t)
    BY <1>2, <1>3, CloseAllKeeps
  <1>5. Becomes(t)
    BY <1>1
  <1> HIDE DEF t
  <1>6. FSInv' /\ Now' = t
    BY <1>2, <1>4, <1>5, Ended
  <1> QED BY <1>4, <1>6

LEMMA UnpauseStepKeeps ==
    ASSUME FSInv, NEW p \in Proc, Unpause(p)
    PROVE  FSInv' /\ LocksGo(Now, Now')
  <1>1. Receives /\ alive[p] = "yes" /\ fproc[p].suspended /\ UNCHANGED alive /\ Becomes(do_unpause(Now, p))
    BY DEF Unpause
  <1>2. Good(Now, {}) /\ Now \in Tables /\ Held(Now, {})
    BY DEF FSInv, Good
  <1>3. p \in Susp(Now) /\ Rev(Now) = {}
    <2>1. Cardinality(Rev(Now)) = 0
      BY <1>1, <1>2, NowIs DEF Held, Receives
    <2>2. IsFiniteSet(Rev(Now))
      <3>1. Rev(Now) \subseteq Proc
        BY DEF Rev
      <3> QED BY <3>1, Domains, SubFinite
    <2> QED BY <1>1, <2>1, <2>2, FS_EmptySet, NowIs DEF Susp
  <1> DEFINE n == Now.susp
             t == do_unpause(Now, p)
  <1>4. n \in Nat /\ n >= Cardinality(Piped(Now) \ {p})
    <2>1. IsFiniteSet(Piped(Now))
      <3>1. Piped(Now) \subseteq Proc
        BY DEF Piped
      <3> QED BY <3>1, Domains, SubFinite
    <2>2. Piped(Now) \ {p} \subseteq Piped(Now)
      OBVIOUS
    <2>3. Cardinality(Piped(Now) \ {p}) <= Cardinality(Piped(Now)) /\ Cardinality(Piped(Now) \ {p}) \in Nat
      BY <2>1, <2>2, SubFinite
    <2>4. Cardinality(Piped(Now)) \in Nat
      BY <2>1, FS_CardinalityType
    <2>5. n \in Nat /\ n >= Cardinality(Piped(Now))
      BY <1>2 DEF Held, Tables
    <2> HIDE DEF n
    <2> QED BY <2>3, <2>4, <2>5
  <1>5. [Now EXCEPT !.susp = n] = Now
    BY <1>2 DEF Tables
  <1>6. t = do_unpause([Now EXCEPT !.susp = n], p)
    BY <1>5
  <1>7. Now.fproc[p].task = "TTY" => n = Now.susp
    OBVIOUS
  <1> HIDE DEF n, t
  <1>8. Good(t, {}) /\ Others(Now, t, p) /\ SameFiles(Now, t)
    BY <1>2, <1>3, <1>4, <1>6, <1>7, UnpauseKeeps
  <1>9. Becomes(t)
    BY <1>1 DEF t
  <1>10. FSInv' /\ Now' = t
    BY <1>1, <1>8, <1>9, Ended
  <1> QED BY <1>8, <1>10, LocksFiles

LEMMA do_exitKeeps ==
    ASSUME FSInv, NEW p \in Proc, do_exit(p)
    PROVE  FSInv' /\ LocksGo(Now, Now')
  <1> DEFINE f == fproc[p]
             n == IF f.task \in {"XPIPE", "XPOPEN"} THEN susp_count - 1 ELSE susp_count
             s == IF ~f.suspended THEN Now ELSE do_unpause([Now EXCEPT !.susp = n], p)
             t == CloseAll(s, p, FD)
  <1>1. reviving = 0 /\ alive[p] = "yes" /\ Becomes(t) /\ alive' = [alive EXCEPT ![p] = "dying"]
    <2>1. [Now EXCEPT !.susp = IF f.task \in {"XPIPE", "XPOPEN"} THEN @ - 1 ELSE @] = [Now EXCEPT !.susp = n]
      BY NowIs
    <2> QED BY <2>1 DEF do_exit, Receives
  <1>2. Good(Now, {}) /\ Now \in Tables /\ Held(Now, {}) /\ Idle(Now, alive) /\ alive \in [Proc -> {"no", "yes", "dying"}]
    BY DEF FSInv, Good
  <1>3. Good(s, {}) /\ ~s.fproc[p].suspended /\ Others(Now, s, p) /\ SameFiles(Now, s)
    <2>1. CASE ~f.suspended
      <3>1. s = Now
        BY <2>1
      <3> HIDE DEF s
      <3>2. SameFiles(Now, Now)
        BY DEF SameFiles
      <3> QED BY <1>2, <2>1, <3>1, <3>2, NowIs, OthersNone
    <2>2. CASE f.suspended
      <3> DEFINE u == do_unpause([Now EXCEPT !.susp = n], p)
      <3>1. s = u
        BY <2>2
      <3>2. p \in Susp(Now)
        BY <2>2, NowIs DEF Susp
      <3>3. Rev(Now) = {}
        <4>1. Cardinality(Rev(Now)) = 0
          BY <1>1, <1>2, NowIs DEF Held
        <4>2. IsFiniteSet(Rev(Now))
          <5>1. Rev(Now) \subseteq Proc
            BY DEF Rev
          <5> QED BY <5>1, Domains, SubFinite
        <4> QED BY <4>1, <4>2, FS_EmptySet
      <3>4. n \in Nat /\ n >= Cardinality(Piped(Now) \ {p})
        <4> DEFINE A == Piped(Now)
        <4>1. IsFiniteSet(A)
          <5>1. A \subseteq Proc
            BY DEF Piped
          <5> QED BY <5>1, Domains, SubFinite
        <4>2. Cardinality(A) \in Nat /\ susp_count \in Nat /\ susp_count >= Cardinality(A)
          <5>1. Cardinality(A) \in Nat
            BY <4>1, FS_CardinalityType
          <5> QED BY <1>2, <5>1, NowIs DEF Held, Tables
        <4>3. CASE f.task \in {"XPIPE", "XPOPEN"}
          <5>1. p \in A
            BY <2>2, <3>3, <4>3, NowIs DEF Piped, Rev
          <5> HIDE DEF A
          <5>2. Cardinality(A \ {p}) = Cardinality(A) - 1 /\ Cardinality(A \ {p}) \in Nat
            <6>1. Cardinality(A \ {p}) = Cardinality(A) - 1 /\ IsFiniteSet(A \ {p})
              BY <4>1, <5>1, FS_RemoveElement
            <6> QED BY <6>1, FS_CardinalityType
          <5>3. n = susp_count - 1
            BY <4>3
          <5> HIDE DEF n
          <5>4. n \in Nat /\ n >= Cardinality(A \ {p})
            BY <4>2, <5>2, <5>3
          <5> QED BY <5>4 DEF A
        <4>4. CASE f.task \notin {"XPIPE", "XPOPEN"}
          <5>1. A \ {p} \subseteq A
            OBVIOUS
          <5>2. Cardinality(A \ {p}) <= Cardinality(A) /\ Cardinality(A \ {p}) \in Nat
            BY <4>1, <5>1, SubFinite
          <5>3. n = susp_count
            BY <4>4
          <5> HIDE DEF n, A
          <5>4. n \in Nat /\ n >= Cardinality(A \ {p})
            BY <4>2, <5>2, <5>3
          <5> QED BY <5>4 DEF A
        <4> QED BY <4>3, <4>4
      <3>5. Now.fproc[p].task = "TTY" => n = Now.susp
        BY NowIs
      <3>6. u = do_unpause([Now EXCEPT !.susp = n], p)
        OBVIOUS
      <3> HIDE DEF n, u, s
      <3>7. Good(u, {}) /\ Susp(u) \subseteq Susp(Now) \ {p} /\ Others(Now, u, p) /\ SameFiles(Now, u)
        BY <1>2, <3>2, <3>3, <3>4, <3>5, <3>6, UnpauseKeeps
      <3>8. ~u.fproc[p].suspended
        BY <3>7 DEF Susp
      <3> QED BY <3>1, <3>7, <3>8
    <2> QED BY <2>1, <2>2
  <1> HIDE DEF s
  <1>4. Good(t, {}) /\ EmptiedTo(s, t, p, FD, OPEN_MAX) /\ Others(s, t, p) /\ LocksGo(s, t)
    <2>1. FD \in SUBSET FD
      OBVIOUS
    <2> QED BY <1>3, <2>1, CloseAllKeeps
  <1> HIDE DEF t
  <1>5. Others(Now, t, p)
    BY <1>3, <1>4, OthersThen
  <1>6. Idle(t, alive)
    BY <1>1, <1>2, <1>5, IdleKept
  <1>7. \A d \in FD : t.fproc[p].fd[d] = Nil
    BY <1>4, Domains DEF EmptiedTo, FD
  <1>9. Idle(t, alive')
    BY <1>1, <1>2, <1>6, <1>7 DEF Idle, OnlyPipes
  <1>10. Now' = t
    BY <1>1, <1>4, BecomesIs DEF Good
  <1>11. LocksGo(Now, t)
    BY <1>3, <1>4, LocksFiles, LocksThen
  <1> QED BY <1>1, <1>2, <1>4, <1>9, <1>10, <1>11 DEF FSInv

LEMMA sys_xitKeeps ==
    ASSUME FSInv, NEW p \in Proc, sys_xit(p)
    PROVE  FSInv' /\ LocksGo(Now, Now')
  <1>1. Good(Now, {}) /\ Now \in Tables /\ Idle(Now, alive) /\ alive \in [Proc -> {"no", "yes", "dying"}]
    BY DEF FSInv, Good
  <1> DEFINE t == [Now EXCEPT !.fproc[p].cum = 0]
  <1>4. Becomes(t)
    <2>1. /\ t.fproc = [Now.fproc EXCEPT ![p].cum = 0] /\ t.filp = Now.filp /\ t.inode = Now.inode /\ t.lk = Now.lk /\ t.nr = Now.nr
          /\ t.susp = Now.susp /\ t.rev = Now.rev /\ t.waiting = Now.waiting /\ t.stuck = Now.stuck /\ t.tty = Now.tty /\ t.lost = Now.lost
      BY <1>1 DEF Tables
    <2> HIDE DEF t
    <2> QED BY <2>1, NowIs DEF Becomes, sys_xit
  <1>5. t = Poured(Now, Now.filp, Now.inode, p, 0) /\ SameFilps(Now, Now.filp) /\ SameInodes(Now, Now.inode)
    BY <1>1, DataItself
  <1> HIDE DEF t
  <1>6. Good(t, {}) /\ SameHang(Now, t) /\ SameSlots(Now, t)
    BY <1>1, <1>5, PouredKeeps
  <1>7. Now' = t
    BY <1>4, <1>6, BecomesIs DEF Good
  <1>8. alive' = [alive EXCEPT ![p] = "no"] /\ alive[p] = "dying"
    BY DEF sys_xit
  <1>9. Idle(t, alive')
    <2> SUFFICES ASSUME NEW q \in Proc, alive'[q] # "yes", NEW d \in FD, t.fproc[q].fd[d] # Nil
                 PROVE  t.filp[t.fproc[q].fd[d]].ino \in Pipes
      BY DEF Idle, OnlyPipes
    <2>1. alive[q] # "yes"
      BY <1>1, <1>8
    <2>2. t.fproc[q].fd[d] = Now.fproc[q].fd[d] /\ Now.fproc[q].fd[d] \in Filp
      BY <1>1, <1>6 DEF Tables, ProcRec, SameSlots
    <2>3. Now.filp[Now.fproc[q].fd[d]].ino \in Pipes
      BY <1>1, <2>1, <2>2 DEF Idle, OnlyPipes
    <2> QED BY <1>6, <2>2, <2>3 DEF SameSlots
  <1>10. LocksGo(Now, t)
    <2>1. \A q \in Proc, d \in FD : Now.fproc[q].fd[d] # Nil => Now.fproc[q].fd[d] \in Filp
      BY <1>1 DEF Tables, ProcRec
    <2>2. t.lk = Now.lk /\ OpensKept(Now, t)
      BY <1>6, <2>1 DEF SameSlots, OpensKept, HasOpen
    <2> QED BY <2>2, LocksStay
  <1> QED BY <1>1, <1>6, <1>7, <1>8, <1>9, <1>10 DEF FSInv

LEMMA TtyInputKeeps ==
    ASSUME FSInv, NEW p \in Proc, TtyInput(p)
    PROVE  FSInv' /\ LocksGo(Now, Now')
  <1> DEFINE s == Now
             t == Now'
  <1>1. Good(s, {}) /\ s \in Tables /\ Idle(s, alive) /\ alive \in [Proc -> {"no", "yes", "dying"}]
        /\ Held(s, {}) /\ Device(s) /\ Calls(s) /\ Slots(s) /\ LocksCounted(s)
    BY DEF FSInv, Good
  <1>2. /\ t.fproc = s.fproc /\ t.filp = s.filp /\ t.inode = s.inode /\ t.lk = s.lk /\ t.nr = s.nr
        /\ t.susp = s.susp /\ t.rev = s.rev /\ t.waiting = s.waiting /\ t.stuck = s.stuck /\ t.lost = s.lost
        /\ t.tty = [pending |-> s.tty.pending \ {p}, sending |-> p]
        /\ p \in s.tty.pending /\ s.tty.sending = Nil /\ UNCHANGED alive
    BY DEF TtyInput, Now
  <1>3. t \in Tables
    <2>1. s.tty \in TtyRec
      BY <1>1 DEF Tables
    <2>2. t.tty \in TtyRec
      BY <1>2, <2>1 DEF TtyRec
    <2>3. t = [fproc |-> t.fproc, filp |-> t.filp, inode |-> t.inode, lk |-> t.lk, nr |-> t.nr,
               susp |-> t.susp, rev |-> t.rev, waiting |-> t.waiting, stuck |-> t.stuck, tty |-> t.tty,
               lost |-> t.lost]
      BY DEF Now
    <2> HIDE DEF s, t
    <2> QED BY <1>1, <1>2, <2>2, <2>3 DEF Tables
  <1> HIDE DEF s, t
  <1>4. Susp(t) = Susp(s) /\ Rev(t) = Rev(s) /\ Piped(t) = Piped(s) /\ Typing(t) = Typing(s)
    BY <1>2 DEF Susp, Rev, Piped, Typing
  <1>5. Held(t, {})
    BY <1>1, <1>2, <1>4 DEF Held
  <1>6. Device(t)
    <2>1. t.tty.pending = s.tty.pending \ {p} /\ t.tty.sending = p /\ p # Nil
      BY <1>2, Domains
    <2>2. Typing(s) = s.tty.pending
      BY <1>1, <1>2 DEF Device
    <2> QED BY <1>2, <1>4, <2>1, <2>2 DEF Device
  <1>7. Calls(t)
    <2>1. \A q \in Proc : CallOf(s, s.fproc[q]) => CallOf(t, s.fproc[q])
      BY <1>2 DEF CallOf
    <2> QED BY <1>1, <1>2, <2>1 DEF Calls
  <1>8. SameFiles(s, t)
    BY <1>2 DEF SameFiles
  <1>9. Slots(t) /\ LocksCounted(t)
    BY <1>1, <1>8, FilesKept
  <1>10. Good(t, {}) /\ Idle(t, alive)
    BY <1>1, <1>2, <1>3, <1>5, <1>6, <1>7, <1>9 DEF Good, Idle, OnlyPipes
  <1>11. LocksGo(s, t)
    BY <1>8, LocksFiles
  <1> QED BY <1>1, <1>2, <1>10, <1>11 DEF FSInv, s, t

LEMMA do_reviveKeeps ==
    ASSUME FSInv, do_revive
    PROVE  FSInv' /\ LocksGo(Now, Now')
  <1> DEFINE t == revive([Now EXCEPT !.tty.sending = Nil], Now.tty.sending)
  <1>1. Good(Now, {}) /\ Now \in Tables /\ Idle(Now, alive) /\ alive \in [Proc -> {"no", "yes", "dying"}]
    BY DEF FSInv, Good
  <1>2. Now.tty.sending # Nil /\ UNCHANGED alive /\ Becomes(t)
    BY NowIs DEF do_revive
  <1>3. Good(t, {}) /\ SameFiles(Now, t) /\ Without(Now, Now.tty.sending, t)
    BY <1>1, <1>2, DeviceRevives
  <1> HIDE DEF t
  <1>4. Now' = t
    BY <1>2, <1>3, BecomesIs DEF Good
  <1>6. Idle(t, alive)
    BY <1>1, <1>3 DEF Idle, OnlyPipes, SameFiles
  <1>7. LocksGo(Now, t)
    BY <1>3, LocksFiles
  <1> QED BY <1>1, <1>2, <1>3, <1>4, <1>6, <1>7 DEF FSInv

LEMMA get_workKeeps ==
    ASSUME FSInv, get_work
    PROVE  FSInv' /\ LocksGo(Now, Now')
  <1> DEFINE p == First(Revived)
             s == Repeated(Now, p)
             c == Now.fproc[p].call
             x == DoCall(s, p, c, FALSE)
  <1>1. Revived # {} /\ UNCHANGED alive /\ Finish(x, p)
    <2>1. [Now EXCEPT !.fproc[p] = Resumed(@), !.rev = @ - 1] = s
      BY DEF Repeated
    <2> QED BY <2>1, NowIs DEF get_work
  <1>2. Good(Now, {}) /\ Now \in Tables /\ Idle(Now, alive) /\ Calls(Now) /\ Held(Now, {})
    BY DEF FSInv, Good
  <1>3. Revived = Rev(Now)
    BY NowIs DEF Revived, Rev
  <1>4. p \in Rev(Now)
    <2>1. Revived \in SUBSET Nat
      BY DEF Revived, Proc
    <2> QED BY <1>1, <1>3, <2>1, FirstIs
  <1> HIDE DEF p
  <1>5. p \in Proc /\ Now.fproc[p].suspended /\ Now.fproc[p].revived
    BY <1>2, <1>4 DEF Rev, Held, Susp
  <1>7. /\ Good(s, {p}) /\ SameFiles(Now, s) /\ Susp(s) = Susp(Now) \ {p}
        /\ \A q \in Proc : q # p => s.fproc[q] = Now.fproc[q]
    BY <1>2, <1>4, <1>5, RepeatKeeps
  <1>8. CallOf(Now, Now.fproc[p]) /\ Now.fproc[p] \in ProcRec
    BY <1>2, <1>5 DEF Calls, Tables
  <1>9. c \in Call
    BY <1>8 DEF ProcRec
  <1> DEFINE f == Now.fproc[p].fd[c.fd]
  <1>10. \/ c.op = "FCNTL" /\ Sane(c.lock) /\ f # Nil /\ Now.filp[f].ino \in Files
         \/ c.op \in {"READ", "WRITE"} /\ IsPipe(Now.filp[f].ino)
    BY <1>5, <1>8 DEF CallOf
  <1>a. c.fd \in FD
    BY <1>9 DEF Call
  <1>11. s.fproc[p].fd = Now.fproc[p].fd /\ s.filp = Now.filp
    BY <1>5, <1>7 DEF SameFiles
  <1> HIDE DEF s, c
  <1>12. Done(s, x, p) /\ LocksGo(s, x.s) /\ (alive[p] = "yes" \/ Tame(s, x.s, p))
    <2>1. CASE c.op = "FCNTL" /\ Sane(c.lock) /\ f # Nil /\ Now.filp[f].ino \in Files
      <3>1. Done(s, x, p) /\ LocksGo(s, x.s)
        BY <1>5, <1>7, <1>9, <2>1, LockDone
      <3>2. alive[p] = "yes"
        BY <1>2, <1>5, <1>a, <2>1, OpenIsAlive
      <3> QED BY <3>1, <3>2
    <2>2. CASE c.op \in {"READ", "WRITE"} /\ IsPipe(Now.filp[f].ino)
      <3>1. s.filp[s.fproc[p].fd[c.fd]].ino \notin Files
        BY <1>11, <2>2, Kinds
      <3>2. QuietDone(s, x, p)
        BY <1>5, <1>7, <1>9, <2>2, <3>1, TransferDone
      <3>3. Mild(s, x.s, p) /\ Tame(s, x.s, p)
        BY <3>2, QuietIs DEF QuietDone, Done, Quiet
      <3>4. LocksGo(s, x.s)
        BY <1>5, <3>3, LocksMild
      <3> QED BY <3>2, <3>3, <3>4 DEF QuietDone
    <2> QED BY <1>10, <2>1, <2>2
  <1> HIDE DEF x
  <1> DEFINE t == IF x.r = "SUSPEND" THEN x.s ELSE reply(x.s, p)
  <1>13. Becomes(t)
    BY <1>1 DEF Finish
  <1>14. Answered(s, x, p, t)
    BY <1>5, <1>12, AnsweredIs
  <1> HIDE DEF t
  <1>15. Good(t, {}) /\ Others(s, t, p)
    BY <1>14 DEF Answered
  <1>16. Others(Now, s, p)
    BY <1>7, OthersFiles
  <1>17. Others(Now, t, p)
    BY <1>15, <1>16, OthersThen
  <1>b. alive[p] = "yes" \/ Tame(Now, t, p)
    <2>1. t.fproc = x.s.fproc /\ t.filp = x.s.filp
      BY <1>14 DEF Answered
    <2> QED BY <1>11, <1>12, <2>1 DEF Tame, OnlyPipes
  <1>18. FSInv' /\ Now' = t
    BY <1>1, <1>5, <1>13, <1>15, <1>17, <1>b, Ended
  <1>19. LocksGo(s, t)
    BY <1>12, <1>14, LocksAnswered
  <1>20. LocksGo(Now, t)
    BY <1>7, <1>19, LocksFiles, LocksThen
  <1> QED BY <1>18, <1>20

LEMMA do_forkKeeps ==
    ASSUME FSInv, NEW p \in Proc, NEW c \in Proc, do_fork(p, c)
    PROVE  FSInv' /\ LocksGo(Now, Now')
  <1> DEFINE u == Vacant(Now, c)
             t == Forked(u, p, c)
  <1>1. Good(Now, {}) /\ Now \in Tables /\ Idle(Now, alive) /\ alive \in [Proc -> {"no", "yes", "dying"}]
    BY DEF FSInv, Good
  <1>2. alive[p] = "yes" /\ p \notin Now.waiting /\ alive[c] = "no" /\ alive' = [alive EXCEPT ![c] = "yes"]
        /\ Now.rev = 0 /\ p # c
    BY NowIs DEF do_fork, Runs, Receives
  <1>3. \A d \in FD : Now.fproc[c].fd[d] # Nil => Now.filp[Now.fproc[c].fd[d]].ino \in Pipes
    BY <1>1, <1>2 DEF Idle, OnlyPipes
  <1> HIDE DEF u
  <1>4. /\ Good(u, {}) /\ u.fproc[c] = Empty /\ \A q \in Proc : q # c => u.fproc[q] = Now.fproc[q]
    BY <1>1, <1>2, <1>3, VacantKeeps DEF u
  <1>5. u.filp = Now.filp /\ u.inode = Now.inode /\ u.lk = Now.lk
    BY <1>1, <1>2, <1>3, VacantKeeps DEF u
  <1>6. ~u.fproc[p].suspended /\ ~u.fproc[c].suspended /\ \A d \in FD : u.fproc[c].fd[d] = Nil
    BY <1>1, <1>2, <1>4, Waits, EmptyIs
  <1> HIDE DEF t
  <1>7. /\ Good(t, {}) /\ t.fproc[c] = u.fproc[p] /\ \A q \in Proc : q # c => t.fproc[q] = u.fproc[q]
    BY <1>2, <1>4, <1>6, ForkKeeps DEF t
  <1>8. t.filp = MoreFilps(u, p) /\ t.lk = u.lk
    BY <1>2, <1>4, <1>6, ForkKeeps DEF t
  <1>9. Becomes(t)
    <2>1. t = [Now EXCEPT !.fproc = [Now.fproc EXCEPT ![c] = Now.fproc[p]], !.waiting = Now.waiting \ {c},
                          !.filp = MoreFilps(Now, p), !.lost = MoreLost(Now, c)]
      <3>1. u.fproc[p] = Now.fproc[p] /\ MoreFilps(u, p) = MoreFilps(Now, p)
        BY <1>2, <1>4, <1>5 DEF MoreFilps, Mine
      <3>2. t = [u EXCEPT !.fproc = [u.fproc EXCEPT ![c] = Now.fproc[p]], !.filp = MoreFilps(Now, p)]
        BY <3>1 DEF t, Forked
      <3>3. [u.fproc EXCEPT ![c] = Now.fproc[p]] = [Now.fproc EXCEPT ![c] = Now.fproc[p]]
        BY <1>1 DEF u, Vacant, Tables
      <3> QED BY <1>1, <3>2, <3>3 DEF u, Vacant, Tables
    <2>2. [Now EXCEPT !.fproc[c] = fproc[p], !.waiting = @ \ {c},
                      !.filp = [f \in Filp |-> [filp[f] EXCEPT !.count = @ + Cardinality({d \in FD : fproc[p].fd[d] = f})]],
                      !.lost = [f \in Filp |-> lost[f] + Cardinality({d \in FD : fproc[c].fd[d] = f})]] = t
      BY <2>1, NowIs DEF MoreFilps, MoreLost, Mine
    <2> QED BY <2>2 DEF do_fork
  <1>10. Now' = t
    BY <1>7, <1>9, BecomesIs DEF Good
  <1>11. \A f \in Filp : t.filp[f].ino = Now.filp[f].ino
    <2>1. u \in Tables
      BY <1>4 DEF Good
    <2> QED BY <1>5, <1>8, <2>1, MoreFilpsIs
  <1>12. \A q \in Proc, d \in FD : Now.fproc[q].fd[d] # Nil => Now.fproc[q].fd[d] \in Filp
    BY <1>1 DEF Tables, ProcRec
  <1>13. Idle(t, alive')
    <2> SUFFICES ASSUME NEW q \in Proc, alive'[q] # "yes", NEW d \in FD, t.fproc[q].fd[d] # Nil
                 PROVE  t.filp[t.fproc[q].fd[d]].ino \in Pipes
      BY DEF Idle, OnlyPipes
    <2>1. q # c /\ alive[q] # "yes"
      BY <1>1, <1>2
    <2>2. t.fproc[q] = Now.fproc[q]
      BY <1>4, <1>7, <2>1
    <2>3. Now.filp[Now.fproc[q].fd[d]].ino \in Pipes
      BY <1>1, <2>1, <2>2 DEF Idle, OnlyPipes
    <2> QED BY <1>11, <1>12, <2>2, <2>3
  <1>14. LocksGo(Now, t)
    <2> SUFFICES ASSUME LocksOK(Now) PROVE LocksOK(t)
      BY DEF LocksGo
    <2>1. Apart(Now.lk) /\ Owned(Now) /\ t.lk = Now.lk
      BY <1>5, <1>8 DEF LocksOK
    <2>2. ASSUME NEW k \in 1 .. NR_LOCKS, t.lk[k].type # "free"
          PROVE  t.lk[k].pid \in Proc /\ HasOpen(t, t.lk[k].pid, t.lk[k].ino)
      <3> DEFINE q == Now.lk[k].pid
                 i == Now.lk[k].ino
      <3>1. t.lk[k].pid = q /\ t.lk[k].ino = i /\ q \in Proc /\ HasOpen(Now, q, i)
        BY <2>1, <2>2 DEF Owned
      <3>2. i \in Files \cup {NoInode}
        BY <1>1 DEF Tables, LockRec
      <3> HIDE DEF q, i
      <3>3. i \notin Pipes
        BY <3>2, FSAssumption DEF Inode
      <3>4. PICK d \in FD : Now.fproc[q].fd[d] # Nil /\ Now.filp[Now.fproc[q].fd[d]].ino = i
        BY <3>1 DEF HasOpen
      <3>5. q # c
        BY <1>3, <3>3, <3>4
      <3>6. t.fproc[q] = Now.fproc[q]
        BY <1>4, <1>7, <3>1, <3>5
      <3>7. HasOpen(t, q, i)
        BY <1>11, <1>12, <3>1, <3>4, <3>6 DEF HasOpen
      <3> QED BY <3>1, <3>7
    <2>3. Owned(t)
      BY <2>2 DEF Owned
    <2> QED BY <2>1, <2>3 DEF LocksOK
  <1> QED BY <1>1, <1>2, <1>7, <1>10, <1>13, <1>14 DEF FSInv

LEMMA FSInvNext ==
    ASSUME FSInv, [Next]_vars
    PROVE  FSInv' /\ LocksGo(Now, Now')
  <1>1. ASSUME NEW p \in Proc, UserCall(p) PROVE FSInv' /\ LocksGo(Now, Now')
    <2>1. CASE LockCall(p) \/ CloseCall(p)
      BY <2>1, LockCallKeeps, CloseCallKeeps
    <2>2. CASE Transfer(p) \/ PipeCall(p) \/ OpenCall(p) \/ SetFlags(p)
      <3>1. FSInv' /\ Mild(Now, Now', p)
        BY <2>2, TransferKeeps, PipeCallKeeps, OpenCallKeeps, SetFlagsKeeps
      <3> QED BY <3>1, LocksMild
    <2> QED BY <1>1, <2>1, <2>2 DEF UserCall
  <1>2. ASSUME NEW p \in Proc, MMCall(p) PROVE FSInv' /\ LocksGo(Now, Now')
    BY <1>2, do_execKeeps, do_exitKeeps, UnpauseStepKeeps, sys_xitKeeps, do_forkKeeps DEF MMCall
  <1>3. CASE UNCHANGED vars
    <2>1. Now' = Now /\ alive' = alive
      BY <1>3 DEF vars, Now
    <2> QED BY <2>1 DEF FSInv, LocksGo
  <1> QED BY <1>1, <1>2, <1>3, TtyInputKeeps, do_reviveKeeps, get_workKeeps DEF Next

(* FSInv holds in every state FS can reach, also if a process calls FS     *)
(* after its do_exit() and before the kernel forgets it.                   *)
THEOREM FSInvariant ==
    Spec => []FSInv
  <1>1. FSInv /\ [Next]_vars => FSInv'
    BY FSInvNext
  <1> QED BY <1>1, FSInvInit, PTL DEF Spec

(* Nobody has a lock in the beginning. *)
LEMMA LocksInit == Init => LocksOK(Now)
  <1> SUFFICES ASSUME Init PROVE LocksOK(Now)
    OBVIOUS
  <1>1. \A k \in 1 .. NR_LOCKS : Now.lk[k].type = "free"
    BY NowIs, UnusedIs DEF Init
  <1> QED BY <1>1 DEF LocksOK, Apart, Owned

LEMMA LocksInvariant ==
    Spec => [](FSInv /\ LocksOK(Now))
  <1> DEFINE I == FSInv /\ LocksOK(Now)
  <1>1. I /\ [Next]_vars => I'
    <2> SUFFICES ASSUME FSInv, LocksOK(Now), [Next]_vars PROVE I'
      OBVIOUS
    <2>1. FSInv' /\ LocksGo(Now, Now')
      BY FSInvNext
    <2> QED BY <2>1 DEF LocksGo
  <1>2. Init => I
    BY FSInvInit, LocksInit
  <1> HIDE DEF I
  <1>3. Spec => []I
    BY <1>1, <1>2, PTL DEF Spec
  <1> QED BY <1>3 DEF I

LEMMA AnsweredFromInv == FSInv => AnsweredOnce
  <1> SUFFICES ASSUME FSInv PROVE AnsweredOnce
    OBVIOUS
  <1>1. Held(Now, {})
    BY DEF FSInv, Good
  <1>2. Rev(Now) = Revived /\ Susp(Now) = {p \in Proc : fproc[p].suspended}
    BY NowIs DEF Rev, Revived, Susp
  <1>3. waiting = {p \in Proc : fproc[p].suspended} /\ ~stuck
    BY <1>1, <1>2, NowIs DEF Held
  <1>4. reviving = Cardinality(Revived)
    BY <1>1, <1>2, NowIs DEF Held
  <1>5. \A p \in Revived : fproc[p].suspended
    BY <1>1, <1>2 DEF Held
  <1> QED BY <1>3, <1>4, <1>5 DEF AnsweredOnce

LEMMA SuspFromInv == FSInv => SuspCounted
  <1> SUFFICES ASSUME FSInv PROVE SuspCounted
    OBVIOUS
  <1>1. Held(Now, {})
    BY DEF FSInv, Good
  <1>2. Piped(Now) = {p \in Proc : Hangs(p, "XPIPE") \/ Hangs(p, "XPOPEN")}
    BY NowIs DEF Piped, Hangs
  <1> QED BY <1>1, <1>2, NowIs DEF Held, SuspCounted

LEMMA DeviceFromInv == FSInv => DeviceAgrees
  <1> SUFFICES ASSUME FSInv PROVE DeviceAgrees
    OBVIOUS
  <1>1. Device(Now)
    BY DEF FSInv, Good
  <1>2. Typing(Now) = {p \in Proc : fproc[p].suspended /\ fproc[p].task = "TTY"}
    BY NowIs DEF Typing
  <1> QED BY <1>1, <1>2, NowIs DEF Device, DeviceAgrees

LEMMA SlotsFromInv == FSInv => SlotsSound
  <1> SUFFICES ASSUME FSInv PROVE SlotsSound
    OBVIOUS
  <1>1. Now \in Tables /\ Slots(Now) /\ Idle(Now, alive) /\ alive \in [Proc -> {"no", "yes", "dying"}]
    BY DEF FSInv, Good
  <1>2. TypeOK
    <2>1. /\ fproc \in [Proc -> ProcRec] /\ filp \in [Filp -> FilpRec] /\ inode \in [Inode -> InodeRec]
          /\ file_lock \in [1 .. NR_LOCKS -> LockRec] /\ nr_locks \in 0 .. NR_LOCKS
          /\ tty \in TtyRec /\ susp_count \in Nat /\ reviving \in Nat /\ waiting \in SUBSET Proc /\ stuck \in BOOLEAN
          /\ lost \in [Filp -> Nat]
      BY <1>1, NowIs DEF Tables
    <2> QED BY <1>1, <2>1 DEF TypeOK, ProcRec, FilpRec, InodeRec, LockRec, TtyRec, Tasks
  <1>3. ASSUME NEW f \in Filp
        PROVE  filp[f].count = Cardinality({x \in Proc \X FD : fproc[x[1]].fd[x[2]] = f}) + lost[f]
    <2>1. Had(Now, f) = {x \in Proc \X FD : fproc[x[1]].fd[x[2]] = f}
      BY NowIs DEF Had
    <2>2. filp[f].count = Cardinality(Refs(Now, f))
      BY <1>1, NowIs DEF Slots
    <2>3. Cardinality(Refs(Now, f)) = Cardinality(Had(Now, f)) + lost[f]
      <3>1. lost[f] \in Nat /\ Now.lost = lost
        BY <1>1, NowIs DEF Tables
      <3> QED BY <3>1, RefsCount
    <2> QED BY <2>1, <2>2, <2>3
  <1>4. ASSUME NEW i \in Inode
        PROVE  inode[i].count = Cardinality({f \in Filp : filp[f].count > 0 /\ filp[f].ino = i})
    <2>1. Opens(Now, i) = {f \in Filp : filp[f].count > 0 /\ filp[f].ino = i}
      BY NowIs DEF Opens
    <2>2. inode[i].count = Cardinality(Opens(Now, i))
      BY <1>1, NowIs DEF Slots
    <2> QED BY <2>1, <2>2
  <1>5. \A p \in Proc, d \in FD : alive[p] # "yes" /\ fproc[p].fd[d] # Nil
                                   => filp[fproc[p].fd[d]].ino \in Pipes
    BY <1>1, NowIs DEF Idle, OnlyPipes
  <1> QED BY <1>2, <1>3, <1>4, <1>5 DEF SlotsSound, SlotsCounted

LEMMA LocksFromInv == FSInv /\ LocksOK(Now) => LocksSound
  <1> SUFFICES ASSUME FSInv, LocksOK(Now) PROVE LocksSound
    OBVIOUS
  <1>1. Now \in Tables /\ LocksCounted(Now) /\ Apart(Now.lk) /\ Owned(Now)
    BY DEF FSInv, Good, LocksOK
  <1>2. nr_locks = Cardinality({k \in 1 .. NR_LOCKS : file_lock[k].type # "free"})
    BY <1>1, NowIs DEF LocksCounted, Used
  <1>3. \A k \in 1 .. NR_LOCKS : file_lock[k].type # "free" =>
           \E d \in FD : fproc[file_lock[k].pid].fd[d] # Nil
                        /\ filp[fproc[file_lock[k].pid].fd[d]].ino = file_lock[k].ino
    BY <1>1, NowIs DEF Owned, HasOpen
  <1>4. \A k, j \in 1 .. NR_LOCKS : file_lock[k].type # "free" /\ file_lock[j].type # "free" =>
           file_lock[k].first <= file_lock[k].last /\ ~Clash(file_lock[k], file_lock[j])
    BY <1>1, NowIs DEF Apart
  <1> QED BY <1>2, <1>3, <1>4 DEF LocksSound, Overlaps, Clash

(* reply() and send() in fs/main.c: whoever has called FS gets one answer, *)
(* at once or when it is revived; FS never sends an answer nobody waits    *)
(* for, which would block it for ever; and reviving, which get_work()      *)
(* goes by, counts the processes that are to be revived.                   *)
THEOREM EverybodyIsAnsweredOnce ==
    Spec => []AnsweredOnce
  BY FSInvariant, AnsweredFromInv, PTL

(* susp_count, which release() takes as a limit and pipe_check() as a      *)
(* reason to call it at all (fs/pipe.c), never counts too few of the       *)
(* processes that hang on a pipe or in an open().                          *)
THEOREM SuspensionsAreCounted ==
    Spec => []SuspCounted
  BY FSInvariant, SuspFromInv, PTL

(* The terminal task and FS agree on who waits for input, whichever way    *)
(* gen_io() in fs/device.c finds a REVIVE in its way (ELOCKED), also when  *)
(* it is for the very process whose call is cancelled.                     *)
THEOREM TerminalAndFSAgree ==
    Spec => []DeviceAgrees
  BY FSInvariant, DeviceFromInv, PTL

(* The tables are well typed, filp_count and i_count count the descriptors *)
(* and the filps there are (fs/filedes.c, open.c, misc.c, inode.c), so     *)
(* that no slot is given out while it is in use, and none is lost but for  *)
(* the ends of a pipe that a process made after its do_exit().             *)
THEOREM SlotsAreCounted ==
    Spec => []SlotsSound
  BY FSInvariant, SlotsFromInv, PTL

(* lock_op() in fs/lock.c: two processes never have conflicting locks on a *)
(* byte, whatever unlock() cuts off, cuts in two or fails to; a lock       *)
(* belongs to a process that has the file open, because close(), exec()    *)
(* and exit() drop it first; and nr_locks counts the locks.                *)
THEOREM LocksNeverClash ==
    Spec => []LocksSound
  BY LocksInvariant, LocksFromInv, PTL
=============================================================================
