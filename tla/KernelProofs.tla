---------------------------- MODULE KernelProofs ----------------------------
(***************************************************************************)
(* What the kernel guarantees on every machine, proved for every number of *)
(* processes, set of device tasks, set of signals and call graph.  Every   *)
(* kernel function has a lemma that says what it leaves alone; the lemmas  *)
(* of the functions it calls are all that its own proof uses.              *)
(***************************************************************************)
EXTENDS Kernel, FiniteSetTheorems, WellFoundedInduction, TLAPS

(* t differs from s at most in the ready queues and the process to run. *)
SchedOnly(s, t) ==
    /\ t.flags = s.flags /\ t.prio = s.prio /\ t.getfrom = s.getfrom /\ t.sendto = s.sendto
    /\ t.callerq = s.callerq /\ t.m_source = s.m_source /\ t.mess = s.mess
    /\ t.intblk = s.intblk /\ t.pending = s.pending /\ t.pendcount = s.pendcount
    /\ t.sig_procs = s.sig_procs /\ t.panic = s.panic

(* Whoever is blocked sending in t was blocked sending to the same process in s. *)
NoNewSender(s, t) ==
    \A p \in Sender(t) : p \in Sender(s) /\ t.sendto[p] = s.sendto[p]

-----------------------------------------------------------------------------
(* The named processes and queues are processes and queues. *)
LEMMA Members ==
    /\ MM \in Proc /\ FS \in Proc /\ SYSTASK \in Proc /\ CLOCK \in Proc
    /\ IDLE \in Proc /\ HARDWARE \in Proc /\ HARDWARE # MM
    /\ Driver \subseteq Proc /\ User \subseteq Proc
    /\ Server \cup User \subseteq Proc
    /\ TASK_Q \in Queue /\ SERVER_Q \in Queue /\ USER_Q \in Queue
  BY DEF Proc, Task, Server, Queue, HARDWARE, MM

(* What clients, interrupts and signal reports send are messages. *)
LEMMA Messages ==
    /\ ClientMsg \subseteq Msg /\ HardInt \in Msg
    /\ \A p \in Proc, map \in SUBSET Sig : KSig(p, map) \in Msg
  BY DEF Msg

(* Taking an element off a list leaves a list of the rest. *)
LEMMA UnlinkType ==
    ASSUME NEW T, NEW q \in Seq(T), NEW p, p \in Elems(q)
    PROVE  Unlink(q, p) \in Seq(T)
  <1>1. Len(q) - 1 \in Nat
    BY DEF Elems
  <1>2. SUFFICES ASSUME NEW i,
                 Unlink(q, p) = [j \in 1 .. Len(q) - 1 |-> IF j < i THEN q[j] ELSE q[j + 1]]
        PROVE  Unlink(q, p) \in Seq(T)
    BY DEF Unlink
  <1>3. \A j \in 1 .. Len(q) - 1 : (IF j < i THEN q[j] ELSE q[j + 1]) \in T
    BY <1>1
  <1>4. Unlink(q, p) \in [1 .. Len(q) - 1 -> T]
    BY <1>2, <1>3
  <1> QED BY <1>1, <1>4

(* pick_proc() chooses a process and changes nothing else. *)
LEMMA PickType ==
    ASSUME NEW s \in KState
    PROVE  pick_proc(s) \in KState /\ SchedOnly(s, pick_proc(s))
  <1>1. \A q \in Queue : s.rdy[q] # <<>> => Head(s.rdy[q]) \in Proc
    BY DEF KState
  <1>2. \A p \in Proc : [s EXCEPT !.proc_ptr = p] \in KState
    BY DEF KState
  <1>3. \A p \in Proc : [s EXCEPT !.proc_ptr = p, !.bill_ptr = p] \in KState
    BY DEF KState
  <1>4. pick_proc(s) \in KState
    BY <1>1, <1>2, <1>3, Members, Zenon DEF pick_proc
  <1>5. SchedOnly(s, pick_proc(s))
    BY DEF pick_proc, KState, SchedOnly
  <1> QED BY <1>4, <1>5

(* A change of one ready queue and of the process to run is only that. *)
LEMMA QueueType ==
    ASSUME NEW s \in KState, NEW q \in Queue, NEW r \in Seq(Proc), NEW x \in Proc
    PROVE  /\ [s EXCEPT !.rdy[q] = r] \in KState
           /\ [s EXCEPT !.rdy[q] = r, !.proc_ptr = x] \in KState
           /\ SchedOnly(s, [s EXCEPT !.rdy[q] = r])
           /\ SchedOnly(s, [s EXCEPT !.rdy[q] = r, !.proc_ptr = x])
  <1>1. [s EXCEPT !.rdy[q] = r] \in KState
    BY DEF KState
  <1>2. [s EXCEPT !.rdy[q] = r, !.proc_ptr = x] \in KState
    BY DEF KState
  <1> QED BY <1>1, <1>2 DEF KState, SchedOnly

(* ready() changes the ready queues and the process to run only. *)
LEMMA ReadyType ==
    ASSUME NEW s \in KState, NEW p \in Proc
    PROVE  ready(s, p) \in KState /\ SchedOnly(s, ready(s, p))
  <1>1. \A q \in Queue : s.rdy[q] \in Seq(Proc)
    BY DEF KState
  <1>2. \A q \in Queue : Append(s.rdy[q], p) \in Seq(Proc) /\ <<p>> \o s.rdy[q] \in Seq(Proc)
    BY <1>1
  <1>3. (IF s.rdy[TASK_Q] = <<>> THEN p ELSE s.proc_ptr) \in Proc
    BY DEF KState
  <1>5. ready(s, p) \in KState
    BY <1>2, <1>3, QueueType, Members, Zenon DEF ready
  <1>6. SchedOnly(s, ready(s, p))
    BY DEF ready, KState, SchedOnly
  <1> QED BY <1>5, <1>6

(* unready() changes the ready queues and the process to run only. *)
LEMMA UnreadyType ==
    ASSUME NEW s \in KState, NEW p \in Proc
    PROVE  unready(s, p) \in KState /\ SchedOnly(s, unready(s, p))
  <1> DEFINE q == QueueOf(s, p)
             r == [s EXCEPT !.rdy[q] = Unlink(@, p)]
  <1>1. q \in Queue
    BY Members DEF QueueOf
  <1>2. CASE p \notin Elems(s.rdy[q])
    BY <1>2 DEF unready, SchedOnly
  <1>3. CASE p \in Elems(s.rdy[q])
    <2>1. s.rdy[q] \in Seq(Proc)
      BY <1>1 DEF KState
    <2>2. Unlink(s.rdy[q], p) \in Seq(Proc)
      BY <2>1, <1>3, UnlinkType
    <2>3. r \in KState /\ SchedOnly(s, r)
      BY <2>2, <1>1 DEF KState, SchedOnly
    <2>4. pick_proc(r) \in KState /\ SchedOnly(s, pick_proc(r))
      BY <2>3, PickType DEF SchedOnly
    <2>5. unready(s, p) = r \/ unready(s, p) = pick_proc(r)
      BY <1>3 DEF unready
    <2> QED BY <2>3, <2>4, <2>5
  <1> QED BY <1>2, <1>3

(* sched() changes the ready queues and the process to run only. *)
LEMMA SchedType ==
    ASSUME NEW s \in KState
    PROVE  sched(s) \in KState /\ SchedOnly(s, sched(s))
  <1> DEFINE r == [s EXCEPT !.rdy[USER_Q] = Append(Tail(@), Head(@))]
  <1>1. CASE s.rdy[USER_Q] = <<>>
    BY <1>1 DEF sched, SchedOnly
  <1>2. CASE s.rdy[USER_Q] # <<>>
    <2>1. s.rdy[USER_Q] \in Seq(Proc)
      BY Members DEF KState
    <2>2. Append(Tail(s.rdy[USER_Q]), Head(s.rdy[USER_Q])) \in Seq(Proc)
      BY <2>1, <1>2
    <2>3. r \in KState /\ SchedOnly(s, r)
      BY <2>2, Members DEF KState, SchedOnly
    <2>4. sched(s) = pick_proc(r)
      BY <1>2 DEF sched
    <2>5. pick_proc(r) \in KState /\ SchedOnly(r, pick_proc(r))
      BY <2>3, PickType
    <2> QED BY <2>3, <2>4, <2>5 DEF SchedOnly
  <1> QED BY <1>1, <1>2

(* So do the callers' "if (p_flags == 0) ready/unready". *)
LEMMA IfFreeType ==
    ASSUME NEW s \in KState, NEW p \in Proc
    PROVE  /\ ReadyIfFree(s, p) \in KState /\ SchedOnly(s, ReadyIfFree(s, p))
           /\ UnreadyIfFree(s, p) \in KState /\ SchedOnly(s, UnreadyIfFree(s, p))
  <1>1. SchedOnly(s, s)
    BY DEF SchedOnly
  <1> QED BY <1>1, ReadyType, UnreadyType DEF ReadyIfFree, UnreadyIfFree

-----------------------------------------------------------------------------
(* Message passing. *)

(* Two functions that add no sender add none one after the other. *)
LEMMA NoNewSenderTrans ==
    ASSUME NEW s, NEW t, NEW u, NoNewSender(s, t), NoNewSender(t, u)
    PROVE  NoNewSender(s, u)
  BY DEF NoNewSender

(* Scheduling blocks nobody on a send. *)
LEMMA SchedNoNewSender ==
    ASSUME NEW s, NEW t, SchedOnly(s, t)
    PROVE  NoNewSender(s, t)
  BY DEF SchedOnly, NoNewSender, Sender

(* Fewer senders with the same targets cannot close a cycle. *)
LEMMA FewerAcyclic ==
    ASSUME NEW s, NEW t, NoNewSender(s, t), Acyclic(s)
    PROVE  Acyclic(t)
  BY DEF NoNewSender, Acyclic

(* Copying a message changes the receiver's buffer only. *)
LEMMA CopyType ==
    ASSUME NEW s \in KState, NEW src \in Proc, NEW m \in Msg, NEW dst \in Proc
    PROVE  /\ CopyMess(s, src, m, dst) \in KState
           /\ CopyMess(s, src, m, dst).flags = s.flags
           /\ CopyMess(s, src, m, dst).sendto = s.sendto
           /\ CopyMess(s, src, m, dst).getfrom = s.getfrom
           /\ CopyMess(s, src, m, dst).callerq = s.callerq
  BY DEF CopyMess, KState

(* Clearing flags makes nobody a sender. *)
LEMMA ClearFlags ==
    ASSUME NEW s \in KState, NEW p \in Proc, NEW F
    PROVE  /\ [s EXCEPT !.flags[p] = @ \ F] \in KState
           /\ NoNewSender(s, [s EXCEPT !.flags[p] = @ \ F])
  <1>1. [s EXCEPT !.flags[p] = @ \ F] \in KState
    BY DEF KState
  <1>2. \A x \in Proc : [s EXCEPT !.flags[p] = @ \ F].flags[x] \subseteq s.flags[x]
    BY DEF KState
  <1>3. [s EXCEPT !.flags[p] = @ \ F].sendto = s.sendto
    BY DEF KState
  <1> QED BY <1>1, <1>2, <1>3 DEF NoNewSender, Sender

(* mini_send() to a process that waits for the message adds no sender. *)
LEMMA DeliverType ==
    ASSUME NEW s \in KState, NEW c \in Proc, NEW d \in Proc, NEW m \in Msg
    PROVE  Deliver(s, c, d, m) \in KState /\ NoNewSender(s, Deliver(s, c, d, m))
  <1> DEFINE t == CopyMess(s, c, m, d)
             u == [t EXCEPT !.flags[d] = @ \ {"RECEIVING"}]
  <1>0. t \in KState /\ t.flags = s.flags /\ t.sendto = s.sendto
    BY CopyType
  <1> HIDE DEF t
  <1>1. t \in KState /\ NoNewSender(s, t)
    BY <1>0 DEF NoNewSender, Sender
  <1>2. u \in KState /\ NoNewSender(t, u)
    BY <1>1, ClearFlags
  <1> HIDE DEF u
  <1>3. Deliver(s, c, d, m) = ReadyIfFree(u, d)
    BY DEF Deliver, t, u
  <1>4. ReadyIfFree(u, d) \in KState /\ NoNewSender(u, ReadyIfFree(u, d))
    BY <1>2, IfFreeType, SchedNoNewSender
  <1> QED BY <1>1, <1>2, <1>3, <1>4, NoNewSenderTrans

(* Otherwise mini_send() adds the caller, and only it, to the senders. *)
LEMMA BlockSendingType ==
    ASSUME NEW s \in KState, NEW c \in Proc, NEW d \in Proc, NEW m \in Msg
    PROVE  /\ BlockSending(s, c, d, m) \in KState
           /\ \A x \in Proc : BlockSending(s, c, d, m).sendto[x] = IF x = c THEN d ELSE s.sendto[x]
           /\ Sender(BlockSending(s, c, d, m)) = Sender(s) \cup {c}
  <1> DEFINE t == UnreadyIfFree(s, c)
             b == [t EXCEPT !.mess[c] = m, !.flags[c] = @ \cup {"SENDING"},
                            !.sendto[c] = d, !.callerq[d] = Append(@, c)]
  <1>1. t \in KState /\ SchedOnly(s, t)
    BY IfFreeType
  <1> HIDE DEF t
  <1>2. /\ [t.flags EXCEPT ![c] = @ \cup {"SENDING"}] \in [Proc -> SUBSET Flag]
        /\ [t.sendto EXCEPT ![c] = d] \in [Proc -> Proc]
        /\ [t.mess EXCEPT ![c] = m] \in [Proc -> Msg]
        /\ [t.callerq EXCEPT ![d] = Append(@, c)] \in [Proc -> Seq(Proc)]
    <2>1. t.flags \in [Proc -> SUBSET Flag] /\ "SENDING" \in Flag
      BY <1>1 DEF KState, Flag
    <2>2. t.callerq \in [Proc -> Seq(Proc)] /\ t.mess \in [Proc -> Msg] /\ t.sendto \in [Proc -> Proc]
      BY <1>1 DEF KState
    <2>3. Append(t.callerq[d], c) \in Seq(Proc)
      BY <2>2
    <2> QED BY <2>1, <2>2, <2>3
  <1>3. b \in KState
    BY <1>1, <1>2 DEF KState
  <1>4. \A x \in Proc : b.sendto[x] = IF x = c THEN d ELSE s.sendto[x]
    BY <1>1 DEF SchedOnly, KState
  <1>5. b.flags = [s.flags EXCEPT ![c] = @ \cup {"SENDING"}]
    BY <1>1 DEF SchedOnly, KState
  <1>6. s.flags \in [Proc -> SUBSET Flag]
    BY DEF KState
  <1>7. Sender(b) = Sender(s) \cup {c}
    BY <1>5, <1>6 DEF Sender
  <1>8. BlockSending(s, c, d, m) = b
    BY DEF BlockSending, t
  <1> QED BY <1>3, <1>4, <1>7, <1>8

(* The heart of the matter: if the walk from d does not meet c, queueing c *)
(* on d closes no cycle.  Otherwise let S be one, and let T hold d's       *)
(* target, be closed and leave c out: the part of S in T is a cycle that   *)
(* was there before.                                                       *)
LEMMA QueueAcyclic ==
    ASSUME NEW s, NEW t, NEW c \in Proc, NEW d \in Proc, c # d,
           s.sendto \in [Proc -> Proc],
           Acyclic(s), ~Reaches(s, d, c),
           Sender(t) = Sender(s) \cup {c},
           \A x \in Proc : t.sendto[x] = IF x = c THEN d ELSE s.sendto[x]
    PROVE  Acyclic(t)
  <1>1. SUFFICES ASSUME NEW S \in SUBSET Sender(t), S # {}, \A p \in S : t.sendto[p] \in S
                 PROVE  FALSE
    BY DEF Acyclic
  <1>2. Sender(s) \subseteq Proc
    BY DEF Sender
  <1>3. \A p \in Sender(s) : p # c => t.sendto[p] = s.sendto[p]
    BY <1>2
  <1>4. c \in S
    <2>1. SUFFICES ASSUME c \notin S PROVE FALSE
      OBVIOUS
    <2>2. S \in SUBSET Sender(s) /\ \A p \in S : s.sendto[p] \in S
      BY <2>1, <1>1, <1>3
    <2> QED BY <2>2, <1>1 DEF Acyclic
  <1>5. d \in S
    BY <1>1, <1>4
  <1>6. d \in Sender(s) /\ s.sendto[d] \in S
    BY <1>1, <1>3, <1>5
  <1>7. PICK T \in SUBSET Target(s) : s.sendto[d] \in T /\ Closed(s, T) /\ c \notin T
    BY <1>6 DEF Reaches
  <1>8. S \cap T \in SUBSET Sender(s) /\ S \cap T # {}
    BY <1>1, <1>6, <1>7
  <1>9. \A p \in S \cap T : s.sendto[p] \in S \cap T
    BY <1>1, <1>3, <1>7, <1>8 DEF Closed
  <1> QED BY <1>8, <1>9 DEF Acyclic

(* mini_send() never closes a ring of senders: it walks along p_sendto first. *)
LEMMA SendType ==
    ASSUME NEW s \in KState, NEW c \in Proc, NEW d \in Proc, NEW m \in Msg, c # d
    PROVE  /\ mini_send(s, c, d, m) \in KState
           /\ Acyclic(s) => Acyclic(mini_send(s, c, d, m))
  <1>1. CASE SendResult(s, c, d) # "OK"
    BY <1>1 DEF mini_send
  <1>2. CASE SendResult(s, c, d) = "OK" /\ Waiting(s, d, c)
    BY <1>2, DeliverType, FewerAcyclic DEF mini_send
  <1>3. CASE SendResult(s, c, d) = "OK" /\ ~Waiting(s, d, c)
    <2>1. ~Reaches(s, d, c)
      BY <1>3 DEF SendResult
    <2>2. s.sendto \in [Proc -> Proc]
      BY DEF KState
    <2>3. mini_send(s, c, d, m) = BlockSending(s, c, d, m)
      BY <1>3 DEF mini_send
    <2>4. /\ mini_send(s, c, d, m) \in KState
          /\ \A x \in Proc : mini_send(s, c, d, m).sendto[x] = IF x = c THEN d ELSE s.sendto[x]
          /\ Sender(mini_send(s, c, d, m)) = Sender(s) \cup {c}
      BY <2>3, BlockSendingType
    <2> QED BY <2>1, <2>2, <2>4, QueueAcyclic
  <1> QED BY <1>1, <1>2, <1>3

(* A nonempty set of natural numbers has a least one. *)
LEMMA SmallestNumber ==
    ASSUME NEW S \in SUBSET Nat, S # {}
    PROVE  \E x \in S : \A y \in S : x <= y
  <1>1. PICK x \in S : \A y \in S : ~(<<y, x>> \in OpToRel(<, Nat))
    BY NatLessThanWellFounded, WFMin
  <1>2. \A y \in S : ~(y < x)
    BY <1>1 DEF OpToRel
  <1> QED BY <1>2

(* inform() reports a signal to MM, as HARDWARE, and closes no ring. *)
LEMMA InformType ==
    ASSUME NEW s \in KState
    PROVE  inform(s) \in KState /\ (Acyclic(s) => Acyclic(inform(s)))
  <1>1. CASE Pending(s) = {}
    BY <1>1 DEF inform
  <1>2. CASE Pending(s) # {}
    <2> DEFINE p == CHOOSE x \in Pending(s) : \A y \in Pending(s) : x <= y
               m == KSig(p, s.pending[p])
               t == [s EXCEPT !.mess[SYSTASK] = m,
                              !.sig_procs = @ - 1,
                              !.panic = @ \/ SendResult(s, HARDWARE, MM) # "OK"]
               u == mini_send(t, HARDWARE, MM, m)
               v == [u EXCEPT !.pending[p] = {}, !.flags[p] = @ \ {"PENDING"}]
    <2>1. p \in Proc
      <3>1. \E x \in Pending(s) : \A y \in Pending(s) : x <= y
        <4>1. Pending(s) \in SUBSET Nat /\ Pending(s) # {}
          BY <1>2 DEF Pending, Server, User, MM, FS, LOW_USER
        <4> QED BY <4>1, SmallestNumber
      <3>2. p \in Pending(s)
        BY <3>1
      <3> QED BY <3>2, Members DEF Pending
    <2> HIDE DEF p
    <2>2. m \in Msg
      <3>1. s.pending[p] \in SUBSET Sig
        BY <2>1 DEF KState
      <3> QED BY <2>1, <3>1, Messages
    <2> HIDE DEF m
    <2>3. t \in KState /\ NoNewSender(s, t)
      <3>1. ASSUME NEW b \in BOOLEAN, NEW n \in Int, NEW f \in [Proc -> Msg]
            PROVE  [s EXCEPT !.mess = f, !.sig_procs = n, !.panic = b] \in KState
        BY DEF KState
      <3>2. s.mess \in [Proc -> Msg] /\ s.sig_procs \in Int
        BY DEF KState
      <3>3. SYSTASK \in Proc
        BY Members
      <3>4. [s.mess EXCEPT ![SYSTASK] = m] \in [Proc -> Msg] /\ s.sig_procs - 1 \in Int
        BY <2>2, <3>2, <3>3
      <3>5. t \in KState
        BY <3>1, <3>4, (s.panic \/ SendResult(s, HARDWARE, MM) # "OK") \in BOOLEAN, Zenon
      <3>6. t.flags = s.flags /\ t.sendto = s.sendto
        BY DEF KState
      <3> QED BY <3>5, <3>6 DEF NoNewSender, Sender
    <2> HIDE DEF t
    <2>4. u \in KState /\ (Acyclic(s) => Acyclic(u))
      BY <2>2, <2>3, Members, SendType, FewerAcyclic
    <2> HIDE DEF u
    <2>5. v \in KState /\ NoNewSender(u, v)
      <3>1. v \in KState
        BY <2>1, <2>4 DEF KState
      <3>2. v.sendto = u.sendto /\ \A x \in Proc : v.flags[x] \subseteq u.flags[x]
        BY <2>1, <2>4 DEF KState
      <3> QED BY <3>1, <3>2 DEF NoNewSender, Sender
    <2> HIDE DEF v
    <2>6. pick_proc(v) \in KState /\ NoNewSender(v, pick_proc(v))
      BY <2>5, PickType, SchedNoNewSender
    <2>7. inform(s) = pick_proc(v)
      BY <1>2 DEF inform, p, m, t, u, v
    <2> QED BY <2>4, <2>5, <2>6, <2>7, FewerAcyclic
  <1> QED BY <1>1, <1>2

(* mini_rec() from a queued caller releases it and adds no sender. *)
LEMMA AcceptType ==
    ASSUME NEW s \in KState, NEW c \in Proc, NEW src, Acceptable(s, c, src) # {}
    PROVE  Accept(s, c, src) \in KState /\ NoNewSender(s, Accept(s, c, src))
  <1> DEFINE A == Acceptable(s, c, src)
             i == CHOOSE n \in A : \A j \in A : n <= j
             p == s.callerq[c][i]
             t == CopyMess(s, p, s.mess[p], c)
             u == [t EXCEPT !.callerq[c] = Unlink(@, p), !.flags[p] = @ \ {"SENDING"}]
  <1>1. s.callerq[c] \in Seq(Proc)
    BY DEF KState
  <1>2. i \in 1 .. Len(s.callerq[c])
    <2>1. A \in SUBSET Nat /\ A # {}
      BY <1>1 DEF Acceptable
    <2>2. \E n \in A : \A j \in A : n <= j
      BY <2>1, SmallestNumber
    <2>3. i \in A
      BY <2>2
    <2> QED BY <2>3 DEF Acceptable
  <1> HIDE DEF i
  <1>3. p \in Proc /\ p \in Elems(s.callerq[c])
    BY <1>1, <1>2 DEF Elems
  <1> HIDE DEF p
  <1>4. s.mess[p] \in Msg
    BY <1>3 DEF KState
  <1>5. t \in KState /\ t.flags = s.flags /\ t.sendto = s.sendto /\ t.callerq = s.callerq
    BY <1>3, <1>4, CopyType
  <1> HIDE DEF t
  <1>6. Unlink(t.callerq[c], p) \in Seq(Proc)
    BY <1>1, <1>3, <1>5, UnlinkType
  <1>7. u \in KState
    BY <1>3, <1>5, <1>6 DEF KState
  <1>8. u.sendto = s.sendto /\ \A x \in Proc : u.flags[x] \subseteq s.flags[x]
    BY <1>3, <1>5 DEF KState
  <1> HIDE DEF u
  <1>9. NoNewSender(s, u)
    BY <1>8 DEF NoNewSender, Sender
  <1>10. Accept(s, c, src) = ReadyIfFree(u, p)
    BY DEF Accept, u, t, p, i
  <1>11. ReadyIfFree(u, p) \in KState /\ NoNewSender(u, ReadyIfFree(u, p))
    BY <1>3, <1>7, IfFreeType, SchedNoNewSender
  <1> QED BY <1>9, <1>10, <1>11, NoNewSenderTrans

(* mini_rec() that finds nothing blocks the caller, not as a sender. *)
LEMMA BlockReceivingType ==
    ASSUME NEW s \in KState, NEW c \in Proc, NEW src \in Proc \cup {ANY}
    PROVE  BlockReceiving(s, c, src) \in KState /\ NoNewSender(s, BlockReceiving(s, c, src))
  <1> DEFINE t == UnreadyIfFree(s, c)
             b == [t EXCEPT !.getfrom[c] = src, !.flags[c] = @ \cup {"RECEIVING"}]
  <1>1. t \in KState /\ SchedOnly(s, t)
    BY IfFreeType
  <1> HIDE DEF t
  <1>2. "RECEIVING" \in Flag
    BY DEF Flag
  <1>3. b \in KState
    BY <1>1, <1>2 DEF KState
  <1>4. b.sendto = s.sendto /\ \A x \in Proc : "SENDING" \in b.flags[x] => "SENDING" \in s.flags[x]
    BY <1>1 DEF SchedOnly, KState
  <1>5. BlockReceiving(s, c, src) = b
    BY DEF BlockReceiving, t
  <1> QED BY <1>3, <1>4, <1>5 DEF NoNewSender, Sender

(* mini_rec(), with the report of signals at its end, closes no ring. *)
LEMMA RecType ==
    ASSUME NEW s \in KState, NEW c \in Proc, NEW src \in Proc \cup {ANY}
    PROVE  mini_rec(s, c, src) \in KState /\ (Acyclic(s) => Acyclic(mini_rec(s, c, src)))
  <1> DEFINE h == CopyMess(s, HARDWARE, HardInt, c)
             g == [h EXCEPT !.intblk[c] = FALSE]
             b == BlockReceiving(s, c, src)
  <1>1. h \in KState /\ h.flags = s.flags /\ h.sendto = s.sendto
    BY CopyType, Members, Messages
  <1> HIDE DEF h
  <1>2. g \in KState /\ g.flags = s.flags /\ g.sendto = s.sendto
    BY <1>1 DEF KState
  <1> HIDE DEF g
  <1>3. Acyclic(s) => Acyclic(g)
    BY <1>2, FewerAcyclic DEF NoNewSender, Sender
  <1>4. b \in KState /\ (Acyclic(s) => Acyclic(b))
    BY BlockReceivingType, FewerAcyclic
  <1>5. inform(b) \in KState /\ (Acyclic(b) => Acyclic(inform(b)))
    BY <1>4, InformType
  <1>6. \/ Acceptable(s, c, src) # {} /\ mini_rec(s, c, src) = Accept(s, c, src)
        \/ mini_rec(s, c, src) = g
        \/ mini_rec(s, c, src) = inform(b)
        \/ mini_rec(s, c, src) = b
    BY DEF mini_rec, g, h
  <1> QED BY <1>2, <1>3, <1>4, <1>5, <1>6, AcceptType, FewerAcyclic

(* The slots of the servers always belong to servers. *)
LEMMA Servers ==
    ASSUME NEW s \in KState, NEW p \in Server
    PROVE  s.prio[p] = "SERVER"
  <1>1. p \in Proc /\ p # IDLE /\ p \notin Task
    BY ConstAssumption DEF Proc, Task, Driver, Server, MM, FS, IDLE, CLOCK, SYSTASK, HARDWARE
  <1>2. s.prio \in PrioMap
    BY DEF KState
  <1> QED BY <1>1, <1>2 DEF PrioMap

(* sys_call() closes no ring, for any caller and any function. *)
LEMMA CallType ==
    ASSUME NEW s \in KState, NEW fn \in Func, NEW x \in Proc \cup {ANY}, NEW m \in ClientMsg,
           Allowed(s, fn, x)
    PROVE  sys_call(s, fn, x, m) \in KState /\ (Acyclic(s) => Acyclic(sys_call(s, fn, x, m)))
  <1> DEFINE c == s.proc_ptr
             t == mini_send(s, c, x, m)
  <1>1. c \in Proc /\ m \in Msg
    BY Messages DEF KState
  <1>2. CASE CallResult(s, fn, x) # "OK"
    BY <1>2 DEF sys_call
  <1>3. CASE CallResult(s, fn, x) = "OK" /\ fn = "RECEIVE"
    BY <1>1, <1>3, RecType DEF sys_call
  <1>4. CASE CallResult(s, fn, x) = "OK" /\ fn # "RECEIVE"
    <2>1. SendResult(s, c, x) = "OK"
      BY <1>4 DEF CallResult
    <2>2. x \in Proc /\ x # c
      <3>1. CASE isuserp(s, c)
        <4>1. x \in Server
          BY <2>1, <3>1 DEF SendResult, issysentn, Server
        <4>2. c \notin Server
          BY <1>1, <3>1, Servers DEF isuserp
        <4> QED BY <4>1, <4>2, Members
      <3>2. CASE <<c, fn, x>> \in Calls
        BY <3>2, <1>4, ConstAssumption
      <3> QED BY <3>1, <3>2 DEF Allowed
    <2>3. t \in KState /\ (Acyclic(s) => Acyclic(t))
      BY <1>1, <2>2, SendType
    <2>4. mini_rec(t, c, x) \in KState /\ (Acyclic(t) => Acyclic(mini_rec(t, c, x)))
      BY <1>1, <2>3, RecType
    <2>5. sys_call(s, fn, x, m) \in {t, mini_rec(t, c, x)}
      BY <1>4 DEF sys_call
    <2> QED BY <2>3, <2>4, <2>5
  <1> QED BY <1>2, <1>3, <1>4

(* interrupt() wakes a task or remembers the interrupt; no sender is added. *)
LEMMA InterruptType ==
    ASSUME NEW s \in KState, NEW p \in Proc
    PROVE  interrupt(s, p) \in KState /\ NoNewSender(s, interrupt(s, p))
  <1> DEFINE h == CopyMess(s, HARDWARE, HardInt, p)
             u == [h EXCEPT !.flags[p] = @ \ {"RECEIVING"}, !.intblk[p] = FALSE]
             v == [s EXCEPT !.intblk[p] = TRUE]
  <1>1. h \in KState /\ h.flags = s.flags /\ h.sendto = s.sendto
    BY CopyType, Members, Messages
  <1> HIDE DEF h
  <1>2. u \in KState
    BY <1>1 DEF KState
  <1>3. u.sendto = s.sendto /\ \A x \in Proc : u.flags[x] \subseteq s.flags[x]
    BY <1>1 DEF KState
  <1> HIDE DEF u
  <1>4. v \in KState /\ v.sendto = s.sendto /\ v.flags = s.flags
    BY DEF KState
  <1> HIDE DEF v
  <1>5. NoNewSender(s, u) /\ NoNewSender(s, v)
    BY <1>3, <1>4 DEF NoNewSender, Sender
  <1>6. interrupt(s, p) \in {v, ready(u, p)}
    BY DEF interrupt, u, v, h
  <1>7. ready(u, p) \in KState /\ NoNewSender(u, ready(u, p))
    BY <1>2, ReadyType, SchedNoNewSender
  <1> QED BY <1>4, <1>5, <1>6, <1>7, NoNewSenderTrans

-----------------------------------------------------------------------------
(* Signals and the system task. *)

(* cause_sig() blocks its process by a signal and closes no ring. *)
LEMMA CauseType ==
    ASSUME NEW s \in KState, NEW p \in Proc, NEW sig \in Sig
    PROVE  cause_sig(s, p, sig) \in KState /\ (Acyclic(s) => Acyclic(cause_sig(s, p, sig)))
  <1> DEFINE t == [s EXCEPT !.pending[p] = @ \cup {sig}, !.pendcount[p] = @ + 1]
             w == UnreadyIfFree(t, p)
             u == [w EXCEPT !.flags[p] = @ \cup {"PENDING", "SIG_PENDING"}, !.sig_procs = @ + 1]
  <1>1. t \in KState
    <2>1. s.pending[p] \cup {sig} \in SUBSET Sig /\ s.pendcount[p] + 1 \in Nat
      BY DEF KState
    <2>2. ASSUME NEW S \in SUBSET Sig, NEW n \in Nat
          PROVE  [s EXCEPT !.pending[p] = S, !.pendcount[p] = n] \in KState
      BY DEF KState
    <2>3. t = [s EXCEPT !.pending[p] = s.pending[p] \cup {sig}, !.pendcount[p] = s.pendcount[p] + 1]
      BY DEF KState
    <2> QED BY <2>1, <2>2, <2>3, Zenon
  <1>2. t.flags = s.flags /\ t.sendto = s.sendto
    BY DEF KState
  <1> HIDE DEF t
  <1>3. w \in KState /\ SchedOnly(t, w)
    BY <1>1, IfFreeType
  <1> HIDE DEF w
  <1>4. "PENDING" \in Flag /\ "SIG_PENDING" \in Flag
    BY DEF Flag
  <1>5. u \in KState
    <2>0. w.flags[p] \in SUBSET Flag /\ w.sig_procs \in Int
      BY <1>3 DEF KState
    <2>1. w.flags[p] \cup {"PENDING", "SIG_PENDING"} \in SUBSET Flag /\ w.sig_procs + 1 \in Int
      BY <2>0, <1>4
    <2>2. ASSUME NEW F \in SUBSET Flag, NEW n \in Int
          PROVE  [w EXCEPT !.flags[p] = F, !.sig_procs = n] \in KState
      BY <1>3 DEF KState
    <2> QED BY <2>1, <2>2, Zenon
  <1>6. u.sendto = w.sendto /\ \A x \in Proc : "SENDING" \in u.flags[x] => "SENDING" \in w.flags[x]
    BY <1>3 DEF KState
  <1> HIDE DEF u
  <1>7. NoNewSender(s, t) /\ NoNewSender(s, u)
    BY <1>2, <1>3, <1>6 DEF NoNewSender, Sender, SchedOnly
  <1>8. inform(u) \in KState /\ (Acyclic(u) => Acyclic(inform(u)))
    BY <1>5, InformType
  <1>9. cause_sig(s, p, sig) \in {s, t, u, inform(u)}
    BY DEF cause_sig, t, w, u
  <1> QED BY <1>1, <1>5, <1>7, <1>8, <1>9, FewerAcyclic

(* do_endsig() keeps p_pendcount from going below zero and adds no sender. *)
LEMMA EndsigType ==
    ASSUME NEW s \in KState, NEW p \in Proc
    PROVE  do_endsig(s, p) \in KState /\ NoNewSender(s, do_endsig(s, p))
  <1> DEFINE t == [s EXCEPT !.pendcount[p] = @ - 1]
             u == [s EXCEPT !.pendcount[p] = 0, !.flags[p] = @ \ {"SIG_PENDING"}]
  <1>1. CASE isemptyp(s, p) \/ s.pendcount[p] = 0
    BY <1>1 DEF do_endsig, NoNewSender
  <1>2. CASE ~isemptyp(s, p) /\ s.pendcount[p] > 1
    <2>1. s.pendcount[p] - 1 \in Nat
      BY <1>2 DEF KState
    <2>2. t \in KState
      BY <2>1 DEF KState
    <2>3. t.flags = s.flags /\ t.sendto = s.sendto
      BY DEF KState
    <2>4. do_endsig(s, p) = t
      BY <1>2 DEF do_endsig, KState
    <2> QED BY <2>2, <2>3, <2>4 DEF NoNewSender, Sender
  <1>3. CASE ~isemptyp(s, p) /\ s.pendcount[p] # 0 /\ ~(s.pendcount[p] > 1)
    <2>1. u \in KState
      BY DEF KState
    <2>2. u.sendto = s.sendto /\ \A x \in Proc : u.flags[x] \subseteq s.flags[x]
      BY DEF KState
    <2>3. do_endsig(s, p) = ReadyIfFree(u, p)
      BY <1>3 DEF do_endsig
    <2> HIDE DEF u
    <2>4. NoNewSender(s, u)
      BY <2>2 DEF NoNewSender, Sender
    <2> QED BY <2>1, <2>3, <2>4, IfFreeType, SchedNoNewSender, NoNewSenderTrans
  <1> QED BY <1>1, <1>2, <1>3

(* do_fork() copies a parent that waits for MM's reply, so the child is no sender. *)
LEMMA ForkType ==
    ASSUME NEW s \in KState, NEW parent \in User, NEW child \in User,
           isuserp(s, parent), "SENDING" \notin s.flags[parent]
    PROVE  do_fork(s, parent, child) \in KState /\ NoNewSender(s, do_fork(s, parent, child))
  <1> DEFINE f == do_fork(s, parent, child)
             fl == (s.flags[parent] \cup {"NO_MAP"}) \ {"PENDING", "SIG_PENDING", "P_STOP"}
  <1>1. parent \in Proc /\ child \in Proc
    BY Members
  <1>2. fl \in SUBSET Flag /\ "SENDING" \notin fl
    BY <1>1 DEF KState, Flag
  <1> HIDE DEF fl
  <1>3. [s.prio EXCEPT ![child] = s.prio[parent]] \in PrioMap
    <2>1. child # IDLE /\ child \notin Task /\ child \notin Server
      BY ConstAssumption DEF User, Task, Driver, Server, MM, FS, IDLE, CLOCK, SYSTASK, HARDWARE, LOW_USER
    <2>2. s.prio \in PrioMap
      BY DEF KState
    <2> QED BY <1>1, <2>1, <2>2 DEF PrioMap, isuserp
  <1>4. f = [s EXCEPT !.flags[child] = fl, !.prio[child] = s.prio[parent],
                      !.getfrom[child] = s.getfrom[parent], !.sendto[child] = s.sendto[parent],
                      !.callerq[child] = s.callerq[parent], !.m_source[child] = s.m_source[parent],
                      !.mess[child] = s.mess[parent], !.intblk[child] = s.intblk[parent],
                      !.pending[child] = {}, !.pendcount[child] = 0]
    BY DEF do_fork, fl
  <1>5. f \in KState
    <2>1. /\ s.getfrom[parent] \in Proc \cup {ANY} /\ s.sendto[parent] \in Proc
          /\ s.m_source[parent] \in Proc /\ s.mess[parent] \in Msg
          /\ s.callerq[parent] \in Seq(Proc) /\ s.intblk[parent] \in BOOLEAN
      BY <1>1 DEF KState
    <2>2. [s EXCEPT !.flags[child] = fl] \in KState
      BY <1>1, <1>2 DEF KState
    <2>3. [s EXCEPT !.flags[child] = fl, !.prio[child] = s.prio[parent]] \in KState
      <3>1. ASSUME NEW f0 \in [Proc -> SUBSET Flag], NEW pr \in PrioMap
            PROVE  [s EXCEPT !.flags = f0, !.prio = pr] \in KState
        BY DEF KState
      <3>2. [s.flags EXCEPT ![child] = fl] \in [Proc -> SUBSET Flag]
        BY <1>1, <1>2 DEF KState
      <3> QED BY <1>3, <3>1, <3>2
    <2> DEFINE a == [s EXCEPT !.flags[child] = fl, !.prio[child] = s.prio[parent]]
               b == [a EXCEPT !.getfrom[child] = s.getfrom[parent], !.sendto[child] = s.sendto[parent],
                              !.callerq[child] = s.callerq[parent]]
               c == [b EXCEPT !.m_source[child] = s.m_source[parent], !.mess[child] = s.mess[parent],
                              !.intblk[child] = s.intblk[parent]]
               d == [c EXCEPT !.pending[child] = {}, !.pendcount[child] = 0]
    <2>4. f = d
      BY <1>4
    <2> HIDE DEF a
    <2>5. a \in KState
      BY <2>3 DEF a
    <2>6. b \in KState
      BY <1>1, <2>1, <2>5 DEF KState
    <2> HIDE DEF b
    <2>7. c \in KState
      BY <1>1, <2>1, <2>6 DEF KState
    <2> HIDE DEF c
    <2>8. d \in KState
      BY <1>1, <2>7 DEF KState
    <2> QED BY <2>4, <2>8, Zenon
  <1>6. \A x \in Proc : f.flags[x] = IF x = child THEN fl ELSE s.flags[x]
    BY <1>1, <1>4 DEF KState
  <1>7. \A x \in Proc : x # child => f.sendto[x] = s.sendto[x]
    BY <1>1, <1>4 DEF KState
  <1> QED BY <1>2, <1>5, <1>6, <1>7 DEF NoNewSender, Sender

(* do_newmap() makes the child runnable and adds no sender. *)
LEMMA NewmapType ==
    ASSUME NEW s \in KState, NEW p \in Proc
    PROVE  do_newmap(s, p) \in KState /\ NoNewSender(s, do_newmap(s, p))
  <1> DEFINE t == [s EXCEPT !.flags[p] = @ \ {"NO_MAP"}]
  <1>1. t \in KState /\ NoNewSender(s, t)
    BY ClearFlags
  <1> HIDE DEF t
  <1>2. do_newmap(s, p) \in {t, ready(t, p)}
    BY DEF do_newmap, t
  <1> QED BY <1>1, <1>2, ReadyType, SchedNoNewSender, NoNewSenderTrans

(* do_exec(), with the SIGTRAP of a traced process, closes no ring. *)
LEMMA ExecType ==
    ASSUME NEW s \in KState, NEW p \in Proc, NEW traced \in BOOLEAN, NEW sigtrap \in Sig
    PROVE  /\ do_exec(s, p, traced, sigtrap) \in KState
           /\ Acyclic(s) => Acyclic(do_exec(s, p, traced, sigtrap))
  <1> DEFINE t == IF traced THEN cause_sig(s, p, sigtrap) ELSE s
             u == [t EXCEPT !.flags[p] = @ \ {"RECEIVING"}]
  <1>1. t \in KState /\ (Acyclic(s) => Acyclic(t))
    BY CauseType
  <1> HIDE DEF t
  <1>2. u \in KState /\ NoNewSender(t, u)
    BY <1>1, ClearFlags
  <1> HIDE DEF u
  <1>3. do_exec(s, p, traced, sigtrap) = ReadyIfFree(u, p)
    BY DEF do_exec, t, u
  <1>4. ReadyIfFree(u, p) \in KState /\ NoNewSender(u, ReadyIfFree(u, p))
    BY <1>2, IfFreeType, SchedNoNewSender
  <1> QED BY <1>1, <1>2, <1>3, <1>4, FewerAcyclic

(* do_xit() empties a slot, whatever its process waited for; no sender is added. *)
LEMMA XitType ==
    ASSUME NEW s \in KState, NEW p \in User
    PROVE  do_xit(s, p) \in KState /\ NoNewSender(s, do_xit(s, p))
  <1> DEFINE t == UnreadyIfFree(s, p)
             cq == [d \in Proc |-> IF p \in Elems(t.callerq[d]) THEN Unlink(t.callerq[d], p)
                                   ELSE t.callerq[d]]
             u == IF "SENDING" \in s.flags[p] THEN [t EXCEPT !.callerq = cq] ELSE t
             n == IF "PENDING" \in s.flags[p] THEN u.sig_procs - 1 ELSE u.sig_procs
             v == [u EXCEPT !.sig_procs = n, !.pending[p] = {}, !.pendcount[p] = 0,
                            !.flags[p] = {}, !.prio[p] = "NONE"]
  <1>1. p \in Proc
    BY Members
  <1>2. t \in KState /\ SchedOnly(s, t)
    BY <1>1, IfFreeType
  <1> HIDE DEF t
  <1>3. cq \in [Proc -> Seq(Proc)]
    <2>1. \A d \in Proc : t.callerq[d] \in Seq(Proc)
      BY <1>2 DEF KState
    <2> QED BY <2>1, UnlinkType
  <1> HIDE DEF cq
  <1>4. u \in KState /\ u.flags = s.flags /\ u.sendto = s.sendto
    BY <1>2, <1>3 DEF KState, SchedOnly
  <1> HIDE DEF u
  <1>5. n \in Int
    BY <1>4 DEF KState
  <1> HIDE DEF n
  <1>6. [u.prio EXCEPT ![p] = "NONE"] \in PrioMap
    <2>1. p # IDLE /\ p \notin Task /\ p \notin Server
      BY ConstAssumption DEF User, Task, Driver, Server, MM, FS, IDLE, CLOCK, SYSTASK, HARDWARE, LOW_USER
    <2>2. u.prio \in PrioMap
      BY <1>4 DEF KState
    <2> QED BY <1>1, <2>1, <2>2 DEF PrioMap, Prio
  <1>7. v \in KState
    BY <1>1, <1>4, <1>5, <1>6 DEF KState
  <1>8. v.sendto = s.sendto /\ \A x \in Proc : v.flags[x] \subseteq s.flags[x]
    BY <1>1, <1>4 DEF KState
  <1>9. do_xit(s, p) = v
    BY DEF do_xit, v, n, u, cq, t
  <1> QED BY <1>7, <1>8, <1>9 DEF NoNewSender, Sender

(* Stopping and resuming a process adds no sender. *)
LEMMA TraceType ==
    ASSUME NEW s \in KState, NEW p \in Proc, NEW request \in {"T_STOP", "T_RESUME", "T_STEP"}
    PROVE  do_trace(s, p, request) \in KState /\ NoNewSender(s, do_trace(s, p, request))
  <1> DEFINE t == UnreadyIfFree(s, p)
             u == [t EXCEPT !.flags[p] = @ \cup {"P_STOP"}]
             v == [s EXCEPT !.flags[p] = @ \ {"P_STOP"}]
  <1>1. t \in KState /\ SchedOnly(s, t) /\ "P_STOP" \in Flag
    BY IfFreeType DEF Flag
  <1> HIDE DEF t
  <1>2. u \in KState
    BY <1>1 DEF KState
  <1>3. u.sendto = s.sendto /\ \A x \in Proc : "SENDING" \in u.flags[x] => "SENDING" \in s.flags[x]
    BY <1>1 DEF KState, SchedOnly
  <1> HIDE DEF u
  <1>4. NoNewSender(s, u)
    BY <1>3 DEF NoNewSender, Sender
  <1>5. v \in KState /\ NoNewSender(s, v)
    BY ClearFlags
  <1> HIDE DEF v
  <1>6. ReadyIfFree(v, p) \in KState /\ NoNewSender(s, ReadyIfFree(v, p))
    BY <1>5, IfFreeType, SchedNoNewSender, NoNewSenderTrans
  <1>7. do_trace(s, p, request) \in {s, u, ReadyIfFree(v, p)}
    BY DEF do_trace, u, v, t
  <1>8. NoNewSender(s, s)
    BY DEF NoNewSender
  <1> QED BY <1>2, <1>4, <1>6, <1>7, <1>8

-----------------------------------------------------------------------------
(* The system starts well typed, with nobody sending. *)
LEMMA InitType == Init => TypeOK /\ NoSendCycle
  <1> SUFFICES ASSUME Init PROVE TypeOK /\ NoSendCycle
    OBVIOUS
  <1> DEFINE tasks == DriverTab \o <<CLOCK, SYSTASK>>
             prio  == [p \in Proc |-> IF p = IDLE THEN "IDLE"
                                      ELSE IF p \in Task THEN "TASK"
                                      ELSE IF p \in Server THEN "SERVER"
                                      ELSE IF p = INIT THEN "USER" ELSE "NONE"]
             rdy   == [q \in Queue |-> IF q = TASK_Q THEN tasks
                                       ELSE IF q = SERVER_Q THEN <<MM, FS>> ELSE <<INIT>>]
             mess  == CHOOSE m \in ClientMsg : TRUE
  <1>1. DriverTab \in Seq(Proc)
    BY ConstAssumption DEF Proc, Task, Driver
  <1>2. tasks \in Seq(Proc) /\ tasks[1] \in Proc
    <2>1. <<CLOCK, SYSTASK>> \in Seq(Proc)
      BY Members
    <2> QED BY <1>1, <2>1
  <1>3. INIT \in Proc
    BY ConstAssumption DEF Proc, User, INIT, LOW_USER
  <1>4. prio \in PrioMap
    BY DEF PrioMap, Prio
  <1>5. rdy \in [Queue -> Seq(Proc)]
    <2>1. <<MM, FS>> \in Seq(Proc) /\ <<INIT>> \in Seq(Proc)
      BY <1>3, Members
    <2> QED BY <1>2, <2>1
  <1>6. mess \in Msg
    BY ConstAssumption, Messages
  <1>7. k = [flags     |-> [p \in Proc |-> {}],
             prio      |-> prio,
             getfrom   |-> [p \in Proc |-> MM],
             sendto    |-> [p \in Proc |-> MM],
             callerq   |-> [p \in Proc |-> <<>>],
             m_source  |-> [p \in Proc |-> MM],
             mess      |-> [p \in Proc |-> mess],
             intblk    |-> [p \in Proc |-> FALSE],
             pending   |-> [p \in Proc |-> {}],
             pendcount |-> [p \in Proc |-> 0],
             sig_procs |-> 0,
             rdy       |-> rdy,
             proc_ptr  |-> tasks[1],
             bill_ptr  |-> IDLE,
             panic     |-> FALSE]
    BY DEF Init
  <1> HIDE DEF tasks, prio, rdy, mess
  <1>8. TypeOK
    BY <1>2, <1>4, <1>5, <1>6, <1>7, Members DEF TypeOK, KState
  <1>9. Sender(k) = {}
    BY <1>7 DEF Sender
  <1> QED BY <1>8, <1>9 DEF NoSendCycle, Acyclic

(* One step per action of Next. *)
LEMMA NextType ==
    ASSUME TypeOK, [Next]_k
    PROVE  TypeOK' /\ (NoSendCycle => NoSendCycle')
  <1> USE DEF TypeOK, NoSendCycle
  <1>1. CASE UNCHANGED k
    BY <1>1
  <1>2. ASSUME NEW fn \in Func, NEW x \in Proc \cup {ANY}, NEW m \in ClientMsg, SysCall(fn, x, m)
        PROVE  TypeOK' /\ (NoSendCycle => NoSendCycle')
    BY <1>2, CallType DEF SysCall
  <1>3. ASSUME NEW p \in Driver \cup {CLOCK}, Interrupt(p)
        PROVE  TypeOK' /\ (NoSendCycle => NoSendCycle')
    BY <1>3, Members, InterruptType, FewerAcyclic DEF Interrupt
  <1>4. ASSUME NEW p \in User, NEW sig \in Sig, TaskSignal(p, sig) \/ SysKill(p, sig)
        PROVE  TypeOK' /\ (NoSendCycle => NoSendCycle')
    BY <1>4, Members, CauseType DEF TaskSignal, SysKill
  <1>5. ASSUME NEW sig \in Sig, Exception(sig)
        PROVE  TypeOK' /\ (NoSendCycle => NoSendCycle')
    <2>1. k.proc_ptr \in Proc
      BY DEF KState
    <2> QED BY <1>5, <2>1, CauseType DEF Exception
  <1>6. CASE ClockSched
    BY <1>6, SchedType, SchedNoNewSender, FewerAcyclic DEF ClockSched
  <1>7. ASSUME NEW parent \in User, NEW child \in User, SysFork(parent, child)
        PROVE  TypeOK' /\ (NoSendCycle => NoSendCycle')
    <2>1. "SENDING" \notin k.flags[parent]
      BY <1>7 DEF SysFork, Waiting
    <2> QED BY <1>7, <2>1, ForkType, FewerAcyclic DEF SysFork
  <1>8. ASSUME NEW p \in User, SysNewmap(p)
        PROVE  TypeOK' /\ (NoSendCycle => NoSendCycle')
    BY <1>8, Members, NewmapType, FewerAcyclic DEF SysNewmap
  <1>9. ASSUME NEW p \in User, NEW traced \in BOOLEAN, NEW sigtrap \in Sig,
               SysExec(p, traced, sigtrap)
        PROVE  TypeOK' /\ (NoSendCycle => NoSendCycle')
    BY <1>9, Members, ExecType DEF SysExec
  <1>10. ASSUME NEW p \in User, SysXit(p)
         PROVE  TypeOK' /\ (NoSendCycle => NoSendCycle')
    BY <1>10, XitType, FewerAcyclic DEF SysXit
  <1>11. ASSUME NEW p \in User, SysEndsig(p)
         PROVE  TypeOK' /\ (NoSendCycle => NoSendCycle')
    BY <1>11, Members, EndsigType, FewerAcyclic DEF SysEndsig
  <1>12. ASSUME NEW p \in User, NEW request \in {"T_STOP", "T_RESUME", "T_STEP"},
                SysTrace(p, request)
         PROVE  TypeOK' /\ (NoSendCycle => NoSendCycle')
    BY <1>12, Members, TraceType, FewerAcyclic DEF SysTrace
  <1> QED BY <1>1, <1>2, <1>3, <1>4, <1>5, <1>6, <1>7, <1>8, <1>9, <1>10, <1>11, <1>12 DEF Next

(* Whatever the processes do, the process table stays well formed: every   *)
(* pointer points to a slot, only user slots are freed and reused.         *)
THEOREM KernelTypeCorrect == Spec => []TypeOK
  <1>1. Init => TypeOK
    BY InitType
  <1>2. TypeOK /\ [Next]_k => TypeOK'
    BY NextType
  <1> QED BY <1>1, <1>2, PTL DEF Spec

(* mini_send()'s ELOCKED check keeps blocked senders free of cycles for    *)
(* every call graph in which nobody sends to itself; so the loop that      *)
(* makes the check always ends.                                            *)
THEOREM SendersNeverDeadlock == Spec => []NoSendCycle
  <1>1. Init => TypeOK /\ NoSendCycle
    BY InitType
  <1>2. TypeOK /\ NoSendCycle /\ [Next]_k => TypeOK' /\ NoSendCycle'
    BY NextType
  <1> QED BY <1>1, <1>2, PTL DEF Spec

-----------------------------------------------------------------------------
(***************************************************************************)
(* The other safety invariants.                                            *)
(*                                                                         *)
(* The invariants speak of different parts of the process table, but none  *)
(* is inductive alone: who may be put on a ready queue depends on flags    *)
(* that message passing and signals both set.  Good is the conjunction     *)
(* that every kernel function preserves; Runs and Told are broken inside a *)
(* call, between mini_send() and mini_rec() or until inform() has run, and *)
(* hold again when it returns.                                             *)
(***************************************************************************)
(* The list l holds the members of S, each once. *)
Line(l, S) == /\ Elems(l) = S
              /\ \A i, j \in 1 .. Len(l) : l[i] = l[j] => i = j

(* Ready queues hold the processes that may run ... *)
Live(s, p) == p \in Proc \ NeverRun /\ s.flags[p] = {} /\ s.prio[p] # "NONE"
On(s, q)   == {p \in Proc : Live(s, p) /\ QueueOf(s, p) = q}
Linked(s)  == \A q \in Queue : Line(s.rdy[q], On(s, q))

(* ... and the first of them runs. *)
First(rdy) == IF rdy[TASK_Q] # <<>> THEN Head(rdy[TASK_Q])
              ELSE IF rdy[SERVER_Q] # <<>> THEN Head(rdy[SERVER_Q])
              ELSE IF rdy[USER_Q] # <<>> THEN Head(rdy[USER_Q]) ELSE IDLE
Runs(s)    == s.proc_ptr = First(s.rdy)

(* A task or server can run. *)
Busy(s)    == s.rdy[TASK_Q] # <<>> \/ s.rdy[SERVER_Q] # <<>>

(* Caller queues hold the senders of their process. *)
Queued(s)  == \A d \in Proc : Line(s.callerq[d], {p \in Sender(s) : s.sendto[p] = d})

(* A free slot has no flags; only user processes have a signal, a stop or  *)
(* a missing map to wait for; the pseudo-processes never block.            *)
Kinds(s) ==
    /\ \A p \in Proc : s.prio[p] = "NONE" => s.flags[p] = {}
    /\ \A p \in Proc \ User : s.flags[p] \subseteq {"SENDING", "RECEIVING"}
    /\ \A p \in NeverRun : s.flags[p] = {}

(* Who is blocked sending waits for a task or server, and in the second    *)
(* half of a BOTH for the reply of that one.                               *)
Targets(s) ==
    \A p \in Sender(s) : /\ s.sendto[p] \notin User \cup {HARDWARE}
                         /\ "RECEIVING" \in s.flags[p] => s.getfrom[p] = s.sendto[p]

(* The three records of signals agree. *)
Signed(s) ==
    \A p \in Proc : /\ s.pending[p] # {} <=> "PENDING" \in s.flags[p]
                    /\ s.pendcount[p] > 0 <=> "SIG_PENDING" \in s.flags[p]
                    /\ "PENDING" \in s.flags[p] => isuserp(s, p) /\ "SIG_PENDING" \in s.flags[p]

Counted(s) == s.sig_procs = Cardinality(Pending(s))

(* No task sleeps on an interrupt that has come. *)
Heard(s) ==
    \A p \in Driver \cup {CLOCK} :
        "RECEIVING" \in s.flags[p] /\ isrxhardware(s.getfrom[p]) => ~s.intblk[p]

(* MM waits for new work. *)
Idling(s) == "RECEIVING" \in s.flags[MM] /\ s.getfrom[MM] = ANY
Told(s)   == Idling(s) => Pending(s) = {}

(* Sound has the parts that do not depend on the ready queues. *)
Sound(s)  == /\ Kinds(s) /\ Targets(s) /\ Queued(s) /\ Signed(s) /\ Counted(s) /\ Heard(s)
             /\ ~s.panic
Good(s)   == s \in KState /\ Sound(s) /\ Linked(s)

Steady(s) == Good(s) /\ Runs(s) /\ Told(s)
Inv       == Steady(k)

-----------------------------------------------------------------------------
(* Lists. *)

(* A list with a new element at its end. *)
LEMMA LineAppend ==
    ASSUME NEW T, NEW l \in Seq(T), NEW p \in T, NEW S, Line(l, S), p \notin S
    PROVE  Line(Append(l, p), S \cup {p})
  <1> DEFINE a == Append(l, p)
  <1>1. /\ Len(a) = Len(l) + 1 /\ Len(l) \in Nat /\ a[Len(l) + 1] = p
        /\ \A i \in 1 .. Len(l) : a[i] = l[i]
    OBVIOUS
  <1>2. \A i \in 1 .. Len(a) : i \in 1 .. Len(l) \/ i = Len(l) + 1
    BY <1>1
  <1> HIDE DEF a
  <1>3. Elems(a) = S \cup {p}
    BY <1>1, <1>2 DEF Line, Elems
  <1>4. \A i \in 1 .. Len(l) : l[i] # p
    BY DEF Line, Elems
  <1>5. \A i, j \in 1 .. Len(a) : a[i] = a[j] => i = j
    BY <1>1, <1>2, <1>4 DEF Line
  <1> QED BY <1>3, <1>5 DEF Line, a

(* A list with a new element in front. *)
LEMMA LinePush ==
    ASSUME NEW T, NEW l \in Seq(T), NEW p \in T, NEW S, Line(l, S), p \notin S
    PROVE  Line(<<p>> \o l, S \cup {p})
  <1> DEFINE a == <<p>> \o l
  <1>1. /\ Len(a) = Len(l) + 1 /\ Len(l) \in Nat /\ a[1] = p
        /\ \A i \in 1 .. Len(l) : a[i + 1] = l[i]
    OBVIOUS
  <1>2. \A i \in 1 .. Len(a) : i = 1 \/ (i - 1 \in 1 .. Len(l) /\ a[i] = l[i - 1])
    BY <1>1
  <1> HIDE DEF a
  <1>3. Elems(a) = S \cup {p}
    <2>1. \A x \in S : \E i \in 1 .. Len(l) : a[i + 1] = x /\ i + 1 \in 1 .. Len(a)
      BY <1>1 DEF Line, Elems
    <2>2. S \cup {p} \subseteq Elems(a)
      BY <1>1, <2>1 DEF Elems
    <2>3. Elems(a) \subseteq S \cup {p}
      BY <1>1, <1>2 DEF Line, Elems
    <2> QED BY <2>2, <2>3
  <1>4. \A i \in 1 .. Len(l) : l[i] # p
    BY DEF Line, Elems
  <1>5. ASSUME NEW i \in 1 .. Len(a), NEW j \in 1 .. Len(a), a[i] = a[j]
        PROVE  i = j
    <2>1. (i = 1) <=> (j = 1)
      BY <1>1, <1>2, <1>4, <1>5
    <2>2. i # 1 => i - 1 = j - 1
      BY <1>2, <1>5, <2>1 DEF Line
    <2> QED BY <1>1, <2>1, <2>2
  <1> QED BY <1>3, <1>5 DEF Line, a

(* Unlink() goes by the first place of the element. *)
LEMMA UnlinkFirst ==
    ASSUME NEW T, NEW l \in Seq(T), NEW p, p \in Elems(l)
    PROVE  \E i \in 1 .. Len(l) :
               /\ l[i] = p
               /\ Unlink(l, p) = [j \in 1 .. Len(l) - 1 |-> IF j < i THEN l[j] ELSE l[j + 1]]
  <1> DEFINE W    == {n \in 1 .. Len(l) : l[n] = p}
             F(n) == l[n] = p /\ \A j \in 1 .. n - 1 : l[j] # p
             i    == CHOOSE n \in 1 .. Len(l) : F(n)
  <1>1. \E n \in W : \A m \in W : n <= m
    <2>1. W \in SUBSET Nat /\ W # {}
      BY DEF Elems
    <2> QED BY <2>1, SmallestNumber
  <1>2. \E n \in 1 .. Len(l) : F(n)
    BY <1>1
  <1>3. i \in 1 .. Len(l) /\ l[i] = p
    BY <1>2
  <1>4. Unlink(l, p) = [j \in 1 .. Len(l) - 1 |-> IF j < i THEN l[j] ELSE l[j + 1]]
    BY DEF Unlink
  <1> QED BY <1>3, <1>4

(* The head stays unless it is what is unlinked. *)
LEMMA UnlinkHead ==
    ASSUME NEW T, NEW l \in Seq(T), NEW p, p \in Elems(l), p # Head(l)
    PROVE  Unlink(l, p) # <<>> /\ Head(Unlink(l, p)) = Head(l)
  <1>1. PICK i \in 1 .. Len(l) :
            /\ l[i] = p
            /\ Unlink(l, p) = [j \in 1 .. Len(l) - 1 |-> IF j < i THEN l[j] ELSE l[j + 1]]
    BY UnlinkFirst
  <1> DEFINE a == Unlink(l, p)
  <1>2. Head(l) = l[1] /\ Len(l) \in Nat
    BY DEF Elems
  <1>3. i > 1 /\ 1 \in 1 .. Len(l) - 1
    BY <1>1, <1>2
  <1>4. a[1] = l[1]
    BY <1>1, <1>3
  <1>5. a \in Seq(T)
    BY UnlinkType
  <1>6. Len(a) = Len(l) - 1
    <2>1. DOMAIN a = 1 .. Len(l) - 1 /\ Len(l) - 1 \in Nat
      BY <1>1, <1>2, <1>3
    <2>2. DOMAIN a = 1 .. Len(a) /\ Len(a) \in Nat
      BY <1>5
    <2> QED BY <2>1, <2>2
  <1> QED BY <1>2, <1>3, <1>4, <1>5, <1>6

(* Taking an element off leaves the others, each once. *)
LEMMA LineUnlink ==
    ASSUME NEW T, NEW l \in Seq(T), NEW S, Line(l, S), NEW p \in S
    PROVE  Line(Unlink(l, p), S \ {p})
  <1> DEFINE a == Unlink(l, p)
  <1>0. p \in Elems(l)
    BY DEF Line
  <1>1. PICK i \in 1 .. Len(l) :
            /\ l[i] = p
            /\ a = [j \in 1 .. Len(l) - 1 |-> IF j < i THEN l[j] ELSE l[j + 1]]
    BY <1>0, UnlinkFirst
  <1>2. a \in Seq(T) /\ Len(l) \in Nat
    BY <1>0, UnlinkType
  <1>3. Len(a) = Len(l) - 1
    <2>1. DOMAIN a = 1 .. Len(l) - 1 /\ Len(l) - 1 \in Nat
      BY <1>1, <1>2
    <2>2. DOMAIN a = 1 .. Len(a) /\ Len(a) \in Nat
      BY <1>2
    <2> QED BY <2>1, <2>2
  <1>4. \A j \in 1 .. Len(a) : a[j] = IF j < i THEN l[j] ELSE l[j + 1]
    BY <1>1, <1>3
  <1> HIDE DEF a
  <1>5. \A j \in 1 .. Len(l) : j # i => l[j] # p
    BY <1>1 DEF Line
  <1>6. \A j \in 1 .. Len(a) : j \in 1 .. Len(l) /\ j + 1 \in 1 .. Len(l)
    BY <1>2, <1>3
  <1>7. \A j \in 1 .. Len(a) : a[j] \in S \ {p}
    <2>1. \A j \in 1 .. Len(l) : l[j] \in S
      BY DEF Line, Elems
    <2> QED BY <1>1, <1>4, <1>5, <1>6, <2>1
  <1>8. ASSUME NEW x \in S \ {p} PROVE \E j \in 1 .. Len(a) : a[j] = x
    <2>1. PICK n \in 1 .. Len(l) : l[n] = x
      BY DEF Line, Elems
    <2>2. n # i
      BY <1>1, <2>1
    <2>3. CASE n < i
      <3>1. n \in 1 .. Len(a) /\ a[n] = l[n]
        BY <1>2, <1>3, <1>4, <2>3
      <3> QED BY <2>1, <3>1
    <2>4. CASE n > i
      <3>1. n - 1 \in 1 .. Len(a) /\ ~(n - 1 < i) /\ (n - 1) + 1 = n
        BY <1>2, <1>3, <2>4
      <3>2. a[n - 1] = l[n]
        BY <1>4, <3>1
      <3> QED BY <2>1, <3>1, <3>2
    <2> QED BY <2>2, <2>3, <2>4
  <1>9. ASSUME NEW m \in 1 .. Len(a), NEW n \in 1 .. Len(a), a[m] = a[n]
        PROVE  m = n
    <2>1. \A x, y \in 1 .. Len(l) : l[x] = l[y] => x = y
      BY DEF Line
    <2>2. /\ a[m] = IF m < i THEN l[m] ELSE l[m + 1]
          /\ a[n] = IF n < i THEN l[n] ELSE l[n + 1]
      BY <1>4
    <2>3. /\ m \in 1 .. Len(l) /\ m + 1 \in 1 .. Len(l)
          /\ n \in 1 .. Len(l) /\ n + 1 \in 1 .. Len(l)
      BY <1>6
    <2>4. /\ l[m] = l[n] => m = n
          /\ l[m + 1] = l[n + 1] => m + 1 = n + 1
          /\ l[m] = l[n + 1] => m = n + 1
          /\ l[m + 1] = l[n] => m + 1 = n
      BY <2>1, <2>3
    <2>5. m \in Int /\ n \in Int /\ i \in Int
      BY <1>1, <1>2, <1>3
    <2>6. CASE m < i /\ n < i
      BY <1>9, <2>2, <2>4, <2>6
    <2>7. CASE m < i /\ ~(n < i)
      <3>1. l[m] = l[n + 1]
        BY <1>9, <2>2, <2>7
      <3> QED BY <2>4, <2>5, <2>7, <3>1
    <2>8. CASE ~(m < i) /\ n < i
      <3>1. l[m + 1] = l[n]
        BY <1>9, <2>2, <2>8
      <3> QED BY <2>4, <2>5, <2>8, <3>1
    <2>9. CASE ~(m < i) /\ ~(n < i)
      <3>1. l[m + 1] = l[n + 1]
        BY <1>9, <2>2, <2>9
      <3> QED BY <2>4, <2>5, <3>1
    <2> QED BY <2>6, <2>7, <2>8, <2>9
  <1>10. Elems(a) = S \ {p}
    BY <1>7, <1>8 DEF Elems
  <1> QED BY <1>9, <1>10 DEF Line, a

(* sched() moves the head to the end. *)
LEMMA LineRotate ==
    ASSUME NEW T, NEW l \in Seq(T), NEW S, Line(l, S), l # <<>>
    PROVE  Line(Append(Tail(l), Head(l)), S)
  <1> DEFINE a == Append(Tail(l), Head(l))
  <1>1. /\ Len(a) = Len(l) /\ Len(l) \in Nat /\ Len(l) > 0 /\ a[Len(l)] = l[1]
        /\ \A i \in 1 .. Len(l) - 1 : a[i] = l[i + 1]
    OBVIOUS
  <1> HIDE DEF a
  <1>2. \A i \in 1 .. Len(a) : \/ i = Len(l) /\ a[i] = l[1]
                               \/ i # Len(l) /\ i + 1 \in 1 .. Len(l) /\ a[i] = l[i + 1]
    BY <1>1
  <1>3. \A x \in S : \E i \in 1 .. Len(a) : a[i] = x
    <2>1. SUFFICES ASSUME NEW n \in 1 .. Len(l) PROVE \E i \in 1 .. Len(a) : a[i] = l[n]
      BY DEF Line, Elems
    <2>2. CASE n = 1
      BY <1>1, <2>2
    <2>3. CASE n # 1
      <3>1. n - 1 \in 1 .. Len(l) - 1 /\ (n - 1) + 1 = n
        BY <1>1, <2>3
      <3>2. a[n - 1] = l[n] /\ n - 1 \in 1 .. Len(a)
        BY <1>1, <3>1
      <3> QED BY <3>2
    <2> QED BY <2>2, <2>3
  <1>4. \A i \in 1 .. Len(a) : a[i] \in S
    BY <1>1, <1>2 DEF Line, Elems
  <1>5. ASSUME NEW i \in 1 .. Len(a), NEW j \in 1 .. Len(a), a[i] = a[j]
        PROVE  i = j
    BY <1>1, <1>2, <1>5 DEF Line
  <1>6. Elems(a) = S
    BY <1>3, <1>4 DEF Elems
  <1> QED BY <1>5, <1>6 DEF Line, a

-----------------------------------------------------------------------------
(* Scheduling. *)

(* Tasks, servers and user processes have slots of their own. *)
LEMMA Slots ==
    /\ \A p \in User : p \notin Task /\ p \notin Server /\ p \notin NeverRun
    /\ \A p \in Server : p \notin Task /\ p \notin NeverRun /\ p \in Proc
    /\ \A p \in Driver \cup {CLOCK, SYSTASK} :
           p \notin NeverRun /\ p \in Task /\ p \in Proc /\ p \notin User /\ p \notin Server
    /\ ANY \notin Proc /\ HARDWARE \in Task /\ IDLE \in Task
    /\ NeverRun \subseteq Proc
  <1> USE ConstAssumption DEF Proc, User, Task, Driver, Server, NeverRun, MM, FS, IDLE, CLOCK, SYSTASK,
                              HARDWARE, LOW_USER, ANY
  <1>1. \A p \in User : p \notin Task /\ p \notin Server /\ p \notin NeverRun
    OBVIOUS
  <1>2. \A p \in Server : p \notin Task /\ p \notin NeverRun /\ p \in Proc
    OBVIOUS
  <1>3. \A p \in Driver \cup {CLOCK, SYSTASK} :
           p \notin NeverRun /\ p \in Task /\ p \in Proc /\ p \notin User /\ p \notin Server
    OBVIOUS
  <1>4. ANY \notin Proc /\ HARDWARE \in Task /\ IDLE \in Task
    OBVIOUS
  <1>5. NeverRun \subseteq Proc
    OBVIOUS
  <1> QED BY <1>1, <1>2, <1>3, <1>4, <1>5

(* The priority of a slot follows from its number, if it is in use. *)
LEMMA Ranks ==
    ASSUME NEW s \in KState, NEW p \in Proc
    PROVE  /\ p \in Task \ {IDLE} <=> istaskp(s, p)
           /\ p \in Server <=> isservp(s, p)
           /\ isuserp(s, p) => p \in User
           /\ s.prio[p] = "NONE" => p \in User
           /\ p \in User => isuserp(s, p) \/ isemptyp(s, p)
           /\ QueueOf(s, p) \in Queue
  <1>1. s.prio \in PrioMap
    BY DEF KState
  <1>2. s.prio[p] \in IF p = IDLE THEN {"IDLE"} ELSE IF p \in Task THEN {"TASK"}
                      ELSE IF p \in Server THEN {"SERVER"} ELSE {"USER", "NONE"}
    BY <1>1 DEF PrioMap
  <1>3. IDLE \notin Server
    BY DEF IDLE, Server, MM, FS
  <1> QED BY <1>2, <1>3, Slots, Members DEF Proc, istaskp, isservp, isuserp, isemptyp, QueueOf

(* pick_proc() makes the head of the highest queue run and moves nobody. *)
LEMMA PickFirst ==
    ASSUME NEW s \in KState
    PROVE  /\ pick_proc(s).rdy = s.rdy
           /\ pick_proc(s).proc_ptr = First(s.rdy)
  BY DEF pick_proc, First, KState

(* What ready() does to the queues. *)
LEMMA ReadyQueues ==
    ASSUME NEW s \in KState, NEW p \in Proc, NEW q \in Queue
    PROVE  ready(s, p).rdy[q] = IF q # QueueOf(s, p) THEN s.rdy[q]
                                ELSE IF q = USER_Q THEN <<p>> \o s.rdy[q]
                                ELSE Append(s.rdy[q], p)
  <1>1. s.rdy \in [Queue -> Seq(Proc)]
    BY DEF KState
  <1>2. ready(s, p).rdy = IF istaskp(s, p) THEN [s.rdy EXCEPT ![TASK_Q] = Append(@, p)]
                          ELSE IF isservp(s, p) THEN [s.rdy EXCEPT ![SERVER_Q] = Append(@, p)]
                          ELSE [s.rdy EXCEPT ![USER_Q] = <<p>> \o @]
    BY DEF ready, KState
  <1> QED BY <1>1, <1>2 DEF QueueOf, Queue, TASK_Q, SERVER_Q, USER_Q

(* What unready() does to the queues. *)
LEMMA UnreadyQueues ==
    ASSUME NEW s \in KState, NEW p \in Proc, NEW q \in Queue
    PROVE  unready(s, p).rdy[q] = IF q = QueueOf(s, p) /\ p \in Elems(s.rdy[q])
                                  THEN Unlink(s.rdy[q], p) ELSE s.rdy[q]
  <1> DEFINE z == QueueOf(s, p)
             r == [s EXCEPT !.rdy[z] = Unlink(@, p)]
  <1>1. z \in Queue
    BY Ranks
  <1> HIDE DEF z
  <1>2. CASE p \notin Elems(s.rdy[z])
    BY <1>2 DEF unready, z
  <1>3. CASE p \in Elems(s.rdy[z])
    <2>1. s.rdy \in [Queue -> Seq(Proc)]
      BY DEF KState
    <2>2. Unlink(s.rdy[z], p) \in Seq(Proc)
      BY <1>1, <1>3, <2>1, UnlinkType
    <2>3. r \in KState /\ r.rdy = [s.rdy EXCEPT ![z] = Unlink(@, p)]
      BY <1>1, <2>2 DEF KState
    <2> HIDE DEF r
    <2>4. unready(s, p).rdy = r.rdy
      <3>1. unready(s, p) = r \/ unready(s, p) = pick_proc(r)
        BY <1>3 DEF unready, z, r
      <3> QED BY <2>3, <3>1, PickFirst
    <2> QED BY <1>1, <1>3, <2>1, <2>3, <2>4 DEF z
  <1> QED BY <1>2, <1>3

(* ready() links a process that was not live and is now. *)
LEMMA ReadyLinked ==
    ASSUME NEW s, Linked(s), NEW u \in KState, NEW p \in Proc \ NeverRun,
           u.rdy = s.rdy, u.prio = s.prio, u.prio[p] # "NONE", ~Live(s, p),
           \A x \in Proc : x # p => u.flags[x] = s.flags[x]
    PROVE  Linked(ReadyIfFree(u, p))
  <1> DEFINE t == ReadyIfFree(u, p)
  <1>1. t.flags = u.flags /\ t.prio = u.prio
    BY IfFreeType DEF SchedOnly
  <1>2. \A x \in Proc : QueueOf(t, x) = QueueOf(s, x) /\ QueueOf(u, x) = QueueOf(s, x)
    BY <1>1 DEF QueueOf, istaskp, isservp
  <1>3. \A x \in Proc : x # p => (Live(t, x) <=> Live(s, x))
    BY <1>1 DEF Live
  <1>4. Live(t, p) <=> u.flags[p] = {}
    BY <1>1 DEF Live
  <1> SUFFICES ASSUME NEW q \in Queue PROVE Line(t.rdy[q], On(t, q))
    BY DEF Linked
  <1>5. Line(s.rdy[q], On(s, q)) /\ s.rdy[q] \in Seq(Proc) /\ p \notin On(s, q)
    BY DEF Linked, On, KState
  <1>6. CASE u.flags[p] = {} /\ q = QueueOf(s, p)
    <2>1. On(t, q) = On(s, q) \cup {p}
      BY <1>2, <1>3, <1>4, <1>6 DEF On
    <2>2. t = ready(u, p) /\ q = QueueOf(u, p)
      BY <1>2, <1>6 DEF ReadyIfFree
    <2>3. t.rdy[q] = <<p>> \o s.rdy[q] \/ t.rdy[q] = Append(s.rdy[q], p)
      <3>1. u.rdy = s.rdy
        BY DEF SchedOnly
      <3>2. ready(u, p).rdy[q] = <<p>> \o u.rdy[q] \/ ready(u, p).rdy[q] = Append(u.rdy[q], p)
        BY <2>2, ReadyQueues
      <3> HIDE DEF t
      <3> QED BY <2>2, <3>1, <3>2, Zenon
    <2>4. Line(<<p>> \o s.rdy[q], On(t, q))
      BY <1>5, <2>1, LinePush
    <2>5. Line(Append(s.rdy[q], p), On(t, q))
      BY <1>5, <2>1, LineAppend
    <2> QED BY <2>3, <2>4, <2>5
  <1>7. CASE u.flags[p] = {} /\ q # QueueOf(s, p)
    <2>1. On(t, q) = On(s, q)
      BY <1>2, <1>3, <1>5, <1>7 DEF On
    <2>2. t = ready(u, p) /\ q # QueueOf(u, p) /\ u.rdy = s.rdy
      BY <1>2, <1>7 DEF ReadyIfFree
    <2>3. ready(u, p).rdy[q] = u.rdy[q]
      BY <2>2, ReadyQueues
    <2> QED BY <1>5, <2>1, <2>2, <2>3
  <1>8. CASE u.flags[p] # {}
    <2>1. On(t, q) = On(s, q)
      BY <1>2, <1>3, <1>4, <1>5, <1>8 DEF On
    <2>2. t.rdy[q] = s.rdy[q]
      BY <1>8 DEF ReadyIfFree
    <2> QED BY <1>5, <2>1, <2>2
  <1> QED BY <1>6, <1>7, <1>8

(* unready() unlinks a process that is about to get a flag, or to die. *)
LEMMA UnreadyLinked ==
    ASSUME NEW s \in KState, Linked(s), NEW p \in Proc, NEW t,
           t.rdy = UnreadyIfFree(s, p).rdy, ~Live(t, p),
           \A x \in Proc : x # p => t.flags[x] = s.flags[x] /\ t.prio[x] = s.prio[x]
    PROVE  Linked(t)
  <1>1. \A x \in Proc : x # p => QueueOf(t, x) = QueueOf(s, x) /\ (Live(t, x) <=> Live(s, x))
    BY DEF QueueOf, istaskp, isservp, Live
  <1>2. \A q \in Queue : On(t, q) = On(s, q) \ {p}
    BY <1>1 DEF On
  <1> SUFFICES ASSUME NEW q \in Queue PROVE Line(t.rdy[q], On(t, q))
    BY DEF Linked
  <1>3. Line(s.rdy[q], On(s, q)) /\ s.rdy[q] \in Seq(Proc)
    BY DEF Linked, KState
  <1>4. CASE p \in On(s, q)
    <2>1. s.flags[p] = {} /\ q = QueueOf(s, p) /\ p \in Elems(s.rdy[q])
      BY <1>3, <1>4 DEF On, Live, Line
    <2>2. t.rdy[q] = Unlink(s.rdy[q], p)
      BY <2>1, UnreadyQueues DEF UnreadyIfFree
    <2> QED BY <1>2, <1>3, <1>4, <2>2, LineUnlink
  <1>5. CASE p \notin On(s, q)
    <2>1. p \notin Elems(s.rdy[q])
      BY <1>3, <1>5 DEF Line
    <2>2. t.rdy[q] = s.rdy[q]
      BY <2>1, UnreadyQueues DEF UnreadyIfFree
    <2>3. On(t, q) = On(s, q)
      BY <1>2, <1>5
    <2> QED BY <1>3, <2>2, <2>3
  <1> QED BY <1>4, <1>5

(* Queues and flags that nobody touched agree as before. *)
LEMMA SameLinked ==
    ASSUME NEW s, Linked(s), NEW t, t.rdy = s.rdy, t.prio = s.prio,
           \A p \in Proc \ NeverRun : (t.flags[p] = {} <=> s.flags[p] = {}) \/ t.prio[p] = "NONE"
    PROVE  Linked(t)
  <1>1. \A q \in Queue : On(t, q) = On(s, q)
    BY DEF On, Live, QueueOf, istaskp, isservp
  <1> QED BY <1>1 DEF Linked

(* The heads of lists that have got a new element. *)
LEMMA Ends ==
    ASSUME NEW T, NEW l \in Seq(T), NEW p \in T
    PROVE  /\ Append(l, p) # <<>> /\ <<p>> \o l # <<>>
           /\ l # <<>> => Head(Append(l, p)) = Head(l)
           /\ l = <<>> => Head(Append(l, p)) = p
  <1>1. Len(Append(l, p)) = Len(l) + 1 /\ Len(<<p>> \o l) = Len(l) + 1 /\ Len(l) \in Nat
    OBVIOUS
  <1>2. Append(l, p) # <<>> /\ <<p>> \o l # <<>>
    BY <1>1
  <1>3. l # <<>> => Head(Append(l, p)) = Head(l)
    OBVIOUS
  <1>4. l = <<>> => Head(Append(l, p)) = p
    OBVIOUS
  <1> QED BY <1>2, <1>3, <1>4

(* ready() keeps the right process running: a task takes over when no task *)
(* was ready; a server or user process must not be the only one.           *)
LEMMA ReadyRuns ==
    ASSUME NEW u \in KState, NEW p \in Proc, Runs(u), istaskp(u, p) \/ Busy(u)
    PROVE  /\ Runs(ReadyIfFree(u, p))
           /\ Busy(u) => Busy(ReadyIfFree(u, p))
  <1> DEFINE t == ready(u, p)
             z == QueueOf(u, p)
  <1>1. t.proc_ptr = IF istaskp(u, p) /\ u.rdy[TASK_Q] = <<>> THEN p ELSE u.proc_ptr
    BY DEF ready, KState
  <1>2. ASSUME NEW q \in Queue
        PROVE  /\ Append(u.rdy[q], p) # <<>> /\ <<p>> \o u.rdy[q] # <<>>
               /\ u.rdy[q] # <<>> => Head(Append(u.rdy[q], p)) = Head(u.rdy[q])
               /\ u.rdy[q] = <<>> => Head(Append(u.rdy[q], p)) = p
    <2>1. u.rdy[q] \in Seq(Proc)
      BY DEF KState
    <2> QED BY <2>1, Ends
  <1>3. /\ z \in Queue
        /\ \A q \in Queue : q # z => t.rdy[q] = u.rdy[q]
        /\ z # USER_Q => t.rdy[z] = Append(u.rdy[z], p)
        /\ z = USER_Q => t.rdy[z] = <<p>> \o u.rdy[z]
    BY ReadyQueues, Ranks, Zenon
  <1>4. istaskp(u, p) <=> z = TASK_Q
    BY DEF QueueOf, TASK_Q, SERVER_Q, USER_Q
  <1>5. TASK_Q # SERVER_Q /\ TASK_Q # USER_Q /\ SERVER_Q # USER_Q
    BY DEF TASK_Q, SERVER_Q, USER_Q
  <1> HIDE DEF t, z
  <1>6. \A q \in Queue : /\ u.rdy[q] # <<>> => t.rdy[q] # <<>>
                         /\ q # USER_Q /\ u.rdy[q] # <<>> => Head(t.rdy[q]) = Head(u.rdy[q])
    BY <1>2, <1>3, Zenon
  <1>7. Busy(u) => Busy(t)
    BY <1>6, Members, Zenon DEF Busy
  <1> SUFFICES Runs(t)
    BY <1>7 DEF ReadyIfFree, t
  <1>8. CASE istaskp(u, p) /\ u.rdy[TASK_Q] = <<>>
    <2>1. t.rdy[TASK_Q] # <<>> /\ Head(t.rdy[TASK_Q]) = p
      BY <1>2, <1>3, <1>4, <1>5, <1>8, Zenon
    <2>2. First(t.rdy) = p
      BY <2>1, Zenon DEF First
    <2> QED BY <1>1, <1>8, <2>2, Zenon DEF Runs
  <1>9. CASE u.rdy[TASK_Q] # <<>>
    <2>1. t.proc_ptr = u.proc_ptr /\ t.rdy[TASK_Q] # <<>> /\ Head(t.rdy[TASK_Q]) = Head(u.rdy[TASK_Q])
      BY <1>1, <1>5, <1>6, <1>9, Members
    <2>2. First(t.rdy) = Head(t.rdy[TASK_Q]) /\ First(u.rdy) = Head(u.rdy[TASK_Q])
      BY <1>9, <2>1, Zenon DEF First
    <2> QED BY <2>1, <2>2, Zenon DEF Runs
  <1>10. CASE ~istaskp(u, p) /\ u.rdy[TASK_Q] = <<>>
    <2>1. u.rdy[SERVER_Q] # <<>>
      BY <1>10 DEF Busy
    <2>2. t.rdy[TASK_Q] = <<>>
      BY <1>3, <1>4, <1>10, Members
    <2>3. t.proc_ptr = u.proc_ptr
      BY <1>1, <1>10
    <2>4. t.rdy[SERVER_Q] # <<>> /\ Head(t.rdy[SERVER_Q]) = Head(u.rdy[SERVER_Q])
      BY <1>5, <1>6, <2>1, Members
    <2>5. First(t.rdy) = Head(t.rdy[SERVER_Q]) /\ First(u.rdy) = Head(u.rdy[SERVER_Q])
      BY <1>10, <2>1, <2>2, <2>4, Zenon DEF First
    <2> QED BY <2>3, <2>4, <2>5, Zenon DEF Runs
  <1> QED BY <1>8, <1>9, <1>10

(* unready() picks another process if the head of a queue leaves it. *)
LEMMA UnreadyRuns ==
    ASSUME NEW s \in KState, NEW p \in Proc,
           \/ Runs(s)
           \/ /\ s.flags[p] = {} /\ p \in Elems(s.rdy[QueueOf(s, p)])
              /\ p = Head(s.rdy[QueueOf(s, p)]) /\ QueueOf(s, p) # TASK_Q
    PROVE  Runs(UnreadyIfFree(s, p))
  <1> DEFINE z == QueueOf(s, p)
             r == [s EXCEPT !.rdy[z] = Unlink(@, p)]
  <1>1. z \in Queue
    BY Ranks
  <1>2. s.rdy \in [Queue -> Seq(Proc)]
    BY DEF KState
  <1> HIDE DEF z
  <1>3. CASE s.flags[p] # {} \/ p \notin Elems(s.rdy[z])
    BY <1>3 DEF UnreadyIfFree, unready, z
  <1>4. CASE s.flags[p] = {} /\ p \in Elems(s.rdy[z])
    <2>1. Unlink(s.rdy[z], p) \in Seq(Proc)
      BY <1>1, <1>2, <1>4, UnlinkType
    <2>2. r \in KState /\ r.rdy = [s.rdy EXCEPT ![z] = Unlink(@, p)] /\ r.proc_ptr = s.proc_ptr
      BY <1>1, <2>1 DEF KState
    <2> HIDE DEF r
    <2>3. CASE p = Head(s.rdy[z]) /\ (z = TASK_Q => p = s.proc_ptr)
      <3>1. UnreadyIfFree(s, p) = pick_proc(r)
        BY <1>4, <2>3 DEF UnreadyIfFree, unready, z, r
      <3> QED BY <2>2, <3>1, PickFirst DEF Runs
    <2>4. CASE ~(p = Head(s.rdy[z]) /\ (z = TASK_Q => p = s.proc_ptr))
      <3>1. UnreadyIfFree(s, p) = r /\ Runs(s)
        BY <1>4, <2>4 DEF UnreadyIfFree, unready, z, r
      <3>2. s.rdy[z] # <<>>
        BY <1>1, <1>2, <1>4 DEF Elems
      <3>3. p # Head(s.rdy[z])
        BY <2>4, <3>1, <3>2 DEF Runs, First
      <3>4. Unlink(s.rdy[z], p) # <<>> /\ Head(Unlink(s.rdy[z], p)) = Head(s.rdy[z])
        BY <1>1, <1>2, <1>4, <3>3, UnlinkHead
      <3>5. \A q \in Queue : /\ r.rdy[q] = <<>> <=> s.rdy[q] = <<>>
                             /\ r.rdy[q] # <<>> => Head(r.rdy[q]) = Head(s.rdy[q])
        BY <1>2, <2>2, <3>2, <3>4
      <3>6. First(r.rdy) = First(s.rdy)
        BY <3>5, Members DEF First
      <3> QED BY <2>2, <3>1, <3>6 DEF Runs
    <2> QED BY <2>3, <2>4
  <1> QED BY <1>3, <1>4

(* The process that runs is live and the first of its queue, and the       *)
(* higher queues are empty.                                                *)
LEMMA Running ==
    ASSUME NEW s \in KState, Linked(s), Runs(s), s.proc_ptr # IDLE
    PROVE  /\ Live(s, s.proc_ptr)
           /\ s.proc_ptr \in Elems(s.rdy[QueueOf(s, s.proc_ptr)])
           /\ s.proc_ptr = Head(s.rdy[QueueOf(s, s.proc_ptr)])
           /\ s.proc_ptr \in Task \cup Server => Busy(s)
           /\ isuserp(s, s.proc_ptr) => ~Busy(s)
  <1> DEFINE c == s.proc_ptr
  <1>1. PICK q \in Queue : /\ s.rdy[q] # <<>> /\ c = Head(s.rdy[q])
                           /\ q = SERVER_Q => s.rdy[TASK_Q] = <<>>
                           /\ q = USER_Q => ~Busy(s)
    BY Members DEF Runs, First, Busy, TASK_Q, SERVER_Q, USER_Q
  <1>2. Line(s.rdy[q], On(s, q)) /\ s.rdy[q] \in Seq(Proc)
    BY <1>1 DEF Linked, KState
  <1>3. c \in Elems(s.rdy[q])
    BY <1>1, <1>2 DEF Elems
  <1>4. c \in Proc /\ Live(s, c) /\ QueueOf(s, c) = q
    BY <1>2, <1>3 DEF Line, On
  <1>5. c \in Task \cup Server => q # USER_Q
    BY <1>4, Ranks DEF QueueOf, TASK_Q, SERVER_Q, USER_Q, Live, NeverRun
  <1>6. isuserp(s, c) => q = USER_Q
    BY <1>4 DEF QueueOf, istaskp, isservp, isuserp
  <1>7. q # USER_Q => Busy(s)
    BY <1>1 DEF Busy, Queue
  <1> QED BY <1>1, <1>3, <1>4, <1>5, <1>6, <1>7

(* A task or server that may run is on one of the higher queues. *)
LEMMA LiveBusy ==
    ASSUME NEW s \in KState, Linked(s), NEW p \in Task \cup Server, Live(s, p)
    PROVE  Busy(s)
  <1>1. p \in Proc /\ QueueOf(s, p) \in {TASK_Q, SERVER_Q}
    BY Ranks DEF QueueOf, Live, NeverRun
  <1>2. p \in Elems(s.rdy[QueueOf(s, p)])
    BY <1>1, Ranks DEF Linked, Line, On
  <1>3. s.rdy[QueueOf(s, p)] # <<>>
    BY <1>2 DEF Elems
  <1> QED BY <1>1, <1>3 DEF Busy

-----------------------------------------------------------------------------
(* Changes of the process table that many functions make. *)

(* Only the flags of p change, to F. *)
Reflagged(s, t, p, F) == \A x \in Proc : t.flags[x] = IF x = p THEN F ELSE s.flags[x]

(* The queue of the user processes does not change. *)
SameUsers(s, t) == t.rdy[USER_Q] = s.rdy[USER_Q]

(* t differs from s only in that processes need to wait for less; messages *)
(* and the ready queues apart.                                             *)
Eased(s, t) ==
    /\ t.prio = s.prio /\ t.getfrom = s.getfrom /\ t.sendto = s.sendto /\ t.callerq = s.callerq
    /\ t.pending = s.pending /\ t.pendcount = s.pendcount /\ t.sig_procs = s.sig_procs
    /\ t.panic = s.panic
    /\ \A p \in Proc : /\ t.flags[p] \subseteq s.flags[p]
                       /\ s.flags[p] \ t.flags[p] \subseteq {"RECEIVING", "NO_MAP", "P_STOP"}
                       /\ t.intblk[p] => s.intblk[p]

(* To wait for less disturbs nothing. *)
LEMMA EasedSound ==
    ASSUME NEW s, NEW t, Eased(s, t), Sound(s)
    PROVE  Sound(t) /\ (Told(s) => Told(t))
  <1>1. /\ t.prio = s.prio /\ t.getfrom = s.getfrom /\ t.sendto = s.sendto
        /\ t.callerq = s.callerq /\ t.pending = s.pending /\ t.pendcount = s.pendcount
        /\ t.sig_procs = s.sig_procs /\ t.panic = s.panic
    BY DEF Eased
  <1>2. \A p \in Proc : /\ t.flags[p] \subseteq s.flags[p]
                        /\ t.intblk[p] => s.intblk[p]
                        /\ "SENDING" \in t.flags[p] <=> "SENDING" \in s.flags[p]
                        /\ "PENDING" \in t.flags[p] <=> "PENDING" \in s.flags[p]
                        /\ "SIG_PENDING" \in t.flags[p] <=> "SIG_PENDING" \in s.flags[p]
    BY DEF Eased
  <1>3. Sender(t) = Sender(s)
    BY <1>2 DEF Sender
  <1>4. Pending(t) = Pending(s)
    BY <1>2, Members DEF Pending
  <1>5. Kinds(t)
    <2>1. \A p \in Proc : t.prio[p] = "NONE" => t.flags[p] = {}
      BY <1>1, <1>2 DEF Sound, Kinds
    <2>2. \A p \in Proc \ User : t.flags[p] \subseteq {"SENDING", "RECEIVING"}
      BY <1>2 DEF Sound, Kinds
    <2>3. \A p \in NeverRun : t.flags[p] = {}
      BY <1>2, Slots DEF Sound, Kinds
    <2> QED BY <2>1, <2>2, <2>3 DEF Kinds
  <1>6. Targets(t)
    <2>1. \A p \in Sender(s) : p \in Proc
      BY DEF Sender
    <2> QED BY <1>1, <1>2, <1>3, <2>1 DEF Sound, Targets
  <1>7. Queued(t)
    BY <1>1, <1>3 DEF Sound, Queued
  <1>8. Signed(t)
    BY <1>1, <1>2 DEF Sound, Signed, isuserp
  <1>9. Counted(t)
    BY <1>1, <1>4 DEF Sound, Counted
  <1>10. Heard(t)
    BY <1>1, <1>2, Slots DEF Sound, Heard, Driver
  <1>11. Told(s) => Told(t)
    BY <1>1, <1>2, <1>4, Members DEF Told, Idling
  <1> QED BY <1>1, <1>5, <1>6, <1>7, <1>8, <1>9, <1>10, <1>11 DEF Sound

(* Scheduling is no change of this kind at all. *)
LEMMA SchedEased ==
    ASSUME NEW s, NEW t, SchedOnly(s, t)
    PROVE  Eased(s, t)
  BY DEF SchedOnly, Eased

(* A process that had a flag loses flags and is readied if it has none left. *)
LEMMA FreeGood ==
    ASSUME NEW s, Good(s), NEW u \in KState, Sound(u), NEW p \in Proc \ NeverRun,
           u.rdy = s.rdy, u.prio = s.prio, s.flags[p] # {},
           \A x \in Proc : x # p => u.flags[x] = s.flags[x]
    PROVE  /\ Good(ReadyIfFree(u, p)) /\ SchedOnly(u, ReadyIfFree(u, p))
           /\ Runs(s) /\ u.proc_ptr = s.proc_ptr /\ (istaskp(s, p) \/ Busy(s))
                 => Runs(ReadyIfFree(u, p))
           /\ Busy(s) => Busy(ReadyIfFree(u, p))
  <1> DEFINE t == ReadyIfFree(u, p)
  <1>1. t \in KState /\ SchedOnly(u, t)
    BY IfFreeType
  <1>2. Sound(t)
    BY <1>1, SchedEased, EasedSound
  <1>3. s.prio[p] # "NONE"
    BY DEF Good, Sound, Kinds
  <1>4. Linked(t)
    BY <1>3, ReadyLinked DEF Good, Live
  <1>5. Busy(u) <=> Busy(s)
    BY DEF Busy
  <1>6. istaskp(u, p) <=> istaskp(s, p)
    BY DEF istaskp
  <1>7. CASE u.flags[p] # {}
    <2>1. t = u
      BY <1>7 DEF ReadyIfFree
    <2>2. Runs(s) /\ u.proc_ptr = s.proc_ptr => Runs(u)
      BY DEF Runs
    <2> QED BY <1>1, <1>2, <1>4, <1>5, <2>1, <2>2 DEF Good
  <1>8. CASE u.flags[p] = {}
    <2>1. t = ready(u, p)
      BY <1>8 DEF ReadyIfFree
    <2>2. Busy(u) => Busy(t)
      <3> SUFFICES ASSUME NEW q \in Queue, u.rdy[q] # <<>> PROVE t.rdy[q] # <<>>
        BY Members DEF Busy
      <3>1. u.rdy[q] \in Seq(Proc)
        BY DEF KState
      <3>2. Append(u.rdy[q], p) # <<>> /\ <<p>> \o u.rdy[q] # <<>>
        BY <3>1, Ends
      <3>3. \/ ready(u, p).rdy[q] = u.rdy[q] \/ ready(u, p).rdy[q] = <<p>> \o u.rdy[q]
            \/ ready(u, p).rdy[q] = Append(u.rdy[q], p)
        <4>1. p \in Proc
          OBVIOUS
        <4> QED BY <4>1, ReadyQueues, Zenon
      <3> QED BY <2>1, <3>2, <3>3
    <2>3. Runs(s) /\ u.proc_ptr = s.proc_ptr => Runs(u)
      BY DEF Runs
    <2>4. Runs(u) /\ (istaskp(u, p) \/ Busy(u)) => Runs(t)
      BY ReadyRuns
    <2> QED BY <1>1, <1>2, <1>4, <1>5, <1>6, <2>2, <2>3, <2>4 DEF Good
  <1> QED BY <1>7, <1>8

(* A process is unreadied and gets a flag, or dies. *)
LEMMA BlockGood ==
    ASSUME NEW s, Good(s), NEW t \in KState, Sound(t), NEW p \in Proc,
           t.rdy = UnreadyIfFree(s, p).rdy, t.proc_ptr = UnreadyIfFree(s, p).proc_ptr,
           ~Live(t, p),
           \A x \in Proc : x # p => t.flags[x] = s.flags[x] /\ t.prio[x] = s.prio[x]
    PROVE  Good(t) /\ (Runs(s) => Runs(t))
  <1>1. Linked(t)
    BY UnreadyLinked DEF Good
  <1>2. Runs(s) => Runs(UnreadyIfFree(s, p))
    BY UnreadyRuns DEF Good
  <1> QED BY <1>1, <1>2 DEF Good, Runs

-----------------------------------------------------------------------------
(* Message passing. *)

(* mini_send() to a process that waits hands the message over and readies  *)
(* the process if it waits for nothing else.                               *)
LEMMA DeliverGood ==
    ASSUME NEW s, Good(s), NEW c \in Proc, NEW d \in Proc, NEW m \in Msg,
           "RECEIVING" \in s.flags[d], NEW t, t = Deliver(s, c, d, m)
    PROVE  /\ Good(t) /\ Eased(s, t) /\ (Told(s) => Told(t))
           /\ Reflagged(s, t, d, s.flags[d] \ {"RECEIVING"})
           /\ Runs(s) /\ (istaskp(s, d) \/ Busy(s)) => Runs(t)
           /\ Busy(s) => Busy(t)
           /\ d \notin User => SameUsers(s, t)
  <1> DEFINE h == CopyMess(s, c, m, d)
             u == [h EXCEPT !.flags[d] = @ \ {"RECEIVING"}]
  <1>1. s \in KState
    BY DEF Good
  <1>2. /\ h \in KState
        /\ h = [s EXCEPT !.m_source[d] = c, !.mess[d] = m]
    BY <1>1, CopyType DEF CopyMess
  <1> HIDE DEF h
  <1>3. u \in KState /\ u.flags = [s.flags EXCEPT ![d] = @ \ {"RECEIVING"}]
    <2>1. u \in KState
      BY <1>2, ClearFlags
    <2>2. h.flags = s.flags
      BY <1>1, <1>2 DEF KState
    <2>3. u.flags = [h.flags EXCEPT ![d] = @ \ {"RECEIVING"}]
      BY <1>2 DEF KState
    <2> QED BY <2>1, <2>2, <2>3
  <1>4. /\ u.prio = s.prio /\ u.getfrom = s.getfrom /\ u.sendto = s.sendto
        /\ u.callerq = s.callerq /\ u.pending = s.pending /\ u.pendcount = s.pendcount
        /\ u.sig_procs = s.sig_procs /\ u.panic = s.panic /\ u.intblk = s.intblk
        /\ u.rdy = s.rdy /\ u.proc_ptr = s.proc_ptr
    BY <1>1, <1>2 DEF KState
  <1>5. \A x \in Proc : u.flags[x] = IF x = d THEN s.flags[d] \ {"RECEIVING"} ELSE s.flags[x]
    <2>1. s.flags \in [Proc -> SUBSET Flag]
      BY <1>1 DEF KState
    <2> QED BY <1>3, <2>1
  <1>t. t = ReadyIfFree(u, d)
    BY DEF Deliver, h
  <1> HIDE DEF u
  <1>6. Eased(s, u)
    BY <1>4, <1>5 DEF Eased
  <1>7. d \notin NeverRun
    BY DEF Good, Sound, Kinds
  <1>8. Sound(u) /\ (Told(s) => Told(u))
    BY <1>6, EasedSound DEF Good
  <1>9. /\ Good(t) /\ SchedOnly(u, t)
        /\ Runs(s) /\ (istaskp(s, d) \/ Busy(s)) => Runs(t)
        /\ Busy(s) => Busy(t)
    <2> DEFINE r == ReadyIfFree(u, d)
    <2>1. /\ Good(r) /\ SchedOnly(u, r)
          /\ Runs(s) /\ (istaskp(s, d) \/ Busy(s)) => Runs(r)
          /\ Busy(s) => Busy(r)
      BY <1>3, <1>4, <1>5, <1>7, <1>8, FreeGood
    <2> QED BY <1>t, <2>1
  <1>10. Eased(s, t) /\ (Told(s) => Told(t)) /\ t.flags = u.flags
    <2>1. Eased(u, t) /\ t.flags = u.flags
      BY <1>9, SchedEased DEF SchedOnly
    <2> QED BY <1>4, <1>6, <1>8, <2>1, EasedSound DEF Eased
  <1>11. d \notin User => t.rdy[USER_Q] = s.rdy[USER_Q]
    <2>1. SUFFICES ASSUME d \notin User PROVE t.rdy[USER_Q] = s.rdy[USER_Q]
      OBVIOUS
    <2>2. d \in Task \ {IDLE} \/ d \in Server
      BY <1>7, <2>1 DEF Proc, NeverRun
    <2>3. QueueOf(u, d) # USER_Q
      BY <1>3, <2>2, Ranks DEF QueueOf, TASK_Q, SERVER_Q, USER_Q
    <2>4. ready(u, d).rdy[USER_Q] = u.rdy[USER_Q]
      BY <1>3, <2>3, Members, ReadyQueues, Zenon
    <2> QED BY <1>t, <1>4, <2>4 DEF ReadyIfFree
  <1> QED BY <1>5, <1>9, <1>10, <1>11 DEF Reflagged, SameUsers

(* mini_send() to one that does not wait queues the caller, which ran. *)
LEMMA BlockSendingGood ==
    ASSUME NEW s, Good(s), NEW c \in Proc, NEW d \in Proc, NEW m \in Msg,
           Live(s, c), d \notin User \cup {HARDWARE}
    PROVE  LET t == BlockSending(s, c, d, m)
           IN  /\ Good(t) /\ (Runs(s) => Runs(t)) /\ (Told(s) => Told(t))
               /\ \A x \in Proc : t.flags[x] = IF x = c THEN {"SENDING"} ELSE s.flags[x]
               /\ t.sendto[c] = d /\ t.prio = s.prio
  <1> DEFINE w == UnreadyIfFree(s, c)
             t == [w EXCEPT !.mess[c] = m, !.flags[c] = @ \cup {"SENDING"},
                            !.sendto[c] = d, !.callerq[d] = Append(@, c)]
  <1>1. s \in KState /\ w \in KState /\ SchedOnly(s, w)
    BY IfFreeType DEF Good
  <1>2. BlockSending(s, c, d, m) = t
    BY DEF BlockSending
  <1>3. t \in KState
    BY <1>1, <1>2, BlockSendingType
  <1> HIDE DEF w
  <1>4. /\ t.prio = s.prio /\ t.getfrom = s.getfrom /\ t.pending = s.pending
        /\ t.pendcount = s.pendcount /\ t.sig_procs = s.sig_procs /\ t.panic = s.panic
        /\ t.intblk = s.intblk /\ t.rdy = w.rdy /\ t.proc_ptr = w.proc_ptr
        /\ t.flags = [s.flags EXCEPT ![c] = @ \cup {"SENDING"}]
        /\ t.sendto = [s.sendto EXCEPT ![c] = d]
        /\ t.callerq = [s.callerq EXCEPT ![d] = Append(@, c)]
    BY <1>1 DEF KState, SchedOnly
  <1> HIDE DEF t
  <1>5. s.flags[c] = {} /\ c \notin NeverRun /\ s.prio[c] # "NONE"
    BY DEF Live
  <1>6. \A x \in Proc : /\ t.flags[x] = IF x = c THEN {"SENDING"} ELSE s.flags[x]
                        /\ t.sendto[x] = IF x = c THEN d ELSE s.sendto[x]
                        /\ t.callerq[x] = IF x = d THEN Append(s.callerq[d], c) ELSE s.callerq[x]
    <2>1. /\ s.flags \in [Proc -> SUBSET Flag] /\ s.sendto \in [Proc -> Proc]
          /\ s.callerq \in [Proc -> Seq(Proc)]
      BY <1>1 DEF KState
    <2>2. \A x \in Proc : t.flags[x] = IF x = c THEN {"SENDING"} ELSE s.flags[x]
      BY <1>4, <1>5, <2>1
    <2>3. \A x \in Proc : t.sendto[x] = IF x = c THEN d ELSE s.sendto[x]
      BY <1>4, <2>1
    <2>4. \A x \in Proc : t.callerq[x] = IF x = d THEN Append(s.callerq[d], c) ELSE s.callerq[x]
      BY <1>4, <2>1
    <2> QED BY <2>2, <2>3, <2>4
  <1>7. Sender(t) = Sender(s) \cup {c} /\ c \notin Sender(s) /\ Sender(s) \subseteq Proc
    BY <1>5, <1>6 DEF Sender
  <1>8. Pending(t) = Pending(s)
    BY <1>5, <1>6, Members DEF Pending
  <1>9. Kinds(t)
    BY <1>4, <1>5, <1>6, Slots DEF Good, Sound, Kinds
  <1>10. Targets(t)
    BY <1>4, <1>6, <1>7 DEF Good, Sound, Targets
  <1>11. Queued(t)
    <2> SUFFICES ASSUME NEW e \in Proc
                 PROVE  Line(t.callerq[e], {p \in Sender(t) : t.sendto[p] = e})
      BY DEF Queued
    <2> DEFINE S == {p \in Sender(s) : s.sendto[p] = e}
    <2>1. Line(s.callerq[e], S) /\ s.callerq[e] \in Seq(Proc) /\ c \notin S
      BY <1>1, <1>7 DEF Good, Sound, Queued, KState
    <2>2. CASE e = d
      <3>1. {p \in Sender(t) : t.sendto[p] = e} = S \cup {c}
        BY <1>6, <1>7, <2>2
      <3>2. Line(Append(s.callerq[e], c), S \cup {c})
        BY <2>1, LineAppend
      <3>3. t.callerq[e] = Append(s.callerq[e], c)
        BY <1>6, <2>2
      <3> QED BY <3>1, <3>2, <3>3
    <2>3. CASE e # d
      <3>1. {p \in Sender(t) : t.sendto[p] = e} = S
        BY <1>6, <1>7, <2>3
      <3> QED BY <1>6, <2>1, <2>3, <3>1
    <2> QED BY <2>2, <2>3
  <1>12. Signed(t) /\ Counted(t)
    BY <1>4, <1>5, <1>6, <1>8 DEF Good, Sound, Signed, Counted, isuserp
  <1>13. Heard(t)
    BY <1>4, <1>6, Slots DEF Good, Sound, Heard
  <1>14. Sound(t)
    BY <1>4, <1>9, <1>10, <1>11, <1>12, <1>13 DEF Good, Sound
  <1>15. Good(t) /\ (Runs(s) => Runs(t))
    <2>1. ~Live(t, c)
      BY <1>6 DEF Live
    <2>2. \A x \in Proc : x # c => t.flags[x] = s.flags[x] /\ t.prio[x] = s.prio[x]
      BY <1>4, <1>6
    <2>3. t.rdy = UnreadyIfFree(s, c).rdy /\ t.proc_ptr = UnreadyIfFree(s, c).proc_ptr
      BY <1>4 DEF w
    <2> QED BY <1>3, <1>14, <2>1, <2>2, <2>3, BlockGood
  <1>16. Told(s) => Told(t)
    BY <1>4, <1>6, <1>8, Members DEF Told, Idling
  <1> QED BY <1>2, <1>4, <1>6, <1>15, <1>16

(* mini_rec() takes the first message it may: its sender leaves the queue  *)
(* and goes on, or waits for the reply.                                    *)
LEMMA AcceptGood ==
    ASSUME NEW s, Good(s), NEW c \in Proc, NEW src, Acceptable(s, c, src) # {}
    PROVE  LET t == Accept(s, c, src)
           IN  Good(t) /\ (Told(s) => Told(t)) /\ (Runs(s) /\ Busy(s) => Runs(t))
  <1> DEFINE A == Acceptable(s, c, src)
             i == CHOOSE n \in A : \A j \in A : n <= j
             p == s.callerq[c][i]
             h == CopyMess(s, p, s.mess[p], c)
             u == [h EXCEPT !.callerq[c] = Unlink(@, p), !.flags[p] = @ \ {"SENDING"}]
             t == ReadyIfFree(u, p)
  <1>1. s \in KState /\ s.callerq[c] \in Seq(Proc)
    BY DEF Good, KState
  <1>2. i \in 1 .. Len(s.callerq[c])
    <2>1. A \in SUBSET Nat /\ A # {}
      BY <1>1 DEF Acceptable
    <2>2. \E n \in A : \A j \in A : n <= j
      BY <2>1, SmallestNumber
    <2> QED BY <2>2 DEF Acceptable
  <1> HIDE DEF i
  <1>3. p \in Elems(s.callerq[c])
    BY <1>2 DEF Elems
  <1>4. Accept(s, c, src) = t
    BY DEF Accept, i
  <1> HIDE DEF p
  <1>5. p \in Sender(s) /\ s.sendto[p] = c /\ p \in Proc /\ "SENDING" \in s.flags[p]
    BY <1>3 DEF Good, Sound, Queued, Line, Sender
  <1>6. h \in KState /\ h = [s EXCEPT !.m_source[c] = p, !.mess[c] = s.mess[p]]
    <2>1. s.mess[p] \in Msg
      BY <1>1, <1>5 DEF KState
    <2> QED BY <1>1, <1>5, <2>1, CopyType DEF CopyMess
  <1> HIDE DEF h
  <1>7. Unlink(s.callerq[c], p) \in Seq(Proc)
    BY <1>1, <1>3, UnlinkType
  <1>8. /\ h.callerq = s.callerq /\ h.flags = s.flags
        /\ u.prio = s.prio /\ u.getfrom = s.getfrom /\ u.sendto = s.sendto
        /\ u.pending = s.pending /\ u.pendcount = s.pendcount /\ u.sig_procs = s.sig_procs
        /\ u.panic = s.panic /\ u.intblk = s.intblk /\ u.rdy = s.rdy /\ u.proc_ptr = s.proc_ptr
    BY <1>1, <1>6 DEF KState
  <1>9. u \in KState
    <2>1. /\ [h.callerq EXCEPT ![c] = Unlink(@, p)] \in [Proc -> Seq(Proc)]
          /\ [h.flags EXCEPT ![p] = @ \ {"SENDING"}] \in [Proc -> SUBSET Flag]
      <3>1. h.callerq \in [Proc -> Seq(Proc)] /\ h.flags \in [Proc -> SUBSET Flag]
        BY <1>6 DEF KState
      <3>2. Unlink(h.callerq[c], p) \in Seq(Proc)
        BY <1>7, <1>8
      <3> QED BY <3>1, <3>2
    <2>2. ASSUME NEW q \in [Proc -> Seq(Proc)], NEW f \in [Proc -> SUBSET Flag]
          PROVE  [h EXCEPT !.callerq = q, !.flags = f] \in KState
      BY <1>6 DEF KState
    <2>3. u = [h EXCEPT !.callerq = [h.callerq EXCEPT ![c] = Unlink(@, p)],
                        !.flags = [h.flags EXCEPT ![p] = @ \ {"SENDING"}]]
      BY <1>6 DEF KState
    <2> QED BY <2>1, <2>2, <2>3, Zenon
  <1>10. /\ u.flags = [s.flags EXCEPT ![p] = @ \ {"SENDING"}]
         /\ u.callerq = [s.callerq EXCEPT ![c] = Unlink(@, p)]
    BY <1>6, <1>8 DEF KState
  <1> HIDE DEF u
  <1>11. \A x \in Proc : /\ u.flags[x] = IF x = p THEN s.flags[p] \ {"SENDING"} ELSE s.flags[x]
                         /\ u.callerq[x] = IF x = c THEN Unlink(s.callerq[c], p) ELSE s.callerq[x]
    <2>1. s.flags \in [Proc -> SUBSET Flag] /\ s.callerq \in [Proc -> Seq(Proc)]
      BY <1>1 DEF KState
    <2>2. \A x \in Proc : u.flags[x] = IF x = p THEN s.flags[p] \ {"SENDING"} ELSE s.flags[x]
      BY <1>10, <2>1
    <2>3. \A x \in Proc : u.callerq[x] = IF x = c THEN Unlink(s.callerq[c], p) ELSE s.callerq[x]
      BY <1>10, <2>1
    <2> QED BY <2>2, <2>3
  <1>12. Sender(u) = Sender(s) \ {p}
    BY <1>11 DEF Sender
  <1>13. Pending(u) = Pending(s)
    BY <1>11, Members DEF Pending
  <1>14. Kinds(u)
    BY <1>8, <1>11, Slots DEF Good, Sound, Kinds
  <1>15. Targets(u)
    BY <1>8, <1>11, <1>12 DEF Good, Sound, Targets, Sender
  <1>16. Queued(u)
    <2> SUFFICES ASSUME NEW e \in Proc
                 PROVE  Line(u.callerq[e], {x \in Sender(u) : u.sendto[x] = e})
      BY DEF Queued
    <2> DEFINE S == {x \in Sender(s) : s.sendto[x] = e}
    <2>1. Line(s.callerq[e], S) /\ s.callerq[e] \in Seq(Proc)
      BY <1>1 DEF Good, Sound, Queued, KState
    <2>2. CASE e = c
      <3>1. {x \in Sender(u) : u.sendto[x] = e} = S \ {p} /\ p \in S
        BY <1>5, <1>8, <1>12, <2>2
      <3>2. Line(Unlink(s.callerq[e], p), S \ {p})
        BY <2>1, <3>1, LineUnlink
      <3>3. u.callerq[e] = Unlink(s.callerq[e], p)
        BY <1>11, <2>2
      <3> QED BY <3>1, <3>2, <3>3
    <2>3. CASE e # c
      <3>1. {x \in Sender(u) : u.sendto[x] = e} = S
        BY <1>5, <1>8, <1>12, <2>3
      <3> QED BY <1>11, <2>1, <2>3, <3>1
    <2> QED BY <2>2, <2>3
  <1>17. Signed(u) /\ Counted(u)
    BY <1>8, <1>11, <1>13 DEF Good, Sound, Signed, Counted, isuserp
  <1>18. Heard(u)
    BY <1>8, <1>11, Slots DEF Good, Sound, Heard
  <1>19. Sound(u)
    BY <1>8, <1>14, <1>15, <1>16, <1>17, <1>18 DEF Good, Sound
  <1>20. p \notin NeverRun
    BY <1>5 DEF Good, Sound, Kinds
  <1>21. Good(t) /\ SchedOnly(u, t) /\ (Runs(s) /\ Busy(s) => Runs(t))
    <2>1. s.flags[p] # {} /\ \A x \in Proc : x # p => u.flags[x] = s.flags[x]
      BY <1>5, <1>11
    <2> QED BY <1>5, <1>8, <1>9, <1>19, <1>20, <2>1, FreeGood
  <1>22. Told(s) => Told(t)
    <2>1. Told(s) => Told(u)
      BY <1>8, <1>11, <1>13, Members DEF Told, Idling
    <2> QED BY <1>19, <1>21, <2>1, SchedEased, EasedSound
  <1> HIDE DEF t
  <1> QED BY <1>4, <1>21, <1>22

(* mini_rec() that finds no message blocks the caller; in the second half  *)
(* of a BOTH it may be blocked already.                                    *)
LEMMA BlockReceivingGood ==
    ASSUME NEW s, Good(s), NEW c \in Proc \ NeverRun, NEW src \in Proc \cup {ANY},
           s.prio[c] # "NONE", "SENDING" \in s.flags[c] => src = s.sendto[c],
           c \in Driver \cup {CLOCK} /\ isrxhardware(src) => ~s.intblk[c],
           \/ Runs(s)
           \/ /\ s.flags[c] = {} /\ c \in Elems(s.rdy[QueueOf(s, c)])
              /\ c = Head(s.rdy[QueueOf(s, c)]) /\ QueueOf(s, c) # TASK_Q
    PROVE  LET t == BlockReceiving(s, c, src)
           IN  /\ Good(t) /\ Runs(t)
               /\ \A x \in Proc : /\ t.flags[x] = s.flags[x] \cup IF x = c THEN {"RECEIVING"} ELSE {}
                                  /\ t.getfrom[x] = IF x = c THEN src ELSE s.getfrom[x]
               /\ t.sig_procs = s.sig_procs /\ t.prio = s.prio
  <1> DEFINE w == UnreadyIfFree(s, c)
             t == [w EXCEPT !.getfrom[c] = src, !.flags[c] = @ \cup {"RECEIVING"}]
  <1>1. s \in KState /\ w \in KState /\ SchedOnly(s, w)
    BY IfFreeType DEF Good
  <1>2. BlockReceiving(s, c, src) = t
    BY DEF BlockReceiving
  <1>3. t \in KState
    BY <1>1, <1>2, BlockReceivingType
  <1> HIDE DEF w
  <1>4. /\ t.prio = s.prio /\ t.sendto = s.sendto /\ t.callerq = s.callerq
        /\ t.pending = s.pending /\ t.pendcount = s.pendcount /\ t.sig_procs = s.sig_procs
        /\ t.panic = s.panic /\ t.intblk = s.intblk /\ t.rdy = w.rdy /\ t.proc_ptr = w.proc_ptr
        /\ t.flags = [s.flags EXCEPT ![c] = @ \cup {"RECEIVING"}]
        /\ t.getfrom = [s.getfrom EXCEPT ![c] = src]
    BY <1>1 DEF KState, SchedOnly
  <1> HIDE DEF t
  <1>5. \A x \in Proc : /\ t.flags[x] = s.flags[x] \cup IF x = c THEN {"RECEIVING"} ELSE {}
                        /\ t.getfrom[x] = IF x = c THEN src ELSE s.getfrom[x]
    <2>1. s.flags \in [Proc -> SUBSET Flag] /\ s.getfrom \in [Proc -> Proc \cup {ANY}]
      BY <1>1 DEF KState
    <2>2. \A x \in Proc : t.flags[x] = s.flags[x] \cup IF x = c THEN {"RECEIVING"} ELSE {}
      BY <1>4, <2>1
    <2>3. \A x \in Proc : t.getfrom[x] = IF x = c THEN src ELSE s.getfrom[x]
      BY <1>4, <2>1
    <2> QED BY <2>2, <2>3
  <1>6. Sender(t) = Sender(s) /\ Sender(s) \subseteq Proc
    BY <1>5 DEF Sender
  <1>7. Pending(t) = Pending(s)
    BY <1>5, Members DEF Pending
  <1>8. Kinds(t)
    BY <1>4, <1>5, Slots DEF Good, Sound, Kinds
  <1>9. Targets(t)
    BY <1>4, <1>5, <1>6 DEF Good, Sound, Targets, Sender
  <1>10. Queued(t)
    BY <1>4, <1>6 DEF Good, Sound, Queued
  <1>11. Signed(t) /\ Counted(t)
    BY <1>4, <1>5, <1>7 DEF Good, Sound, Signed, Counted, isuserp
  <1>12. Heard(t)
    BY <1>4, <1>5, Slots DEF Good, Sound, Heard
  <1>13. Sound(t)
    BY <1>4, <1>8, <1>9, <1>10, <1>11, <1>12 DEF Good, Sound
  <1>14. Good(t)
    <2>1. ~Live(t, c)
      BY <1>5 DEF Live
    <2>2. \A x \in Proc : x # c => t.flags[x] = s.flags[x] /\ t.prio[x] = s.prio[x]
      BY <1>4, <1>5
    <2>3. t.rdy = UnreadyIfFree(s, c).rdy /\ t.proc_ptr = UnreadyIfFree(s, c).proc_ptr
      BY <1>4 DEF w
    <2> QED BY <1>3, <1>13, <2>1, <2>2, <2>3, BlockGood
  <1>15. Runs(t)
    <2>1. Runs(w)
      BY <1>1, UnreadyRuns DEF w
    <2> QED BY <1>4, <2>1 DEF Runs
  <1> QED BY <1>2, <1>4, <1>5, <1>14, <1>15

(* MM that waits for new work is not sending, so HARDWARE's message to it  *)
(* is never refused.                                                       *)
LEMMA InformSends ==
    ASSUME NEW s, Good(s), Idling(s)
    PROVE  /\ SendResult(s, HARDWARE, MM) = "OK" /\ Waiting(s, MM, HARDWARE)
           /\ "SENDING" \notin s.flags[MM]
  <1>1. s \in KState
    BY DEF Good
  <1>2. ~isuserp(s, HARDWARE) /\ ~isemptyp(s, MM)
    BY <1>1, Members, Ranks, Slots DEF isemptyp, Server
  <1>3. MM \notin Sender(s)
    <2>1. ASSUME MM \in Sender(s) PROVE FALSE
      <3>1. s.getfrom[MM] = s.sendto[MM]
        BY <2>1 DEF Good, Sound, Targets, Idling
      <3>2. s.sendto[MM] \in Proc
        BY <1>1, Members DEF KState
      <3> QED BY <3>1, <3>2, Slots DEF Idling
    <2> QED BY <2>1
  <1>4. "SENDING" \notin s.flags[MM]
    BY <1>3, Members DEF Sender
  <1>5. ~Reaches(s, MM, HARDWARE)
    BY <1>3 DEF Reaches
  <1> QED BY <1>2, <1>4, <1>5 DEF SendResult, Waiting, Idling

(* inform() tells MM of one process, picks the process to run, and leaves  *)
(* MM at work.                                                             *)
LEMMA InformGood ==
    ASSUME NEW s, Good(s), Idling(s)
    PROVE  LET t == inform(s)
           IN  /\ Good(t) /\ Told(t) /\ (Runs(s) \/ Pending(s) # {} => Runs(t))
               /\ t.prio = s.prio
               /\ \A x \in Proc \ {MM} : /\ t.flags[x] \subseteq s.flags[x]
                                         /\ s.flags[x] \ t.flags[x] \subseteq {"PENDING"}
  <1>1. CASE Pending(s) = {}
    BY <1>1 DEF inform, Told
  <1>2. CASE Pending(s) # {}
    <2> DEFINE p == CHOOSE x \in Pending(s) : \A y \in Pending(s) : x <= y
               m == KSig(p, s.pending[p])
               t == [s EXCEPT !.mess[SYSTASK] = m,
                              !.sig_procs = @ - 1,
                              !.panic = @ \/ SendResult(s, HARDWARE, MM) # "OK"]
               h == CopyMess(t, HARDWARE, m, MM)
               u == [h EXCEPT !.flags[MM] = @ \ {"RECEIVING"}]
               g == ReadyIfFree(u, MM)
               v == [g EXCEPT !.pending[p] = {}, !.flags[p] = @ \ {"PENDING"}]
    <2>0. s \in KState /\ s.sig_procs \in Int /\ s.panic = FALSE
      BY DEF Good, Sound, KState
    <2>1. p \in Pending(s) /\ p \in Proc /\ IsFiniteSet(Pending(s))
      <3>1. Pending(s) \in SUBSET Nat /\ Pending(s) # {}
        BY <1>2 DEF Pending, Server, User, MM, FS, LOW_USER
      <3>2. \E x \in Pending(s) : \A y \in Pending(s) : x <= y
        BY <3>1, SmallestNumber
      <3>3. p \in Pending(s)
        BY <3>2
      <3>4. IsFiniteSet(0 .. NR_PROCS - 1)
        BY ConstAssumption, FS_Interval
      <3>5. Pending(s) \subseteq 0 .. NR_PROCS - 1
        BY ConstAssumption DEF Pending, Server, User, MM, FS, LOW_USER
      <3> QED BY <3>3, <3>4, <3>5, FS_Subset, Members DEF Pending
    <2> HIDE DEF p
    <2>2. /\ "PENDING" \in s.flags[p] /\ "SIG_PENDING" \in s.flags[p]
          /\ isuserp(s, p) /\ p \in User /\ p # MM
      <3>1. "PENDING" \in s.flags[p] /\ "SIG_PENDING" \in s.flags[p] /\ isuserp(s, p)
        BY <2>1 DEF Good, Sound, Signed, Pending
      <3>2. p \in User
        BY <2>0, <2>1, <3>1, Ranks
      <3> QED BY <3>1, <3>2, Slots DEF Server
    <2>3. m \in Msg
      <3>1. s.pending[p] \in SUBSET Sig
        BY <2>0, <2>1 DEF KState
      <3> QED BY <2>1, <3>1, Messages
    <2> HIDE DEF m
    <2>4. SendResult(s, HARDWARE, MM) = "OK"
      BY InformSends
    <2>5. t \in KState
      <3>1. ASSUME NEW n \in Int, NEW f \in [Proc -> Msg], NEW b \in BOOLEAN
            PROVE  [s EXCEPT !.mess = f, !.sig_procs = n, !.panic = b] \in KState
        BY <2>0 DEF KState
      <3>2. [s.mess EXCEPT ![SYSTASK] = m] \in [Proc -> Msg] /\ s.sig_procs - 1 \in Int
        <4>1. s.mess \in [Proc -> Msg]
          BY <2>0 DEF KState
        <4> QED BY <2>0, <2>3, <4>1, Members
      <3> QED BY <3>1, <3>2, (s.panic \/ SendResult(s, HARDWARE, MM) # "OK") \in BOOLEAN, Zenon
    <2>6. /\ t.flags = s.flags /\ t.prio = s.prio /\ t.getfrom = s.getfrom /\ t.sendto = s.sendto
          /\ t.callerq = s.callerq /\ t.intblk = s.intblk /\ t.pending = s.pending
          /\ t.pendcount = s.pendcount /\ t.rdy = s.rdy /\ t.sig_procs = s.sig_procs - 1
      BY <2>0 DEF KState
    <2>7. t.panic = FALSE
      BY <2>0, <2>4 DEF KState
    <2> HIDE DEF t
    <2>8. h \in KState
      BY <2>3, <2>5, Members, CopyType
    <2>9. /\ h.flags = s.flags /\ h.prio = s.prio /\ h.getfrom = s.getfrom /\ h.sendto = s.sendto
          /\ h.callerq = s.callerq /\ h.intblk = s.intblk /\ h.pending = s.pending
          /\ h.pendcount = s.pendcount /\ h.rdy = s.rdy /\ h.sig_procs = s.sig_procs - 1
          /\ h.panic = FALSE
      BY <2>5, <2>6, <2>7 DEF KState, CopyMess
    <2> HIDE DEF h
    <2>10. u \in KState
      BY <2>8, Members, ClearFlags
    <2>11. /\ u.flags = [s.flags EXCEPT ![MM] = @ \ {"RECEIVING"}]
           /\ u.prio = s.prio /\ u.getfrom = s.getfrom /\ u.sendto = s.sendto
           /\ u.callerq = s.callerq /\ u.intblk = s.intblk /\ u.pending = s.pending
           /\ u.pendcount = s.pendcount /\ u.rdy = s.rdy /\ u.sig_procs = s.sig_procs - 1
           /\ u.panic = FALSE
      BY <2>8, <2>9 DEF KState
    <2>12. \A x \in Proc : u.flags[x] = IF x = MM THEN s.flags[MM] \ {"RECEIVING"} ELSE s.flags[x]
      <3>1. s.flags \in [Proc -> SUBSET Flag]
        BY <2>0 DEF KState
      <3> QED BY <2>11, <3>1
    <2> HIDE DEF u
    <2>13. g \in KState /\ SchedOnly(u, g)
      BY <2>10, Members, IfFreeType
    <2>14. Linked(g)
      <3>1. MM \in Proc \ NeverRun
        BY Slots, Members DEF Server
      <3>2. u.prio[MM] # "NONE" /\ ~Live(s, MM)
        BY <2>0, <2>11, Members, Servers DEF Live, Idling, Server
      <3> QED BY <2>10, <2>11, <2>12, <3>1, <3>2, ReadyLinked DEF Good
    <2> HIDE DEF g
    <2>15. v \in KState
      <3>1. g.pending \in [Proc -> SUBSET Sig] /\ g.flags \in [Proc -> SUBSET Flag]
        BY <2>13 DEF KState
      <3>2. /\ [g.pending EXCEPT ![p] = {}] \in [Proc -> SUBSET Sig]
            /\ [g.flags EXCEPT ![p] = @ \ {"PENDING"}] \in [Proc -> SUBSET Flag]
        BY <3>1
      <3> QED BY <2>13, <3>2 DEF KState
    <2>16. /\ v.flags = [u.flags EXCEPT ![p] = @ \ {"PENDING"}]
           /\ v.pending = [s.pending EXCEPT ![p] = {}]
           /\ v.prio = s.prio /\ v.getfrom = s.getfrom /\ v.sendto = s.sendto
           /\ v.callerq = s.callerq /\ v.intblk = s.intblk /\ v.panic = FALSE
           /\ v.pendcount = s.pendcount /\ v.rdy = g.rdy /\ v.sig_procs = s.sig_procs - 1
           /\ g.flags = u.flags /\ g.prio = s.prio
      BY <2>11, <2>13 DEF KState, SchedOnly
    <2> HIDE DEF v
    <2>17. \A x \in Proc : /\ v.flags[x] = IF x = p THEN s.flags[p] \ {"PENDING"} ELSE u.flags[x]
                           /\ v.pending[x] = IF x = p THEN {} ELSE s.pending[x]
      <3>1. u.flags \in [Proc -> SUBSET Flag] /\ s.pending \in [Proc -> SUBSET Sig]
        BY <2>0, <2>10 DEF KState
      <3> QED BY <2>1, <2>2, <2>12, <2>16, <3>1
    <2>18. /\ \A x \in Proc : /\ v.flags[x] \subseteq s.flags[x]
                              /\ "SENDING" \in v.flags[x] <=> "SENDING" \in s.flags[x]
                              /\ "SIG_PENDING" \in v.flags[x] <=> "SIG_PENDING" \in s.flags[x]
                              /\ "PENDING" \in v.flags[x] <=> "PENDING" \in s.flags[x] /\ x # p
           /\ \A x \in Proc : x # MM => s.flags[x] \ v.flags[x] \subseteq {"PENDING"}
      BY <2>2, <2>12, <2>17
    <2>19. Sender(v) = Sender(s)
      BY <2>18 DEF Sender
    <2>20. Pending(v) = Pending(s) \ {p}
      BY <2>18, Members DEF Pending
    <2>21. Kinds(v)
      BY <2>16, <2>18, Slots DEF Good, Sound, Kinds
    <2>22. Targets(v) /\ Queued(v)
      <3>1. Sender(s) \subseteq Proc
        BY DEF Sender
      <3>2. Targets(v)
        BY <2>16, <2>18, <2>19, <3>1 DEF Good, Sound, Targets
      <3>3. Queued(v)
        BY <2>16, <2>19 DEF Good, Sound, Queued
      <3> QED BY <3>2, <3>3
    <2>23. Signed(v)
      BY <2>16, <2>17, <2>18 DEF Good, Sound, Signed, isuserp
    <2>24. Counted(v)
      <3>1. Cardinality(Pending(s) \ {p}) = Cardinality(Pending(s)) - 1
        BY <2>1, FS_RemoveElement
      <3> QED BY <2>16, <2>20, <3>1 DEF Good, Sound, Counted
    <2>25. Heard(v)
      BY <2>16, <2>18, Slots DEF Good, Sound, Heard
    <2>26. Sound(v)
      BY <2>16, <2>21, <2>22, <2>23, <2>24, <2>25 DEF Sound
    <2>27. Linked(v)
      <3>1. \A x \in Proc : (v.flags[x] = {}) <=> (g.flags[x] = {})
        BY <2>2, <2>16, <2>17, <2>18
      <3>2. v.rdy = g.rdy /\ v.prio = g.prio
        BY <2>16
      <3> QED BY <2>14, <3>1, <3>2, SameLinked
    <2> DEFINE z == pick_proc(v)
    <2>28. z \in KState /\ SchedOnly(v, z) /\ z.rdy = v.rdy /\ z.proc_ptr = First(v.rdy)
      BY <2>15, PickType, PickFirst
    <2>29. inform(s) = z
      <3>1. mini_send(t, HARDWARE, MM, m) = Deliver(t, HARDWARE, MM, m)
        <4>1. SendResult(t, HARDWARE, MM) = SendResult(s, HARDWARE, MM)
          BY <2>6 DEF SendResult, isuserp, isemptyp, Reaches, Sender, Target, Closed
        <4>2. Waiting(t, MM, HARDWARE)
          BY <2>6, InformSends DEF Waiting
        <4> QED BY <2>4, <4>1, <4>2 DEF mini_send
      <3>2. Deliver(t, HARDWARE, MM, m) = g
        BY DEF Deliver, g, u, h
      <3> QED BY <1>2, <3>1, <3>2 DEF inform, p, m, t, v
    <2> HIDE DEF z
    <2>30. Good(z) /\ Runs(z)
      <3>1. Sound(z)
        BY <2>26, <2>28, SchedEased, EasedSound
      <3>2. Linked(z)
        BY <2>27, <2>28, SameLinked DEF SchedOnly
      <3> QED BY <2>28, <3>1, <3>2 DEF Good, Runs
    <2>31. Told(z)
      BY <2>2, <2>12, <2>17, <2>28, Members DEF Told, Idling, SchedOnly
    <2> QED BY <2>16, <2>18, <2>28, <2>29, <2>30, <2>31 DEF SchedOnly
  <1> QED BY <1>1, <1>2

(* Finitely many processes have unreported signals. *)
LEMMA PendingFinite ==
    ASSUME NEW s, Counted(s)
    PROVE  IsFiniteSet(Pending(s)) /\ s.sig_procs \in Nat /\ (s.sig_procs = 0 <=> Pending(s) = {})
  <1>1. IsFiniteSet(0 .. NR_PROCS - 1)
    BY ConstAssumption, FS_Interval
  <1>2. Pending(s) \subseteq 0 .. NR_PROCS - 1
    BY ConstAssumption DEF Pending, Server, User, MM, FS, LOW_USER
  <1>3. IsFiniteSet(Pending(s))
    BY <1>1, <1>2, FS_Subset
  <1>4. Cardinality(Pending(s)) \in Nat /\ (Cardinality(Pending(s)) = 0 <=> Pending(s) = {})
    BY <1>3, FS_CardinalityType, FS_EmptySet
  <1> QED BY <1>3, <1>4 DEF Counted

(* mini_rec(), called by the process that runs or for the second half of a *)
(* BOTH, whatever it finds: a caller, an interrupt, unreported signals or  *)
(* nothing.                                                                *)
LEMMA RecGood ==
    ASSUME NEW s, Good(s), Told(s), NEW c \in Proc \ NeverRun, NEW src \in Proc \cup {ANY},
           s.prio[c] # "NONE", "SENDING" \in s.flags[c] => src = s.sendto[c],
           \/ Runs(s) /\ (Busy(s) \/ "SENDING" \in s.flags[c] \/ Acceptable(s, c, src) = {})
           \/ /\ s.flags[c] = {} /\ c \in Elems(s.rdy[QueueOf(s, c)])
              /\ c = Head(s.rdy[QueueOf(s, c)]) /\ QueueOf(s, c) # TASK_Q
              /\ Acceptable(s, c, src) = {} /\ ~isrxhardware(src)
    PROVE  Good(mini_rec(s, c, src)) /\ Runs(mini_rec(s, c, src)) /\ Told(mini_rec(s, c, src))
  <1>0. s \in KState
    BY DEF Good
  <1>1. CASE "SENDING" \notin s.flags[c] /\ Acceptable(s, c, src) # {}
    <2>1. mini_rec(s, c, src) = Accept(s, c, src)
      BY <1>1 DEF mini_rec
    <2> QED BY <1>1, <2>1, AcceptGood
  <1>2. CASE /\ ~("SENDING" \notin s.flags[c] /\ Acceptable(s, c, src) # {})
             /\ "SENDING" \notin s.flags[c] /\ s.intblk[c] /\ isrxhardware(src)
    <2> DEFINE h == CopyMess(s, HARDWARE, HardInt, c)
               g == [h EXCEPT !.intblk[c] = FALSE]
    <2>1. h \in KState /\ h = [s EXCEPT !.m_source[c] = HARDWARE, !.mess[c] = HardInt]
      BY <1>0, CopyType, Members, Messages DEF CopyMess
    <2> HIDE DEF h
    <2>2. /\ g \in KState
          /\ g.prio = s.prio /\ g.getfrom = s.getfrom /\ g.sendto = s.sendto
          /\ g.callerq = s.callerq /\ g.pending = s.pending /\ g.pendcount = s.pendcount
          /\ g.sig_procs = s.sig_procs /\ g.panic = s.panic /\ g.flags = s.flags
          /\ g.rdy = s.rdy /\ g.proc_ptr = s.proc_ptr
          /\ g.intblk = [s.intblk EXCEPT ![c] = FALSE]
      BY <1>0, <2>1 DEF KState
    <2> HIDE DEF g
    <2>3. \A x \in Proc : g.intblk[x] => s.intblk[x]
      <3>1. s.intblk \in [Proc -> BOOLEAN]
        BY <1>0 DEF KState
      <3> QED BY <2>2, <3>1
    <2>4. Eased(s, g)
      BY <2>2, <2>3 DEF Eased
    <2>5. Good(g) /\ Told(g)
      <3>1. Linked(g)
        <4>1. /\ g.rdy = s.rdy /\ g.prio = s.prio
              /\ \A x \in Proc \ NeverRun : g.flags[x] = {} <=> s.flags[x] = {}
          BY <2>2
        <4> QED BY <4>1, SameLinked, Zenon DEF Good
      <3>2. Sound(g) /\ Told(g)
        BY <2>4, EasedSound DEF Good
      <3> QED BY <2>2, <3>1, <3>2 DEF Good
    <2>6. Runs(g)
      BY <1>2, <2>2 DEF Runs
    <2>7. mini_rec(s, c, src) = g
      BY <1>2 DEF mini_rec, g, h
    <2> QED BY <2>5, <2>6, <2>7
  <1>3. CASE /\ ~("SENDING" \notin s.flags[c] /\ Acceptable(s, c, src) # {})
             /\ ~("SENDING" \notin s.flags[c] /\ s.intblk[c] /\ isrxhardware(src))
    <2> DEFINE b == BlockReceiving(s, c, src)
    <2>1. "SENDING" \in s.flags[c] => ~isrxhardware(src)
      <3>1. SUFFICES ASSUME "SENDING" \in s.flags[c] PROVE ~isrxhardware(src)
        OBVIOUS
      <3>2. c \in Sender(s) /\ src = s.sendto[c]
        BY <3>1 DEF Sender
      <3>3. src # HARDWARE /\ src \in Proc
        BY <1>0, <3>2 DEF Good, Sound, Targets, KState
      <3> QED BY <3>3, Slots DEF isrxhardware
    <2>2. /\ Good(b) /\ Runs(b)
          /\ \A x \in Proc : /\ b.flags[x] = s.flags[x] \cup IF x = c THEN {"RECEIVING"} ELSE {}
                             /\ b.getfrom[x] = IF x = c THEN src ELSE s.getfrom[x]
          /\ b.sig_procs = s.sig_procs
      BY <1>3, <2>1, BlockReceivingGood
    <2> HIDE DEF b
    <2>3. Pending(b) = Pending(s)
      BY <2>2, Members DEF Pending
    <2>4. mini_rec(s, c, src) = IF b.sig_procs > 0 /\ c = MM /\ src = ANY THEN inform(b) ELSE b
      BY <1>3 DEF mini_rec, b
    <2>5. CASE c = MM /\ src = ANY
      <3>1. Idling(b)
        BY <2>2, <2>5, Members DEF Idling
      <3>2. CASE b.sig_procs > 0
        BY <2>2, <2>4, <2>5, <3>1, <3>2, InformGood
      <3>3. CASE ~(b.sig_procs > 0)
        <4>1. b.sig_procs = 0
          BY <2>2, <3>3, PendingFinite DEF Good, Sound
        <4>2. Told(b)
          BY <2>2, <4>1, PendingFinite DEF Good, Sound, Told
        <4> QED BY <2>2, <2>4, <3>3, <4>2
      <3> QED BY <3>2, <3>3
    <2>6. CASE ~(c = MM /\ src = ANY)
      <3>1. Idling(b) => Idling(s)
        BY <2>2, <2>6, Members DEF Idling
      <3>2. Told(b)
        BY <2>3, <3>1 DEF Told
      <3> QED BY <2>2, <2>4, <2>6, <3>2
    <2> QED BY <2>5, <2>6
  <1> QED BY <1>1, <1>2, <1>3

(* sys_call() keeps the whole invariant, for every caller and call that    *)
(* the call graph admits.                                                  *)
LEMMA CallGood ==
    ASSUME NEW s, Good(s), Runs(s), Told(s), s.proc_ptr # IDLE,
           NEW fn \in Func, NEW x \in Proc \cup {ANY}, NEW m \in ClientMsg, Allowed(s, fn, x)
    PROVE  LET t == sys_call(s, fn, x, m) IN Good(t) /\ Runs(t) /\ Told(t)
  <1> DEFINE c == s.proc_ptr
             t == mini_send(s, c, x, m)
  <1>1. /\ s \in KState /\ c \in Proc /\ m \in Msg
        /\ Live(s, c) /\ c \in Elems(s.rdy[QueueOf(s, c)]) /\ c = Head(s.rdy[QueueOf(s, c)])
        /\ c \in Task \cup Server => Busy(s)
    BY Running, Messages DEF Good, KState
  <1>2. c \notin NeverRun /\ s.flags[c] = {} /\ s.prio[c] # "NONE"
    BY <1>1 DEF Live
  <1>3. CASE CallResult(s, fn, x) # "OK"
    BY <1>3 DEF sys_call
  <1>4. CASE CallResult(s, fn, x) = "OK" /\ fn = "RECEIVE"
    <2>1. ~isuserp(s, c)
      BY <1>4 DEF CallResult
    <2>2. Busy(s)
      BY <1>1, <1>2, <2>1, Ranks DEF Proc, isemptyp
    <2>3. sys_call(s, fn, x, m) = mini_rec(s, c, x)
      BY <1>4 DEF sys_call
    <2> QED BY <1>1, <1>2, <2>2, <2>3, RecGood
  <1>5. CASE CallResult(s, fn, x) = "OK" /\ fn # "RECEIVE"
    <2>1. SendResult(s, c, x) = "OK" /\ (isuserp(s, c) => fn = "BOTH")
      BY <1>5 DEF CallResult
    <2>2. /\ x \in Proc /\ x # HARDWARE /\ x # c
          /\ isuserp(s, c) => x \in Server
          /\ Waiting(s, x, c) \/ x \notin User
      <3>1. CASE isuserp(s, c)
        <4>1. x \in Server
          BY <2>1, <3>1 DEF SendResult, issysentn, Server
        <4>2. c \notin Server
          BY <1>1, <3>1, Servers DEF isuserp
        <4> QED BY <4>1, <4>2, Slots DEF NeverRun
      <3>2. CASE ~isuserp(s, c)
        <4>1. <<c, fn, x>> \in Calls /\ (x \in User => isemptyp(s, x) \/ Waiting(s, x, c))
          BY <3>2 DEF Allowed
        <4>2. x \notin {ANY, HARDWARE, IDLE, c}
          BY <1>5, <4>1, ConstAssumption
        <4>3. ~isemptyp(s, x)
          BY <2>1 DEF SendResult
        <4> QED BY <3>2, <4>1, <4>2, <4>3
      <3> QED BY <3>1, <3>2
    <2>3. ~isuserp(s, c) => Busy(s)
      BY <1>1, <1>2, Ranks DEF Proc, isemptyp
    <2>4. ~isrxhardware(x) /\ x # ANY
      BY <2>2, Slots DEF isrxhardware
    <2>5. sys_call(s, fn, x, m) = IF fn = "SEND" THEN t ELSE mini_rec(t, c, x)
      BY <1>5 DEF sys_call
    <2>6. CASE Waiting(s, x, c)
      <3>1. t = Deliver(s, c, x, m) /\ "RECEIVING" \in s.flags[x] /\ "SENDING" \notin s.flags[x]
        BY <2>1, <2>6 DEF mini_send, Waiting
      <3>2. /\ Good(t) /\ Eased(s, t) /\ Told(t)
            /\ Reflagged(s, t, x, s.flags[x] \ {"RECEIVING"})
            /\ Busy(s) => Runs(t)
            /\ x \notin User => SameUsers(s, t)
        <4>1. c \in Proc /\ x \in Proc /\ m \in Msg /\ "RECEIVING" \in s.flags[x]
          BY <1>1, <2>2, <3>1
        <4> HIDE DEF c, t
        <4> QED BY <3>1, <4>1, DeliverGood
      <3> HIDE DEF t
      <3>3. fn = "SEND" => Runs(t)
        BY <2>1, <2>3, <3>2
      <3>4. t.flags[c] = {} /\ t.prio = s.prio
        BY <1>1, <1>2, <2>2, <3>2 DEF Eased, Reflagged
      <3>5. Acceptable(t, c, x) = {}
        <4>1. x \notin Sender(t)
          BY <2>2, <3>1, <3>2 DEF Sender, Reflagged
        <4>2. \A i \in 1 .. Len(t.callerq[c]) : t.callerq[c][i] \in Sender(t)
          BY <1>1, <3>2 DEF Good, Sound, Queued, Line, Elems
        <4> QED BY <2>4, <4>1, <4>2 DEF Acceptable
      <3>6. CASE isuserp(s, c)
        <4>1. QueueOf(s, c) = USER_Q /\ QueueOf(t, c) = USER_Q /\ USER_Q # TASK_Q
          BY <3>4, <3>6 DEF QueueOf, istaskp, isservp, isuserp, USER_Q, TASK_Q
        <4>2. t.rdy[USER_Q] = s.rdy[USER_Q]
          BY <2>2, <3>2, <3>6, Slots DEF SameUsers
        <4>3. /\ c \in Elems(t.rdy[QueueOf(t, c)]) /\ c = Head(t.rdy[QueueOf(t, c)])
              /\ QueueOf(t, c) # TASK_Q
          BY <1>1, <4>1, <4>2
        <4>4. Good(mini_rec(t, c, x)) /\ Runs(mini_rec(t, c, x)) /\ Told(mini_rec(t, c, x))
          BY <1>1, <1>2, <2>2, <2>4, <3>2, <3>4, <3>5, <4>3, RecGood
        <4> QED BY <2>5, <3>2, <3>3, <4>4
      <3>7. CASE ~isuserp(s, c)
        <4>1. Good(mini_rec(t, c, x)) /\ Runs(mini_rec(t, c, x)) /\ Told(mini_rec(t, c, x))
          BY <1>1, <1>2, <2>2, <2>3, <3>2, <3>4, <3>5, <3>7, RecGood
        <4> QED BY <2>5, <3>2, <3>3, <4>1
      <3> QED BY <3>6, <3>7
    <2>7. CASE ~Waiting(s, x, c)
      <3>1. t = BlockSending(s, c, x, m)
        BY <2>1, <2>7 DEF mini_send
      <3>2. /\ Good(t) /\ Runs(t) /\ Told(t)
            /\ t.flags[c] = {"SENDING"} /\ t.sendto[c] = x /\ t.prio = s.prio
        BY <1>1, <2>2, <2>7, <3>1, BlockSendingGood
      <3> HIDE DEF t
      <3>3. Good(mini_rec(t, c, x)) /\ Runs(mini_rec(t, c, x)) /\ Told(mini_rec(t, c, x))
        BY <1>1, <1>2, <2>2, <3>2, RecGood
      <3> QED BY <2>5, <3>2, <3>3
    <2> QED BY <2>6, <2>7
  <1> QED BY <1>3, <1>4, <1>5

(* interrupt() wakes a task that waits for it and else remembers: a task   *)
(* in the second half of a BOTH waits for its reply, not for an interrupt. *)
LEMMA InterruptGood ==
    ASSUME NEW s, Steady(s), NEW p \in Driver \cup {CLOCK}
    PROVE  Steady(interrupt(s, p))
  <1>0. s \in KState /\ p \in Proc /\ p \notin NeverRun /\ p \notin User /\ p \in Task
    BY Slots DEF Steady, Good
  <1>1. CASE s.flags[p] \cap {"RECEIVING", "SENDING"} # {"RECEIVING"} \/ ~isrxhardware(s.getfrom[p])
    <2> DEFINE v == [s EXCEPT !.intblk[p] = TRUE]
    <2>1. interrupt(s, p) = v
      BY <1>1 DEF interrupt
    <2>2. /\ v \in KState
          /\ v.prio = s.prio /\ v.getfrom = s.getfrom /\ v.sendto = s.sendto
          /\ v.callerq = s.callerq /\ v.pending = s.pending /\ v.pendcount = s.pendcount
          /\ v.sig_procs = s.sig_procs /\ v.panic = s.panic /\ v.flags = s.flags
          /\ v.rdy = s.rdy /\ v.proc_ptr = s.proc_ptr
          /\ v.intblk = [s.intblk EXCEPT ![p] = TRUE]
      BY <1>0 DEF KState
    <2> HIDE DEF v
    <2>3. Sender(v) = Sender(s) /\ Pending(v) = Pending(s)
      BY <2>2 DEF Sender, Pending
    <2>4. "RECEIVING" \in s.flags[p] => ~isrxhardware(s.getfrom[p])
      <3>1. SUFFICES ASSUME "RECEIVING" \in s.flags[p], "SENDING" \in s.flags[p]
                     PROVE  ~isrxhardware(s.getfrom[p])
        BY <1>1
      <3>2. p \in Sender(s)
        BY <1>0, <3>1 DEF Sender
      <3>3. s.getfrom[p] = s.sendto[p] /\ s.sendto[p] # HARDWARE /\ s.sendto[p] \in Proc
        BY <1>0, <3>1, <3>2 DEF Steady, Good, Sound, Targets, KState
      <3> QED BY <3>3, Slots DEF isrxhardware
    <2>5. Heard(v)
      <3>1. \A x \in Proc : x # p => v.intblk[x] = s.intblk[x]
        BY <1>0, <2>2 DEF KState
      <3> QED BY <2>2, <2>4, <3>1, Slots DEF Steady, Good, Sound, Heard
    <2>6. Kinds(v) /\ Targets(v) /\ Queued(v) /\ Signed(v) /\ Counted(v)
      <3>1. Sender(s) \subseteq Proc
        BY DEF Sender
      <3>2. Kinds(v)
        BY <2>2 DEF Steady, Good, Sound, Kinds
      <3>3. Targets(v)
        BY <2>2, <2>3, <3>1 DEF Steady, Good, Sound, Targets
      <3>4. Queued(v)
        BY <2>2, <2>3 DEF Steady, Good, Sound, Queued
      <3>5. Signed(v)
        BY <2>2 DEF Steady, Good, Sound, Signed, isuserp
      <3>6. Counted(v)
        BY <2>2, <2>3 DEF Steady, Good, Sound, Counted
      <3> QED BY <3>2, <3>3, <3>4, <3>5, <3>6
    <2>7. Linked(v)
      BY <2>2, SameLinked DEF Steady, Good
    <2> QED BY <2>1, <2>2, <2>3, <2>5, <2>6, <2>7 DEF Steady, Good, Sound, Runs, Told, Idling
  <1>2. CASE ~(s.flags[p] \cap {"RECEIVING", "SENDING"} # {"RECEIVING"}
               \/ ~isrxhardware(s.getfrom[p]))
    <2> DEFINE h == CopyMess(s, HARDWARE, HardInt, p)
               u == [h EXCEPT !.flags[p] = @ \ {"RECEIVING"}, !.intblk[p] = FALSE]
    <2>1. h \in KState /\ h = [s EXCEPT !.m_source[p] = HARDWARE, !.mess[p] = HardInt]
      BY <1>0, CopyType, Members, Messages DEF CopyMess
    <2> HIDE DEF h
    <2>2. /\ u \in KState
          /\ u.prio = s.prio /\ u.getfrom = s.getfrom /\ u.sendto = s.sendto
          /\ u.callerq = s.callerq /\ u.pending = s.pending /\ u.pendcount = s.pendcount
          /\ u.sig_procs = s.sig_procs /\ u.panic = s.panic
          /\ u.rdy = s.rdy /\ u.proc_ptr = s.proc_ptr
          /\ u.flags = [s.flags EXCEPT ![p] = @ \ {"RECEIVING"}]
          /\ u.intblk = [s.intblk EXCEPT ![p] = FALSE]
      <3>1. /\ h.prio = s.prio /\ h.getfrom = s.getfrom /\ h.sendto = s.sendto
            /\ h.callerq = s.callerq /\ h.pending = s.pending /\ h.pendcount = s.pendcount
            /\ h.sig_procs = s.sig_procs /\ h.panic = s.panic /\ h.flags = s.flags
            /\ h.rdy = s.rdy /\ h.proc_ptr = s.proc_ptr /\ h.intblk = s.intblk
        BY <1>0, <2>1 DEF KState
      <3> DEFINE F == [h.flags EXCEPT ![p] = @ \ {"RECEIVING"}]
                 B == [h.intblk EXCEPT ![p] = FALSE]
      <3>2. F \in [Proc -> SUBSET Flag] /\ B \in [Proc -> BOOLEAN]
        <4>1. h.flags \in [Proc -> SUBSET Flag] /\ h.intblk \in [Proc -> BOOLEAN]
          BY <2>1 DEF KState
        <4> QED BY <4>1
      <3>3. u = [h EXCEPT !.flags = F, !.intblk = B]
        BY <2>1 DEF KState
      <3> HIDE DEF F, B, u
      <3>4. u \in KState /\ u.flags = F /\ u.intblk = B
        BY <2>1, <3>2, <3>3 DEF KState
      <3>5. /\ u.prio = h.prio /\ u.getfrom = h.getfrom /\ u.sendto = h.sendto
            /\ u.callerq = h.callerq /\ u.pending = h.pending /\ u.pendcount = h.pendcount
            /\ u.sig_procs = h.sig_procs /\ u.panic = h.panic
            /\ u.rdy = h.rdy /\ u.proc_ptr = h.proc_ptr
        BY <2>1, <3>3 DEF KState
      <3> QED BY <3>1, <3>4, <3>5 DEF F, B
    <2> HIDE DEF u
    <2>3. s.flags[p] = {"RECEIVING"}
      BY <1>0, <1>2 DEF Steady, Good, Sound, Kinds
    <2>4. \A x \in Proc : /\ u.flags[x] = IF x = p THEN {} ELSE s.flags[x]
                          /\ u.intblk[x] => s.intblk[x]
      <3>1. s.flags \in [Proc -> SUBSET Flag] /\ s.intblk \in [Proc -> BOOLEAN]
        BY <1>0 DEF KState
      <3>2. \A x \in Proc : u.flags[x] = IF x = p THEN {} ELSE s.flags[x]
        BY <2>2, <2>3, <3>1
      <3>3. \A x \in Proc : u.intblk[x] => s.intblk[x]
        BY <2>2, <3>1
      <3> QED BY <3>2, <3>3
    <2>5. Eased(s, u)
      BY <2>2, <2>3, <2>4 DEF Eased
    <2>6. Sound(u) /\ Told(u)
      BY <2>5, EasedSound DEF Steady, Good
    <2>7. istaskp(s, p)
      BY <1>0, Ranks DEF NeverRun
    <2> DEFINE t == ReadyIfFree(u, p)
    <2>8. Good(t) /\ SchedOnly(u, t) /\ Runs(t)
      BY <1>0, <2>2, <2>3, <2>4, <2>6, <2>7, FreeGood DEF Steady
    <2>9. interrupt(s, p) = t
      <3>1. interrupt(s, p) = ready(u, p)
        BY <1>2 DEF interrupt, u, h
      <3> QED BY <1>0, <2>4, <3>1 DEF ReadyIfFree
    <2> HIDE DEF t
    <2>10. Told(t)
      BY <2>6, <2>8, SchedEased, EasedSound
    <2> QED BY <2>8, <2>9, <2>10 DEF Steady
  <1> QED BY <1>1, <1>2

-----------------------------------------------------------------------------
(* Signals and the system task. *)

(* sched() moves the process whose quantum is over behind the others. *)
LEMMA SchedGood ==
    ASSUME NEW s, Steady(s)
    PROVE  Steady(sched(s))
  <1>1. CASE s.rdy[USER_Q] = <<>>
    BY <1>1 DEF sched
  <1>2. CASE s.rdy[USER_Q] # <<>>
    <2> DEFINE l == Append(Tail(s.rdy[USER_Q]), Head(s.rdy[USER_Q]))
               r == [s EXCEPT !.rdy[USER_Q] = Append(Tail(@), Head(@))]
               t == pick_proc(r)
    <2>1. s \in KState /\ s.rdy \in [Queue -> Seq(Proc)] /\ s.rdy[USER_Q] \in Seq(Proc)
      BY Members DEF Steady, Good, KState
    <2>2. l \in Seq(Proc)
      BY <1>2, <2>1
    <2>3. r = [s EXCEPT !.rdy[USER_Q] = l]
      BY <2>1 DEF KState
    <2> HIDE DEF l, r
    <2>4. r \in KState /\ r.rdy = [s.rdy EXCEPT ![USER_Q] = l] /\ SchedOnly(s, r)
      BY <2>1, <2>2, <2>3, Members DEF KState, SchedOnly
    <2>5. Linked(r)
      <3> SUFFICES ASSUME NEW q \in Queue PROVE Line(r.rdy[q], On(r, q))
        BY DEF Linked
      <3>1. On(r, q) = On(s, q)
        BY <2>4 DEF On, Live, QueueOf, istaskp, isservp, SchedOnly
      <3>2. Line(s.rdy[q], On(s, q))
        BY DEF Steady, Good, Linked
      <3>3. q = USER_Q => Line(l, On(s, q))
        BY <1>2, <2>1, <3>2, LineRotate DEF l
      <3>4. r.rdy[q] = IF q = USER_Q THEN l ELSE s.rdy[q]
        BY <2>1, <2>4
      <3> QED BY <3>1, <3>2, <3>3, <3>4
    <2>6. t \in KState /\ SchedOnly(r, t) /\ t.rdy = r.rdy /\ t.proc_ptr = First(r.rdy)
      BY <2>4, PickType, PickFirst
    <2> HIDE DEF t
    <2>7. Linked(t)
      BY <2>5, <2>6, SameLinked DEF SchedOnly
    <2>8. Sound(t) /\ Told(t)
      <3>1. Sound(r) /\ Told(r)
        BY <2>4, SchedEased, EasedSound DEF Steady, Good
      <3> QED BY <2>6, <3>1, SchedEased, EasedSound
    <2>9. sched(s) = t
      BY <1>2 DEF sched, t, r
    <2> QED BY <2>6, <2>7, <2>8, <2>9 DEF Steady, Good, Runs
  <1> QED BY <1>1, <1>2

(* cause_sig() counts the signal, holds the process and tells MM, if MM    *)
(* waits; a signal that has not been reported yet is only counted.         *)
LEMMA CauseGood ==
    ASSUME NEW s, Steady(s), NEW p \in User, isuserp(s, p), NEW sig \in Sig,
           NEW r, r = cause_sig(s, p, sig)
    PROVE  /\ Steady(r) /\ r.prio = s.prio
           /\ \A x \in Task : r.flags[x] = s.flags[x]
           /\ "RECEIVING" \in s.flags[p] => "RECEIVING" \in r.flags[p]
  <1> DEFINE S == s.pending[p] \cup {sig}
             n == s.pendcount[p] + 1
             t == [s EXCEPT !.pending[p] = @ \cup {sig}, !.pendcount[p] = @ + 1]
             w == UnreadyIfFree(t, p)
             u == [w EXCEPT !.flags[p] = @ \cup {"PENDING", "SIG_PENDING"},
                            !.sig_procs = @ + 1]
  <1>0. /\ s \in KState /\ p \in Proc /\ p \notin Task /\ p \notin Server /\ p \notin NeverRun
        /\ S \in SUBSET Sig /\ S # {} /\ n \in Nat /\ n > 0 /\ s.sig_procs \in Int
    <2>1. s \in KState /\ p \in Proc
      BY Members DEF Steady, Good
    <2>2. s.pending[p] \in SUBSET Sig /\ s.pendcount[p] \in Nat /\ s.sig_procs \in Int
      BY <2>1 DEF KState
    <2> QED BY <2>1, <2>2, Slots
  <1>1. CASE sig \in s.pending[p]
    BY <1>1 DEF cause_sig
  <1>2. t = [s EXCEPT !.pending[p] = S, !.pendcount[p] = n]
    BY <1>0 DEF KState
  <1>d. r = IF sig \in s.pending[p] THEN s ELSE IF "PENDING" \in s.flags[p] THEN t
            ELSE IF Idling(s) THEN inform(u) ELSE u
    BY DEF cause_sig, Idling
  <1> HIDE DEF S, n, t
  <1>3. /\ t \in KState /\ t.prio = s.prio /\ t.getfrom = s.getfrom /\ t.sendto = s.sendto
        /\ t.callerq = s.callerq /\ t.sig_procs = s.sig_procs /\ t.panic = s.panic
        /\ t.flags = s.flags /\ t.rdy = s.rdy /\ t.proc_ptr = s.proc_ptr /\ t.intblk = s.intblk
        /\ t.pending = [s.pending EXCEPT ![p] = S] /\ t.pendcount = [s.pendcount EXCEPT ![p] = n]
    <2>1. t \in KState
      BY <1>0, <1>2 DEF KState
    <2>2. /\ t.prio = s.prio /\ t.getfrom = s.getfrom /\ t.sendto = s.sendto
          /\ t.callerq = s.callerq /\ t.sig_procs = s.sig_procs /\ t.panic = s.panic
          /\ t.flags = s.flags /\ t.rdy = s.rdy /\ t.proc_ptr = s.proc_ptr /\ t.intblk = s.intblk
      BY <1>0, <1>2 DEF KState
    <2>3. t.pending = [s.pending EXCEPT ![p] = S] /\ t.pendcount = [s.pendcount EXCEPT ![p] = n]
      BY <1>0, <1>2 DEF KState
    <2> QED BY <2>1, <2>2, <2>3, Zenon
  <1>4. \A x \in Proc : /\ t.pending[x] = IF x = p THEN S ELSE s.pending[x]
                        /\ t.pendcount[x] = IF x = p THEN n ELSE s.pendcount[x]
    <2>1. s.pending \in [Proc -> SUBSET Sig] /\ s.pendcount \in [Proc -> Nat]
      BY <1>0 DEF KState
    <2> QED BY <1>3, <2>1
  <1>5. Linked(t) /\ Runs(t)
    <2>1. /\ t.rdy = s.rdy /\ t.prio = s.prio /\ t.proc_ptr = s.proc_ptr
          /\ \A x \in Proc \ NeverRun : t.flags[x] = {} <=> s.flags[x] = {}
      BY <1>3
    <2>2. Linked(t)
      BY <2>1, SameLinked, Zenon DEF Steady, Good
    <2> QED BY <2>1, <2>2 DEF Steady, Runs
  <1>6. CASE sig \notin s.pending[p] /\ "PENDING" \in s.flags[p]
    <2>1. Sender(t) = Sender(s) /\ Pending(t) = Pending(s) /\ Sender(s) \subseteq Proc
      BY <1>3 DEF Sender, Pending
    <2>2. Kinds(t)
      BY <1>3 DEF Steady, Good, Sound, Kinds
    <2>3. Targets(t)
      BY <1>3, <2>1 DEF Steady, Good, Sound, Targets
    <2>4. Queued(t)
      BY <1>3, <2>1 DEF Steady, Good, Sound, Queued
    <2>5. Signed(t)
      <3>1. "SIG_PENDING" \in s.flags[p]
        BY <1>0, <1>6 DEF Steady, Good, Sound, Signed
      <3> QED BY <1>0, <1>3, <1>4, <1>6, <3>1 DEF Steady, Good, Sound, Signed, isuserp
    <2>6. Counted(t) /\ Heard(t)
      BY <1>3, <2>1 DEF Steady, Good, Sound, Counted, Heard
    <2>7. Good(t)
      BY <1>3, <1>5, <2>2, <2>3, <2>4, <2>5, <2>6 DEF Steady, Good, Sound
    <2>8. Told(t)
      BY <1>3, <2>1 DEF Steady, Told, Idling
    <2> QED BY <1>3, <1>5, <1>6, <1>d, <2>7, <2>8 DEF Steady
  <1>7. CASE sig \notin s.pending[p] /\ "PENDING" \notin s.flags[p]
    <2>1. w \in KState /\ SchedOnly(t, w)
      BY <1>0, <1>3, IfFreeType
    <2>2. Runs(w)
      BY <1>0, <1>3, <1>5, UnreadyRuns
    <2> HIDE DEF w
    <2>3. /\ w.flags = s.flags /\ w.prio = s.prio /\ w.getfrom = s.getfrom /\ w.sendto = s.sendto
          /\ w.callerq = s.callerq /\ w.intblk = s.intblk /\ w.pending = t.pending
          /\ w.pendcount = t.pendcount /\ w.sig_procs = s.sig_procs /\ w.panic = s.panic
      BY <1>3, <2>1 DEF SchedOnly
    <2> DEFINE F == [w.flags EXCEPT ![p] = @ \cup {"PENDING", "SIG_PENDING"}]
    <2>4. /\ F \in [Proc -> SUBSET Flag]
          /\ \A x \in Proc : F[x] = s.flags[x] \cup IF x = p THEN {"PENDING", "SIG_PENDING"} ELSE {}
      <3>1. w.flags \in [Proc -> SUBSET Flag]
        BY <2>1 DEF KState
      <3>2. F \in [Proc -> SUBSET Flag]
        BY <3>1 DEF Flag
      <3>3. \A x \in Proc : F[x] = s.flags[x] \cup IF x = p THEN {"PENDING", "SIG_PENDING"} ELSE {}
        BY <2>3, <3>1
      <3> QED BY <3>2, <3>3
    <2>5. u = [w EXCEPT !.flags = F, !.sig_procs = s.sig_procs + 1]
      BY <2>1, <2>3 DEF KState
    <2> HIDE DEF F, u
    <2>6. /\ u \in KState /\ u.flags = F /\ u.sig_procs = s.sig_procs + 1
          /\ u.prio = w.prio /\ u.getfrom = w.getfrom /\ u.sendto = w.sendto
          /\ u.callerq = w.callerq /\ u.intblk = w.intblk /\ u.pending = w.pending
          /\ u.pendcount = w.pendcount /\ u.panic = w.panic
          /\ u.rdy = w.rdy /\ u.proc_ptr = w.proc_ptr
      <3>1. s.sig_procs + 1 \in Int
        BY <1>0
      <3>2. ASSUME NEW f \in [Proc -> SUBSET Flag], NEW i \in Int
            PROVE  [w EXCEPT !.flags = f, !.sig_procs = i] \in KState
        BY <2>1 DEF KState
      <3>3. u \in KState
        BY <2>4, <2>5, <3>1, <3>2, Zenon
      <3>4. u.flags = F /\ u.sig_procs = s.sig_procs + 1
        BY <2>1, <2>5 DEF KState
      <3>5. /\ u.prio = w.prio /\ u.getfrom = w.getfrom /\ u.sendto = w.sendto
            /\ u.callerq = w.callerq /\ u.intblk = w.intblk /\ u.pending = w.pending
            /\ u.pendcount = w.pendcount /\ u.panic = w.panic
            /\ u.rdy = w.rdy /\ u.proc_ptr = w.proc_ptr
        BY <2>1, <2>5 DEF KState
      <3> QED BY <3>3, <3>4, <3>5
    <2>7. /\ u.prio = s.prio /\ u.getfrom = s.getfrom /\ u.sendto = s.sendto
          /\ u.callerq = s.callerq /\ u.intblk = s.intblk /\ u.panic = s.panic
      BY <2>3, <2>6
    <2>8. \A x \in Proc :
             /\ u.flags[x] = s.flags[x] \cup IF x = p THEN {"PENDING", "SIG_PENDING"} ELSE {}
             /\ u.pending[x] = IF x = p THEN S ELSE s.pending[x]
             /\ u.pendcount[x] = IF x = p THEN n ELSE s.pendcount[x]
      BY <1>4, <2>3, <2>4, <2>6
    <2>9. Sender(u) = Sender(s) /\ Sender(s) \subseteq Proc
      BY <2>8 DEF Sender
    <2>10. Pending(u) = Pending(s) \cup {p} /\ p \notin Pending(s)
      BY <1>7, <2>8, Members DEF Pending
    <2>11. Kinds(u)
      BY <1>0, <2>7, <2>8, Slots DEF Steady, Good, Sound, Kinds, isuserp
    <2>12. Targets(u)
      BY <2>7, <2>8, <2>9 DEF Steady, Good, Sound, Targets
    <2>13. Queued(u)
      BY <2>7, <2>9 DEF Steady, Good, Sound, Queued
    <2>14. Signed(u)
      BY <1>0, <2>7, <2>8 DEF Steady, Good, Sound, Signed, isuserp
    <2>15. Counted(u)
      <3>1. Cardinality(Pending(s) \cup {p}) = Cardinality(Pending(s)) + 1
        <4>1. IsFiniteSet(Pending(s))
          BY PendingFinite DEF Steady, Good, Sound
        <4> QED BY <2>10, <4>1, FS_AddElement
      <3> QED BY <2>6, <2>10, <3>1 DEF Steady, Good, Sound, Counted
    <2>16. Heard(u)
      BY <1>0, <2>7, <2>8, Slots DEF Steady, Good, Sound, Heard
    <2>17. Sound(u)
      BY <2>7, <2>11, <2>12, <2>13, <2>14, <2>15, <2>16 DEF Steady, Good, Sound
    <2>18. Linked(u)
      <3>1. ~Live(u, p)
        BY <1>0, <2>8 DEF Live
      <3>2. \A x \in Proc : x # p => u.flags[x] = t.flags[x] /\ u.prio[x] = t.prio[x]
        <4>1. u.prio = t.prio /\ \A x \in Proc : x # p => u.flags[x] = t.flags[x]
          <5>1. u.prio = s.prio /\ t.prio = s.prio /\ t.flags = s.flags
            BY <1>3, <2>7
          <5>2. \A x \in Proc : x # p => u.flags[x] = s.flags[x]
            BY <2>8
          <5> QED BY <5>1, <5>2, Zenon
        <4> QED BY <4>1, Zenon
      <3>3. u.rdy = UnreadyIfFree(t, p).rdy
        BY <2>6 DEF w
      <3>4. t \in KState /\ Linked(t) /\ p \in Proc
        BY <1>0, <1>3, <1>5
      <3> QED BY <3>1, <3>2, <3>3, <3>4, UnreadyLinked, Zenon
    <2>19. Good(u) /\ Runs(u)
      BY <2>2, <2>6, <2>17, <2>18 DEF Good, Runs
    <2>20. Idling(u) <=> Idling(s)
      BY <1>0, <2>7, <2>8, Members DEF Idling, Server
    <2>21. \A x \in Task : x \in Proc /\ x # MM /\ x \notin User /\ u.flags[x] = s.flags[x]
      BY <1>0, <2>8, Slots DEF Proc, Server
    <2>22. CASE Idling(s)
      <3> DEFINE z == inform(u)
      <3>1. /\ Good(z) /\ Told(z) /\ Runs(z) /\ z.prio = u.prio
            /\ \A x \in Proc \ {MM} : /\ z.flags[x] \subseteq u.flags[x]
                                      /\ u.flags[x] \ z.flags[x] \subseteq {"PENDING"}
        BY <2>19, <2>20, <2>22, InformGood
      <3> HIDE DEF z
      <3>2. r = z
        BY <1>7, <1>d, <2>22 DEF z
      <3>3. \A x \in Task : z.flags[x] = s.flags[x]
        <4>1. \A x \in Task : "PENDING" \notin u.flags[x]
          BY <2>21, <2>17 DEF Sound, Kinds
        <4> QED BY <2>21, <3>1, <4>1
      <3>4. "RECEIVING" \in s.flags[p] => "RECEIVING" \in z.flags[p]
        BY <1>0, <2>8, <3>1 DEF Server
      <3> QED BY <2>7, <3>1, <3>2, <3>3, <3>4 DEF Steady
    <2>23. CASE ~Idling(s)
      <3>1. r = u
        BY <1>7, <1>d, <2>23
      <3>2. Told(u)
        BY <2>20, <2>23 DEF Told
      <3> QED BY <1>0, <2>7, <2>8, <2>19, <2>21, <3>1, <3>2 DEF Steady
    <2> QED BY <2>22, <2>23
  <1> QED BY <1>1, <1>6, <1>7, <1>d

(* do_endsig() counts a finished signal, and lets the process go on after  *)
(* the last: none that MM has not been told of can be left.                *)
LEMMA EndsigGood ==
    ASSUME NEW s, Steady(s), Busy(s), NEW p \in User, isemptyp(s, p) \/ Unfinished(s, p) > 0
    PROVE  Steady(do_endsig(s, p))
  <1> DEFINE n == s.pendcount[p] - 1
             t == [s EXCEPT !.pendcount[p] = @ - 1]
             u == [s EXCEPT !.pendcount[p] = 0, !.flags[p] = @ \ {"SIG_PENDING"}]
  <1>0. /\ s \in KState /\ p \in Proc /\ p \notin Task /\ p \notin Server /\ p \notin NeverRun
        /\ s.pendcount[p] \in Nat
        /\ s.flags \in [Proc -> SUBSET Flag] /\ s.pendcount \in [Proc -> Nat]
    <2>1. s \in KState /\ p \in Proc
      BY Members DEF Steady, Good
    <2> QED BY <2>1, Slots DEF KState
  <1>1. CASE isemptyp(s, p) \/ s.pendcount[p] = 0
    BY <1>1 DEF do_endsig
  <1>2. CASE ~isemptyp(s, p) /\ s.pendcount[p] > 1
    <2>1. n \in Nat /\ n > 0
      BY <1>0, <1>2
    <2>2. t = [s EXCEPT !.pendcount[p] = n]
      BY <1>0 DEF KState
    <2>3. do_endsig(s, p) = t
      BY <1>0, <1>2 DEF do_endsig
    <2> HIDE DEF n, t
    <2>4. /\ t \in KState /\ t.prio = s.prio /\ t.getfrom = s.getfrom /\ t.sendto = s.sendto
          /\ t.callerq = s.callerq /\ t.sig_procs = s.sig_procs /\ t.panic = s.panic
          /\ t.flags = s.flags /\ t.rdy = s.rdy /\ t.proc_ptr = s.proc_ptr /\ t.intblk = s.intblk
          /\ t.pending = s.pending /\ t.pendcount = [s.pendcount EXCEPT ![p] = n]
      BY <1>0, <2>1, <2>2 DEF KState
    <2>5. \A x \in Proc : t.pendcount[x] = IF x = p THEN n ELSE s.pendcount[x]
      BY <1>0, <2>4
    <2>6. Sender(t) = Sender(s) /\ Pending(t) = Pending(s) /\ Sender(s) \subseteq Proc
      BY <2>4 DEF Sender, Pending
    <2>7. Kinds(t)
      BY <2>4 DEF Steady, Good, Sound, Kinds
    <2>8. Targets(t)
      BY <2>4, <2>6 DEF Steady, Good, Sound, Targets
    <2>9. Queued(t)
      BY <2>4, <2>6 DEF Steady, Good, Sound, Queued
    <2>10. Signed(t)
      BY <1>0, <1>2, <2>1, <2>4, <2>5 DEF Steady, Good, Sound, Signed, isuserp
    <2>11. Counted(t) /\ Heard(t)
      BY <2>4, <2>6 DEF Steady, Good, Sound, Counted, Heard
    <2>12. Linked(t) /\ Runs(t)
      <3>1. Linked(t)
        <4>1. /\ t.rdy = s.rdy /\ t.prio = s.prio
              /\ \A x \in Proc \ NeverRun : t.flags[x] = {} <=> s.flags[x] = {}
          BY <2>4
        <4> QED BY <4>1, SameLinked, Zenon DEF Steady, Good
      <3> QED BY <2>4, <3>1 DEF Steady, Runs
    <2>13. Told(t)
      BY <2>4, <2>6 DEF Steady, Told, Idling
    <2>14. Sound(t)
      BY <2>4, <2>7, <2>8, <2>9, <2>10, <2>11 DEF Steady, Good, Sound
    <2> QED BY <2>3, <2>4, <2>12, <2>13, <2>14 DEF Steady, Good
  <1>3. CASE ~isemptyp(s, p) /\ ~(s.pendcount[p] > 1) /\ s.pendcount[p] # 0
    <2>1. s.pendcount[p] = 1
      BY <1>0, <1>3
    <2>2. s.pending[p] = {} /\ "PENDING" \notin s.flags[p] /\ "SIG_PENDING" \in s.flags[p]
      <3>1. IsFiniteSet(s.pending[p])
        BY <1>0, ConstAssumption, FS_Subset DEF KState
      <3>2. Cardinality(s.pending[p]) \in Nat /\ 1 - Cardinality(s.pending[p]) > 0
        BY <1>3, <2>1, <3>1, FS_CardinalityType DEF Unfinished
      <3>3. s.pending[p] = {}
        BY <3>1, <3>2, FS_EmptySet
      <3> QED BY <1>0, <2>1, <3>3 DEF Steady, Good, Sound, Signed
    <2> DEFINE F == [s.flags EXCEPT ![p] = @ \ {"SIG_PENDING"}]
               C == [s.pendcount EXCEPT ![p] = 0]
    <2>3. /\ F \in [Proc -> SUBSET Flag] /\ C \in [Proc -> Nat]
          /\ \A x \in Proc : F[x] = IF x = p THEN s.flags[p] \ {"SIG_PENDING"} ELSE s.flags[x]
          /\ \A x \in Proc : C[x] = IF x = p THEN 0 ELSE s.pendcount[x]
      <3>1. F \in [Proc -> SUBSET Flag] /\ C \in [Proc -> Nat]
        BY <1>0
      <3>2. \A x \in Proc : F[x] = IF x = p THEN s.flags[p] \ {"SIG_PENDING"} ELSE s.flags[x]
        BY <1>0
      <3>3. \A x \in Proc : C[x] = IF x = p THEN 0 ELSE s.pendcount[x]
        BY <1>0
      <3> QED BY <3>1, <3>2, <3>3
    <2>4. u = [s EXCEPT !.flags = F, !.pendcount = C]
      BY <1>0 DEF KState
    <2> HIDE DEF F, C
    <2>5. u \in KState
      <3>1. [s EXCEPT !.flags = F, !.pendcount = C] \in KState
        BY <1>0, <2>3 DEF KState
      <3> QED BY <2>4, <3>1
    <2> HIDE DEF u
    <2>6. /\ u.flags = F /\ u.pendcount = C
          /\ u.prio = s.prio /\ u.getfrom = s.getfrom /\ u.sendto = s.sendto
          /\ u.callerq = s.callerq /\ u.sig_procs = s.sig_procs /\ u.panic = s.panic
          /\ u.rdy = s.rdy /\ u.proc_ptr = s.proc_ptr /\ u.intblk = s.intblk
          /\ u.pending = s.pending
      BY <1>0, <2>4 DEF KState
    <2>7. \A x \in Proc : /\ u.flags[x] = IF x = p THEN s.flags[p] \ {"SIG_PENDING"} ELSE s.flags[x]
                          /\ u.pendcount[x] = IF x = p THEN 0 ELSE s.pendcount[x]
      BY <2>3, <2>6
    <2>8. Sender(u) = Sender(s) /\ Sender(s) \subseteq Proc
      BY <2>7 DEF Sender
    <2>9. Pending(u) = Pending(s)
      BY <2>7, Members DEF Pending
    <2>10. Kinds(u)
      BY <2>6, <2>7, Slots DEF Steady, Good, Sound, Kinds
    <2>11. Targets(u)
      BY <2>6, <2>7, <2>8 DEF Steady, Good, Sound, Targets
    <2>12. Queued(u)
      BY <2>6, <2>8 DEF Steady, Good, Sound, Queued
    <2>13. Signed(u)
      BY <2>2, <2>6, <2>7 DEF Steady, Good, Sound, Signed, isuserp
    <2>14. Counted(u)
      BY <2>6, <2>9 DEF Steady, Good, Sound, Counted
    <2>15. Heard(u)
      BY <1>0, <2>6, <2>7, Slots DEF Steady, Good, Sound, Heard
    <2>16. Sound(u)
      BY <2>6, <2>10, <2>11, <2>12, <2>13, <2>14, <2>15 DEF Steady, Good, Sound
    <2>17. Told(u)
      BY <2>6, <2>7, <2>9, Members DEF Steady, Told, Idling
    <2> DEFINE r == ReadyIfFree(u, p)
    <2>18. Good(r) /\ SchedOnly(u, r) /\ Runs(r)
      <3>1. s.flags[p] # {} /\ \A x \in Proc : x # p => u.flags[x] = s.flags[x]
        BY <2>2, <2>7
      <3> QED BY <1>0, <2>5, <2>6, <2>16, <3>1, FreeGood DEF Steady
    <2>19. do_endsig(s, p) = r
      BY <1>3 DEF do_endsig, u
    <2> HIDE DEF r
    <2>20. Told(r)
      BY <2>16, <2>17, <2>18, SchedEased, EasedSound
    <2> QED BY <2>18, <2>19, <2>20 DEF Steady
  <1> QED BY <1>1, <1>2, <1>3

(* do_newmap() readies a process that had no map and waits for nothing.    *)
LEMMA NewmapGood ==
    ASSUME NEW s, Steady(s), Busy(s), NEW p \in User
    PROVE  Steady(do_newmap(s, p))
  <1> DEFINE u == [s EXCEPT !.flags[p] = @ \ {"NO_MAP"}]
             r == IF s.flags[p] # {} THEN ReadyIfFree(u, p) ELSE u
  <1>0. s \in KState /\ p \in Proc /\ p \notin NeverRun
    BY Members, Slots DEF Steady, Good
  <1>1. u \in KState /\ u.flags = [s.flags EXCEPT ![p] = @ \ {"NO_MAP"}]
    BY <1>0, ClearFlags DEF KState
  <1>2. /\ u.prio = s.prio /\ u.getfrom = s.getfrom /\ u.sendto = s.sendto
        /\ u.callerq = s.callerq /\ u.pending = s.pending /\ u.pendcount = s.pendcount
        /\ u.sig_procs = s.sig_procs /\ u.panic = s.panic /\ u.intblk = s.intblk
        /\ u.rdy = s.rdy /\ u.proc_ptr = s.proc_ptr
    BY <1>0 DEF KState
  <1>3. do_newmap(s, p) = r
    BY DEF do_newmap, ReadyIfFree
  <1> HIDE DEF u
  <1>4. \A x \in Proc : u.flags[x] = IF x = p THEN s.flags[p] \ {"NO_MAP"} ELSE s.flags[x]
    <2>1. s.flags \in [Proc -> SUBSET Flag]
      BY <1>0 DEF KState
    <2> QED BY <1>1, <2>1
  <1>5. Eased(s, u)
    BY <1>2, <1>4 DEF Eased
  <1>6. Sound(u) /\ Told(u)
    BY <1>5, EasedSound DEF Steady, Good
  <1>7. CASE s.flags[p] # {}
    <2> DEFINE f == ReadyIfFree(u, p)
    <2>1. Good(f) /\ SchedOnly(u, f) /\ Runs(f)
      <3>1. \A x \in Proc : x # p => u.flags[x] = s.flags[x]
        BY <1>4
      <3> QED BY <1>0, <1>1, <1>2, <1>6, <1>7, <3>1, FreeGood DEF Steady
    <2> HIDE DEF f
    <2>2. Told(f)
      BY <1>6, <2>1, SchedEased, EasedSound
    <2>3. r = f
      BY <1>7 DEF f
    <2> QED BY <1>3, <2>1, <2>2, <2>3 DEF Steady
  <1>8. CASE s.flags[p] = {}
    <2>1. Linked(u)
      BY <1>2, <1>4, <1>8, SameLinked DEF Steady, Good
    <2>2. Runs(u)
      BY <1>2 DEF Steady, Runs
    <2> QED BY <1>1, <1>3, <1>6, <1>8, <2>1, <2>2 DEF Steady, Good
  <1> QED BY <1>7, <1>8

(* do_trace() stops a process, which may be ready, or lets a stopped one   *)
(* go on.                                                                  *)
LEMMA TraceGood ==
    ASSUME NEW s, Steady(s), Busy(s), NEW p \in User,
           NEW request \in {"T_STOP", "T_RESUME", "T_STEP"},
           request \in {"T_RESUME", "T_STEP"} => "P_STOP" \in s.flags[p]
    PROVE  Steady(do_trace(s, p, request))
  <1>0. /\ s \in KState /\ p \in Proc /\ p \notin NeverRun /\ p \notin Task /\ p \notin Server
        /\ s.flags \in [Proc -> SUBSET Flag]
    <2>1. s \in KState /\ p \in Proc
      BY Members DEF Steady, Good
    <2> QED BY <2>1, Slots DEF KState
  <1>1. CASE isemptyp(s, p)
    BY <1>1 DEF do_trace
  <1>2. CASE ~isemptyp(s, p) /\ request = "T_STOP"
    <2> DEFINE w == UnreadyIfFree(s, p)
               F == [w.flags EXCEPT ![p] = @ \cup {"P_STOP"}]
               t == [w EXCEPT !.flags[p] = @ \cup {"P_STOP"}]
    <2>1. w \in KState /\ SchedOnly(s, w)
      BY <1>0, IfFreeType
    <2>2. do_trace(s, p, request) = t
      BY <1>2 DEF do_trace
    <2> HIDE DEF w
    <2>3. /\ F \in [Proc -> SUBSET Flag]
          /\ \A x \in Proc : F[x] = s.flags[x] \cup IF x = p THEN {"P_STOP"} ELSE {}
      <3>1. w.flags = s.flags
        BY <2>1 DEF SchedOnly
      <3>2. F \in [Proc -> SUBSET Flag]
        BY <1>0, <3>1 DEF Flag
      <3>3. \A x \in Proc : F[x] = s.flags[x] \cup IF x = p THEN {"P_STOP"} ELSE {}
        BY <1>0, <3>1
      <3> QED BY <3>2, <3>3
    <2>4. t = [w EXCEPT !.flags = F]
      BY <2>1 DEF KState
    <2> HIDE DEF F
    <2>5. t \in KState
      BY <2>1, <2>3, <2>4 DEF KState
    <2> HIDE DEF t
    <2>6. /\ t.flags = F /\ t.prio = w.prio /\ t.getfrom = w.getfrom /\ t.sendto = w.sendto
          /\ t.callerq = w.callerq /\ t.sig_procs = w.sig_procs /\ t.panic = w.panic
          /\ t.rdy = w.rdy /\ t.proc_ptr = w.proc_ptr /\ t.intblk = w.intblk
          /\ t.pending = w.pending /\ t.pendcount = w.pendcount
      BY <2>1, <2>4 DEF KState
    <2>7. /\ t.prio = s.prio /\ t.getfrom = s.getfrom /\ t.sendto = s.sendto
          /\ t.callerq = s.callerq /\ t.sig_procs = s.sig_procs /\ t.panic = s.panic
          /\ t.intblk = s.intblk /\ t.pending = s.pending /\ t.pendcount = s.pendcount
      BY <2>1, <2>6 DEF SchedOnly
    <2>8. \A x \in Proc : t.flags[x] = s.flags[x] \cup IF x = p THEN {"P_STOP"} ELSE {}
      BY <2>3, <2>6
    <2>9. Sender(t) = Sender(s) /\ Sender(s) \subseteq Proc
      BY <2>8 DEF Sender
    <2>10. Pending(t) = Pending(s)
      BY <2>8, Members DEF Pending
    <2>11. Kinds(t)
      BY <1>0, <1>2, <2>7, <2>8, Slots DEF Steady, Good, Sound, Kinds, isemptyp
    <2>12. Targets(t)
      BY <2>7, <2>8, <2>9 DEF Steady, Good, Sound, Targets
    <2>13. Queued(t)
      BY <2>7, <2>9 DEF Steady, Good, Sound, Queued
    <2>14. Signed(t)
      BY <2>7, <2>8 DEF Steady, Good, Sound, Signed, isuserp
    <2>15. Counted(t)
      BY <2>7, <2>10 DEF Steady, Good, Sound, Counted
    <2>16. Heard(t)
      BY <1>0, <2>7, <2>8, Slots DEF Steady, Good, Sound, Heard
    <2>17. Sound(t)
      BY <2>7, <2>11, <2>12, <2>13, <2>14, <2>15, <2>16 DEF Steady, Good, Sound
    <2>18. Good(t) /\ Runs(t)
      <3>1. ~Live(t, p)
        BY <1>0, <2>8 DEF Live
      <3>2. \A x \in Proc : x # p => t.flags[x] = s.flags[x] /\ t.prio[x] = s.prio[x]
        BY <2>7, <2>8
      <3>3. t.rdy = UnreadyIfFree(s, p).rdy /\ t.proc_ptr = UnreadyIfFree(s, p).proc_ptr
        BY <2>6 DEF w
      <3> QED BY <1>0, <2>5, <2>17, <3>1, <3>2, <3>3, BlockGood DEF Steady
    <2>19. Told(t)
      BY <1>0, <2>7, <2>8, <2>10, Members DEF Steady, Told, Idling, Server
    <2> QED BY <2>2, <2>18, <2>19 DEF Steady
  <1>3. CASE ~isemptyp(s, p) /\ request \in {"T_RESUME", "T_STEP"}
    <2> DEFINE u == [s EXCEPT !.flags[p] = @ \ {"P_STOP"}]
               f == ReadyIfFree(u, p)
    <2>1. u \in KState /\ u.flags = [s.flags EXCEPT ![p] = @ \ {"P_STOP"}]
      BY <1>0, ClearFlags DEF KState
    <2>2. /\ u.prio = s.prio /\ u.getfrom = s.getfrom /\ u.sendto = s.sendto
          /\ u.callerq = s.callerq /\ u.pending = s.pending /\ u.pendcount = s.pendcount
          /\ u.sig_procs = s.sig_procs /\ u.panic = s.panic /\ u.intblk = s.intblk
          /\ u.rdy = s.rdy /\ u.proc_ptr = s.proc_ptr
      BY <1>0 DEF KState
    <2>3. do_trace(s, p, request) = f
      BY <1>3 DEF do_trace
    <2> HIDE DEF u
    <2>4. \A x \in Proc : u.flags[x] = IF x = p THEN s.flags[p] \ {"P_STOP"} ELSE s.flags[x]
      BY <1>0, <2>1
    <2>5. Eased(s, u)
      BY <2>2, <2>4 DEF Eased
    <2>6. Sound(u) /\ Told(u)
      BY <2>5, EasedSound DEF Steady, Good
    <2>7. Good(f) /\ SchedOnly(u, f) /\ Runs(f)
      <3>1. s.flags[p] # {} /\ \A x \in Proc : x # p => u.flags[x] = s.flags[x]
        BY <1>3, <2>4
      <3> QED BY <1>0, <2>1, <2>2, <2>6, <3>1, FreeGood DEF Steady
    <2> HIDE DEF f
    <2>8. Told(f)
      BY <2>6, <2>7, SchedEased, EasedSound
    <2> QED BY <2>3, <2>7, <2>8 DEF Steady
  <1> QED BY <1>1, <1>2, <1>3

(* do_exec() lets the process run its new image: the reply to its EXEC     *)
(* call is not sent, so RECEIVING goes here, after a traced process has    *)
(* got its SIGTRAP.                                                        *)
LEMMA ExecGood ==
    ASSUME NEW s, Steady(s), Live(s, SYSTASK), NEW p \in User, isuserp(s, p),
           "RECEIVING" \in s.flags[p], NEW traced \in BOOLEAN, NEW sigtrap \in Sig
    PROVE  Steady(do_exec(s, p, traced, sigtrap))
  <1> DEFINE t == IF traced THEN cause_sig(s, p, sigtrap) ELSE s
             u == [t EXCEPT !.flags[p] = @ \ {"RECEIVING"}]
             f == ReadyIfFree(u, p)
  <1>0. p \in Proc /\ p \notin NeverRun /\ SYSTASK \in Task
    BY Members, Slots
  <1>1. Steady(t) /\ t.prio = s.prio /\ t.flags[SYSTASK] = s.flags[SYSTASK] /\ "RECEIVING" \in t.flags[p]
    BY <1>0, CauseGood
  <1>2. do_exec(s, p, traced, sigtrap) = f
    BY DEF do_exec
  <1> HIDE DEF t
  <1>3. t \in KState /\ Busy(t)
    <2>1. Live(t, SYSTASK)
      BY <1>1 DEF Live
    <2> QED BY <1>0, <1>1, <2>1, LiveBusy DEF Steady, Good
  <1>4. u \in KState /\ u.flags = [t.flags EXCEPT ![p] = @ \ {"RECEIVING"}]
    BY <1>0, <1>3, ClearFlags DEF KState
  <1>5. /\ u.prio = t.prio /\ u.getfrom = t.getfrom /\ u.sendto = t.sendto
        /\ u.callerq = t.callerq /\ u.pending = t.pending /\ u.pendcount = t.pendcount
        /\ u.sig_procs = t.sig_procs /\ u.panic = t.panic /\ u.intblk = t.intblk
        /\ u.rdy = t.rdy /\ u.proc_ptr = t.proc_ptr
    BY <1>3 DEF KState
  <1> HIDE DEF u
  <1>6. \A x \in Proc : u.flags[x] = IF x = p THEN t.flags[p] \ {"RECEIVING"} ELSE t.flags[x]
    <2>1. t.flags \in [Proc -> SUBSET Flag]
      BY <1>3 DEF KState
    <2> QED BY <1>4, <2>1
  <1>7. Eased(t, u)
    BY <1>5, <1>6 DEF Eased
  <1>8. Sound(u) /\ Told(u)
    BY <1>1, <1>7, EasedSound DEF Steady, Good
  <1>9. Good(f) /\ SchedOnly(u, f) /\ Runs(f)
    <2>1. t.flags[p] # {} /\ \A x \in Proc : x # p => u.flags[x] = t.flags[x]
      BY <1>1, <1>6
    <2> QED BY <1>0, <1>1, <1>3, <1>4, <1>5, <1>8, <2>1, FreeGood DEF Steady
  <1> HIDE DEF f
  <1>10. Told(f)
    BY <1>8, <1>9, SchedEased, EasedSound
  <1> QED BY <1>2, <1>9, <1>10 DEF Steady

(* do_fork() copies the slot of a process that waits for MM's reply; the   *)
(* copy has no map, no signals and nobody on its caller queue.             *)
LEMMA ForkGood ==
    ASSUME NEW s, Steady(s), NEW parent \in User, NEW child \in User,
           isuserp(s, parent), Waiting(s, parent, MM), isemptyp(s, child)
    PROVE  Steady(do_fork(s, parent, child))
  <1> DEFINE F == (s.flags[parent] \cup {"NO_MAP"}) \ {"PENDING", "SIG_PENDING", "P_STOP"}
             t == do_fork(s, parent, child)
  <1>0. /\ s \in KState /\ parent \in Proc /\ child \in Proc
        /\ child \notin NeverRun /\ child \notin Task /\ child \notin Server
    BY Members, Slots DEF Steady, Good
  <1>1. s.flags[child] = {} /\ "SENDING" \notin s.flags[parent]
    BY <1>0 DEF Steady, Good, Sound, Kinds, isemptyp, Waiting
  <1>2. t \in KState
    BY <1>0, <1>1, ForkType
  <1>3. F # {} /\ \A f \in {"SENDING", "PENDING", "SIG_PENDING"} : f \notin F
    BY <1>1
  <1>4. /\ t.flags = [s.flags EXCEPT ![child] = F]
        /\ t.prio = [s.prio EXCEPT ![child] = s.prio[parent]]
        /\ t.getfrom = [s.getfrom EXCEPT ![child] = s.getfrom[parent]]
        /\ t.sendto = [s.sendto EXCEPT ![child] = s.sendto[parent]]
        /\ t.callerq = [s.callerq EXCEPT ![child] = s.callerq[parent]]
        /\ t.intblk = [s.intblk EXCEPT ![child] = s.intblk[parent]]
        /\ t.pending = [s.pending EXCEPT ![child] = {}]
        /\ t.pendcount = [s.pendcount EXCEPT ![child] = 0]
        /\ t.sig_procs = s.sig_procs /\ t.panic = s.panic
        /\ t.rdy = s.rdy /\ t.proc_ptr = s.proc_ptr
    <2> HIDE DEF F
    <2>1. t = [s EXCEPT !.flags[child] = F, !.prio[child] = s.prio[parent],
                        !.getfrom[child] = s.getfrom[parent], !.sendto[child] = s.sendto[parent],
                        !.callerq[child] = s.callerq[parent], !.m_source[child] = s.m_source[parent],
                        !.mess[child] = s.mess[parent], !.intblk[child] = s.intblk[parent],
                        !.pending[child] = {}, !.pendcount[child] = 0]
      BY Zenon DEF F, do_fork
    <2> HIDE DEF t
    <2>2. t.flags = [s.flags EXCEPT ![child] = F] /\ t.prio = [s.prio EXCEPT ![child] = s.prio[parent]]
      BY <1>0, <2>1 DEF KState
    <2>3. /\ t.getfrom = [s.getfrom EXCEPT ![child] = s.getfrom[parent]]
          /\ t.sendto = [s.sendto EXCEPT ![child] = s.sendto[parent]]
          /\ t.callerq = [s.callerq EXCEPT ![child] = s.callerq[parent]]
      BY <1>0, <2>1 DEF KState
    <2>4. /\ t.intblk = [s.intblk EXCEPT ![child] = s.intblk[parent]]
          /\ t.pending = [s.pending EXCEPT ![child] = {}]
          /\ t.pendcount = [s.pendcount EXCEPT ![child] = 0]
      BY <1>0, <2>1 DEF KState
    <2>5. t.sig_procs = s.sig_procs /\ t.panic = s.panic /\ t.rdy = s.rdy /\ t.proc_ptr = s.proc_ptr
      BY <1>0, <2>1 DEF KState
    <2> QED BY <2>2, <2>3, <2>4, <2>5, Zenon
  <1> HIDE DEF F, t
  <1>5. \A x \in Proc :
           /\ t.flags[x] = IF x = child THEN F ELSE s.flags[x]
           /\ t.prio[x] = IF x = child THEN "USER" ELSE s.prio[x]
           /\ t.callerq[x] = IF x = child THEN s.callerq[parent] ELSE s.callerq[x]
           /\ t.pending[x] = IF x = child THEN {} ELSE s.pending[x]
           /\ t.pendcount[x] = IF x = child THEN 0 ELSE s.pendcount[x]
           /\ x # child => /\ t.getfrom[x] = s.getfrom[x] /\ t.sendto[x] = s.sendto[x]
                           /\ t.intblk[x] = s.intblk[x]
    <2>1. /\ s.flags \in [Proc -> SUBSET Flag] /\ s.prio \in [Proc -> Prio]
          /\ s.getfrom \in [Proc -> Proc \cup {ANY}] /\ s.sendto \in [Proc -> Proc]
          /\ s.callerq \in [Proc -> Seq(Proc)] /\ s.intblk \in [Proc -> BOOLEAN]
          /\ s.pending \in [Proc -> SUBSET Sig] /\ s.pendcount \in [Proc -> Nat]
      BY <1>0 DEF KState, PrioMap
    <2> SUFFICES ASSUME NEW x \in Proc
                 PROVE  /\ t.flags[x] = IF x = child THEN F ELSE s.flags[x]
                        /\ t.prio[x] = IF x = child THEN "USER" ELSE s.prio[x]
                        /\ t.callerq[x] = IF x = child THEN s.callerq[parent] ELSE s.callerq[x]
                        /\ t.pending[x] = IF x = child THEN {} ELSE s.pending[x]
                        /\ t.pendcount[x] = IF x = child THEN 0 ELSE s.pendcount[x]
                        /\ x # child => /\ t.getfrom[x] = s.getfrom[x] /\ t.sendto[x] = s.sendto[x]
                                        /\ t.intblk[x] = s.intblk[x]
      OBVIOUS
    <2>2. t.flags[x] = IF x = child THEN F ELSE s.flags[x]
      BY <1>4, <2>1
    <2>3. t.prio[x] = IF x = child THEN "USER" ELSE s.prio[x]
      BY <1>4, <2>1 DEF isuserp
    <2>4. t.callerq[x] = IF x = child THEN s.callerq[parent] ELSE s.callerq[x]
      BY <1>4, <2>1
    <2>5. t.pending[x] = IF x = child THEN {} ELSE s.pending[x]
      BY <1>4, <2>1
    <2>6. t.pendcount[x] = IF x = child THEN 0 ELSE s.pendcount[x]
      BY <1>4, <2>1
    <2>7. x # child => /\ t.getfrom[x] = s.getfrom[x] /\ t.sendto[x] = s.sendto[x]
                       /\ t.intblk[x] = s.intblk[x]
      BY <1>4, <2>1
    <2> QED BY <2>2, <2>3, <2>4, <2>5, <2>6, <2>7
  <1>6. Sender(t) = Sender(s) /\ child \notin Sender(s) /\ Sender(s) \subseteq Proc
    BY <1>1, <1>3, <1>5 DEF Sender
  <1>7. Pending(t) = Pending(s)
    BY <1>1, <1>3, <1>5, Members DEF Pending
  <1>8. Kinds(t)
    BY <1>0, <1>5, Slots DEF Steady, Good, Sound, Kinds
  <1>9. Targets(t)
    BY <1>5, <1>6 DEF Steady, Good, Sound, Targets
  <1>10. Queued(t)
    <2> SUFFICES ASSUME NEW e \in Proc
                 PROVE  Line(t.callerq[e], {x \in Sender(t) : t.sendto[x] = e})
      BY DEF Queued
    <2>1. \A d \in Proc : Line(s.callerq[d], {x \in Sender(s) : s.sendto[x] = d})
      BY DEF Steady, Good, Sound, Queued
    <2>2. \A d \in Proc : {x \in Sender(t) : t.sendto[x] = d} = {x \in Sender(s) : s.sendto[x] = d}
      BY <1>5, <1>6
    <2>3. \A d \in User : {x \in Sender(s) : s.sendto[x] = d} = {}
      BY DEF Steady, Good, Sound, Targets
    <2>4. CASE e = child
      <3>1. t.callerq[e] = s.callerq[parent]
        BY <1>5, <2>4
      <3>2. {x \in Sender(t) : t.sendto[x] = e} = {x \in Sender(s) : s.sendto[x] = parent}
        BY <2>2, <2>3, <2>4
      <3> QED BY <1>0, <2>1, <3>1, <3>2
    <2>5. CASE e # child
      BY <1>5, <2>1, <2>2, <2>5
    <2> QED BY <2>4, <2>5
  <1>11. Signed(t)
    BY <1>1, <1>3, <1>5 DEF Steady, Good, Sound, Signed, isuserp
  <1>12. Counted(t)
    BY <1>4, <1>7 DEF Steady, Good, Sound, Counted
  <1>13. Heard(t)
    BY <1>0, <1>5, Slots DEF Steady, Good, Sound, Heard
  <1>14. Sound(t)
    BY <1>4, <1>8, <1>9, <1>10, <1>11, <1>12, <1>13 DEF Steady, Good, Sound
  <1>15. Linked(t)
    <2>1. \A x \in Proc : Live(t, x) <=> Live(s, x)
      BY <1>3, <1>5 DEF Live, isemptyp
    <2>2. \A x \in Proc : Live(s, x) => QueueOf(t, x) = QueueOf(s, x)
      BY <1>5 DEF Live, QueueOf, istaskp, isservp, isemptyp
    <2>3. \A q \in Queue : On(t, q) = On(s, q)
      BY <2>1, <2>2 DEF On
    <2> QED BY <1>4, <2>3 DEF Steady, Good, Linked
  <1>16. Runs(t)
    BY <1>4 DEF Steady, Runs
  <1>17. Told(t)
    BY <1>0, <1>5, <1>7, Members DEF Steady, Told, Idling, Server
  <1> QED BY <1>2, <1>14, <1>15, <1>16, <1>17 DEF Steady, Good, t

(* do_xit() takes a process off every queue and out of the count of those  *)
(* with unreported signals.                                                *)
LEMMA XitGood ==
    ASSUME NEW s, Steady(s), NEW p \in User, isuserp(s, p)
    PROVE  Steady(do_xit(s, p))
  <1> DEFINE w  == UnreadyIfFree(s, p)
             cq == [d \in Proc |-> IF p \in Elems(w.callerq[d]) THEN Unlink(w.callerq[d], p)
                                   ELSE w.callerq[d]]
             u  == IF "SENDING" \in s.flags[p] THEN [w EXCEPT !.callerq = cq] ELSE w
             n  == IF "PENDING" \in s.flags[p] THEN u.sig_procs - 1 ELSE u.sig_procs
             t  == [u EXCEPT !.sig_procs = n, !.pending[p] = {}, !.pendcount[p] = 0,
                             !.flags[p] = {}, !.prio[p] = "NONE"]
  <1>0. s \in KState /\ p \in Proc /\ p \notin NeverRun /\ p \notin Task /\ p \notin Server
    BY Members, Slots DEF Steady, Good
  <1>1. do_xit(s, p) = t
    BY DEF do_xit
  <1>2. t \in KState
    BY <1>0, <1>1, XitType
  <1>3. w \in KState /\ SchedOnly(s, w)
    BY <1>0, IfFreeType
  <1>4. /\ w.flags = s.flags /\ w.prio = s.prio /\ w.getfrom = s.getfrom /\ w.sendto = s.sendto
        /\ w.callerq = s.callerq /\ w.pending = s.pending /\ w.pendcount = s.pendcount
        /\ w.sig_procs = s.sig_procs /\ w.panic = s.panic /\ w.intblk = s.intblk
    BY <1>3 DEF SchedOnly
  <1> HIDE DEF w
  <1>5. \A d \in Proc : cq[d] = IF p \in Elems(s.callerq[d]) THEN Unlink(s.callerq[d], p)
                                ELSE s.callerq[d]
    BY <1>4
  <1> HIDE DEF cq
  <1>6. /\ u.flags = s.flags /\ u.prio = s.prio /\ u.getfrom = s.getfrom /\ u.sendto = s.sendto
        /\ u.pending = s.pending /\ u.pendcount = s.pendcount
        /\ u.sig_procs = s.sig_procs /\ u.panic = s.panic /\ u.intblk = s.intblk
        /\ u.rdy = w.rdy /\ u.proc_ptr = w.proc_ptr
        /\ u.callerq = IF "SENDING" \in s.flags[p] THEN cq ELSE s.callerq
    BY <1>3, <1>4 DEF KState
  <1>7. u \in KState
    <2>1. \A d \in Proc : w.callerq[d] \in Seq(Proc)
      BY <1>3 DEF KState
    <2>2. cq \in [Proc -> Seq(Proc)]
      BY <2>1, UnlinkType DEF cq
    <2> QED BY <1>3, <2>2 DEF KState
  <1> HIDE DEF u
  <1>8. n = IF "PENDING" \in s.flags[p] THEN s.sig_procs - 1 ELSE s.sig_procs
    BY <1>6
  <1> HIDE DEF n
  <1>9. /\ t.flags = [s.flags EXCEPT ![p] = {}] /\ t.prio = [s.prio EXCEPT ![p] = "NONE"]
        /\ t.pending = [s.pending EXCEPT ![p] = {}]
        /\ t.pendcount = [s.pendcount EXCEPT ![p] = 0]
        /\ t.getfrom = s.getfrom /\ t.sendto = s.sendto /\ t.callerq = u.callerq
        /\ t.sig_procs = n /\ t.panic = s.panic /\ t.intblk = s.intblk
        /\ t.rdy = w.rdy /\ t.proc_ptr = w.proc_ptr
    BY <1>6, <1>7 DEF KState
  <1> HIDE DEF t
  <1>10. \A x \in Proc : /\ t.flags[x] = IF x = p THEN {} ELSE s.flags[x]
                         /\ t.prio[x] = IF x = p THEN "NONE" ELSE s.prio[x]
                         /\ t.pending[x] = IF x = p THEN {} ELSE s.pending[x]
                         /\ t.pendcount[x] = IF x = p THEN 0 ELSE s.pendcount[x]
    <2>1. /\ s.flags \in [Proc -> SUBSET Flag] /\ s.prio \in [Proc -> Prio]
          /\ s.pending \in [Proc -> SUBSET Sig] /\ s.pendcount \in [Proc -> Nat]
      BY <1>0 DEF KState, PrioMap
    <2>2. \A x \in Proc : t.flags[x] = IF x = p THEN {} ELSE s.flags[x]
      BY <1>9, <2>1
    <2>3. \A x \in Proc : t.prio[x] = IF x = p THEN "NONE" ELSE s.prio[x]
      BY <1>9, <2>1
    <2>4. \A x \in Proc : t.pending[x] = IF x = p THEN {} ELSE s.pending[x]
      BY <1>9, <2>1
    <2>5. \A x \in Proc : t.pendcount[x] = IF x = p THEN 0 ELSE s.pendcount[x]
      BY <1>9, <2>1
    <2> QED BY <2>2, <2>3, <2>4, <2>5
  <1>11. Sender(t) = Sender(s) \ {p} /\ Sender(s) \subseteq Proc
    BY <1>10 DEF Sender
  <1>12. Pending(t) = Pending(s) \ {p} /\ (p \in Pending(s) <=> "PENDING" \in s.flags[p])
    BY <1>10, Members DEF Pending
  <1>13. Kinds(t)
    BY <1>0, <1>10, Slots DEF Steady, Good, Sound, Kinds
  <1>14. Targets(t)
    BY <1>9, <1>10, <1>11 DEF Steady, Good, Sound, Targets
  <1>15. Queued(t)
    <2> SUFFICES ASSUME NEW e \in Proc
                 PROVE  Line(t.callerq[e], {x \in Sender(t) : t.sendto[x] = e})
      BY DEF Queued
    <2> DEFINE S == {x \in Sender(s) : s.sendto[x] = e}
    <2>1. Line(s.callerq[e], S) /\ s.callerq[e] \in Seq(Proc)
      BY <1>0 DEF Steady, Good, Sound, Queued, KState
    <2>2. {x \in Sender(t) : t.sendto[x] = e} = S \ {p}
      BY <1>9, <1>11
    <2>3. p \in Elems(s.callerq[e]) <=> p \in S
      BY <2>1 DEF Line
    <2>4. t.callerq[e] = IF p \in S THEN Unlink(s.callerq[e], p) ELSE s.callerq[e]
      <3>1. CASE "SENDING" \in s.flags[p]
        BY <1>5, <1>6, <1>9, <2>3, <3>1
      <3>2. CASE "SENDING" \notin s.flags[p]
        BY <1>6, <1>9, <3>2 DEF Sender
      <3> QED BY <3>1, <3>2
    <2> HIDE DEF S
    <2>5. CASE p \in S
      <3>1. Line(Unlink(s.callerq[e], p), S \ {p})
        BY <2>1, <2>5, LineUnlink
      <3> QED BY <2>2, <2>4, <2>5, <3>1
    <2>6. CASE p \notin S
      <3>1. S \ {p} = S
        BY <2>6
      <3> QED BY <2>1, <2>2, <2>4, <2>6, <3>1
    <2> QED BY <2>5, <2>6
  <1>16. Signed(t)
    BY <1>10 DEF Steady, Good, Sound, Signed, isuserp
  <1>17. Counted(t)
    <2>1. /\ IsFiniteSet(Pending(s)) /\ s.sig_procs = Cardinality(Pending(s))
          /\ t.sig_procs = IF p \in Pending(s) THEN s.sig_procs - 1 ELSE s.sig_procs
      BY <1>8, <1>9, <1>12, PendingFinite DEF Steady, Good, Sound, Counted
    <2>2. CASE p \in Pending(s)
      <3>1. Cardinality(Pending(s) \ {p}) = Cardinality(Pending(s)) - 1
        BY <2>1, <2>2, FS_RemoveElement
      <3> QED BY <1>12, <2>1, <2>2, <3>1 DEF Counted
    <2>3. CASE p \notin Pending(s)
      <3>1. Pending(t) = Pending(s)
        BY <1>12, <2>3
      <3> QED BY <2>1, <2>3, <3>1 DEF Counted
    <2> QED BY <2>2, <2>3
  <1>18. Heard(t)
    BY <1>0, <1>9, <1>10, Slots DEF Steady, Good, Sound, Heard
  <1>19. Sound(t)
    BY <1>9, <1>13, <1>14, <1>15, <1>16, <1>17, <1>18 DEF Steady, Good, Sound
  <1>20. Good(t) /\ Runs(t)
    <2>1. ~Live(t, p)
      BY <1>0, <1>10 DEF Live
    <2>2. \A x \in Proc : x # p => t.flags[x] = s.flags[x] /\ t.prio[x] = s.prio[x]
      BY <1>10
    <2>3. t.rdy = UnreadyIfFree(s, p).rdy /\ t.proc_ptr = UnreadyIfFree(s, p).proc_ptr
      BY <1>9 DEF w
    <2> QED BY <1>0, <1>2, <1>19, <2>1, <2>2, <2>3, BlockGood DEF Steady
  <1>21. Told(t)
    BY <1>0, <1>9, <1>10, <1>12, Members DEF Steady, Told, Idling, Server
  <1> QED BY <1>1, <1>20, <1>21 DEF Steady

-----------------------------------------------------------------------------
(* The specification. *)

(* A list of two, as what Append() makes it. *)
LEMMA TwoMore ==
    ASSUME NEW T, NEW l \in Seq(T), NEW a \in T, NEW b \in T
    PROVE  l \o <<a, b>> = Append(Append(l, a), b) /\ l \o <<a, b>> # <<>>
  <1> DEFINE x == l \o <<a, b>>
             y == Append(l, a)
             z == Append(y, b)
  <1>1. /\ x \in Seq(T) /\ Len(x) = Len(l) + 2 /\ Len(l) \in Nat
        /\ x[Len(l) + 1] = a /\ x[Len(l) + 2] = b
        /\ \A i \in 1 .. Len(l) : x[i] = l[i]
    <2>1. <<a, b>> \in Seq(T) /\ Len(<<a, b>>) = 2 /\ <<a, b>>[1] = a /\ <<a, b>>[2] = b
      OBVIOUS
    <2>2. ASSUME NEW m \in Seq(T), Len(m) = 2
          PROVE  /\ l \o m \in Seq(T) /\ Len(l \o m) = Len(l) + 2 /\ Len(l) \in Nat
                 /\ (l \o m)[Len(l) + 1] = m[1] /\ (l \o m)[Len(l) + 2] = m[2]
                 /\ \A i \in 1 .. Len(l) : (l \o m)[i] = l[i]
      <3>1. l \o m \in Seq(T) /\ Len(l \o m) = Len(l) + Len(m) /\ Len(l) \in Nat
        OBVIOUS
      <3>2. \A i \in 1 .. Len(l) : (l \o m)[i] = l[i]
        OBVIOUS
      <3>3. \A i \in Len(l) + 1 .. Len(l) + Len(m) : (l \o m)[i] = m[i - Len(l)]
        OBVIOUS
      <3>4. (l \o m)[Len(l) + 1] = m[1]
        BY <2>2, <3>1, <3>3
      <3>5. (l \o m)[Len(l) + 2] = m[2]
        BY <2>2, <3>1, <3>3
      <3> QED BY <2>2, <3>1, <3>2, <3>4, <3>5
    <2> QED BY <2>1, <2>2
  <1>2. /\ y \in Seq(T) /\ Len(y) = Len(l) + 1 /\ y[Len(l) + 1] = a
        /\ \A i \in 1 .. Len(l) : y[i] = l[i]
    OBVIOUS
  <1> HIDE DEF y
  <1>3. /\ z \in Seq(T) /\ Len(z) = Len(y) + 1 /\ z[Len(y) + 1] = b
        /\ \A i \in 1 .. Len(y) : z[i] = y[i]
    BY <1>2
  <1> HIDE DEF x, z
  <1>4. Len(x) = Len(z) /\ x # <<>>
    BY <1>1, <1>2, <1>3
  <1>5. ASSUME NEW i \in 1 .. Len(x) PROVE x[i] = z[i]
    <2>1. CASE i \in 1 .. Len(l)
      BY <1>1, <1>2, <1>3, <2>1
    <2>2. CASE i = Len(l) + 1
      BY <1>1, <1>2, <1>3, <2>2
    <2>3. CASE i = Len(l) + 2
      BY <1>1, <1>2, <1>3, <2>3
    <2> QED BY <1>1, <2>1, <2>2, <2>3
  <1>6. x = z
    BY <1>1, <1>3, <1>4, <1>5
  <1> QED BY <1>4, <1>6 DEF x, y, z

(* main() readies the tasks, the servers and init, and starts the first    *)
(* task.                                                                   *)
LEMMA InitSteady == Init => Inv
  <1> SUFFICES ASSUME Init PROVE Steady(k)
    BY DEF Inv
  <1> DEFINE tasks == DriverTab \o <<CLOCK, SYSTASK>>
             prio  == [p \in Proc |-> IF p = IDLE THEN "IDLE"
                                      ELSE IF p \in Task THEN "TASK"
                                      ELSE IF p \in Server THEN "SERVER"
                                      ELSE IF p = INIT THEN "USER" ELSE "NONE"]
             rdy   == [q \in Queue |-> IF q = TASK_Q THEN tasks
                                       ELSE IF q = SERVER_Q THEN <<MM, FS>> ELSE <<INIT>>]
  <1>0. k \in KState
    BY InitType DEF TypeOK
  <1>1. /\ k.flags = [p \in Proc |-> {}] /\ k.prio = prio /\ k.getfrom = [p \in Proc |-> MM]
        /\ k.callerq = [p \in Proc |-> <<>>] /\ k.intblk = [p \in Proc |-> FALSE]
        /\ k.pending = [p \in Proc |-> {}] /\ k.pendcount = [p \in Proc |-> 0]
        /\ k.sig_procs = 0 /\ k.rdy = rdy /\ k.proc_ptr = tasks[1] /\ k.panic = FALSE
    BY DEF Init
  <1>2. /\ tasks = Append(Append(DriverTab, CLOCK), SYSTASK)
        /\ tasks # <<>> /\ DriverTab \in Seq(Int)
        /\ CLOCK \in Int /\ SYSTASK \in Int
    <2>1. DriverTab \in Seq(Int) /\ CLOCK \in Int /\ SYSTASK \in Int
      BY ConstAssumption DEF CLOCK, SYSTASK
    <2> QED BY <2>1, TwoMore
  <1>3. Line(tasks, Driver \cup {CLOCK} \cup {SYSTASK})
    <2>1. Line(DriverTab, Driver)
      BY ConstAssumption DEF Line, Elems, Driver
    <2>2. CLOCK \notin Driver /\ SYSTASK \notin Driver \cup {CLOCK}
      BY ConstAssumption DEF Driver, CLOCK, SYSTASK
    <2>3. Line(Append(DriverTab, CLOCK), Driver \cup {CLOCK})
      BY <1>2, <2>1, <2>2, LineAppend
    <2>4. Append(DriverTab, CLOCK) \in Seq(Int)
      BY <1>2
    <2> DEFINE l == Append(DriverTab, CLOCK)
    <2> HIDE DEF l, tasks
    <2>5. Line(Append(l, SYSTASK), Driver \cup {CLOCK} \cup {SYSTASK})
      BY <1>2, <2>2, <2>3, <2>4, LineAppend DEF l
    <2> QED BY <1>2, <2>5 DEF l
  <1>4. Line(<<MM, FS>>, Server) /\ Line(<<INIT>>, {INIT})
    BY DEF Line, Elems, Server, MM, FS
  <1>5. tasks[1] = Head(tasks)
    BY <1>2
  <1> HIDE DEF tasks
  <1>6. /\ rdy[TASK_Q] = tasks /\ rdy[SERVER_Q] = <<MM, FS>> /\ rdy[USER_Q] = <<INIT>>
        /\ Queue = {TASK_Q, SERVER_Q, USER_Q}
        /\ TASK_Q # SERVER_Q /\ TASK_Q # USER_Q /\ SERVER_Q # USER_Q
    BY DEF Queue, TASK_Q, SERVER_Q, USER_Q
  <1> HIDE DEF rdy
  <1>7. \A p \in Proc : k.prio[p] = IF p = IDLE THEN "IDLE"
                                    ELSE IF p \in Task THEN "TASK"
                                    ELSE IF p \in Server THEN "SERVER"
                                    ELSE IF p = INIT THEN "USER" ELSE "NONE"
    BY <1>1
  <1> HIDE DEF prio
  <1>8. \A p \in Proc : /\ k.flags[p] = {} /\ k.callerq[p] = <<>> /\ ~k.intblk[p]
                        /\ k.pending[p] = {} /\ k.pendcount[p] = 0
    BY <1>1
  <1>9. INIT \in User /\ INIT \in Proc
    BY ConstAssumption DEF Proc, User, INIT, LOW_USER
  <1>10. /\ On(k, TASK_Q) = Driver \cup {CLOCK} \cup {SYSTASK}
         /\ On(k, SERVER_Q) = Server /\ On(k, USER_Q) = {INIT}
    <2>1. \A p \in Proc : Live(k, p) <=> \/ p \in Driver \cup {CLOCK} \cup {SYSTASK}
                                         \/ p \in Server \/ p = INIT
      BY <1>7, <1>8, <1>9, Slots DEF Live, NeverRun, Proc, Task
    <2>2. \A p \in Proc \ {IDLE} : QueueOf(k, p) = IF p \in Task THEN TASK_Q
                                                   ELSE IF p \in Server THEN SERVER_Q ELSE USER_Q
      BY <1>7 DEF QueueOf, istaskp, isservp
    <2>3. IDLE \notin Driver \cup {CLOCK} \cup {SYSTASK} /\ IDLE \notin Server /\ IDLE # INIT
      BY <1>9, Slots DEF NeverRun, Server
    <2>4. On(k, TASK_Q) = Driver \cup {CLOCK} \cup {SYSTASK}
      BY <1>6, <1>9, <2>1, <2>2, <2>3, Slots DEF On
    <2>5. On(k, SERVER_Q) = Server
      BY <1>6, <1>9, <2>1, <2>2, <2>3, Slots DEF On
    <2>6. On(k, USER_Q) = {INIT}
      BY <1>6, <1>9, <2>1, <2>2, <2>3, Slots DEF On
    <2> QED BY <2>4, <2>5, <2>6
  <1>11. Linked(k)
    BY <1>1, <1>3, <1>4, <1>6, <1>10 DEF Linked
  <1>12. Runs(k)
    BY <1>1, <1>2, <1>5, <1>6 DEF Runs, First
  <1>13. Sender(k) = {} /\ Pending(k) = {}
    BY <1>8, Members DEF Sender, Pending
  <1>14. Kinds(k) /\ Heard(k)
    BY <1>8, Slots DEF Kinds, Heard, Driver
  <1>15. Targets(k) /\ Queued(k) /\ Signed(k) /\ Counted(k)
    <2>1. Targets(k)
      BY <1>13 DEF Targets
    <2>2. Queued(k)
      BY <1>8, <1>13 DEF Queued, Line, Elems
    <2>3. Signed(k)
      BY <1>8 DEF Signed
    <2>4. Counted(k)
      BY <1>1, <1>13, FS_EmptySet DEF Counted
    <2> QED BY <2>1, <2>2, <2>3, <2>4
  <1>16. Told(k)
    BY <1>13 DEF Told
  <1> QED BY <1>0, <1>1, <1>11, <1>12, <1>14, <1>15, <1>16 DEF Steady, Good, Sound

(* One step per action of Next.  The system task and CLOCK run when they   *)
(* act, so a server or a task can run.                                     *)
LEMMA NextSteady ==
    ASSUME Inv, [Next]_k
    PROVE  Inv'
  <1> USE DEF Inv
  <1>0. k \in KState /\ Linked(k) /\ Runs(k)
    BY DEF Steady, Good
  <1>s. k.proc_ptr = SYSTASK => Live(k, SYSTASK) /\ Busy(k)
    <2>1. SYSTASK # IDLE /\ SYSTASK \in Task
      BY Slots DEF SYSTASK, IDLE
    <2> QED BY <1>0, <2>1, Running
  <1>1. CASE UNCHANGED k
    BY <1>1
  <1>2. ASSUME NEW fn \in Func, NEW x \in Proc \cup {ANY}, NEW m \in ClientMsg, SysCall(fn, x, m)
        PROVE  Inv'
    BY <1>2, CallGood DEF SysCall, Steady
  <1>3. ASSUME NEW p \in Driver \cup {CLOCK}, Interrupt(p)
        PROVE  Inv'
    BY <1>3, InterruptGood DEF Interrupt
  <1>4. ASSUME NEW p \in User, NEW sig \in Sig, TaskSignal(p, sig) \/ SysKill(p, sig)
        PROVE  Inv'
    BY <1>4, CauseGood DEF TaskSignal, SysKill
  <1>5. ASSUME NEW sig \in Sig, Exception(sig)
        PROVE  Inv'
    <2>1. k.proc_ptr \in User
      <3>1. k.proc_ptr \in Proc
        BY <1>0 DEF KState
      <3> QED BY <1>0, <1>5, <3>1, Ranks DEF Exception
    <2> QED BY <1>5, <2>1, CauseGood DEF Exception
  <1>6. CASE ClockSched
    BY <1>6, SchedGood DEF ClockSched
  <1>7. ASSUME NEW parent \in User, NEW child \in User, SysFork(parent, child)
        PROVE  Inv'
    BY <1>7, ForkGood DEF SysFork
  <1>8. ASSUME NEW p \in User, SysNewmap(p)
        PROVE  Inv'
    BY <1>s, <1>8, NewmapGood DEF SysNewmap
  <1>9. ASSUME NEW p \in User, NEW traced \in BOOLEAN, NEW sigtrap \in Sig,
               SysExec(p, traced, sigtrap)
        PROVE  Inv'
    <2>1. "RECEIVING" \in k.flags[p]
      BY <1>9 DEF SysExec, Waiting
    <2> QED BY <1>s, <1>9, <2>1, ExecGood DEF SysExec
  <1>10. ASSUME NEW p \in User, SysXit(p)
         PROVE  Inv'
    BY <1>10, XitGood DEF SysXit
  <1>11. ASSUME NEW p \in User, SysEndsig(p)
         PROVE  Inv'
    BY <1>s, <1>11, EndsigGood DEF SysEndsig
  <1>12. ASSUME NEW p \in User, NEW request \in {"T_STOP", "T_RESUME", "T_STEP"},
                SysTrace(p, request)
         PROVE  Inv'
    BY <1>s, <1>12, TraceGood DEF SysTrace
  <1> QED BY <1>1, <1>2, <1>3, <1>4, <1>5, <1>6, <1>7, <1>8, <1>9, <1>10, <1>11, <1>12 DEF Next

(* The invariant of the kernel, from which the theorems follow. *)
LEMMA SpecInv == Spec => []Inv
  <1>1. Inv /\ [Next]_k => Inv'
    BY NextSteady
  <1> QED BY <1>1, InitSteady, PTL DEF Spec

(* ready(), unready() and sched() are called wherever p_flags changes from *)
(* or to zero, by the right process and once: the ready queues always hold *)
(* exactly the processes that may run.                                     *)
THEOREM QueuesHoldTheRunnable == Spec => []ReadyIffRunnable
  <1>1. Inv => ReadyIffRunnable
    BY DEF Inv, Steady, Good, Linked, Line, On, Live, ReadyIffRunnable, Runnable, isemptyp
  <1> QED BY <1>1, SpecInv, PTL

(* pick_proc() is called often enough: when the kernel is left, the first  *)
(* process of the highest queue that is not empty goes on.                 *)
THEOREM TheRightProcessRuns == Spec => []RunsHighest
  <1>1. Inv => RunsHighest
    BY PickFirst DEF Inv, Steady, Good, Runs, RunsHighest
  <1> QED BY <1>1, SpecInv, PTL

(* A caller queue holds exactly the processes blocked sending to its       *)
(* owner, through forks and exits of any of them.                          *)
THEOREM CallerQueuesAreExact == Spec => []CallerQueue
  <1>1. Inv => CallerQueue
    BY DEF Inv, Steady, Good, Sound, Queued, Line, CallerQueue
  <1> QED BY <1>1, SpecInv, PTL

(* sig_procs, PENDING, SIG_PENDING and the two fields of p_pending never   *)
(* disagree.                                                               *)
THEOREM SignalRecordsAgree == Spec => []SignalCount
  <1>1. Inv => SignalCount
    BY DEF Inv, Steady, Good, Sound, Counted, Signed, SignalCount
  <1> QED BY <1>1, SpecInv, PTL

(* MM never waits for new work with a signal unreported, and inform() never *)
(* finds its message refused.                                              *)
THEOREM EverySignalIsReported == Spec => []SignalsReported
  <1>1. Inv => SignalsReported
    <2> SUFFICES ASSUME Inv PROVE SignalsReported
      OBVIOUS
    <2>1. HARDWARE \notin Sender(k)
      BY DEF Inv, Steady, Good, Sound, Kinds, NeverRun, Sender
    <2> QED BY <2>1 DEF Inv, Steady, Good, Sound, Told, Idling, SignalsReported, InformFindsMM
  <1> QED BY <1>1, SpecInv, PTL

(* An interrupt that found its task busy is there when the task asks: the  *)
(* task never sleeps on it.                                                *)
THEOREM NoInterruptIsLost == Spec => []NoLostInterrupt
  <1>1. Inv => NoLostInterrupt
    <2> SUFFICES ASSUME Inv, NEW p \in Driver \cup {CLOCK}, Waiting(k, p, HARDWARE)
                 PROVE  ~k.intblk[p]
      BY DEF NoLostInterrupt
    <2>1. "RECEIVING" \in k.flags[p] /\ isrxhardware(k.getfrom[p])
      BY DEF Waiting, isrxhardware
    <2> QED BY <2>1 DEF Inv, Steady, Good, Sound, Heard
  <1> QED BY <1>1, SpecInv, PTL
=============================================================================
