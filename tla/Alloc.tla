-------------------------------- MODULE Alloc --------------------------------
(***************************************************************************)
(* The memory of processes: the list of holes and the swap area            *)
(* (mm/alloc.c), and fork, exec, exit and the main loop of MM as far as    *)
(* they take memory, give it back or decide who may be swapped out.  Who   *)
(* is whose child and what a signal does is in MM.tla.                     *)
(*                                                                         *)
(* MM does one call at a time.  alloc_mem() may swap any number of         *)
(* processes out before it succeeds, and swap_in() walks over a queue, so  *)
(* a call is several steps here, and job says what MM is doing: nothing    *)
(* another process does comes between the steps of a call.                 *)
(***************************************************************************)
EXTENDS Integers, Sequences, FiniteSets

CONSTANTS NR_PROCS,  \* slots of the process table
          Chunks,    \* the chunks of memory that SYS_MEM reports, a sequence
          SwapSizes, \* sizes in clicks of the swap areas that are tried
          Program,   \* programs: name, whether I and D are separate, sizes
          Root,      \* the processes of the super-user that call svrctl()
          InitSeg    \* where the boot monitor put INIT

INIT     == 2
LOW_USER == 2
Proc     == LOW_USER .. NR_PROCS - 1
NR_HOLES == 2 * NR_PROCS

None  == [name |-> "none"]
Block == [base : Nat, len : Nat]
NoSeg == [T |-> [base |-> 0, len |-> 0], D |-> [base |-> 0, len |-> 0]]

(* sep: I and D space are separate.  INIT does not call exec() itself. *)
InitProgram == [name |-> "init", sep |-> TRUE, text |-> InitSeg.T.len, tot |-> InitSeg.D.len]

ASSUME AllocAssumption ==
    /\ NR_PROCS \in Nat /\ NR_PROCS > INIT
    /\ Chunks \in Seq(Block) /\ \A i \in 1 .. Len(Chunks) : Chunks[i].len > 0
    /\ SwapSizes \subseteq Nat /\ Root \subseteq Proc
    /\ Program \subseteq [name : STRING, sep : BOOLEAN, text : Nat, tot : Nat \ {0}]
    /\ \A f \in Program : (f.sep <=> f.text > 0) /\ f.name \notin {"none", "init"}
    /\ InitSeg \in [T : Block, D : Block] /\ InitSeg.T.len > 0 /\ InitSeg.D.len > 0

Clicks(b) == b.base .. b.base + b.len - 1

(* The chunks do not overlap.  The boot image is none of them: processes   *)
(* are put at the start of chunks, of which the chunks here are the rest.  *)
ASSUME ChunksAssumption ==
    /\ \A i, j \in 1 .. Len(Chunks) : i # j => Clicks(Chunks[i]) \cap Clicks(Chunks[j]) = {}
    /\ \A i \in 1 .. Len(Chunks) :
          Clicks(Chunks[i]) \cap (Clicks(InitSeg.T) \cup Clicks(InitSeg.D)) = {}
    /\ Clicks(InitSeg.T) \cap Clicks(InitSeg.D) = {}
    /\ \E i \in 1 .. Len(Chunks) :
          \A b \in {InitSeg.T, InitSeg.D} : b.base + b.len <= Chunks[i].base

Flag == {"IN_USE", "SEPARATE", "WAITING", "REPLY", "ONSWAP", "SWAPIN"}

VARIABLES hole,      \* the list that hole_head begins, in its order
          swap_base, \* addresses from here on are on the swap file
          swap_size, \* size of the swap area, -1 if swap_fd is -1
          seg,       \* mp_seg: the text, and data, gap and stack together
          prog,      \* mp_ino, mp_dev and mp_ctime
          flags,     \* mp_flags; WAITING also stands for PAUSED and SIGSUSPENDED
          pending,   \* a signal to be caught is in mp_sigpending
          blocked,   \* the process has sent a message to MM and waits for the reply
          in_queue, outswap,
          job        \* what MM is doing

vars == <<hole, swap_base, swap_size, seg, prog, flags, pending, blocked, in_queue, outswap, job>>

Idle   == [op |-> "idle"]
Lost   == [op |-> "lost"]
Job    == {Idle, Lost}
          \cup [op : {"mem_init"}, next : Nat]
          \cup [op : {"fork"}, who : Proc, n : Nat]
          \cup [op : {"exec"}, who : Proc, n : Nat, prog : Program, share : Proc \cup {0}]
          \cup [op : {"in"}, pos : Nat]
          \cup [op : {"join"}, who : Proc, next : Proc]
          \cup [op : {"off"}, who : Proc, pos : Nat]

TypeOK ==
    /\ hole \in Seq(Block)
    /\ swap_base \in Nat /\ swap_size \in SwapSizes \cup {-1}
    /\ seg \in [Proc -> [T : Block, D : Block]]
    /\ prog \in [Proc -> Program \cup {InitProgram, None}]
    /\ flags \in [Proc -> SUBSET Flag]
    /\ pending \in [Proc -> BOOLEAN] /\ blocked \in [Proc -> BOOLEAN]
    /\ in_queue \in Seq(Proc) /\ outswap \in Proc
    /\ job \in Job

Has(p, f) == f \in flags[p]

-----------------------------------------------------------------------------
(* The list of holes. *)

del_slot(hs, k) == [i \in 1 .. Len(hs) - 1 |-> IF i < k THEN hs[i] ELSE hs[i + 1]]

(* A hole takes over the memory of its successor if it borders on it. *)
Borders(hs, k) == k < Len(hs) /\ hs[k].base + hs[k].len = hs[k + 1].base
Absorb(hs, k)  == del_slot([hs EXCEPT ![k].len = @ + hs[k + 1].len], k + 1)

merge(hs, k) ==
    LET one == IF Borders(hs, k) THEN Absorb(hs, k) ELSE hs
        nxt == IF Borders(hs, k) THEN k ELSE k + 1
    IN  IF Borders(one, nxt) THEN Absorb(one, nxt) ELSE one

(* The new hole goes behind those with a lower base. *)
Insert(hs, k, b) ==
    [i \in 1 .. Len(hs) + 1 |-> IF i <= k THEN hs[i] ELSE IF i = k + 1 THEN b ELSE hs[i - 1]]

(* Mutant: the new hole goes to the end of the list. *)
Lower_all(hs, b) == Len(hs)

Lower(hs, b) == Cardinality({i \in 1 .. Len(hs) : hs[i].base < b.base})

free_mem(hs, b) ==
    IF b.len = 0 THEN hs
    ELSE LET k == Lower(hs, b) IN merge(Insert(hs, k, b), IF k = 0 THEN 1 ELSE k)

(* First fit: the first hole of at least n clicks in memory, or on the swap file. *)
Fits(hs, n, onswap) ==
    {i \in 1 .. Len(hs) : hs[i].len >= n /\ (hs[i].base >= swap_base <=> onswap)}

First(S) == CHOOSE i \in S : \A j \in S : i <= j

Bite(hs, k, n) == IF hs[k].len = n THEN del_slot(hs, k)
                  ELSE [hs EXCEPT ![k] = [base |-> @.base + n, len |-> @.len - n]]
-----------------------------------------------------------------------------
(* Who hears from MM.  m holds the flags and the queue of swap_in(). *)

Now == [fl |-> flags, q |-> in_queue]

swap_inqueue(m, p) ==
    IF "SWAPIN" \in m.fl[p] THEN m
    ELSE [fl |-> [m.fl EXCEPT ![p] = @ \cup {"SWAPIN"}], q |-> Append(m.q, p)]

setreply(m, p) ==
    LET r == [m EXCEPT !.fl[p] = @ \cup {"REPLY"}]
    IN  IF "ONSWAP" \in m.fl[p] THEN swap_inqueue(r, p) ELSE r

(* The end of wait(), pause() or sigsuspend(). *)
Wake(m, p) == LET r == setreply(m, p) IN [r EXCEPT !.fl[p] = @ \ {"WAITING"}]

(* The call is done; the main loop goes on with swap_in(). *)
Turn(m) == /\ flags' = m.fl /\ in_queue' = m.q
           /\ job' = [op |-> "in", pos |-> 1]

(* The lowest process other than ign that executes f, 0 for NULL. *)
find_share(ign, f) ==
    LET S == {q \in Proc \ {ign} : Has(q, "SEPARATE") /\ prog[q] = f}
    IN  IF S = {} THEN 0 ELSE First(S)

-----------------------------------------------------------------------------
(* MM's tables, and the memory the kernel tells it of. *)

Init ==
    /\ hole = <<>> /\ swap_base = 0 /\ swap_size = -1
    /\ seg = [p \in Proc |-> IF p = INIT THEN InitSeg
                             ELSE NoSeg]
    /\ prog = [p \in Proc |-> IF p = INIT THEN InitProgram ELSE None]
    /\ flags = [p \in Proc |-> IF p = INIT THEN {"IN_USE", "SEPARATE"} ELSE {}]
    /\ pending = [p \in Proc |-> FALSE] /\ blocked = [p \in Proc |-> FALSE]
    /\ in_queue = <<>> /\ outswap = LOW_USER
    /\ job = [op |-> "mem_init", next |-> 1]

mem_init ==
    /\ job.op = "mem_init"
    /\ IF job.next <= Len(Chunks)
       THEN LET c == Chunks[job.next]
            IN  /\ hole' = free_mem(hole, c)
                /\ swap_base' = IF swap_base < c.base + c.len THEN c.base + c.len ELSE swap_base
                /\ job' = [job EXCEPT !.next = @ + 1]
       ELSE /\ swap_base' = swap_base + 1 /\ job' = Idle
            /\ UNCHANGED hole
    /\ UNCHANGED <<swap_size, seg, prog, flags, pending, blocked, in_queue, outswap>>

-----------------------------------------------------------------------------
(* Calls of a process p that runs. *)

Calls(p) == /\ job = Idle /\ Has(p, "IN_USE") /\ ~blocked[p]
            /\ blocked' = [blocked EXCEPT ![p] = TRUE]

FreeSlots == {c \in Proc : ~Has(c, "IN_USE")}

do_fork(p) ==
    /\ Calls(p)
    /\ IF FreeSlots = {} THEN Turn(setreply(Now, p))
       ELSE /\ job' = [op |-> "fork", who |-> p, n |-> seg[p].D.len]
            /\ UNCHANGED <<flags, in_queue>>
    /\ UNCHANGED <<hole, swap_base, swap_size, seg, prog, pending, outswap>>

(* new_mem() marks the process as WAITING through a pointer it has not set *)
(* yet: the register holds do_exec()'s pointer to the caller, or else no   *)
(* process is marked.                                                      *)
do_exec(p, f) ==
    /\ Calls(p) /\ p # INIT
    /\ LET sh == find_share(p, f)
       IN  job' = [op |-> "exec", who |-> p, prog |-> f, share |-> sh,
                   n |-> f.tot + IF sh = 0 THEN f.text ELSE 0]
    /\ \E marked \in {{}, {"WAITING"}} : flags' = [flags EXCEPT ![p] = @ \cup marked]
    /\ UNCHANGED <<hole, swap_base, swap_size, seg, prog, pending, in_queue, outswap>>

(* Mutant: the text goes with every process that leaves it. *)
Released_text(hs, p) == free_mem(free_mem(hs, seg[p].T), seg[p].D)

(* The memory of p goes back, the text only if nobody else executes it. *)
Released(hs, p) ==
    free_mem(IF find_share(p, prog[p]) = 0 THEN free_mem(hs, seg[p].T) ELSE hs, seg[p].D)

(* The process calls exit(), or a signal ends it; w is its parent if that  *)
(* waits for it, otherwise 0.  The slot of a zombie holds no memory and is *)
(* not told from a free one; nobody looks at what is left in either.       *)
mm_exit(p, w) ==
    /\ job = Idle
    /\ p # INIT /\ Has(p, "IN_USE")
    /\ w \in {0} \cup {q \in Proc \ {p} : Has(q, "WAITING")}
    /\ hole' = Released(hole, p)
    /\ LET m == [Now EXCEPT !.fl[p] = {}]
       IN  Turn(IF w = 0 THEN m ELSE Wake(m, w))
    /\ seg' = [seg EXCEPT ![p] = NoSeg]
    /\ prog' = [prog EXCEPT ![p] = None]
    /\ pending' = [pending EXCEPT ![p] = FALSE]
    /\ blocked' = [blocked EXCEPT ![p] = FALSE]
    /\ UNCHANGED <<swap_base, swap_size, outswap>>

(* wait(), pause() or sigsuspend(). *)
Hang(p) ==
    /\ Calls(p)
    /\ Turn([Now EXCEPT !.fl[p] = @ \cup {"WAITING"}])
    /\ UNCHANGED <<hole, swap_base, swap_size, seg, prog, pending, outswap>>

(* A process that hangs gets a signal it catches. *)
sig_proc(p) ==
    /\ job = Idle
    /\ Has(p, "IN_USE") /\ Has(p, "WAITING")
    /\ Turn(IF Has(p, "ONSWAP") THEN swap_inqueue(Now, p) ELSE Wake(Now, p))
    /\ pending' = [pending EXCEPT ![p] = Has(p, "ONSWAP")]
    /\ UNCHANGED <<hole, swap_base, swap_size, seg, prog, blocked, outswap>>

swap_on(p, n) ==
    /\ Calls(p)
    /\ Turn(setreply(Now, p))
    /\ IF swap_size # -1 THEN UNCHANGED <<hole, swap_size>>
       ELSE /\ swap_size' = n
            /\ hole' = free_mem(hole, [base |-> swap_base, len |-> n])
    /\ UNCHANGED <<swap_base, seg, prog, pending, outswap>>

swap_off(p) ==
    /\ Calls(p)
    /\ IF swap_size = -1 THEN Turn(setreply(Now, p))
       ELSE /\ job' = [op |-> "join", who |-> p, next |-> LOW_USER]
            /\ UNCHANGED <<flags, in_queue>>
    /\ UNCHANGED <<hole, swap_base, swap_size, seg, prog, pending, outswap>>

-----------------------------------------------------------------------------
(* The rest of a call: alloc_mem() and what is done when it returns. *)

Walks     == job.op \in {"in", "off"} /\ job.pos <= Len(in_queue)
Allocates == \/ job.op \in {"fork", "exec"}
             \/ Walks /\ Has(in_queue[job.pos], "SWAPIN")
Wanted    == IF Walks THEN seg[in_queue[job.pos]].D.len ELSE job.n

(* Mutant: a process that is on the swap file already is taken again. *)
Candidate_again(p) == Has(p, "WAITING") /\ ~Has(p, "REPLY") /\ Fits(hole, seg[p].D.len, TRUE) # {}

Candidate(p) == /\ Has(p, "WAITING") /\ flags[p] \cap {"REPLY", "ONSWAP"} = {}
                /\ Fits(hole, seg[p].D.len, TRUE) # {}

(* How far the search of swap_out() has come when it looks at p. *)
Distance(p) == (p - outswap - 1) % (NR_PROCS - LOW_USER)

Found == Allocates /\ Fits(hole, Wanted, FALSE) # {}
NoMem == Allocates /\ Fits(hole, Wanted, FALSE) = {} /\ ~\E p \in Proc : Candidate(p)

(* Where alloc_mem() found the memory, and the holes it leaves. *)
Base == hole[First(Fits(hole, Wanted, FALSE))].base
Left == Bite(hole, First(Fits(hole, Wanted, FALSE)), Wanted)

(* The text of a process with common I and D space is not moved along. *)
MoveData(p, base) == seg' = [seg EXCEPT ![p].D.base = base]

(* The holes when p has gone to the swap area. *)
SwappedOut(p) == free_mem(Bite(hole, First(Fits(hole, seg[p].D.len, TRUE)), seg[p].D.len), seg[p].D)

swap_out ==
    /\ Allocates /\ Fits(hole, Wanted, FALSE) = {}
    /\ \E p \in Proc :
        /\ Candidate(p) /\ \A q \in Proc : Candidate(q) => Distance(p) <= Distance(q)
        /\ hole' = SwappedOut(p)
        /\ MoveData(p, hole[First(Fits(hole, seg[p].D.len, TRUE))].base)
        /\ flags' = [flags EXCEPT ![p] = @ \cup {"ONSWAP"}]
        /\ outswap' = p
    /\ UNCHANGED <<swap_base, swap_size, prog, pending, blocked, in_queue, job>>

ForkDone ==
    /\ job.op = "fork" /\ Found
    /\ LET p == job.who
           c == First(FreeSlots)
           m == [Now EXCEPT !.fl[c] = flags[p] \cap {"IN_USE", "SEPARATE"}]
       IN  /\ hole' = Left
           /\ seg' = [seg EXCEPT ![c] =
                        [T |-> IF Has(p, "SEPARATE") THEN seg[p].T ELSE [seg[p].T EXCEPT !.base = Base],
                         D |-> [seg[p].D EXCEPT !.base = Base]]]
           /\ prog' = [prog EXCEPT ![c] = prog[p]]
           /\ pending' = [pending EXCEPT ![c] = pending[p]]
           /\ blocked' = [blocked EXCEPT ![c] = TRUE]
           /\ Turn(setreply(setreply(m, c), p))
    /\ UNCHANGED <<swap_base, swap_size, outswap>>

ExecFlags == (flags[job.who] \ {"WAITING", "ONSWAP", "SWAPIN", "SEPARATE"})
             \cup IF job.prog.sep THEN {"SEPARATE"} ELSE {}

(* The new program runs without a reply. *)
ExecDone ==
    /\ job.op = "exec" /\ Found
    /\ LET p  == job.who
           tc == job.n - job.prog.tot
       IN  /\ hole' = Released(Left, p)
           /\ seg' = [seg EXCEPT ![p] =
                        [T |-> IF job.share # 0 THEN seg[job.share].T ELSE [base |-> Base, len |-> tc],
                         D |-> [base |-> Base + tc, len |-> job.prog.tot]]]
           /\ prog' = [prog EXCEPT ![p] = job.prog]
           /\ blocked' = [blocked EXCEPT ![p] = FALSE]
           /\ Turn([Now EXCEPT !.fl[p] = ExecFlags])
    /\ UNCHANGED <<swap_base, swap_size, pending, outswap>>

CallFails ==
    /\ job.op \in {"fork", "exec"} /\ NoMem
    /\ Turn(setreply(Now, job.who))
    /\ UNCHANGED <<hole, swap_base, swap_size, seg, prog, pending, blocked, outswap>>

-----------------------------------------------------------------------------
(* swap_in() walks over the queue; job.pos is the place it has come to. *)

Unlinked == [i \in 1 .. Len(in_queue) - 1 |-> IF i < job.pos THEN in_queue[i] ELSE in_queue[i + 1]]

(* Mutant: a process that was killed stays in the queue. *)
InKilled_stays ==
    /\ Walks /\ ~Has(in_queue[job.pos], "SWAPIN")
    /\ job' = [job EXCEPT !.pos = @ + 1]
    /\ UNCHANGED <<hole, swap_base, swap_size, seg, prog, flags, pending, blocked, in_queue, outswap>>

InKilled ==
    /\ Walks /\ ~Has(in_queue[job.pos], "SWAPIN")
    /\ in_queue' = Unlinked
    /\ UNCHANGED <<hole, swap_base, swap_size, seg, prog, flags, pending, blocked, outswap, job>>

InNoRoom ==
    /\ Walks /\ NoMem
    /\ job' = [job EXCEPT !.pos = @ + 1]
    /\ UNCHANGED <<hole, swap_base, swap_size, seg, prog, flags, pending, blocked, in_queue, outswap>>

(* check_pending() delivers the signal that waited for the process. *)
InFound ==
    /\ Walks /\ Found
    /\ LET p == in_queue[job.pos]
           m == [fl |-> [flags EXCEPT ![p] = @ \ {"ONSWAP", "SWAPIN"}], q |-> Unlinked]
           n == IF pending[p] /\ Has(p, "WAITING") THEN Wake(m, p) ELSE m
       IN  /\ hole' = free_mem(Left, seg[p].D)
           /\ MoveData(p, Base)
           /\ flags' = n.fl /\ in_queue' = n.q
           /\ pending' = [pending EXCEPT ![p] = FALSE]
    /\ UNCHANGED <<swap_base, swap_size, prog, blocked, outswap, job>>

(* The replies go out.  send() to a process that does not wait for one     *)
(* holds MM up.                                                            *)
Replies ==
    LET to == {p \in Proc : flags[p] \cap {"REPLY", "ONSWAP"} = {"REPLY"}}
    IN  /\ job.op = "in" /\ ~Walks
        /\ flags' = [p \in Proc |-> IF p \in to THEN flags[p] \ {"REPLY"} ELSE flags[p]]
        /\ blocked' = [p \in Proc |-> blocked[p] /\ p \notin to]
        /\ job' = IF \A p \in to : blocked[p] THEN Idle ELSE Lost
        /\ UNCHANGED <<hole, swap_base, swap_size, seg, prog, pending, in_queue, outswap>>

(* swap_off() puts those on the swap file into the queue, slot by slot,    *)
(* before it calls swap_in().                                              *)
Join ==
    /\ job.op = "join"
    /\ LET p == job.next
           m == IF Has(p, "ONSWAP") THEN swap_inqueue(Now, p) ELSE Now
       IN  /\ flags' = m.fl /\ in_queue' = m.q
           /\ job' = IF p + 1 \in Proc THEN [job EXCEPT !.next = p + 1]
                     ELSE [op |-> "off", who |-> job.who, pos |-> 1]
    /\ UNCHANGED <<hole, swap_base, swap_size, seg, prog, pending, blocked, outswap>>

(* swap_off() goes on when swap_in() returns.  The holes of the swap area  *)
(* are the last of the list.  Having taken the only hole of the list away  *)
(* it follows a null pointer.                                              *)
SwapOffDone ==
    LET rest == [i \in 1 .. Lower(hole, [base |-> swap_base]) |-> hole[i]]
    IN  /\ job.op = "off" /\ ~Walks
        /\ IF \E p \in Proc : Has(p, "ONSWAP")
           THEN Turn(setreply(Now, job.who)) /\ UNCHANGED <<hole, swap_size>>
           ELSE /\ hole' = rest /\ swap_size' = -1
                /\ \/ Turn(setreply(Now, job.who))
                   \/ /\ rest = <<>> /\ hole # <<>>
                      /\ job' = Lost /\ UNCHANGED <<flags, in_queue>>
        /\ UNCHANGED <<swap_base, seg, prog, pending, blocked, outswap>>

MMStep == \/ mem_init \/ swap_out
          \/ ForkDone \/ ExecDone \/ CallFails
          \/ InKilled \/ InNoRoom \/ InFound \/ Replies \/ Join \/ SwapOffDone

UserCall == \E p \in Proc : \/ do_fork(p) \/ Hang(p) \/ sig_proc(p)
                            \/ \E f \in Program : do_exec(p, f)
                            \/ \E w \in Proc \cup {0} : mm_exit(p, w)
                            \/ p \in Root /\ (swap_off(p) \/ \E n \in SwapSizes : swap_on(p, n))

Stuck == job = Lost /\ UNCHANGED vars

Next == MMStep \/ UserCall \/ Stuck

(* MM does not wait for processes while it does a call: weak fairness of   *)
(* MMStep, which is enabled while MM is busy.                              *)
Busy     == job \notin {Idle, Lost}
Fairness == <>[]Busy => []<><<MMStep>>_vars

Spec == Init /\ [][Next]_vars /\ Fairness
-----------------------------------------------------------------------------
InUse == {p \in Proc : Has(p, "IN_USE")}
Used  == {seg[p].D : p \in InUse} \cup {seg[p].T : p \in {q \in InUse : seg[q].T.len > 0}}

(* The list of holes is in the order of addresses, no hole is empty, and   *)
(* free_mem() leaves no two of them side by side.                          *)
HolesApart ==
    /\ \A i \in 1 .. Len(hole) : hole[i].len > 0
    /\ \A i \in 1 .. Len(hole) - 1 : hole[i].base + hole[i].len < hole[i + 1].base

(* A process is marked as swapped out exactly if its data is in the swap   *)
(* area: exec() and exit() in the middle of swapping included.             *)
SwapMarked == job.op # "mem_init" =>
                \A p \in InUse : Has(p, "ONSWAP") <=> seg[p].D.base >= swap_base

(* The map of memory is in order, and the two kinds of it are kept apart.  *)
HolesSound == TypeOK /\ HolesApart /\ SwapMarked

(* Between calls the queue of swap_in() has every process marked SWAPIN    *)
(* once and no slot of a process that was killed, whose link do_fork()     *)
(* would overwrite.                                                        *)
QueueCurrent ==
    job.op \in {"idle", "fork", "exec"} =>
        /\ \A i \in 1 .. Len(in_queue) : Has(in_queue[i], "SWAPIN")
        /\ \A p \in Proc : Has(p, "SWAPIN") =>
              Cardinality({i \in 1 .. Len(in_queue) : in_queue[i] = p}) = 1

(* alloc_mem() and swap_in() come to an end: MM returns to its main loop,  *)
(* unless it is held up by a null pointer or a reply nobody waits for.     *)
CallEnds == []<>~Busy

-----------------------------------------------------------------------------
(* Alloc implements Memory: the holes are what is free. *)

UpTo == Len(Chunks)
Given == UNION {Clicks(Chunks[i]) : i \in 1 .. IF job.op = "mem_init" THEN job.next - 1 ELSE UpTo}

M == INSTANCE Memory WITH
        Program <- Program \cup {InitProgram},
        Click   <- Nat,
        all     <- Given \cup Clicks(InitSeg.T) \cup Clicks(InitSeg.D)
                   \cup Clicks([base |-> swap_base, len |-> IF swap_size = -1 THEN 0 ELSE swap_size]),
        free    <- UNION {Clicks(hole[i]) : i \in 1 .. Len(hole)},
        prog    <- prog,
        data    <- [p \in Proc |-> IF Has(p, "IN_USE") THEN Clicks(seg[p].D) ELSE {}],
        text    <- [f \in Program \cup {InitProgram} |->
                       UNION {Clicks(seg[p].T) : p \in {q \in InUse : prog[q] = f}}]

(* The first fit list, the sharing of texts and swapping keep what Memory  *)
(* promises: nothing overlaps, nothing is lost.                            *)
MemoryKept == M!Spec
=============================================================================
