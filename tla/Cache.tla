------------------------------- MODULE Cache --------------------------------
(***************************************************************************)
(* The block cache (fs/cache.c), the second level cache on the RAM disk    *)
(* (cache2.c), read-ahead (rahead() of read.c), sync and unmounting.       *)
(*                                                                         *)
(* FS is one process and does one thing at a time, but every call of a     *)
(* driver is a step of its own, at which the machine may go down.  A block *)
(* holds one of a few values.  The hash chains are left out: they hold the *)
(* buffers by block number, which changes only in get_block(), and a       *)
(* search along one finds the buffer that has the block.  The RAM disk is  *)
(* not itself mounted: its first use turns the second level cache off.     *)
(* Nobody looks at the number and the contents of a buffer without a       *)
(* device, so they are those of an empty one, save while it is written or  *)
(* read.                                                                   *)
(***************************************************************************)
EXTENDS Integers, Sequences, FiniteSets, Functions

CONSTANTS Block,     \* blocks in use: [dev, nr]
          Value,     \* contents of a block
          ZERO,      \* the contents of a zeroed block
          NR_BUFS, NR_BUF2, NR_IOREQS,
          ROOT_DEV,  \* the device that is never unmounted
          RESERVE,   \* buffers that read-ahead leaves free (4)
          Reads,     \* whether a read may fail
          Writes,    \* the least number of blocks a driver writes of those it is given
          MaxHeld,   \* bound of the model: buffers FS uses at a time
          MaxUses    \* bound of the model: uses of one buffer (b_count)

Buf == 1 .. NR_BUFS
NO_DEV == "none"
Dev == {b.dev : b \in Block}
Nr  == {b.nr : b \in Block}

ASSUME CacheAssumption ==
    /\ Block \subseteq [dev : STRING, nr : Nat \ {0}] /\ Block # {} /\ IsFiniteSet(Block)
    /\ NO_DEV \notin Dev
    /\ ZERO \in Value /\ NR_BUFS \in Nat \ {0} /\ NR_BUF2 \in Nat /\ NR_IOREQS \in Nat \ {0}
    /\ ROOT_DEV \in Dev /\ RESERVE \in Nat /\ Reads \in BOOLEAN /\ Writes \in {0, 1} /\ MaxHeld \in 1 .. NR_BUFS
    /\ MaxUses \in Nat \ {0}

VARIABLES buf,   \* b_dev, b_blocknr, b_dirt, b_count, the data
          lru,   \* the buffers not in use, from front to rear
          bufs_in_use,
          buf2, buf2_idx, b2_count, \* the second level cache
          disk,
          job    \* what FS is doing

cache2 == <<buf2, buf2_idx, b2_count>>
vars == <<buf, lru, bufs_in_use, cache2, disk, job>>

(* get_block() took bp, of device dev, for block blk, and has the buffers  *)
(* dirty still to write; read-ahead has gathered q.                        *)
NoBlock == [dev |-> NO_DEV, nr |-> 0]
Idle == [op |-> "idle", blk |-> NoBlock, bp |-> 0, dev |-> NO_DEV, dirty |-> <<>>, q |-> <<>>]

TypeOK ==
    /\ buf \in [Buf -> [dev : Dev \cup {NO_DEV}, nr : Nr \cup {0}, dirty : BOOLEAN,
                        count : 0 .. MaxUses, data : Value]]
    /\ lru \in Seq(Buf) /\ bufs_in_use \in 0 .. NR_BUFS
    /\ buf2 \in [1 .. NR_BUF2 -> [dev : Dev \cup {NO_DEV}, nr : Nr \cup {0}, data : Value]]
    /\ buf2_idx \in {0} \cup 0 .. NR_BUF2 - 1 /\ b2_count \in [Nr \cup {0} -> Nat]
    /\ disk \in [Block -> Value]
    /\ job \in [op : {"idle", "get", "again", "zero", "ahead", "gather", "sync", "synced", "panic"},
                blk : [dev : Dev \cup {NO_DEV}, nr : Nr \cup {0}], bp : Buf \cup {0}, dev : Dev \cup {NO_DEV},
                dirty : Seq(Buf), q : Seq(Buf)]
-----------------------------------------------------------------------------
NoCopy == [dev |-> NO_DEV, nr |-> 0, data |-> ZERO]

(* The second level cache: a ring, searched backwards for the newest copy. *)
Copies(b, ring) == {i \in 1 .. NR_BUF2 : ring[i].dev = b.dev /\ ring[i].nr = b.nr}
Back(i, idx) == IF i <= idx THEN idx - i ELSE idx + NR_BUF2 - i
Newest(b, ring, idx) == CHOOSE i \in Copies(b, ring) :
    \A k \in Copies(b, ring) : Back(i, idx) <= Back(k, idx)
InCache2(b, ring, count) == Copies(b, ring) # {} /\ count[b.nr] # 0

Copy(p) == [dev |-> buf[p].dev, nr |-> buf[p].nr, data |-> buf[p].data]

put_block2(p) ==
    IF NR_BUF2 = 0 \/ job.dev = NO_DEV THEN UNCHANGED cache2
    ELSE LET i == buf2_idx + 1
             gone == buf2[i] IN
         /\ buf2' = [buf2 EXCEPT ![i] = Copy(p)]
         /\ buf2_idx' = IF i = NR_BUF2 THEN 0 ELSE i
         /\ b2_count' = [k \in DOMAIN b2_count |->
                b2_count[k] - (IF gone.dev # NO_DEV /\ gone.nr = k THEN 1 ELSE 0)
                            + (IF buf[p].nr = k THEN 1 ELSE 0)]

invalidate2(d) ==
    /\ buf2' = [i \in DOMAIN buf2 |-> IF buf2[i].dev = d THEN NoCopy ELSE buf2[i]]
    /\ b2_count' = [k \in DOMAIN b2_count |->
            b2_count[k] - Cardinality({i \in DOMAIN buf2 : buf2[i].dev = d /\ buf2[i].nr = k})]
    /\ UNCHANGED buf2_idx
-----------------------------------------------------------------------------
(* A buffer without a device. *)
Empty(p) == [buf[p] EXCEPT !.dev = NO_DEV, !.nr = 0, !.data = ZERO]

(* The search of get_block(). *)
Found(b) == {p \in Buf : buf[p].dev = b.dev /\ buf[p].nr = b.nr}

(* The chain without a buffer that is on it. *)
rm_lru(p) ==
    LET k == CHOOSE i \in DOMAIN lru : lru[i] = p IN
    [i \in 1 .. Len(lru) - 1 |-> lru[IF i < k THEN i ELSE i + 1]]

(* It is there: take it from the chain, if nobody uses it, and count. *)
Hold(p) ==
    /\ lru' = IF buf[p].count = 0 THEN rm_lru(p) ELSE lru
    /\ bufs_in_use' = bufs_in_use + (IF buf[p].count = 0 THEN 1 ELSE 0)
    /\ buf' = [buf EXCEPT ![p].count = @ + 1]
    /\ UNCHANGED <<cache2, disk>>

(* flushall(): the dirty buffers of a device, sorted by rw_scattered(). *)
flushall(d) ==
    LET dirty == {p \in Buf : buf[p].dirty /\ buf[p].dev = d} IN
    CHOOSE s \in [1 .. Cardinality(dirty) -> dirty] :
        \A i, k \in DOMAIN s : i < k => buf[s[i]].nr < buf[s[k]].nr

Take_unflushed(b, j) ==
    /\ lru # <<>>
    /\ lru' = Tail(lru) /\ bufs_in_use' = bufs_in_use + 1
    /\ job' = [j EXCEPT !.blk = b, !.bp = Head(lru), !.dev = buf[Head(lru)].dev]
    /\ UNCHANGED <<buf, cache2, disk>>

(* It is not: take the front of the chain, and flush if that one is dirty. *)
Take(b, j) ==
    /\ IF lru = <<>> THEN job' = [j EXCEPT !.op = "panic"] /\ UNCHANGED <<lru, bufs_in_use>>
       ELSE LET p == Head(lru) IN
            /\ lru' = Tail(lru) /\ bufs_in_use' = bufs_in_use + 1
            /\ job' = [j EXCEPT !.blk = b, !.bp = p, !.dev = buf[p].dev, !.dirty =
                        IF buf[p].dev # NO_DEV /\ buf[p].dirty THEN flushall(buf[p].dev) ELSE <<>>]
    /\ UNCHANGED <<buf, cache2, disk>>

(* The blocks that go to the driver in one call of rw_scattered(). *)
Together(q) == {n \in 1 .. Len(q) : n <= NR_IOREQS
                    /\ \A i \in 1 .. n : buf[q[i]].nr = buf[q[1]].nr + i - 1}

FlushStep_again == \* the block stays in the queue
    /\ job.dirty # <<>>
    /\ LET p == job.dirty[1] IN
        /\ disk' = [disk EXCEPT ![[dev |-> job.dev, nr |-> buf[p].nr]] = buf[p].data]
        /\ buf' = [buf EXCEPT ![p].dirty = FALSE]
        /\ job' = [job EXCEPT !.dirty = Append(Tail(@), p)]
    /\ UNCHANGED <<lru, bufs_in_use, cache2>>

(* One turn of rw_scattered(WRITING): the driver writes the first n.  When *)
(* it writes none the first block is invalidated, and tried again.         *)
FlushStep ==
    /\ job.dirty # <<>>
    /\ \E n \in Together(job.dirty) \cup (IF Writes = 0 THEN {0} ELSE {}) :
        LET done == {job.dirty[i] : i \in 1 .. n}
            blk(p) == [dev |-> job.dev, nr |-> buf[p].nr] IN
        /\ disk' = [b \in Block |-> IF \E p \in done : blk(p) = b
                                    THEN buf[CHOOSE p \in done : blk(p) = b].data ELSE disk[b]]
        /\ buf' = [p \in Buf |-> IF p \in done THEN [buf[p] EXCEPT !.dirty = FALSE]
                                 ELSE IF n = 0 /\ p = job.dirty[1] THEN [buf[p] EXCEPT !.dev = NO_DEV]
                                 ELSE buf[p]]
        /\ job' = [job EXCEPT !.dirty = SubSeq(@, n + 1, Len(@))]
    /\ UNCHANGED <<lru, bufs_in_use, cache2>>

(* The buffer taken is clean now: it goes to the second level cache and    *)
(* becomes the buffer of the block that is wanted.                         *)
Filling(op) == job.op = op /\ job.bp # 0 /\ job.dirty = <<>> /\ put_block2(job.bp)

Becomes(d, k, dirt, v) ==
    buf' = [buf EXCEPT ![job.bp] = [dev |-> d, nr |-> k, dirty |-> dirt, count |-> @.count + 1, data |-> v]]

FillGet == \* NORMAL
    LET b == job.blk
        bp == buf[job.bp] IN
    /\ Filling("get") \/ Filling("again")
    /\ \/ InCache2(b, buf2', b2_count') /\ Becomes(b.dev, b.nr, bp.dirty, buf2'[Newest(b, buf2', buf2_idx')].data)
       \/ ~InCache2(b, buf2', b2_count') /\ Becomes(b.dev, b.nr, FALSE, disk[b])
       \/ ~InCache2(b, buf2', b2_count') /\ Reads /\ Becomes(NO_DEV, 0, FALSE, ZERO)
    /\ job' = Idle /\ UNCHANGED <<lru, bufs_in_use, disk>>

FillNew == \* NO_READ: the caller overwrites it at once
    /\ Filling("get")
    /\ \E v \in Value : Becomes(job.blk.dev, job.blk.nr, TRUE, v)
    /\ job' = Idle /\ UNCHANGED <<lru, bufs_in_use, disk>>

FillZero == \* a hole in a file: zero_block() marks the unnamed block dirty
    /\ Filling("zero") /\ Becomes(NO_DEV, 0, TRUE, ZERO)
    /\ job' = Idle /\ UNCHANGED <<lru, bufs_in_use, disk>>
-----------------------------------------------------------------------------
(* get_block(), NORMAL or NO_READ: the two differ when the buffer is filled. *)
get_block(b, op) ==
    IF Found(b) # {} THEN \E p \in Found(b) : buf[p].count < MaxUses /\ Hold(p) /\ job' = Idle
    ELSE Take(b, [Idle EXCEPT !.op = op])

Get(b) ==
    /\ job = Idle /\ (bufs_in_use < MaxHeld \/ \E p \in Found(b) : buf[p].count > 0)
    /\ get_block(b, "get")

GetZero ==
    /\ job = Idle /\ bufs_in_use < MaxHeld
    /\ Take(NoBlock, [Idle EXCEPT !.op = "zero"])

(* The user of a buffer changes it. *)
Modify(p, v) ==
    /\ job = Idle /\ buf[p].count > 0 /\ buf[p].dev # NO_DEV
    /\ buf' = [buf EXCEPT ![p].data = v, ![p].dirty = TRUE]
    /\ UNCHANGED <<lru, bufs_in_use, cache2, disk, job>>

put_block_early(p, type) == \* back on the chain while somebody uses it
    /\ job = Idle /\ buf[p].count > 0
    /\ bufs_in_use' = bufs_in_use - 1
    /\ lru' = Append(lru, p)
    /\ buf' = [buf EXCEPT ![p].count = @ - 1]
    /\ UNCHANGED <<cache2, disk, job>>

(* put_block(): ZUPER_BLOCK goes to the front and is written now. *)
put_block(p, type) ==
    LET super == type = "ZUPER_BLOCK"
        last == buf[p].count = 1
        write == super /\ last /\ buf[p].dirty /\ buf[p].dev # NO_DEV IN
    /\ job = Idle /\ buf[p].count > 0
    /\ bufs_in_use' = bufs_in_use - (IF last THEN 1 ELSE 0)
    /\ lru' = IF ~last THEN lru ELSE IF super THEN <<p>> \o lru ELSE Append(lru, p)
    /\ \E ok \in {TRUE} \cup (IF write /\ Writes = 0 THEN {FALSE} ELSE {}) :
        /\ buf' = [buf EXCEPT ![p] = [IF ok THEN buf[p] ELSE Empty(p) EXCEPT !.count = @ - 1, !.dirty = @ /\ ~write]]
        /\ disk' = IF write /\ ok
                   THEN [disk EXCEPT ![[dev |-> buf[p].dev, nr |-> buf[p].nr]] = buf[p].data] ELSE disk
    /\ UNCHANGED <<cache2, job>>
-----------------------------------------------------------------------------
(* rahead(): the first block, PREFETCH; in the model, of two or more. *)
Ahead(b) ==
    /\ [b EXCEPT !.nr = @ + 1] \in Block
    /\ job = Idle /\ bufs_in_use <= MaxHeld /\ bufs_in_use < NR_BUFS /\ Found(b) = {}
    /\ Take(b, [Idle EXCEPT !.op = "ahead"])

(* The block is in the second level cache (then read-ahead is over), or    *)
(* the buffer joins the queue, without a device.                           *)
FillAhead ==
    LET b == job.blk
        bp == buf[job.bp] IN
    /\ Filling("ahead") /\ UNCHANGED disk
    /\ IF InCache2(b, buf2', b2_count')
       THEN /\ buf' = [buf EXCEPT ![job.bp] = [dev |-> b.dev, nr |-> b.nr, dirty |-> bp.dirty,
                            count |-> IF job.q = <<>> THEN 1 ELSE 0, data |-> buf2'[Newest(b, buf2', buf2_idx')].data]]
            /\ IF job.q = <<>> THEN job' = Idle /\ UNCHANGED <<lru, bufs_in_use>>
               ELSE /\ lru' = Append(lru, job.bp) /\ bufs_in_use' = bufs_in_use - 1
                    /\ job' = [job EXCEPT !.op = "gather", !.bp = 0, !.dev = NO_DEV]
       ELSE /\ Becomes(NO_DEV, b.nr, bp.dirty, ZERO)
            /\ job' = [job EXCEPT !.q = Append(@, job.bp), !.bp = 0, !.dev = NO_DEV]
            /\ UNCHANGED <<lru, bufs_in_use>>

MoreBuffers == bufs_in_use < NR_BUFS - RESERVE

(* The next block, if there is one and buffers are left.  When it is in    *)
(* the cache already it goes to the rear of the chain, and that is all.    *)
AheadNext ==
    LET b == [job.blk EXCEPT !.nr = @ + 1] IN
    /\ job.op = "ahead" /\ job.bp = 0 /\ b \in Block /\ MoreBuffers
    /\ IF Found(b) = {} THEN Take(b, job)
       ELSE LET p == CHOOSE x \in Found(b) : TRUE IN
            /\ lru' = IF buf[p].count > 0 THEN lru ELSE Append(rm_lru(p), p)
            /\ job' = [job EXCEPT !.op = "gather"] /\ UNCHANGED <<buf, bufs_in_use, cache2, disk>>

GatherStep_all ==
    LET d == job.blk.dev
        first == [dev |-> d, nr |-> buf[job.q[1]].nr] IN
    /\ job.op = "gather" \/ (job.op = "ahead" /\ job.bp = 0)
    /\ buf' = [p \in Buf |-> IF p \notin Range(job.q) THEN buf[p]
                             ELSE [buf[p] EXCEPT !.count = 0, !.dev = d]]
    /\ lru' = lru \o job.q /\ bufs_in_use' = bufs_in_use - Len(job.q)
    /\ job' = [Idle EXCEPT !.op = "again", !.blk = first]
    /\ UNCHANGED <<cache2, disk>>

(* No more: rw_scattered(READING), of which the driver reads the first n;  *)
(* all go back to the chain, and the first block is got in the usual way.  *)
GatherStep ==
    LET d == job.blk.dev
        first == [dev |-> d, nr |-> buf[job.q[1]].nr] IN
    /\ job.op = "gather" \/ (job.op = "ahead" /\ job.bp = 0)
    /\ \E n \in Together(job.q) \cup (IF Reads THEN {0} ELSE {}) :
        buf' = [p \in Buf |->
            IF p \notin Range(job.q) THEN buf[p]
            ELSE IF \E i \in 1 .. n : job.q[i] = p
                 THEN [buf[p] EXCEPT !.count = 0, !.dev = d, !.data = disk[[dev |-> d, nr |-> buf[p].nr]]]
                 ELSE [Empty(p) EXCEPT !.count = 0]]
    /\ lru' = lru \o job.q /\ bufs_in_use' = bufs_in_use - Len(job.q)
    /\ job' = [Idle EXCEPT !.op = "again", !.blk = first]
    /\ UNCHANGED <<cache2, disk>>

AheadEnd == job.op = "again" /\ job.bp = 0 /\ get_block(job.blk, "again")
-----------------------------------------------------------------------------
(* do_sync(), a call of its own (d = NO_DEV), or with invalidate() when a  *)
(* device is unmounted and on the last close of a block special file; no   *)
(* buffer is in use then.                                                  *)
StartSync(d) ==
    /\ job = Idle /\ bufs_in_use = 0
    /\ job' = [Idle EXCEPT !.op = "sync", !.blk.dev = d]
    /\ UNCHANGED <<buf, lru, bufs_in_use, cache2, disk>>

ToSync_one == {p \in {1} : buf[p].dev # NO_DEV /\ buf[p].dirty}

ToSync == {p \in Buf : buf[p].dev # NO_DEV /\ buf[p].dirty}

(* flushall() leaves no dirty block of a device: the scan of the buffers   *)
(* need not remember how far it is.                                        *)
SyncStep ==
    /\ job.op = "sync" /\ job.dirty = <<>>
    /\ IF ToSync = {} THEN job' = [job EXCEPT !.op = "synced", !.dev = NO_DEV]
       ELSE LET d == buf[CHOOSE p \in ToSync : \A x \in ToSync : p <= x].dev IN
            job' = [job EXCEPT !.dev = d, !.dirty = flushall(d)]
    /\ UNCHANGED <<buf, lru, bufs_in_use, cache2, disk>>

invalidate(d) ==
    /\ buf' = [p \in Buf |-> IF buf[p].dev = d THEN Empty(p) ELSE buf[p]]
    /\ invalidate2(d)

EndSync ==
    /\ job.op = "synced" /\ job' = Idle
    /\ IF job.blk.dev = NO_DEV THEN UNCHANGED <<buf, cache2>> ELSE invalidate(job.blk.dev)
    /\ UNCHANGED <<lru, bufs_in_use, disk>>
-----------------------------------------------------------------------------
buf_pool == [p \in Buf |-> [dev |-> NO_DEV, nr |-> 0, dirty |-> FALSE, count |-> 0, data |-> ZERO]]
chain_pool == [i \in 1 .. NR_BUFS |-> i]
empty_cache2 == [i \in 1 .. NR_BUF2 |-> NoCopy]
no_copies == [k \in Nr \cup {0} |-> 0]

Init ==
    /\ buf = buf_pool /\ lru = chain_pool /\ bufs_in_use = 0
    /\ buf2 = empty_cache2 /\ buf2_idx = 0 /\ b2_count = no_copies
    /\ disk \in [Block -> Value] /\ job = Idle

(* The machine goes down and is started again. *)
Crash ==
    /\ buf' = buf_pool /\ lru' = chain_pool /\ bufs_in_use' = 0
    /\ buf2' = empty_cache2 /\ buf2_idx' = 0 /\ b2_count' = no_copies
    /\ job' = Idle /\ UNCHANGED disk

Step == FlushStep \/ FillGet \/ FillNew \/ FillZero \/ FillAhead \/ AheadNext \/ GatherStep
        \/ AheadEnd \/ SyncStep \/ EndSync

Call ==
    \/ \E b \in Block : Get(b) \/ Ahead(b)
    \/ GetZero
    \/ \E p \in Buf : (\E v \in Value : Modify(p, v)) \/ (\E t \in {"PARTIAL_DATA_BLOCK", "ZUPER_BLOCK"} : put_block(p, t))
    \/ \E d \in (Dev \cup {NO_DEV}) \ {ROOT_DEV} : StartSync(d)

Next == Step \/ Call \/ Crash

(* FS goes on with what it has begun; a driver answers.  Step is enabled   *)
(* whenever FS is not idle and only Step and Crash happen then, and Crash  *)
(* leaves it idle: so this is weak fairness of Step.                       *)
Fairness == []<>(job = Idle) \/ []<><<TRUE>>_vars

Spec == Init /\ [][Next]_vars /\ Fairness
-----------------------------------------------------------------------------
(* What reading a block would give. *)
Seen == [b \in Block |-> IF Found(b) # {} THEN buf[CHOOSE p \in Found(b) : TRUE].data
                         ELSE IF InCache2(b, buf2, b2_count) THEN buf2[Newest(b, buf2, buf2_idx)].data ELSE disk[b]]

D == INSTANCE Disk WITH seen <- Seen, stable <- disk

(* get_block() gives what was last written, whatever the two caches, the   *)
(* flushes and read-ahead do meanwhile; a crash gives back what the driver *)
(* was told to write; nothing is written but what the cache holds.         *)
DiskKept == D!Spec

(* A block is in at most one buffer (the search in get_block() stops at    *)
(* the first, and a change to the other one would be lost).                *)
NoTwoCopies == \A p, q \in Buf : p # q /\ buf[p].dev # NO_DEV =>
                    <<buf[p].dev, buf[p].nr>> # <<buf[q].dev, buf[q].nr>>

(* The chain holds each buffer that nobody uses, once, but the one that    *)
(* get_block() has just taken; bufs_in_use counts the others (rm_lru(),    *)
(* put_block(), the extras that rw_scattered() releases).                  *)
ChainExact ==
    /\ \A i, k \in DOMAIN lru : i # k => lru[i] # lru[k]
    /\ Range(lru) = {p \in Buf : buf[p].count = 0} \ {job.bp}
    /\ bufs_in_use = NR_BUFS - Len(lru)

(* Read-ahead leaves a buffer for whoever needs one: get_block() never     *)
(* panics with "all buffers in use".                                       *)
BufferLeft == job.op # "panic"

(* b2_count counts the copies with that hash key: at zero get_block2()     *)
(* does not search.                                                        *)
CopiesCounted == \A k \in DOMAIN b2_count :
    b2_count[k] = Cardinality({i \in DOMAIN buf2 : buf2[i].dev # NO_DEV /\ buf2[i].nr = k})

(* The two caches are well formed, and one block is in one buffer.         *)
BuffersSound == TypeOK /\ NoTwoCopies /\ ChainExact /\ BufferLeft /\ CopiesCounted

(* A copy that is not marked dirty, or would be read from the second level *)
(* cache, is what the disk holds: it may be thrown away.                   *)
CleanIsOnDisk ==
    /\ \A p \in Buf : buf[p].dev # NO_DEV /\ ~buf[p].dirty =>
            buf[p].data = disk[[dev |-> buf[p].dev, nr |-> buf[p].nr]]
    /\ \A b \in Block : Found(b) = {} /\ InCache2(b, buf2, b2_count) => buf2[Newest(b, buf2, buf2_idx)].data = disk[b]

(* When sync() returns, everything that was written is on the disk. *)
SyncWorks == job.op = "synced" => Seen = disk

(* FS comes to the end of every call, if the drivers write what they are   *)
(* given, at least one block of it at a time.                              *)
CallsEnd == []<>(job.op = "idle")
=============================================================================
