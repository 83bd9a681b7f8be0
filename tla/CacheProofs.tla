---------------------------- MODULE CacheProofs ----------------------------
(***************************************************************************)
(* The block cache, proved for every set of blocks, number of buffers,     *)
(* second level cache and read-ahead: what is read is what was written.    *)
(*                                                                         *)
(* A block has three places: a buffer, the ring of the second level cache  *)
(* and the disk.  The invariant says how they agree, and what FS still     *)
(* holds in its hands in the middle of a call: the buffer just taken from  *)
(* the chain, the blocks to be written, the buffers read-ahead has         *)
(* gathered.  With it every step is one of Disk, or changes nothing there. *)
(*                                                                         *)
(* The driver is assumed to write at least one block of those it is given  *)
(* (Writes = 1): rw_scattered() invalidates a block that it cannot write,  *)
(* and what was written to it is gone.                                     *)
(***************************************************************************)
EXTENDS Cache, FiniteSetTheorems, SequenceTheorems, WellFoundedInduction, TLAPS

BufferOf == [dev : Dev \cup {NO_DEV}, nr : Nr \cup {0}, dirty : BOOLEAN, count : 0 .. MaxUses, data : Value]
CopyOf   == [dev : Dev \cup {NO_DEV}, nr : Nr \cup {0}, data : Value]

Name(r) == [dev |-> r.dev, nr |-> r.nr]

(* What has a device is a block. *)
Named(r) == r.dev # NO_DEV => Name(r) \in Block

(* A chain of buffers: each of the set, once. *)
IsChain(s, F) == /\ s \in Seq(Buf) /\ Range(s) = F
                 /\ \A i, k \in 1 .. Len(s) : i # k => s[i] # s[k]

(* The buffers nobody uses, but the one that get_block() has just taken. *)
Free == {p \in Buf : buf[p].count = 0} \ {job.bp}

(* The second level cache by itself. *)
RingSound(ring, idx, count) ==
    /\ ring \in [1 .. NR_BUF2 -> CopyOf]
    /\ NR_BUF2 = 0 => idx = 0
    /\ NR_BUF2 # 0 => idx \in 0 .. NR_BUF2 - 1
    /\ count \in [Nr \cup {0} -> Nat]
    /\ \A i \in 1 .. NR_BUF2 : Named(ring[i])
    /\ \A k \in Nr \cup {0} :
        count[k] = Cardinality({i \in 1 .. NR_BUF2 : ring[i].dev # NO_DEV /\ ring[i].nr = k})

JobType == [op : {"idle", "get", "again", "zero", "ahead", "gather", "sync", "synced"},
            blk : [dev : Dev \cup {NO_DEV}, nr : Nr \cup {0}], bp : Buf \cup {0}, dev : Dev \cup {NO_DEV},
            dirty : Seq(Buf), q : Seq(Buf)]

(* The buffer that get_block() has taken from the chain. *)
TakenSound ==
    IF job.bp # 0
    THEN /\ job.op \in {"get", "again", "zero", "ahead"}
         /\ buf[job.bp].count = 0 /\ buf[job.bp].dev = job.dev
         /\ job.dev # NO_DEV /\ buf[job.bp].dirty => \E i \in 1 .. Len(job.dirty) : job.dirty[i] = job.bp
         /\ job.op # "zero" => Found(job.blk) = {}
    ELSE /\ job.op \notin {"get", "zero"}
         /\ job.op = "again" => bufs_in_use < NR_BUFS
         /\ job.op \in {"ahead", "gather"} => job.q # <<>>

(* The blocks that are still to be written. *)
DirtySound == /\ job.dirty # <<>> => job.dev # NO_DEV
              /\ \A i \in 1 .. Len(job.dirty) : buf[job.dirty[i]].dev = job.dev

(* The buffers that read-ahead has gathered: not in use by anyone else,    *)
(* and of blocks that are in no other buffer.                              *)
GatheredSound ==
    /\ job.q # <<>> => job.op \in {"ahead", "gather"}
    /\ \A i \in 1 .. Len(job.q) :
        LET r == buf[job.q[i]]
            b == [dev |-> job.blk.dev, nr |-> r.nr] IN
        /\ r.count = 1 /\ r.dev = NO_DEV /\ b \in Block /\ Found(b) = {}
        /\ r.nr <= job.blk.nr /\ (job.bp # 0 => r.nr < job.blk.nr)
    /\ \A i, k \in 1 .. Len(job.q) : i # k => buf[job.q[i]].nr # buf[job.q[k]].nr

JobSound ==
    /\ job \in JobType
    /\ job.op \in {"get", "again", "ahead", "gather"} => job.blk \in Block
    /\ TakenSound /\ DirtySound /\ GatheredSound
    /\ job.op = "synced" => \A p \in Buf : buf[p].dev # NO_DEV => ~buf[p].dirty

PoolSound ==
    /\ buf \in [Buf -> BufferOf] /\ disk \in [Block -> Value]
    /\ \A p \in Buf : Named(buf[p])
    /\ NoTwoCopies

ChainSound == IsChain(lru, Free) /\ bufs_in_use = NR_BUFS - Len(lru)

IInv ==
    /\ PoolSound
    /\ RingSound(buf2, buf2_idx, b2_count)
    /\ ChainSound
    /\ CleanIsOnDisk
    /\ JobSound
-----------------------------------------------------------------------------
(* A nonempty set of natural numbers has a least one. *)
LEMMA LeastNumber ==
    ASSUME NEW S \in SUBSET Nat, S # {}
    PROVE  \E x \in S : \A y \in S : x <= y
  <1>1. PICK x \in S : \A y \in S : ~(<<y, x>> \in OpToRel(<, Nat))
    BY NatLessThanWellFounded, WFMin
  <1>2. \A y \in S : ~(y < x)
    BY <1>1 DEF OpToRel
  <1> QED BY <1>2

(* Things with different numbers can be put in order: the place of one is  *)
(* how many have a number up to its own.                                   *)
LEMMA InOrder ==
    ASSUME NEW E, IsFiniteSet(E), NEW nr \in [E -> Nat], \A x, y \in E : nr[x] = nr[y] => x = y
    PROVE  \E s \in [1 .. Cardinality(E) -> E] : \A i, k \in DOMAIN s : i < k => nr[s[i]] < nr[s[k]]
  <1>0. PICK n \in Nat : n = Cardinality(E)
    BY FS_CardinalityType
  <1> DEFINE Upto(x) == {y \in E : nr[y] <= nr[x]}
  <1>1. IsFiniteSet(1 .. n) /\ Cardinality(1 .. n) = n
    BY FS_Interval
  <1>2. ASSUME NEW x \in E
        PROVE  IsFiniteSet(Upto(x)) /\ Cardinality(Upto(x)) \in 1 .. n
    <2>1. IsFiniteSet(Upto(x)) /\ Cardinality(Upto(x)) \in Nat /\ Cardinality(Upto(x)) <= n
      BY <1>0, FS_Subset, FS_CardinalityType
    <2>2. x \in Upto(x)
      OBVIOUS
    <2>3. Cardinality(Upto(x)) # 0
      BY <2>1, <2>2, FS_EmptySet
    <2> HIDE DEF Upto
    <2> QED BY <2>1, <2>3
  <1>3. ASSUME NEW x \in E, NEW y \in E, nr[x] < nr[y]
        PROVE  Cardinality(Upto(x)) < Cardinality(Upto(y))
    <2>1. Upto(x) \subseteq Upto(y) /\ y \in Upto(y) /\ y \notin Upto(x)
      BY <1>3
    <2>2. Cardinality(Upto(x)) <= Cardinality(Upto(y)) /\ Cardinality(Upto(x)) # Cardinality(Upto(y))
      BY <1>2, <2>1, FS_Subset
    <2> HIDE DEF Upto
    <2>3. Cardinality(Upto(x)) \in 1 .. n /\ Cardinality(Upto(y)) \in 1 .. n
      BY <1>2
    <2> QED BY <2>2, <2>3
  <1>r. PICK rank \in [E -> 1 .. n] : \A x, y \in E : nr[x] < nr[y] => rank[x] < rank[y]
    <2> HIDE DEF Upto
    <2> DEFINE r == [x \in E |-> Cardinality(Upto(x))]
    <2>1. r \in [E -> 1 .. n]
      BY <1>2
    <2>2. \A x, y \in E : nr[x] < nr[y] => r[x] < r[y]
      BY <1>3
    <2> QED BY <2>1, <2>2
  <1>4. rank \in Injection(E, 1 .. n)
    <2>2. ASSUME NEW x \in E, NEW y \in E, rank[x] = rank[y]
          PROVE  x = y
      <3>1. ~(nr[x] < nr[y]) /\ ~(nr[y] < nr[x])
        BY <1>r, <2>2
      <3>2. nr[x] = nr[y]
        BY <3>1
      <3> QED BY <3>2
    <2> QED BY <2>2 DEF Injection, IsInjective
  <1>5. \A i \in 1 .. n : \E x \in E : rank[x] = i
    <2>1. rank \in Surjection(E, 1 .. n)
      BY <1>0, <1>1, <1>4, FS_Injection
    <2> QED BY <2>1 DEF Surjection
  <1> DEFINE s == [i \in 1 .. n |-> CHOOSE x \in E : rank[x] = i]
  <1>6. \A i \in 1 .. n : s[i] \in E /\ rank[s[i]] = i
    BY <1>5
  <1>7. ASSUME NEW i \in 1 .. n, NEW k \in 1 .. n, i < k
        PROVE  nr[s[i]] < nr[s[k]]
    <2>1. s[i] \in E /\ s[k] \in E /\ rank[s[i]] = i /\ rank[s[k]] = k
      BY <1>6
    <2> HIDE DEF s
    <2>2. ~(nr[s[k]] < nr[s[i]])
      BY <1>r, <1>7, <2>1
    <2>3. nr[s[k]] # nr[s[i]]
      BY <1>7, <2>1
    <2> QED BY <2>1, <2>2, <2>3
  <1>8. s \in [1 .. n -> E]
    BY <1>6
  <1> QED BY <1>0, <1>7, <1>8

(* ... and then none is left out. *)
LEMMA AllInOrder ==
    ASSUME NEW E, IsFiniteSet(E), NEW nr \in [E -> Nat],
           NEW s \in [1 .. Cardinality(E) -> E], \A i, k \in DOMAIN s : i < k => nr[s[i]] < nr[s[k]]
    PROVE  \A x \in E : \E i \in 1 .. Cardinality(E) : s[i] = x
  <1>1. Cardinality(E) \in Nat /\ IsFiniteSet(1 .. Cardinality(E)) /\ Cardinality(1 .. Cardinality(E)) = Cardinality(E)
    BY FS_CardinalityType, FS_Interval
  <1>2. \A i, k \in 1 .. Cardinality(E) : s[i] = s[k] => i = k
    <2> SUFFICES ASSUME NEW i \in 1 .. Cardinality(E), NEW k \in 1 .. Cardinality(E), s[i] = s[k]
                 PROVE  i = k
      OBVIOUS
    <2>1. nr[s[i]] \in Nat /\ nr[s[i]] = nr[s[k]]
      OBVIOUS
    <2>2. ~(i < k) /\ ~(k < i)
      BY <2>1
    <2> QED BY <1>1, <2>2
  <1>3. s \in Injection(1 .. Cardinality(E), E)
    BY <1>2 DEF Injection, IsInjective
  <1> QED BY <1>1, <1>3, FS_Injection DEF Surjection

-----------------------------------------------------------------------------
(* Chains. *)
LEMMA BufFinite == IsFiniteSet(Buf) /\ Cardinality(Buf) = NR_BUFS /\ NR_BUFS \in Nat \ {0} /\ 0 \notin Buf
  BY CacheAssumption, FS_Interval DEF Buf

(* A chain is as long as its set is large. *)
LEMMA ChainLength ==
    ASSUME NEW F \in SUBSET Buf, NEW s, IsChain(s, F)
    PROVE  /\ Len(s) \in 0 .. NR_BUFS
           /\ IsFiniteSet(F) /\ Len(s) = Cardinality(F)
           /\ F # Buf => Len(s) < NR_BUFS
           /\ s = <<>> <=> F = {}
           /\ s = <<>> <=> Len(s) = 0
           /\ \A i \in 1 .. Len(s) : s[i] \in F
           /\ \A p \in F : \E i \in 1 .. Len(s) : s[i] = p
  <1>0. s \in Seq(Buf) /\ Len(s) \in Nat /\ DOMAIN s = 1 .. Len(s) /\ IsFiniteSet(1 .. Len(s)) /\ Cardinality(1 .. Len(s)) = Len(s)
    BY FS_Interval DEF IsChain
  <1>1. /\ \A i \in 1 .. Len(s) : s[i] \in F
        /\ \A p \in F : \E i \in 1 .. Len(s) : s[i] = p
    BY <1>0 DEF IsChain, Range
  <1>2. IsFiniteSet(F) /\ Cardinality(F) \in Nat /\ Cardinality(F) <= NR_BUFS /\ (F # Buf => Cardinality(F) # NR_BUFS)
    BY BufFinite, FS_Subset, FS_CardinalityType
  <1>3. s \in [1 .. Len(s) -> F]
    BY <1>0, <1>1
  <1>4. s \in Surjection(1 .. Len(s), F)
    BY <1>1, <1>3 DEF Surjection
  <1>5. s \in Injection(1 .. Len(s), F)
    BY <1>0, <1>3 DEF Injection, IsInjective, IsChain
  <1>6. Cardinality(F) = Len(s)
    BY <1>0, <1>4, <1>5, FS_Surjection
  <1>7. s = <<>> <=> Len(s) = 0
    BY <1>0
  <1>8. s = <<>> <=> F = {}
    <2>1. F = {} <=> Cardinality(F) = 0
      BY <1>2, FS_EmptySet
    <2> QED BY <1>6, <1>7, <2>1
  <1>9. Len(s) \in 0 .. NR_BUFS /\ (F # Buf => Len(s) < NR_BUFS)
    <2>1. NR_BUFS \in Nat
      BY BufFinite
    <2>2. Len(s) \in Nat /\ Len(s) <= NR_BUFS /\ (F # Buf => Len(s) # NR_BUFS)
      BY <1>0, <1>2, <1>6
    <2> QED BY <2>1, <2>2
  <1> QED BY <1>1, <1>2, <1>6, <1>7, <1>8, <1>9

(* A chain by its places. *)
LEMMA ChainIs ==
    ASSUME NEW F, NEW s \in Seq(Buf)
    PROVE  IsChain(s, F) <=> /\ \A i \in 1 .. Len(s) : s[i] \in F
                             /\ \A p \in F : \E i \in 1 .. Len(s) : s[i] = p
                             /\ \A i, k \in 1 .. Len(s) : i # k => s[i] # s[k]
  <1>1. DOMAIN s = 1 .. Len(s)
    OBVIOUS
  <1>2. Range(s) = F <=> /\ \A i \in 1 .. Len(s) : s[i] \in F
                         /\ \A p \in F : \E i \in 1 .. Len(s) : s[i] = p
    BY <1>1, Zenon DEF Range
  <1> QED BY <1>2 DEF IsChain

(* rm_lru(front). *)
LEMMA ChainTail ==
    ASSUME NEW F, NEW s, IsChain(s, F), s # <<>>, NEW t, t = Tail(s)
    PROVE  Head(s) \in F /\ Head(s) = s[1] /\ IsChain(t, F \ {Head(s)}) /\ Len(t) = Len(s) - 1
  <1>1. /\ s \in Seq(Buf) /\ Len(s) \in Nat /\ Len(s) # 0 /\ Head(s) = s[1] /\ t \in Seq(Buf) /\ Len(t) = Len(s) - 1
        /\ \A i \in 1 .. Len(t) : t[i] = s[i + 1]
        /\ DOMAIN t = 1 .. Len(t)
    BY HeadTailProperties DEF IsChain
  <1>2. /\ \A i \in 1 .. Len(s) : s[i] \in F
        /\ \A p \in F : \E i \in 1 .. Len(s) : s[i] = p
        /\ \A i, k \in 1 .. Len(s) : i # k => s[i] # s[k]
    BY <1>1, ChainIs
  <1>3. \A i, k \in 1 .. Len(t) : i # k => t[i] # t[k]
    BY <1>1, <1>2
  <1>4. s[1] \in F
    BY <1>1, <1>2
  <1>5. IsChain(t, F \ {s[1]})
    <2>1. \A i \in 1 .. Len(t) : t[i] \in F /\ t[i] # s[1]
      BY <1>1, <1>2
    <2>2. ASSUME NEW p \in F, p # s[1]
          PROVE  \E i \in 1 .. Len(t) : t[i] = p
      <3>1. PICK i \in 1 .. Len(s) : s[i] = p
        BY <1>2
      <3>2. i - 1 \in 1 .. Len(t) /\ t[i - 1] = p
        BY <1>1, <2>2, <3>1
      <3> QED BY <3>2
    <2>3. PICK G : G = F \ {s[1]}
      OBVIOUS
    <2>4. (\A i \in 1 .. Len(t) : t[i] \in G) /\ (\A p \in G : \E i \in 1 .. Len(t) : t[i] = p)
      BY <2>1, <2>2, <2>3
    <2>5. IsChain(t, G)
      BY <1>1, <1>3, <2>4, ChainIs
    <2> QED BY <2>3, <2>5
  <1> QED BY <1>1, <1>4, <1>5

(* rm_lru(), wherever the buffer is. *)
LEMMA ChainRemove ==
    ASSUME NEW F, IsChain(lru, F), NEW p \in F, NEW t, t = rm_lru(p)
    PROVE  IsChain(t, F \ {p}) /\ Len(t) = Len(lru) - 1
  <1>1. /\ lru \in Seq(Buf) /\ Len(lru) \in Nat /\ DOMAIN lru = 1 .. Len(lru)
        /\ \A i \in 1 .. Len(lru) : lru[i] \in F
        /\ \A x \in F : \E i \in 1 .. Len(lru) : lru[i] = x
        /\ \A i, k \in 1 .. Len(lru) : i # k => lru[i] # lru[k]
    <2>1. lru \in Seq(Buf)
      BY DEF IsChain
    <2> QED BY <2>1, ChainIs
  <1>2. PICK k \in 1 .. Len(lru) : lru[k] = p /\ k = CHOOSE i \in DOMAIN lru : lru[i] = p
    BY <1>1
  <1>3. t = [i \in 1 .. Len(lru) - 1 |-> lru[IF i < k THEN i ELSE i + 1]]
    BY <1>2 DEF rm_lru
  <1>4. /\ \A i \in 1 .. Len(lru) - 1 : i < k => t[i] = lru[i]
        /\ \A i \in 1 .. Len(lru) - 1 : ~(i < k) => t[i] = lru[i + 1]
        /\ \A i \in 1 .. Len(lru) - 1 : t[i] \in F
    BY <1>1, <1>3
  <1>5. t \in Seq(Buf) /\ Len(t) = Len(lru) - 1 /\ DOMAIN t = 1 .. Len(t)
    <2>1. Len(lru) - 1 \in Nat /\ t \in [1 .. Len(lru) - 1 -> Buf]
      BY <1>1, <1>3, <1>4
    <2> QED BY <2>1
  <1>6. ASSUME NEW i \in 1 .. Len(t)
        PROVE  t[i] \in F /\ t[i] # p
    <2>1. CASE i < k
      BY <1>1, <1>2, <1>4, <1>5, <2>1
    <2>2. CASE ~(i < k)
      BY <1>1, <1>2, <1>4, <1>5, <2>2
    <2> QED BY <2>1, <2>2
  <1>7. ASSUME NEW x \in F, x # p
        PROVE  \E i \in 1 .. Len(t) : t[i] = x
    <2>1. PICK j \in 1 .. Len(lru) : lru[j] = x
      BY <1>1
    <2>2. j < k => j \in 1 .. Len(t) /\ t[j] = x
      BY <1>1, <1>4, <1>5, <2>1
    <2>3. j > k => j - 1 \in 1 .. Len(t) /\ t[j - 1] = x
      BY <1>1, <1>4, <1>5, <2>1
    <2>4. j # k
      BY <1>2, <1>7, <2>1
    <2> QED BY <2>2, <2>3, <2>4, <1>1
  <1>8. ASSUME NEW i \in 1 .. Len(t), NEW j \in 1 .. Len(t), i # j
        PROVE  t[i] # t[j]
    <2> DEFINE at(x) == IF x < k THEN x ELSE x + 1
    <2>1. t[i] = lru[at(i)] /\ t[j] = lru[at(j)]
      BY <1>1, <1>4, <1>5
    <2>2. at(i) \in 1 .. Len(lru) /\ at(j) \in 1 .. Len(lru) /\ at(i) # at(j)
      BY <1>1, <1>5, <1>8
    <2> HIDE DEF at
    <2> QED BY <1>1, <2>1, <2>2
  <1>9. PICK G : G = F \ {p}
    OBVIOUS
  <1>10. (\A i \in 1 .. Len(t) : t[i] \in G) /\ (\A x \in G : \E i \in 1 .. Len(t) : t[i] = x)
    BY <1>6, <1>7, <1>9
  <1>11. IsChain(t, G)
    BY <1>5, <1>8, <1>10, ChainIs
  <1> QED BY <1>5, <1>9, <1>11

(* Two chains of different buffers, one after the other. *)
LEMMA ChainConcat ==
    ASSUME NEW F, NEW G, NEW H, \A x : x \in H <=> x \in F \/ x \in G, \A x : ~(x \in F /\ x \in G),
           NEW s, IsChain(s, F), NEW q, IsChain(q, G), NEW t, t = s \o q
    PROVE  IsChain(t, H) /\ Len(t) = Len(s) + Len(q)
  <1>1. /\ s \in Seq(Buf) /\ Len(s) \in Nat
        /\ \A i \in 1 .. Len(s) : s[i] \in F
        /\ \A p \in F : \E i \in 1 .. Len(s) : s[i] = p
        /\ \A i, k \in 1 .. Len(s) : i # k => s[i] # s[k]
    <2>1. s \in Seq(Buf)
      BY DEF IsChain
    <2> QED BY <2>1, ChainIs
  <1>2. /\ q \in Seq(Buf) /\ Len(q) \in Nat
        /\ \A i \in 1 .. Len(q) : q[i] \in G
        /\ \A p \in G : \E i \in 1 .. Len(q) : q[i] = p
        /\ \A i, k \in 1 .. Len(q) : i # k => q[i] # q[k]
    <2>1. q \in Seq(Buf)
      BY DEF IsChain
    <2> QED BY <2>1, ChainIs
  <1>3. /\ t \in Seq(Buf) /\ Len(t) = Len(s) + Len(q) /\ DOMAIN t = 1 .. Len(t)
        /\ \A i \in 1 .. Len(s) + Len(q) : t[i] = IF i <= Len(s) THEN s[i] ELSE q[i - Len(s)]
    BY <1>1, <1>2, ConcatProperties
  <1>4. /\ \A i \in 1 .. Len(t) : i <= Len(s) => t[i] = s[i] /\ t[i] \in F
        /\ \A i \in 1 .. Len(t) : i > Len(s) => i - Len(s) \in 1 .. Len(q) /\ t[i] = q[i - Len(s)] /\ t[i] \in G
    BY <1>1, <1>2, <1>3
  <1>5. ASSUME NEW i \in 1 .. Len(t), NEW k \in 1 .. Len(t), i # k
        PROVE  t[i] # t[k]
    <2>1. CASE i <= Len(s) /\ k <= Len(s)
      BY <1>1, <1>4, <1>5, <2>1
    <2>2. CASE i > Len(s) /\ k > Len(s)
      <3>1. i - Len(s) # k - Len(s)
        BY <1>1, <1>5
      <3> QED BY <1>2, <1>4, <2>2, <3>1
    <2>3. CASE (i <= Len(s)) # (k <= Len(s))
      BY <1>1, <1>4, <2>3
    <2> QED BY <1>1, <2>1, <2>2, <2>3
  <1>6. ASSUME NEW p \in F
        PROVE  \E i \in 1 .. Len(t) : t[i] = p
    <2>1. PICK i \in 1 .. Len(s) : s[i] = p
      BY <1>1
    <2>2. i \in 1 .. Len(t) /\ t[i] = p
      BY <1>1, <1>2, <1>3, <2>1
    <2> QED BY <2>2
  <1>7. ASSUME NEW p \in G
        PROVE  \E i \in 1 .. Len(t) : t[i] = p
    <2>1. PICK i \in 1 .. Len(q) : q[i] = p
      BY <1>2
    <2>2. i + Len(s) \in 1 .. Len(t) /\ t[i + Len(s)] = p
      BY <1>1, <1>2, <1>3, <2>1
    <2> QED BY <2>2
  <1>8. ASSUME NEW i \in 1 .. Len(t)
        PROVE  t[i] \in H
    <2>1. i <= Len(s) \/ i > Len(s)
      BY <1>1, <1>3
    <2> QED BY <1>4, <2>1
  <1>10. (\A i \in 1 .. Len(t) : t[i] \in H) /\ (\A x \in H : \E i \in 1 .. Len(t) : t[i] = x)
    BY <1>6, <1>7, <1>8
  <1>11. IsChain(t, H)
    <2>1. t \in Seq(Buf)
      BY <1>3
    <2>2. \A i, k \in 1 .. Len(t) : i # k => t[i] # t[k]
      BY <1>5
    <2> QED BY <1>10, <2>1, <2>2, ChainIs
  <1> QED BY <1>3, <1>11

(* A chain of one buffer. *)
LEMMA ChainOne ==
    ASSUME NEW p \in Buf
    PROVE  IsChain(<<p>>, {p}) /\ Len(<<p>>) = 1
  BY DEF IsChain, Range

(* Back on the chain, at either end. *)
LEMMA ChainAdd ==
    ASSUME NEW F, NEW s, IsChain(s, F), NEW p \in Buf \ F, NEW t, t = Append(s, p) \/ t = <<p>> \o s
    PROVE  IsChain(t, F \cup {p}) /\ Len(t) = Len(s) + 1
  <1>1. IsChain(<<p>>, {p}) /\ Len(<<p>>) = 1 /\ F \cap {p} = {} /\ {p} \cup F = F \cup {p}
    BY ChainOne
  <1>2. s \in Seq(Buf) /\ Len(s) \in Nat
    BY DEF IsChain
  <1>3. PICK u, G, H : u = <<p>> /\ G = {p} /\ H = F \cup {p}
    OBVIOUS
  <1>4. IsChain(u, G) /\ Len(u) = 1
    BY <1>1, <1>3
  <1>5. \A x : x \in H <=> x \in F \/ x \in G
    BY <1>3
  <1>6. \A x : x \in H <=> x \in G \/ x \in F
    BY <1>3
  <1>7. (\A x : ~(x \in F /\ x \in G)) /\ (\A x : ~(x \in G /\ x \in F))
    BY <1>3
  <1>8. CASE t = s \o u
    <2>1. IsChain(t, H)
      BY <1>4, <1>5, <1>7, <1>8, ChainConcat
    <2>2. Len(t) = Len(s) + Len(u)
      BY <1>4, <1>5, <1>7, <1>8, ChainConcat
    <2> QED BY <1>3, <1>4, <2>1, <2>2
  <1>9. CASE t = u \o s
    <2>1. IsChain(t, H)
      BY <1>4, <1>6, <1>7, <1>9, ChainConcat
    <2>2. Len(t) = Len(u) + Len(s)
      BY <1>4, <1>6, <1>7, <1>9, ChainConcat
    <2> QED BY <1>2, <1>3, <1>4, <2>1, <2>2
  <1> QED BY <1>2, <1>3, <1>8, <1>9

(* flushall() finds every dirty block of the device, and no other. *)
LEMMA FlushAll ==
    ASSUME PoolSound, NEW d \in Dev, NEW s, s = flushall(d)
    PROVE  /\ s \in Seq(Buf)
           /\ \A i \in 1 .. Len(s) : buf[s[i]].dev = d
           /\ \A p \in Buf : buf[p].dirty /\ buf[p].dev = d => \E i \in 1 .. Len(s) : s[i] = p
  <1> DEFINE E == {p \in Buf : buf[p].dirty /\ buf[p].dev = d}
             nr == [p \in E |-> buf[p].nr]
  <1>1. d # NO_DEV
    BY CacheAssumption
  <1>2. IsFiniteSet(E) /\ Cardinality(E) \in Nat
    BY BufFinite, FS_Subset, FS_CardinalityType
  <1>3. \A p \in Buf : buf[p] \in BufferOf /\ buf[p].nr \in Nat
    BY CacheAssumption DEF PoolSound, BufferOf, Nr
  <1>4. nr \in [E -> Nat]
    BY <1>3
  <1>5. \A x, y \in E : nr[x] = nr[y] => x = y
    BY <1>1 DEF PoolSound, NoTwoCopies
  <1>6. s = CHOOSE t \in [1 .. Cardinality(E) -> E] : \A i, k \in DOMAIN t : i < k => buf[t[i]].nr < buf[t[k]].nr
    BY DEF flushall
  <1>7. \E t \in [1 .. Cardinality(E) -> E] : \A i, k \in DOMAIN t : i < k => buf[t[i]].nr < buf[t[k]].nr
    <2>1. PICK t \in [1 .. Cardinality(E) -> E] : \A i, k \in DOMAIN t : i < k => nr[t[i]] < nr[t[k]]
      <3> HIDE DEF E, nr
      <3> QED BY <1>2, <1>4, <1>5, InOrder
    <2>2. \A i \in DOMAIN t : t[i] \in E /\ nr[t[i]] = buf[t[i]].nr
      BY <2>1
    <2> QED BY <2>1, <2>2
  <1>8. /\ s \in [1 .. Cardinality(E) -> E]
        /\ \A i, k \in DOMAIN s : i < k => buf[s[i]].nr < buf[s[k]].nr
    BY <1>6, <1>7
  <1>9. \A i, k \in DOMAIN s : i < k => nr[s[i]] < nr[s[k]]
    <2>1. \A i \in DOMAIN s : s[i] \in E /\ nr[s[i]] = buf[s[i]].nr
      BY <1>8
    <2> QED BY <1>8, <2>1
  <1>10. \A x \in E : \E i \in 1 .. Cardinality(E) : s[i] = x
    <2>1. s \in [1 .. Cardinality(E) -> E]
      BY <1>8
    <2> HIDE DEF E, nr
    <2> QED BY <1>2, <1>4, <1>9, <2>1, AllInOrder
  <1>11. Len(s) = Cardinality(E) /\ s \in Seq(E) /\ E \subseteq Buf
    <2>1. E \subseteq Buf
      OBVIOUS
    <2> HIDE DEF E
    <2>2. PICK n \in Nat : n = Cardinality(E)
      BY <1>2
    <2>3. s \in [1 .. n -> E]
      BY <1>8, <2>2
    <2>4. s \in Seq(E) /\ Len(s) = n
      BY <2>2, <2>3
    <2> QED BY <2>1, <2>2, <2>4
  <1> QED BY <1>8, <1>10, <1>11

-----------------------------------------------------------------------------
(* The ring of the second level cache. *)

(* The search from idx passes every place once. *)
LEMMA BackIs ==
    ASSUME NEW idx \in 0 .. NR_BUF2 - 1, NEW i \in 1 .. NR_BUF2
    PROVE  /\ Back(i, idx) \in 0 .. NR_BUF2 - 1
           /\ \A k \in 1 .. NR_BUF2 : Back(k, idx) = Back(i, idx) => k = i
  BY CacheAssumption DEF Back

(* The place that is filled next is the last one searched; once it is      *)
(* filled it is the first, and the others one further off.                 *)
LEMMA BackMoves ==
    ASSUME NEW idx \in 0 .. NR_BUF2 - 1, NEW to, to = IF idx + 1 = NR_BUF2 THEN 0 ELSE idx + 1
    PROVE  /\ to \in 0 .. NR_BUF2 - 1 /\ idx + 1 \in 1 .. NR_BUF2
           /\ Back(idx + 1, idx) = NR_BUF2 - 1 /\ Back(idx + 1, to) = 0
           /\ \A k \in 1 .. NR_BUF2 : k # idx + 1 => Back(k, to) = Back(k, idx) + 1
  BY CacheAssumption DEF Back

(* The newest copy of a block in the ring is one of them, and the only newest. *)
LEMMA NewestIs ==
    ASSUME NEW idx \in 0 .. NR_BUF2 - 1, NEW b, NEW ring, Copies(b, ring) # {}
    PROVE  /\ Newest(b, ring, idx) \in Copies(b, ring)
           /\ \A k \in Copies(b, ring) : Back(Newest(b, ring, idx), idx) <= Back(k, idx)
           /\ \A i \in Copies(b, ring) : (\A k \in Copies(b, ring) : Back(i, idx) <= Back(k, idx)) => i = Newest(b, ring, idx)
  <1> DEFINE C == Copies(b, ring)
             S == {Back(i, idx) : i \in C}
  <1>1. C \subseteq 1 .. NR_BUF2
    BY DEF Copies
  <1>2. S \in SUBSET Nat /\ S # {}
    BY <1>1, BackIs
  <1>3. PICK x \in S : \A y \in S : x <= y
    BY <1>2, LeastNumber
  <1>4. \E i \in C : \A k \in C : Back(i, idx) <= Back(k, idx)
    <2>1. PICK i \in C : x = Back(i, idx)
      BY <1>3
    <2> QED BY <1>3, <2>1
  <1>5. Newest(b, ring, idx) \in C /\ \A k \in C : Back(Newest(b, ring, idx), idx) <= Back(k, idx)
    <2> HIDE DEF S
    <2> QED BY <1>4 DEF Newest
  <1>6. ASSUME NEW i \in C, \A k \in C : Back(i, idx) <= Back(k, idx)
        PROVE  i = Newest(b, ring, idx)
    <2> HIDE DEF C
    <2>1. PICK n \in C : n = Newest(b, ring, idx) /\ Back(n, idx) <= Back(i, idx)
      BY <1>5
    <2>2. Back(i, idx) <= Back(n, idx)
      BY <1>6
    <2>3. Back(i, idx) \in 0 .. NR_BUF2 - 1 /\ Back(n, idx) \in 0 .. NR_BUF2 - 1
      BY <1>1, BackIs
    <2>4. Back(i, idx) = Back(n, idx)
      BY <2>1, <2>2, <2>3
    <2> QED BY <1>1, <2>1, <2>4, BackIs
  <1> QED BY <1>5, <1>6

(* A copy is counted under its number. *)
LEMMA CopyCounted ==
    ASSUME NEW ring, NEW idx, NEW count, RingSound(ring, idx, count), NEW b \in Block, Copies(b, ring) # {}
    PROVE  InCache2(b, ring, count) /\ NR_BUF2 # 0
  <1>1. b.nr \in Nr /\ b.dev \in Dev /\ b.dev # NO_DEV
    BY CacheAssumption DEF Nr, Dev
  <1>2. PICK i \in 1 .. NR_BUF2 : ring[i].dev = b.dev /\ ring[i].nr = b.nr
    BY DEF Copies
  <1> DEFINE S == {k \in 1 .. NR_BUF2 : ring[k].dev # NO_DEV /\ ring[k].nr = b.nr}
  <1>3. i \in S
    BY <1>1, <1>2
  <1>4. IsFiniteSet(S) /\ IsFiniteSet(1 .. NR_BUF2) /\ NR_BUF2 \in Nat
    <2>1. NR_BUF2 \in Nat /\ 1 \in Int /\ NR_BUF2 \in Int
      BY CacheAssumption
    <2>2. IsFiniteSet(1 .. NR_BUF2)
      BY <2>1, FS_Interval
    <2> QED BY <2>1, <2>2, FS_Subset
  <1>5. Cardinality(S) # 0
    BY <1>3, <1>4, FS_EmptySet
  <1>6. count[b.nr] = Cardinality(S)
    BY <1>1 DEF RingSound
  <1>7. NR_BUF2 # 0
    BY <1>2
  <1> QED BY <1>5, <1>6, <1>7 DEF InCache2

(* put_block2() stores a copy r: the ring before and after it. *)
Stored(r, ring, idx, count, ring2, idx2, count2) ==
    /\ NR_BUF2 # 0 /\ r \in CopyOf /\ r.dev # NO_DEV /\ Named(r)
    /\ ring2 = [ring EXCEPT ![idx + 1] = r]
    /\ idx2 = IF idx + 1 = NR_BUF2 THEN 0 ELSE idx + 1
    /\ count2 = [k \in Nr \cup {0} |->
            count[k] - (IF ring[idx + 1].dev # NO_DEV /\ ring[idx + 1].nr = k THEN 1 ELSE 0)
                     + (IF r.nr = k THEN 1 ELSE 0)]

(* The copy is the newest of its block; of the others the newest is what   *)
(* it was, for what is overwritten was the oldest.                         *)
LEMMA RingPut ==
    ASSUME NEW ring, NEW idx, NEW count, RingSound(ring, idx, count),
           NEW r, NEW ring2, NEW idx2, NEW count2, Stored(r, ring, idx, count, ring2, idx2, count2)
    PROVE  /\ RingSound(ring2, idx2, count2)
           /\ \A b \in Block : b = Name(r) => ring2[Newest(b, ring2, idx2)].data = r.data
           /\ \A b \in Block : b # Name(r) /\ Copies(b, ring2) # {} =>
                /\ InCache2(b, ring, count)
                /\ ring2[Newest(b, ring2, idx2)].data = ring[Newest(b, ring, idx)].data
  <1>0. /\ NR_BUF2 # 0 /\ r \in CopyOf /\ r.dev # NO_DEV /\ Named(r)
        /\ ring2 = [ring EXCEPT ![idx + 1] = r]
        /\ idx2 = IF idx + 1 = NR_BUF2 THEN 0 ELSE idx + 1
        /\ count2 = [k \in Nr \cup {0} |->
                count[k] - (IF ring[idx + 1].dev # NO_DEV /\ ring[idx + 1].nr = k THEN 1 ELSE 0)
                         + (IF r.nr = k THEN 1 ELSE 0)]
    BY DEF Stored
  <1>1. /\ NR_BUF2 \in Nat \ {0} /\ idx \in 0 .. NR_BUF2 - 1 /\ idx2 \in 0 .. NR_BUF2 - 1
        /\ idx + 1 \in 1 .. NR_BUF2 /\ Back(idx + 1, idx) = NR_BUF2 - 1 /\ Back(idx + 1, idx2) = 0
        /\ \A k \in 1 .. NR_BUF2 : k # idx + 1 => Back(k, idx2) = Back(k, idx) + 1
    <2>1. NR_BUF2 \in Nat \ {0} /\ idx \in 0 .. NR_BUF2 - 1
      BY <1>0, CacheAssumption DEF RingSound
    <2> QED BY <1>0, <2>1, BackMoves
  <1>2. PICK at \in 1 .. NR_BUF2 : at = idx + 1
    BY <1>1
  <1>3. /\ ring \in [1 .. NR_BUF2 -> CopyOf]
        /\ ring2 \in [1 .. NR_BUF2 -> CopyOf]
        /\ ring2[at] = r /\ \A i \in 1 .. NR_BUF2 : i # at => ring2[i] = ring[i]
    BY <1>0, <1>2 DEF RingSound
  <1>4. IsFiniteSet(1 .. NR_BUF2)
    <2>1. NR_BUF2 \in Int /\ 1 \in Int
      BY <1>1
    <2> QED BY <2>1, FS_Interval
  <1>5. ASSUME NEW k \in Nr \cup {0}
        PROVE  count2[k] \in Nat /\ count2[k] = Cardinality({i \in 1 .. NR_BUF2 : ring2[i].dev # NO_DEV /\ ring2[i].nr = k})
    <2> DEFINE S == {i \in 1 .. NR_BUF2 : ring[i].dev # NO_DEV /\ ring[i].nr = k}
               S2 == {i \in 1 .. NR_BUF2 : ring2[i].dev # NO_DEV /\ ring2[i].nr = k}
               gone == ring[at].dev # NO_DEV /\ ring[at].nr = k
    <2>1. count[k] = Cardinality(S)
      BY DEF RingSound
    <2>2. count2[k] = count[k] - (IF gone THEN 1 ELSE 0) + (IF r.nr = k THEN 1 ELSE 0)
      BY <1>0, <1>2
    <2>3. IsFiniteSet(S) /\ IsFiniteSet(S2) /\ Cardinality(S) \in Nat /\ Cardinality(S2) \in Nat
      BY <1>4, FS_Subset, FS_CardinalityType
    <2>4. /\ at \in S <=> gone
          /\ at \in S2 <=> r.nr = k
          /\ S \ {at} = S2 \ {at}
      BY <1>0, <1>3
    <2> HIDE DEF S, S2, gone
    <2>5. PICK T : T = S \ {at}
      OBVIOUS
    <2>6. Cardinality(T) = IF at \in S THEN Cardinality(S) - 1 ELSE Cardinality(S)
      BY <2>3, <2>5, FS_RemoveElement
    <2>7. Cardinality(T) = IF at \in S2 THEN Cardinality(S2) - 1 ELSE Cardinality(S2)
      BY <2>3, <2>4, <2>5, FS_RemoveElement
    <2>8. count2[k] = Cardinality(S2)
      BY <2>1, <2>2, <2>3, <2>4, <2>6, <2>7
    <2> QED BY <2>3, <2>8 DEF S2
  <1>6. RingSound(ring2, idx2, count2)
    <2>1. \A i \in 1 .. NR_BUF2 : Named(ring2[i])
      BY <1>0, <1>3 DEF RingSound
    <2>2. count2 \in [Nr \cup {0} -> Nat]
      BY <1>0, <1>5
    <2> QED BY <1>1, <1>3, <1>5, <2>1, <2>2 DEF RingSound
  <1>7. ASSUME NEW b \in Block, b = Name(r)
        PROVE  ring2[Newest(b, ring2, idx2)].data = r.data
    <2>1. b.dev = r.dev /\ b.nr = r.nr
      BY <1>7 DEF Name
    <2>2. at \in Copies(b, ring2) /\ \A k \in Copies(b, ring2) : k \in 1 .. NR_BUF2
      BY <1>3, <2>1 DEF Copies
    <2>3. \A k \in Copies(b, ring2) : Back(at, idx2) <= Back(k, idx2)
      <3>1. Back(at, idx2) = 0 /\ idx2 \in 0 .. NR_BUF2 - 1
        BY <1>1, <1>2
      <3>2. \A k \in Copies(b, ring2) : Back(k, idx2) \in 0 .. NR_BUF2 - 1
        BY <2>2, <3>1, BackIs
      <3> QED BY <3>1, <3>2
    <2>4. at = Newest(b, ring2, idx2)
      <3>1. idx2 \in 0 .. NR_BUF2 - 1 /\ Copies(b, ring2) # {}
        BY <1>1, <2>2
      <3> QED BY <2>2, <2>3, <3>1, NewestIs
    <2> QED BY <1>3, <2>4
  <1>8. ASSUME NEW b \in Block, b # Name(r), Copies(b, ring2) # {}
        PROVE  /\ InCache2(b, ring, count)
               /\ ring2[Newest(b, ring2, idx2)].data = ring[Newest(b, ring, idx)].data
    <2>1. ~(r.dev = b.dev /\ r.nr = b.nr)
      BY <1>8, CacheAssumption DEF Name
    <2>2. /\ \A i \in Copies(b, ring2) : i \in 1 .. NR_BUF2 /\ i # at /\ i \in Copies(b, ring)
          /\ \A i \in Copies(b, ring) : i \in 1 .. NR_BUF2
          /\ \A i \in Copies(b, ring) : i # at => i \in Copies(b, ring2)
      BY <1>3, <2>1 DEF Copies
    <2>3. Copies(b, ring) # {}
      BY <1>8, <2>2
    <2>4. InCache2(b, ring, count)
      BY <2>3, CopyCounted
    <2>5. PICK n \in Copies(b, ring2) : n = Newest(b, ring2, idx2) /\ \A k \in Copies(b, ring2) : Back(n, idx2) <= Back(k, idx2)
      <3>1. idx2 \in 0 .. NR_BUF2 - 1
        BY <1>1
      <3>2. Newest(b, ring2, idx2) \in Copies(b, ring2)
        BY <1>8, <3>1, NewestIs
      <3>3. \A k \in Copies(b, ring2) : Back(Newest(b, ring2, idx2), idx2) <= Back(k, idx2)
        BY <1>8, <3>1, NewestIs
      <3> QED BY <3>2, <3>3
    <2>6. ASSUME NEW k \in Copies(b, ring)
          PROVE  Back(n, idx) <= Back(k, idx)
      <3>1. Back(n, idx) \in 0 .. NR_BUF2 - 1 /\ Back(k, idx) \in 0 .. NR_BUF2 - 1
        BY <1>1, <2>2, BackIs
      <3>2. CASE k = at
        BY <1>1, <1>2, <3>1, <3>2
      <3>3. CASE k # at
        <4>1. Back(n, idx2) = Back(n, idx) + 1 /\ Back(k, idx2) = Back(k, idx) + 1
          BY <1>1, <1>2, <2>2, <3>3
        <4>2. Back(n, idx2) <= Back(k, idx2)
          BY <2>2, <2>5, <3>3
        <4> QED BY <3>1, <4>1, <4>2
      <3> QED BY <3>2, <3>3
    <2>7. n = Newest(b, ring, idx)
      BY <1>1, <2>2, <2>3, <2>6, NewestIs
    <2>8. ring2[n] = ring[n]
      BY <1>3, <2>2
    <2> QED BY <2>4, <2>5, <2>7, <2>8
  <1> QED BY <1>6, <1>7, <1>8

(* invalidate2() drops the copies of one device. *)
Dropped(d, ring, count, ring2, count2) ==
    /\ d \in Dev
    /\ ring2 = [i \in 1 .. NR_BUF2 |-> IF ring[i].dev = d THEN NoCopy ELSE ring[i]]
    /\ count2 = [k \in Nr \cup {0} |->
            count[k] - Cardinality({i \in 1 .. NR_BUF2 : ring[i].dev = d /\ ring[i].nr = k})]

(* The others stay. *)
LEMMA RingDrop ==
    ASSUME NEW ring, NEW idx, NEW count, RingSound(ring, idx, count),
           NEW d, NEW ring2, NEW count2, Dropped(d, ring, count, ring2, count2)
    PROVE  /\ RingSound(ring2, idx, count2)
           /\ \A b \in Block : b.dev = d => Copies(b, ring2) = {}
           /\ \A b \in Block : b.dev # d /\ Copies(b, ring2) # {} =>
                /\ InCache2(b, ring, count)
                /\ ring2[Newest(b, ring2, idx)].data = ring[Newest(b, ring, idx)].data
  <1>0. /\ d \in Dev
        /\ ring2 = [i \in 1 .. NR_BUF2 |-> IF ring[i].dev = d THEN NoCopy ELSE ring[i]]
        /\ count2 = [k \in Nr \cup {0} |->
                count[k] - Cardinality({i \in 1 .. NR_BUF2 : ring[i].dev = d /\ ring[i].nr = k})]
    BY DEF Dropped
  <1>1. d # NO_DEV /\ NoCopy \in CopyOf /\ NoCopy.dev = NO_DEV /\ NR_BUF2 \in Nat
    BY <1>0, CacheAssumption DEF NoCopy, CopyOf
  <1>2. /\ ring \in [1 .. NR_BUF2 -> CopyOf]
        /\ ring2 \in [1 .. NR_BUF2 -> CopyOf]
        /\ \A i \in 1 .. NR_BUF2 : ring[i].dev = d => ring2[i].dev = NO_DEV
        /\ \A i \in 1 .. NR_BUF2 : ring[i].dev # d => ring2[i] = ring[i]
    BY <1>0, <1>1 DEF RingSound
  <1>3. IsFiniteSet(1 .. NR_BUF2)
    <2>1. NR_BUF2 \in Int /\ 1 \in Int
      BY <1>1
    <2> QED BY <2>1, FS_Interval
  <1>4. ASSUME NEW k \in Nr \cup {0}
        PROVE  count2[k] \in Nat /\ count2[k] = Cardinality({i \in 1 .. NR_BUF2 : ring2[i].dev # NO_DEV /\ ring2[i].nr = k})
    <2> DEFINE S == {i \in 1 .. NR_BUF2 : ring[i].dev # NO_DEV /\ ring[i].nr = k}
               S2 == {i \in 1 .. NR_BUF2 : ring2[i].dev # NO_DEV /\ ring2[i].nr = k}
               T == {i \in 1 .. NR_BUF2 : ring[i].dev = d /\ ring[i].nr = k}
    <2>1. count[k] = Cardinality(S) /\ count2[k] = count[k] - Cardinality(T)
      BY <1>0 DEF RingSound
    <2>2. IsFiniteSet(S) /\ IsFiniteSet(S2) /\ IsFiniteSet(T)
      BY <1>3, FS_Subset
    <2>3. S2 = S \ T /\ S \cap T = T
      BY <1>1, <1>2
    <2> HIDE DEF S, S2, T
    <2>4. Cardinality(S) \in Nat /\ Cardinality(S2) \in Nat /\ Cardinality(T) \in Nat
      BY <2>2, FS_CardinalityType
    <2>5. Cardinality(S \ T) = Cardinality(S) - Cardinality(S \cap T)
      BY <2>2, FS_Difference
    <2>6. count2[k] = Cardinality(S2)
      BY <2>1, <2>3, <2>5
    <2> QED BY <2>4, <2>6 DEF S2
  <1>5. RingSound(ring2, idx, count2)
    <2>1. \A i \in 1 .. NR_BUF2 : Named(ring2[i])
      BY <1>2 DEF RingSound, Named
    <2>2. count2 \in [Nr \cup {0} -> Nat]
      BY <1>0, <1>4
    <2> QED BY <1>2, <1>4, <2>1, <2>2 DEF RingSound
  <1>6. ASSUME NEW b \in Block
        PROVE  /\ b.dev = d => Copies(b, ring2) = {}
               /\ b.dev # d => Copies(b, ring2) = Copies(b, ring)
    <2>1. b.dev # NO_DEV
      BY CacheAssumption DEF Dev
    <2> QED BY <1>2, <2>1 DEF Copies
  <1>7. ASSUME NEW b \in Block, b.dev # d, Copies(b, ring2) # {}
        PROVE  /\ InCache2(b, ring, count)
               /\ ring2[Newest(b, ring2, idx)].data = ring[Newest(b, ring, idx)].data
    <2>1. Copies(b, ring2) = Copies(b, ring) /\ InCache2(b, ring, count) /\ NR_BUF2 # 0
      BY <1>6, <1>7, CopyCounted
    <2>2. Newest(b, ring2, idx) = Newest(b, ring, idx)
      BY <2>1 DEF Newest
    <2>3. idx \in 0 .. NR_BUF2 - 1
      BY <2>1 DEF RingSound
    <2>4. Newest(b, ring, idx) \in Copies(b, ring)
      BY <1>7, <2>1, <2>3, NewestIs
    <2>5. \A i \in Copies(b, ring) : ring2[i] = ring[i]
      BY <1>2, <1>7 DEF Copies
    <2> QED BY <2>1, <2>2, <2>4, <2>5
  <1> QED BY <1>5, <1>6, <1>7

-----------------------------------------------------------------------------
(* What reading a block gives, as the invariant has it: the contents of    *)
(* its buffer, or else of the disk.                                        *)
Shows(b, v) == \/ \E p \in Found(b) : buf[p].data = v
               \/ Found(b) = {} /\ disk[b] = v

(* A block's device is a real one and its number is positive. *)
LEMMA BlockIs ==
    ASSUME NEW b \in Block
    PROVE  /\ b.dev \in Dev /\ b.dev # NO_DEV /\ b.nr \in Nr /\ b.nr \in Nat
           /\ b = [dev |-> b.dev, nr |-> b.nr]
  BY CacheAssumption DEF Dev, Nr

(* A block is in one buffer at most, and what is in a buffer is a block. *)
LEMMA FoundIs ==
    ASSUME PoolSound
    PROVE  /\ \A b \in Block, p \in Buf : p \in Found(b) <=> buf[p].dev # NO_DEV /\ Name(buf[p]) = b
           /\ \A b \in Block : \A p, q \in Found(b) : p = q
           /\ \A p \in Buf : buf[p].dev # NO_DEV => Name(buf[p]) \in Block /\ p \in Found(Name(buf[p]))
           /\ \A b : Found(b) \subseteq Buf
           /\ \A p \in Buf : buf[p] \in BufferOf
  <1>1. ASSUME NEW b \in Block, NEW p \in Buf
        PROVE  p \in Found(b) <=> buf[p].dev # NO_DEV /\ Name(buf[p]) = b
    BY BlockIs DEF Found, Name
  <1>2. ASSUME NEW b \in Block, NEW p \in Found(b), NEW q \in Found(b)
        PROVE  p = q
    <2>1. p \in Buf /\ q \in Buf /\ buf[p].dev = buf[q].dev /\ buf[p].nr = buf[q].nr /\ buf[p].dev # NO_DEV
      BY BlockIs DEF Found
    <2> QED BY <2>1 DEF PoolSound, NoTwoCopies
  <1>3. ASSUME NEW p \in Buf, buf[p].dev # NO_DEV
        PROVE  Name(buf[p]) \in Block /\ p \in Found(Name(buf[p]))
    BY <1>3 DEF PoolSound, Named, Found, Name
  <1> QED BY <1>1, <1>2, <1>3 DEF Found, PoolSound

(* What the abstract disk sees. *)
LEMMA SeenIs == IInv => /\ Seen \in [Block -> Value] /\ disk \in [Block -> Value]
                        /\ \A b \in Block : \A v : Shows(b, v) <=> Seen[b] = v
  <1> SUFFICES ASSUME IInv
               PROVE  /\ Seen \in [Block -> Value] /\ disk \in [Block -> Value]
                      /\ \A b \in Block : \A v : Shows(b, v) <=> Seen[b] = v
    OBVIOUS
  <1>0. PoolSound /\ disk \in [Block -> Value]
    BY DEF IInv, PoolSound
  <1>1. ASSUME NEW b \in Block
        PROVE  Seen[b] \in Value /\ \A v : Shows(b, v) <=> Seen[b] = v
    <2>1. Seen[b] = IF Found(b) # {} THEN buf[CHOOSE p \in Found(b) : TRUE].data
                    ELSE IF InCache2(b, buf2, b2_count) THEN buf2[Newest(b, buf2, buf2_idx)].data ELSE disk[b]
      BY DEF Seen
    <2>2. CASE Found(b) # {}
      <3>1. PICK p \in Found(b) : p = CHOOSE x \in Found(b) : TRUE
        BY <2>2
      <3>2. Seen[b] = buf[p].data
        BY <2>1, <2>2, <3>1
      <3>3. \A x \in Found(b) : x = p
        BY <1>0, FoundIs
      <3>4. buf[p].data \in Value
        BY <1>0, FoundIs DEF BufferOf
      <3> QED BY <2>2, <3>2, <3>3, <3>4 DEF Shows
    <2>3. CASE Found(b) = {}
      <3>1. Seen[b] = disk[b]
        BY <2>1, <2>3 DEF IInv, CleanIsOnDisk
      <3> QED BY <1>0, <2>3, <3>1 DEF Shows
    <2> QED BY <2>2, <2>3
  <1>2. Seen \in [Block -> Value]
    BY <1>1 DEF Seen
  <1> QED BY <1>0, <1>1, <1>2

(* Steps that only change who uses a buffer. *)
LEMMA SameBlocks ==
    ASSUME IInv, UNCHANGED <<cache2, disk>>, buf' \in [Buf -> BufferOf],
           \A p \in Buf : /\ buf'[p].dev = buf[p].dev /\ buf'[p].nr = buf[p].nr
                          /\ buf'[p].dirty = buf[p].dirty /\ buf'[p].data = buf[p].data
    PROVE  /\ PoolSound' /\ RingSound(buf2', buf2_idx', b2_count') /\ CleanIsOnDisk'
           /\ \A b : Found(b)' = Found(b)
           /\ \A b, v : Shows(b, v)' = Shows(b, v)
  <1>1. \A b : Found(b)' = Found(b)
    BY DEF Found
  <1>2. buf2' = buf2 /\ buf2_idx' = buf2_idx /\ b2_count' = b2_count /\ disk' = disk
    BY DEF cache2
  <1>3. PoolSound'
    <2>1. \A p \in Buf : Named(buf'[p])
      BY DEF IInv, PoolSound, Named, Name
    <2>2. NoTwoCopies'
      BY DEF IInv, PoolSound, NoTwoCopies
    <2> QED BY <1>2, <2>1, <2>2 DEF IInv, PoolSound
  <1>4. CleanIsOnDisk'
    <2>1. \A p \in Buf : buf'[p].dev # NO_DEV /\ ~buf'[p].dirty =>
            buf'[p].data = disk'[[dev |-> buf'[p].dev, nr |-> buf'[p].nr]]
      BY <1>2 DEF IInv, CleanIsOnDisk
    <2>2. \A b \in Block : Found(b)' = {} /\ InCache2(b, buf2', b2_count') => buf2'[Newest(b, buf2', buf2_idx')].data = disk'[b]
      BY <1>1, <1>2 DEF IInv, CleanIsOnDisk
    <2> QED BY <2>1, <2>2 DEF CleanIsOnDisk
  <1>5. \A b, v : Shows(b, v)' = Shows(b, v)
    <2>1. \A b : \A p \in Found(b) : buf'[p].data = buf[p].data
      BY DEF Found
    <2> QED BY <1>1, <1>2, <2>1 DEF Shows
  <1> QED BY <1>1, <1>2, <1>3, <1>4, <1>5 DEF IInv

-----------------------------------------------------------------------------
(* get_block(). *)

(* No job at all: its fields. *)
LEMMA IdleIs ==
    /\ Idle \in JobType /\ Idle.op = "idle" /\ Idle.bp = 0 /\ Idle.dev = NO_DEV /\ Idle.dirty = <<>> /\ Idle.q = <<>>
    /\ Idle.blk = NoBlock /\ NoBlock \in [dev : Dev \cup {NO_DEV}, nr : Nr \cup {0}]
    /\ DOMAIN Idle = {"op", "blk", "bp", "dev", "dirty", "q"}
  BY DEF Idle, NoBlock, JobType

(* A call that returns leaves a sound job: none. *)
LEMMA JobIdle ==
    ASSUME job' = Idle
    PROVE  JobSound'
  BY IdleIs DEF JobSound, TakenSound, DirtySound, GatheredSound

(* A buffer that is there. *)
LEMMA HoldStep ==
    ASSUME IInv, job.bp = 0, NEW p \in Buf, buf[p].count < MaxUses, Hold(p), job' = Idle
    PROVE  IInv' /\ \A b, v : Shows(b, v)' = Shows(b, v)
  <1>1. /\ buf \in [Buf -> BufferOf] /\ buf' = [buf EXCEPT ![p].count = @ + 1]
        /\ UNCHANGED <<cache2, disk>>
        /\ MaxUses \in Nat
    BY CacheAssumption DEF IInv, PoolSound, Hold
  <1>2. /\ buf' \in [Buf -> BufferOf]
        /\ \A x \in Buf : /\ buf'[x].dev = buf[x].dev /\ buf'[x].nr = buf[x].nr
                          /\ buf'[x].dirty = buf[x].dirty /\ buf'[x].data = buf[x].data
        /\ buf'[p].count = buf[p].count + 1 /\ \A x \in Buf : x # p => buf'[x].count = buf[x].count
    BY <1>1 DEF BufferOf
  <1>3. /\ PoolSound' /\ RingSound(buf2', buf2_idx', b2_count') /\ CleanIsOnDisk'
        /\ \A b, v : Shows(b, v)' = Shows(b, v)
    BY <1>1, <1>2, SameBlocks
  <1>4. ChainSound'
    <2>0. job'.bp = 0 /\ \A x \in Buf : buf[x].count \in Nat
      BY <1>1, IdleIs DEF BufferOf
    <2>1. Free' = Free \ {p} /\ Free \subseteq Buf
      BY <1>2, <2>0, BufFinite DEF Free
    <2>2. IsChain(lru, Free) /\ bufs_in_use = NR_BUFS - Len(lru)
      BY DEF IInv, ChainSound
    <2>3. CASE buf[p].count = 0
      <3>1. p \in Free
        BY <2>3, BufFinite DEF Free
      <3>2. lru' = rm_lru(p) /\ bufs_in_use' = bufs_in_use + 1
        BY <2>3 DEF Hold
      <3>3. IsChain(lru', Free \ {p})
        BY <2>2, <3>1, <3>2, ChainRemove
      <3>4. Len(lru') = Len(lru) - 1
        BY <2>2, <3>1, <3>2, ChainRemove
      <3>5. Len(lru) \in Nat /\ NR_BUFS \in Nat
        BY <2>2, BufFinite DEF IsChain
      <3>6. bufs_in_use' = NR_BUFS - Len(lru')
        BY <2>2, <3>2, <3>4, <3>5
      <3> QED BY <2>1, <3>3, <3>6 DEF ChainSound
    <2>4. CASE buf[p].count # 0
      <3>1. p \notin Free /\ lru' = lru /\ bufs_in_use' = bufs_in_use + 0 /\ bufs_in_use \in Int
        BY <2>2, <2>4, BufFinite DEF Free, Hold, IsChain
      <3>2. Free' = Free /\ bufs_in_use' = bufs_in_use
        BY <2>1, <3>1
      <3>3. IsChain(lru', Free') /\ bufs_in_use' = NR_BUFS - Len(lru')
        BY <2>2, <3>1, <3>2
      <3> QED BY <3>3 DEF ChainSound
    <2> QED BY <2>3, <2>4
  <1>5. JobSound'
    BY JobIdle
  <1> QED BY <1>3, <1>4, <1>5 DEF IInv

(* The chain is not empty while not all buffers are in use. *)
LEMMA ChainLeft ==
    ASSUME IInv
    PROVE  /\ lru \in Seq(Buf) /\ bufs_in_use \in 0 .. NR_BUFS
           /\ lru = <<>> <=> bufs_in_use = NR_BUFS
  <1>1. IsChain(lru, Free) /\ bufs_in_use = NR_BUFS - Len(lru) /\ Free \in SUBSET Buf /\ NR_BUFS \in Nat
    BY BufFinite DEF IInv, ChainSound, Free
  <1>2. Len(lru) \in 0 .. NR_BUFS
    BY <1>1, ChainLength
  <1>3. lru = <<>> <=> Len(lru) = 0
    BY <1>1, ChainLength
  <1> QED BY <1>1, <1>2, <1>3 DEF IsChain

(* The front of the chain is taken. *)
LEMMA TakeStep ==
    ASSUME IInv, job.bp = 0, bufs_in_use # NR_BUFS,
           NEW j \in JobType, j.op \in {"get", "again", "zero", "ahead"},
           NEW b \in [dev : Dev \cup {NO_DEV}, nr : Nr \cup {0}],
           j.op # "zero" => b \in Block /\ Found(b) = {},
           j.q # <<>> => j.op = "ahead",
           \A i \in 1 .. Len(j.q) :
                /\ buf[j.q[i]].count = 1 /\ buf[j.q[i]].dev = NO_DEV /\ buf[j.q[i]].nr < b.nr
                /\ [dev |-> b.dev, nr |-> buf[j.q[i]].nr] \in Block /\ Found([dev |-> b.dev, nr |-> buf[j.q[i]].nr]) = {},
           \A i, k \in 1 .. Len(j.q) : i # k => buf[j.q[i]].nr # buf[j.q[k]].nr,
           Take(b, j)
    PROVE  IInv' /\ \A x, v : Shows(x, v)' = Shows(x, v)
  <1>1. /\ IsChain(lru, Free) /\ bufs_in_use = NR_BUFS - Len(lru) /\ NR_BUFS \in Nat /\ Len(lru) \in Nat
        /\ Free \subseteq Buf /\ lru # <<>>
    BY ChainLeft, BufFinite DEF IInv, ChainSound, Free, IsChain
  <1>2. PICK p : p = Head(lru)
    OBVIOUS
  <1>3. /\ lru' = Tail(lru) /\ bufs_in_use' = bufs_in_use + 1 /\ buf' = buf /\ UNCHANGED <<cache2, disk>>
        /\ job' = [j EXCEPT !.blk = b, !.bp = p, !.dev = buf[p].dev, !.dirty =
                        IF buf[p].dev # NO_DEV /\ buf[p].dirty THEN flushall(buf[p].dev) ELSE <<>>]
    BY <1>1, <1>2 DEF Take
  <1>4. p \in Free /\ IsChain(Tail(lru), Free \ {p})
    BY <1>1, <1>2, ChainTail
  <1>5. Len(Tail(lru)) = Len(lru) - 1
    BY <1>1, <1>2, ChainTail
  <1>6. p \in Buf /\ p # 0 /\ buf[p].count = 0 /\ buf[p] \in BufferOf /\ buf \in [Buf -> BufferOf]
    BY <1>1, <1>4, BufFinite DEF Free, IInv, PoolSound
  <1>7. PICK ds : ds = IF buf[p].dev # NO_DEV /\ buf[p].dirty THEN flushall(buf[p].dev) ELSE <<>>
    OBVIOUS
  <1>8. /\ job'.op = j.op /\ job'.blk = b /\ job'.bp = p /\ job'.dev = buf[p].dev /\ job'.dirty = ds /\ job'.q = j.q
        /\ job' = [op |-> j.op, blk |-> b, bp |-> p, dev |-> buf[p].dev, dirty |-> ds, q |-> j.q]
    BY <1>3, <1>7 DEF JobType
  <1>9. /\ ds \in Seq(Buf)
        /\ ds # <<>> => buf[p].dev # NO_DEV
        /\ \A i \in 1 .. Len(ds) : buf[ds[i]].dev = buf[p].dev
        /\ buf[p].dev # NO_DEV /\ buf[p].dirty => \E i \in 1 .. Len(ds) : ds[i] = p
    <2>1. CASE buf[p].dev # NO_DEV /\ buf[p].dirty
      <3>1. buf[p].dev \in Dev /\ ds = flushall(buf[p].dev) /\ PoolSound
        BY <1>6, <1>7, <2>1 DEF BufferOf, IInv
      <3>2. ds \in Seq(Buf)
        BY <3>1, FlushAll
      <3>3. \A i \in 1 .. Len(ds) : buf[ds[i]].dev = buf[p].dev
        BY <3>1, FlushAll
      <3>4. \E i \in 1 .. Len(ds) : ds[i] = p
        BY <1>6, <2>1, <3>1, FlushAll
      <3> QED BY <2>1, <3>2, <3>3, <3>4
    <2>2. CASE ~(buf[p].dev # NO_DEV /\ buf[p].dirty)
      <3>1. ds = <<>>
        BY <1>7, <2>2
      <3> QED BY <2>2, <3>1
    <2> QED BY <2>1, <2>2
  <1>10. /\ PoolSound' /\ RingSound(buf2', buf2_idx', b2_count') /\ CleanIsOnDisk'
         /\ \A x : Found(x)' = Found(x)
         /\ \A x, v : Shows(x, v)' = Shows(x, v)
    BY <1>3, <1>6, SameBlocks
  <1>11. ChainSound'
    <2>1. Free' = Free \ {p}
      BY <1>3, <1>8, BufFinite DEF Free
    <2>2. bufs_in_use' = NR_BUFS - Len(lru')
      BY <1>1, <1>3, <1>5
    <2> QED BY <1>3, <1>4, <2>1, <2>2 DEF ChainSound
  <1>12. JobSound'
    <2>1. job' \in JobType
      BY <1>6, <1>8, <1>9 DEF JobType, BufferOf
    <2>2. job'.op \in {"get", "again", "ahead", "gather"} => job'.blk \in Block
      BY <1>8
    <2>3. TakenSound'
      BY <1>3, <1>6, <1>8, <1>9, <1>10 DEF TakenSound
    <2>4. DirtySound'
      BY <1>3, <1>8, <1>9 DEF DirtySound
    <2>5. GatheredSound'
      <3>1. \A i \in 1 .. Len(j.q) : buf[j.q[i]].nr <= b.nr
        <4>1. b.nr \in Nat /\ \A x \in Buf : buf[x].nr \in Nat
          BY <1>6, CacheAssumption DEF BufferOf, Nr
        <4>2. j.q \in Seq(Buf)
          BY DEF JobType
        <4>3. \A i \in 1 .. Len(j.q) : j.q[i] \in Buf
          BY <4>2
        <4>4. \A m, n \in Nat : m < n => m <= n
          OBVIOUS
        <4>5. \A i \in 1 .. Len(j.q) : buf[j.q[i]].nr < b.nr
          OBVIOUS
        <4>6. \A i \in 1 .. Len(j.q) : buf[j.q[i]].nr \in Nat
          BY <4>1, <4>3
        <4> QED BY <4>1, <4>4, <4>5, <4>6
      <3> QED BY <1>3, <1>8, <1>10, <3>1 DEF GatheredSound
    <2>6. job'.op # "synced"
      BY <1>8
    <2> QED BY <2>1, <2>2, <2>3, <2>4, <2>5, <2>6 DEF JobSound
  <1> QED BY <1>10, <1>11, <1>12 DEF IInv

(* The job given to get_block() by a call of its own. *)
LEMMA FreshJob ==
    ASSUME NEW op \in {"get", "again", "zero", "ahead"}, NEW j, j = [Idle EXCEPT !.op = op]
    PROVE  j \in JobType /\ j.op = op /\ j.q = <<>>
  <1>1. j = [op |-> op, blk |-> NoBlock, bp |-> 0, dev |-> NO_DEV, dirty |-> <<>>, q |-> <<>>]
    BY DEF Idle
  <1> QED BY <1>1, IdleIs DEF JobType

(* A buffer is taken off the front of the chain for a new job. *)
LEMMA TakeFresh ==
    ASSUME IInv, job.bp = 0, bufs_in_use # NR_BUFS, NEW op \in {"get", "again", "zero", "ahead"},
           NEW b \in [dev : Dev \cup {NO_DEV}, nr : Nr \cup {0}], op # "zero" => b \in Block /\ Found(b) = {},
           Take(b, [Idle EXCEPT !.op = op])
    PROVE  IInv' /\ \A x, v : Shows(x, v)' = Shows(x, v)
  <1>1. PICK j : j = [Idle EXCEPT !.op = op]
    OBVIOUS
  <1>2. j \in JobType /\ j.op = op /\ j.q = <<>>
    BY <1>1, FreshJob
  <1>3. /\ j.op \in {"get", "again", "zero", "ahead"}
        /\ j.op # "zero" => b \in Block /\ Found(b) = {}
        /\ j.q # <<>> => j.op = "ahead"
        /\ Len(j.q) = 0
        /\ Take(b, j)
    BY <1>1, <1>2
  <1>4. /\ \A i \in 1 .. Len(j.q) :
                /\ buf[j.q[i]].count = 1 /\ buf[j.q[i]].dev = NO_DEV /\ buf[j.q[i]].nr < b.nr
                /\ [dev |-> b.dev, nr |-> buf[j.q[i]].nr] \in Block /\ Found([dev |-> b.dev, nr |-> buf[j.q[i]].nr]) = {}
        /\ \A i, k \in 1 .. Len(j.q) : i # k => buf[j.q[i]].nr # buf[j.q[k]].nr
    BY <1>3
  <1> QED BY <1>2, <1>3, <1>4, TakeStep

(* get_block(), NORMAL or NO_READ. *)
LEMMA GetBlock ==
    ASSUME IInv, job.bp = 0, NEW b \in Block, NEW op \in {"get", "again"}, get_block(b, op),
           Found(b) = {} => bufs_in_use # NR_BUFS
    PROVE  IInv' /\ \A x, v : Shows(x, v)' = Shows(x, v)
  <1>1. CASE Found(b) # {}
    <2>1. PICK p \in Found(b) : buf[p].count < MaxUses /\ Hold(p) /\ job' = Idle
      BY <1>1 DEF get_block
    <2>2. p \in Buf
      BY DEF Found
    <2> QED BY <2>1, <2>2, HoldStep
  <1>2. CASE Found(b) = {}
    <2>1. Take(b, [Idle EXCEPT !.op = op])
      BY <1>2 DEF get_block
    <2>2. b \in [dev : Dev \cup {NO_DEV}, nr : Nr \cup {0}]
      BY BlockIs
    <2> QED BY <1>2, <2>1, <2>2, TakeFresh
  <1> QED BY <1>1, <1>2

(* get_block() of a block: found, or a buffer taken for it. *)
LEMMA GetStep ==
    ASSUME IInv, NEW b \in Block, Get(b)
    PROVE  IInv' /\ \A x, v : Shows(x, v)' = Shows(x, v)
  <1>1. /\ job.bp = 0 /\ get_block(b, "get")
        /\ Found(b) = {} => bufs_in_use < MaxHeld
        /\ MaxHeld \in 1 .. NR_BUFS /\ bufs_in_use \in 0 .. NR_BUFS
    BY IdleIs, CacheAssumption, ChainLeft DEF Get
  <1>2. Found(b) = {} => bufs_in_use # NR_BUFS
    BY <1>1
  <1> QED BY <1>1, <1>2, GetBlock

(* get_block() without a device: a buffer is taken for a hole in a file. *)
LEMMA GetZeroStep ==
    ASSUME IInv, GetZero
    PROVE  IInv' /\ \A x, v : Shows(x, v)' = Shows(x, v)
  <1>1. /\ job.bp = 0 /\ Take(NoBlock, [Idle EXCEPT !.op = "zero"])
        /\ bufs_in_use < MaxHeld
        /\ MaxHeld \in 1 .. NR_BUFS /\ bufs_in_use \in 0 .. NR_BUFS
        /\ NoBlock \in [dev : Dev \cup {NO_DEV}, nr : Nr \cup {0}]
    BY IdleIs, CacheAssumption, ChainLeft DEF GetZero
  <1>2. bufs_in_use # NR_BUFS
    BY <1>1
  <1> QED BY <1>1, <1>2, TakeFresh

(* A prefetch starts with a buffer for its first block. *)
LEMMA AheadStep ==
    ASSUME IInv, NEW b \in Block, Ahead(b)
    PROVE  IInv' /\ \A x, v : Shows(x, v)' = Shows(x, v)
  <1>1. /\ job.bp = 0 /\ Take(b, [Idle EXCEPT !.op = "ahead"]) /\ Found(b) = {}
        /\ bufs_in_use < NR_BUFS /\ bufs_in_use \in 0 .. NR_BUFS
        /\ b \in [dev : Dev \cup {NO_DEV}, nr : Nr \cup {0}]
    BY IdleIs, ChainLeft, BlockIs DEF Ahead
  <1>2. bufs_in_use # NR_BUFS
    BY <1>1
  <1> QED BY <1>1, <1>2, TakeFresh

(* The prefetch over, the block asked for is asked for again. *)
LEMMA AheadEndStep ==
    ASSUME IInv, AheadEnd
    PROVE  IInv' /\ \A x, v : Shows(x, v)' = Shows(x, v)
  <1>1. /\ job.bp = 0 /\ job.blk \in Block /\ get_block(job.blk, "again")
        /\ bufs_in_use < NR_BUFS /\ bufs_in_use \in 0 .. NR_BUFS
    BY ChainLeft DEF AheadEnd, IInv, JobSound, TakenSound
  <1>2. bufs_in_use # NR_BUFS
    BY <1>1
  <1> QED BY <1>1, <1>2, GetBlock

(* What the invariant says of the buffers read-ahead has gathered. *)
LEMMA GatheredIs ==
    ASSUME IInv
    PROVE  /\ job.q \in Seq(Buf) /\ Len(job.q) \in Nat
           /\ \A i \in 1 .. Len(job.q) :
                /\ job.q[i] \in Buf
                /\ buf[job.q[i]].count = 1 /\ buf[job.q[i]].dev = NO_DEV
                /\ buf[job.q[i]].nr \in Nat /\ buf[job.q[i]].nr <= job.blk.nr
                /\ job.bp # 0 => buf[job.q[i]].nr < job.blk.nr
                /\ [dev |-> job.blk.dev, nr |-> buf[job.q[i]].nr] \in Block
                /\ Found([dev |-> job.blk.dev, nr |-> buf[job.q[i]].nr]) = {}
           /\ \A i, k \in 1 .. Len(job.q) : i # k => buf[job.q[i]].nr # buf[job.q[k]].nr
           /\ job.blk.nr \in Nat
           /\ job = [op |-> job.op, blk |-> job.blk, bp |-> job.bp, dev |-> job.dev, dirty |-> job.dirty, q |-> job.q]
  <1>1. job \in JobType /\ GatheredSound /\ \A x \in Buf : buf[x] \in BufferOf
    BY DEF IInv, JobSound, PoolSound
  <1>2. job.q \in Seq(Buf) /\ job.blk.nr \in Nat
    BY <1>1, CacheAssumption DEF JobType, Nr
  <1>3. \A i \in 1 .. Len(job.q) : job.q[i] \in Buf
    BY <1>2
  <1>4. \A x \in Buf : buf[x].nr \in Nat
    BY <1>1, CacheAssumption DEF BufferOf, Nr
  <1>5. Len(job.q) \in Nat
    BY <1>2
  <1>6. job = [op |-> job.op, blk |-> job.blk, bp |-> job.bp, dev |-> job.dev, dirty |-> job.dirty, q |-> job.q]
    BY <1>1 DEF JobType
  <1> QED BY <1>1, <1>2, <1>3, <1>4, <1>5, <1>6 DEF GatheredSound

(* The next block of a prefetch gets a buffer, or is there already. *)
LEMMA AheadNextStep ==
    ASSUME IInv, AheadNext
    PROVE  IInv' /\ \A x, v : Shows(x, v)' = Shows(x, v)
  <1> DEFINE b == [job.blk EXCEPT !.nr = @ + 1]
  <1>1. /\ job.op = "ahead" /\ job.bp = 0 /\ b \in Block /\ MoreBuffers
        /\ IF Found(b) = {} THEN Take(b, job)
           ELSE LET p == CHOOSE x \in Found(b) : TRUE IN
                /\ lru' = IF buf[p].count > 0 THEN lru ELSE Append(rm_lru(p), p)
                /\ job' = [job EXCEPT !.op = "gather"] /\ UNCHANGED <<buf, bufs_in_use, cache2, disk>>
    BY DEF AheadNext
  <1>2. /\ job \in JobType /\ job.blk \in Block
        /\ job.q # <<>> /\ bufs_in_use \in 0 .. NR_BUFS
    BY <1>1, ChainLeft DEF IInv, JobSound, TakenSound
  <1>3. /\ b.dev = job.blk.dev /\ b.nr = job.blk.nr + 1
        /\ b \in [dev : Dev \cup {NO_DEV}, nr : Nr \cup {0}]
    <2>1. job.blk = [dev |-> job.blk.dev, nr |-> job.blk.nr]
      BY <1>2, BlockIs
    <2>2. b = [dev |-> job.blk.dev, nr |-> job.blk.nr + 1]
      BY <2>1
    <2> HIDE DEF b
    <2>3. b.dev \in Dev /\ b.nr \in Nr /\ b = [dev |-> b.dev, nr |-> b.nr]
      BY <1>1, BlockIs
    <2> QED BY <2>2, <2>3
  <1>4. PICK c : c = b
    OBVIOUS
  <1> HIDE DEF b
  <1>5. CASE Found(c) = {}
    <2>1. bufs_in_use # NR_BUFS
      <3>1. bufs_in_use < NR_BUFS - RESERVE /\ RESERVE \in Nat /\ NR_BUFS \in Nat
        BY <1>1, CacheAssumption DEF MoreBuffers
      <3> QED BY <1>2, <3>1
    <2>2. \A i \in 1 .. Len(job.q) : buf[job.q[i]].nr < c.nr
      <3> SUFFICES ASSUME NEW i \in 1 .. Len(job.q)
                   PROVE  buf[job.q[i]].nr < c.nr
        OBVIOUS
      <3>1. buf[job.q[i]].nr \in Nat /\ buf[job.q[i]].nr <= job.blk.nr /\ job.blk.nr \in Nat
        BY GatheredIs
      <3> QED BY <1>3, <1>4, <3>1
    <2>3. \A i \in 1 .. Len(job.q) :
                /\ buf[job.q[i]].count = 1 /\ buf[job.q[i]].dev = NO_DEV /\ buf[job.q[i]].nr < c.nr
                /\ [dev |-> c.dev, nr |-> buf[job.q[i]].nr] \in Block /\ Found([dev |-> c.dev, nr |-> buf[job.q[i]].nr]) = {}
      BY <1>3, <1>4, <2>2, GatheredIs
    <2>4. \A i, k \in 1 .. Len(job.q) : i # k => buf[job.q[i]].nr # buf[job.q[k]].nr
      BY GatheredIs
    <2>5. Take(c, job) /\ c \in Block /\ c \in [dev : Dev \cup {NO_DEV}, nr : Nr \cup {0}]
      BY <1>1, <1>3, <1>4, <1>5
    <2>6. job.op \in {"get", "again", "zero", "ahead"} /\ (job.q # <<>> => job.op = "ahead")
      BY <1>1
    <2> QED BY <1>1, <1>2, <1>5, <2>1, <2>3, <2>4, <2>5, <2>6, TakeStep
  <1>6. CASE Found(c) # {}
    <2>1. PICK p \in Found(c) : p = CHOOSE x \in Found(c) : TRUE
      BY <1>6
    <2>2. /\ lru' = IF buf[p].count > 0 THEN lru ELSE Append(rm_lru(p), p)
          /\ job' = [job EXCEPT !.op = "gather"] /\ UNCHANGED <<buf, bufs_in_use, cache2, disk>>
      BY <1>1, <1>4, <1>6, <2>1
    <2>3. /\ job'.op = "gather" /\ job'.blk = job.blk /\ job'.bp = 0 /\ job'.dev = job.dev /\ job'.dirty = job.dirty
          /\ job'.q = job.q /\ job' \in JobType
      BY <1>1, <1>2, <2>2 DEF JobType
    <2>4. /\ buf' \in [Buf -> BufferOf]
          /\ PoolSound' /\ RingSound(buf2', buf2_idx', b2_count') /\ CleanIsOnDisk'
          /\ \A x : Found(x)' = Found(x)
          /\ \A x, v : Shows(x, v)' = Shows(x, v)
      <3>1. buf' \in [Buf -> BufferOf]
        BY <2>2 DEF IInv, PoolSound
      <3> QED BY <2>2, <3>1, SameBlocks
    <2>5. p \in Buf /\ buf[p].count \in Nat
      <3>1. p \in Buf
        BY DEF Found
      <3> QED BY <3>1 DEF IInv, PoolSound, BufferOf
    <2>6. ChainSound'
      <3>1. IsChain(lru, Free) /\ bufs_in_use = NR_BUFS - Len(lru) /\ Len(lru) \in Nat
        BY DEF IInv, ChainSound, IsChain
      <3>2. Free' = Free
        BY <1>1, <2>2, <2>3 DEF Free
      <3>3. CASE buf[p].count > 0
        BY <2>2, <3>1, <3>2, <3>3 DEF ChainSound
      <3>4. CASE ~(buf[p].count > 0)
        <4>1. p \in Free /\ lru' = Append(rm_lru(p), p)
          BY <1>1, <2>2, <2>5, <3>4, BufFinite DEF Free
        <4>2. PICK t : t = rm_lru(p)
          OBVIOUS
        <4>3. PICK G : G = Free \ {p}
          OBVIOUS
        <4>4. IsChain(t, G)
          BY <3>1, <4>1, <4>2, <4>3, ChainRemove
        <4>5. Len(t) = Len(lru) - 1
          BY <3>1, <4>1, <4>2, ChainRemove
        <4>6. p \in Buf \ G /\ lru' = Append(t, p)
          BY <2>5, <4>1, <4>2, <4>3
        <4>7. IsChain(lru', G \cup {p})
          BY <4>4, <4>6, ChainAdd
        <4>8. Len(lru') = Len(t) + 1
          BY <4>4, <4>6, ChainAdd
        <4>9. G \cup {p} = Free /\ Len(lru') = Len(lru)
          BY <3>1, <4>1, <4>3, <4>5, <4>8
        <4> QED BY <2>2, <3>1, <3>2, <4>7, <4>9 DEF ChainSound
      <3> QED BY <3>3, <3>4
    <2>7. JobSound'
      <3>1. JobSound
        BY DEF IInv
      <3>2. TakenSound'
        BY <1>2, <2>3 DEF TakenSound
      <3>3. DirtySound'
        BY <2>2, <2>3, <3>1 DEF DirtySound, JobSound
      <3>4. GatheredSound'
        BY <1>1, <2>2, <2>3, <2>4, <3>1 DEF GatheredSound, JobSound
      <3> QED BY <1>2, <2>3, <3>2, <3>3, <3>4 DEF JobSound
    <2> QED BY <2>4, <2>6, <2>7 DEF IInv
  <1> QED BY <1>5, <1>6

-----------------------------------------------------------------------------
(* Writing. *)

(* A write takes at least one of the blocks, and no more than there are. *)
LEMMA TogetherIs ==
    ASSUME IInv, Writes = 1, NEW n \in Together(job.dirty) \cup (IF Writes = 0 THEN {0} ELSE {})
    PROVE  n \in 1 .. Len(job.dirty)
  BY DEF Together

(* The blocks written are clean now, and what the disk holds. *)
LEMMA FlushStepSound ==
    ASSUME IInv, Writes = 1, FlushStep
    PROVE  /\ IInv' /\ \A b \in Block : \A v : Shows(b, v) => Shows(b, v)'
           /\ \A b \in Block : disk'[b] = disk[b] \/ Shows(b, disk'[b])
  <1>0. /\ job \in JobType /\ job.dirty \in Seq(Buf) /\ Len(job.dirty) \in Nat /\ buf \in [Buf -> BufferOf]
        /\ DirtySound /\ PoolSound /\ disk \in [Block -> Value]
    BY DEF IInv, JobSound, JobType, PoolSound
  <1>1. PICK n \in 1 .. Len(job.dirty) :
        LET done == {job.dirty[i] : i \in 1 .. n}
            blk(p) == [dev |-> job.dev, nr |-> buf[p].nr] IN
        /\ disk' = [b \in Block |-> IF \E p \in done : blk(p) = b
                                    THEN buf[CHOOSE p \in done : blk(p) = b].data ELSE disk[b]]
        /\ buf' = [p \in Buf |-> IF p \in done THEN [buf[p] EXCEPT !.dirty = FALSE]
                                 ELSE IF n = 0 /\ p = job.dirty[1] THEN [buf[p] EXCEPT !.dev = NO_DEV]
                                 ELSE buf[p]]
        /\ job' = [job EXCEPT !.dirty = SubSeq(@, n + 1, Len(@))]
        /\ UNCHANGED <<lru, bufs_in_use, cache2>>
    BY TogetherIs DEF FlushStep
  <1> DEFINE done == {job.dirty[i] : i \in 1 .. n}
  <1>2. done \subseteq Buf /\ n # 0
    BY <1>0
  <1>3. /\ \A p \in Buf : p \in done => buf'[p] = [buf[p] EXCEPT !.dirty = FALSE]
        /\ \A p \in Buf : p \notin done => buf'[p] = buf[p]
        /\ buf' \in [Buf -> BufferOf]
    <2>1. buf' = [p \in Buf |-> IF p \in done THEN [buf[p] EXCEPT !.dirty = FALSE] ELSE buf[p]]
      BY <1>1, <1>2
    <2>2. \A p \in Buf : [buf[p] EXCEPT !.dirty = FALSE] \in BufferOf
      BY <1>0 DEF BufferOf
    <2> HIDE DEF done
    <2> QED BY <1>0, <2>1, <2>2
  <1>4. \A p \in Buf : /\ buf'[p].dev = buf[p].dev /\ buf'[p].nr = buf[p].nr
                       /\ buf'[p].count = buf[p].count /\ buf'[p].data = buf[p].data
                       /\ p \in done => ~buf'[p].dirty
                       /\ p \notin done => buf'[p].dirty = buf[p].dirty
    <2> SUFFICES ASSUME NEW p \in Buf
                 PROVE  /\ buf'[p].dev = buf[p].dev /\ buf'[p].nr = buf[p].nr
                        /\ buf'[p].count = buf[p].count /\ buf'[p].data = buf[p].data
                        /\ p \in done => ~buf'[p].dirty
                        /\ p \notin done => buf'[p].dirty = buf[p].dirty
      OBVIOUS
    <2>1. buf[p] \in BufferOf
      BY <1>0
    <2> HIDE DEF done
    <2> QED BY <1>3, <2>1 DEF BufferOf
  <1>5. \A x : Found(x)' = Found(x)
    BY <1>4 DEF Found
  <1>6. \A p \in done : buf[p].dev = job.dev /\ job.dev # NO_DEV /\ Name(buf[p]) = [dev |-> job.dev, nr |-> buf[p].nr]
    <2>1. \A i \in 1 .. Len(job.dirty) : buf[job.dirty[i]].dev = job.dev /\ job.dev # NO_DEV
      BY <1>0 DEF DirtySound
    <2> QED BY <1>0, <2>1 DEF Name
  <1>7. \A p \in done : \A q \in Buf : buf[q].dev # NO_DEV /\ Name(buf[q]) = Name(buf[p]) => q = p
    BY <1>0, <1>2, <1>6, FoundIs
  <1>8. ASSUME NEW b \in Block
        PROVE  \/ \E p \in done : p \in Found(b) /\ disk'[b] = buf[p].data
               \/ (\A p \in done : p \notin Found(b)) /\ disk'[b] = disk[b]
    <2>1. disk'[b] = IF \E p \in done : [dev |-> job.dev, nr |-> buf[p].nr] = b
                     THEN buf[CHOOSE p \in done : [dev |-> job.dev, nr |-> buf[p].nr] = b].data ELSE disk[b]
      BY <1>1
    <2>2. \A p \in done : p \in Found(b) <=> [dev |-> job.dev, nr |-> buf[p].nr] = b
      BY <1>0, <1>2, <1>6, FoundIs
    <2> HIDE DEF done
    <2> QED BY <2>1, <2>2
  <1>9. disk' \in [Block -> Value]
    <2>1. \A p \in Buf : buf[p].data \in Value
      BY <1>0 DEF BufferOf
    <2>2. \A b \in Block : disk'[b] \in Value
      BY <1>0, <1>2, <1>8, <2>1
    <2>3. DOMAIN disk' = Block /\ disk' = [b \in DOMAIN disk' |-> disk'[b]]
      BY <1>1
    <2> QED BY <2>2, <2>3
  <1>10. PoolSound'
    <2>1. \A p \in Buf : Named(buf'[p])
      BY <1>0, <1>4 DEF PoolSound, Named, Name
    <2>2. NoTwoCopies'
      BY <1>0, <1>4 DEF PoolSound, NoTwoCopies
    <2> QED BY <1>3, <1>9, <2>1, <2>2 DEF PoolSound
  <1>11. buf2' = buf2 /\ buf2_idx' = buf2_idx /\ b2_count' = b2_count /\ lru' = lru /\ bufs_in_use' = bufs_in_use
    BY <1>1 DEF cache2
  <1>12. CleanIsOnDisk'
    <2>1. ASSUME NEW p \in Buf, buf'[p].dev # NO_DEV, ~buf'[p].dirty
          PROVE  buf'[p].data = disk'[Name(buf'[p])]
      <3>1. Name(buf'[p]) = Name(buf[p]) /\ Name(buf[p]) \in Block /\ p \in Found(Name(buf[p])) /\ buf[p].dev # NO_DEV
        BY <1>0, <1>4, <2>1, FoundIs DEF Name
      <3>2. \A q \in Found(Name(buf[p])) : q = p
        BY <1>0, <3>1, FoundIs
      <3>3. CASE p \in done
        <4>1. disk'[Name(buf[p])] = buf[p].data
          BY <1>8, <3>1, <3>2, <3>3
        <4> QED BY <1>4, <3>1, <4>1
      <3>4. CASE p \notin done
        <4>1. disk'[Name(buf[p])] = disk[Name(buf[p])]
          BY <1>8, <3>1, <3>2, <3>4
        <4>2. ~buf[p].dirty
          BY <1>4, <2>1, <3>4
        <4>3. buf[p].data = disk[Name(buf[p])]
          BY <3>1, <4>2 DEF IInv, CleanIsOnDisk, Name
        <4> QED BY <1>4, <3>1, <4>1, <4>3
      <3> QED BY <3>3, <3>4
    <2>2. ASSUME NEW b \in Block, Found(b)' = {}, InCache2(b, buf2', b2_count')
          PROVE  buf2'[Newest(b, buf2', buf2_idx')].data = disk'[b]
      <3>1. Found(b) = {} /\ InCache2(b, buf2, b2_count)
        BY <1>5, <1>11, <2>2
      <3>2. disk'[b] = disk[b]
        BY <1>8, <3>1
      <3> QED BY <1>11, <3>1, <3>2 DEF IInv, CleanIsOnDisk
    <2> QED BY <2>1, <2>2 DEF CleanIsOnDisk, Name
  <1>13. ChainSound'
    <2>1. job'.bp = job.bp
      BY <1>0, <1>1 DEF JobType
    <2>2. Free' = Free
      BY <1>4, <2>1 DEF Free
    <2> QED BY <1>11, <2>2 DEF IInv, ChainSound
  <1>14. JobSound'
    <2>1. PICK rest : rest = SubSeq(job.dirty, n + 1, Len(job.dirty))
      OBVIOUS
    <2>2. /\ rest \in Seq(Buf)
          /\ \A i \in 1 .. Len(rest) : i + n \in 1 .. Len(job.dirty) /\ rest[i] = job.dirty[i + n]
          /\ \A i \in 1 .. Len(job.dirty) : i <= n \/ (i - n \in 1 .. Len(rest) /\ rest[i - n] = job.dirty[i])
      BY <1>0, <2>1
    <2>3. /\ job'.op = job.op /\ job'.blk = job.blk /\ job'.bp = job.bp /\ job'.dev = job.dev /\ job'.dirty = rest
          /\ job'.q = job.q /\ job' \in JobType
      BY <1>0, <1>1, <2>1, <2>2 DEF JobType
    <2>4. DirtySound'
      <3>1. rest # <<>> => job.dirty # <<>>
        BY <1>0
      <3>2. \A i \in 1 .. Len(rest) : rest[i] \in Buf /\ buf[rest[i]].dev = job.dev
        BY <1>0, <2>2 DEF DirtySound
      <3> QED BY <1>0, <1>4, <2>3, <3>1, <3>2 DEF DirtySound
    <2>5. TakenSound'
      <3>1. TakenSound
        BY DEF IInv, JobSound
      <3>2. ASSUME job.bp # 0, job.dev # NO_DEV, buf'[job.bp].dirty
            PROVE  \E i \in 1 .. Len(rest) : rest[i] = job.bp
        <4>1. job.bp \in Buf
          BY <1>0, <3>2 DEF JobType
        <4>2. job.bp \notin done /\ buf[job.bp].dirty
          BY <1>4, <3>2, <4>1
        <4>3. PICK i \in 1 .. Len(job.dirty) : job.dirty[i] = job.bp
          BY <3>1, <3>2, <4>2 DEF TakenSound
        <4>4. ~(i <= n)
          BY <4>2, <4>3
        <4> QED BY <2>2, <4>3, <4>4
      <3>3. job.bp # 0 => job.bp \in Buf
        BY <1>0 DEF JobType
      <3> QED BY <1>4, <1>5, <1>11, <2>3, <3>1, <3>2, <3>3 DEF TakenSound
    <2>6. GatheredSound'
      <3>1. GatheredSound /\ \A i \in 1 .. Len(job.q) : job.q[i] \in Buf
        BY GatheredIs DEF IInv, JobSound
      <3> QED BY <1>4, <1>5, <2>3, <3>1 DEF GatheredSound
    <2>7. job'.op = "synced" => \A p \in Buf : buf'[p].dev # NO_DEV => ~buf'[p].dirty
      BY <1>4, <2>3 DEF IInv, JobSound
    <2> QED BY <2>3, <2>4, <2>5, <2>6, <2>7 DEF IInv, JobSound
  <1>15. ASSUME NEW b \in Block, NEW v, Shows(b, v)
         PROVE  Shows(b, v)'
    <2>1. CASE Found(b) # {}
      <3>1. PICK p \in Found(b) : buf[p].data = v
        BY <1>15, <2>1 DEF Shows
      <3>2. p \in Found(b)' /\ buf'[p].data = v
        BY <1>4, <1>5, <3>1 DEF Found
      <3> QED BY <3>2 DEF Shows
    <2>2. CASE Found(b) = {}
      <3>1. disk'[b] = disk[b] /\ disk[b] = v
        BY <1>8, <1>15, <2>2 DEF Shows
      <3> QED BY <1>5, <2>2, <3>1 DEF Shows
    <2> QED BY <2>1, <2>2
  <1>16. ASSUME NEW b \in Block
         PROVE  disk'[b] = disk[b] \/ Shows(b, disk'[b])
    BY <1>8 DEF Shows
  <1> QED
    <2>1. IInv'
      BY <1>10, <1>11, <1>12, <1>13, <1>14 DEF IInv
    <2> QED BY <2>1, <1>15, <1>16

-----------------------------------------------------------------------------
(* The buffer taken becomes that of another block. *)

(* It is clean; its copy in the second level cache is the newest.          *)
LEMMA Evicted ==
    ASSUME IInv, job.bp # 0, job.dirty = <<>>, put_block2(job.bp)
    PROVE  /\ job.bp \in Buf /\ buf[job.bp].count = 0
           /\ buf[job.bp].dev # NO_DEV => buf[job.bp].data = disk[Name(buf[job.bp])]
           /\ RingSound(buf2', buf2_idx', b2_count')
           /\ \A b \in Block : Found(b) \subseteq {job.bp} /\ InCache2(b, buf2', b2_count') =>
                buf2'[Newest(b, buf2', buf2_idx')].data = disk[b]
  <1>1. /\ job.bp \in Buf /\ buf[job.bp].count = 0 /\ buf[job.bp].dev = job.dev
        /\ job.dev # NO_DEV => ~buf[job.bp].dirty
        /\ PoolSound /\ RingSound(buf2, buf2_idx, b2_count)
    BY DEF IInv, JobSound, JobType, TakenSound
  <1>2. PICK r : r = buf[job.bp]
    OBVIOUS
  <1>3. r \in BufferOf /\ r.dev = job.dev /\ Named(r)
    BY <1>1, <1>2 DEF PoolSound
  <1>4. job.dev # NO_DEV => r.data = disk[Name(r)]
    BY <1>1, <1>2, <1>3 DEF IInv, CleanIsOnDisk, Name
  <1>5. CASE NR_BUF2 = 0 \/ job.dev = NO_DEV
    <2>1. buf2' = buf2 /\ buf2_idx' = buf2_idx /\ b2_count' = b2_count
      BY <1>5 DEF put_block2, cache2
    <2>2. ASSUME NEW b \in Block, Found(b) \subseteq {job.bp}, InCache2(b, buf2', b2_count')
          PROVE  buf2'[Newest(b, buf2', buf2_idx')].data = disk[b]
      <3>1. NR_BUF2 # 0
        BY <2>2, CacheAssumption DEF InCache2, Copies
      <3>2. job.bp \notin Found(b)
        BY <1>1, <1>5, <3>1, FoundIs
      <3>3. Found(b) = {}
        BY <2>2, <3>2
      <3> QED BY <2>1, <2>2, <3>3 DEF IInv, CleanIsOnDisk
    <2> QED BY <1>1, <1>2, <1>3, <1>4, <2>1, <2>2
  <1>6. CASE NR_BUF2 # 0 /\ job.dev # NO_DEV
    <2>1. PICK c : c = Copy(job.bp)
      OBVIOUS
    <2>2. c \in CopyOf /\ c.dev = r.dev /\ c.nr = r.nr /\ c.data = r.data /\ Name(c) = Name(r) /\ Named(c) /\ c.dev # NO_DEV
      BY <1>2, <1>3, <1>6, <2>1 DEF Copy, CopyOf, BufferOf, Name, Named
    <2>3. /\ buf2' = [buf2 EXCEPT ![buf2_idx + 1] = c]
          /\ buf2_idx' = IF buf2_idx + 1 = NR_BUF2 THEN 0 ELSE buf2_idx + 1
          /\ b2_count' = [k \in DOMAIN b2_count |->
                b2_count[k] - (IF buf2[buf2_idx + 1].dev # NO_DEV /\ buf2[buf2_idx + 1].nr = k THEN 1 ELSE 0)
                            + (IF buf[job.bp].nr = k THEN 1 ELSE 0)]
      BY <1>6, <2>1 DEF put_block2
    <2>4. PICK ring2, idx2, count2 : ring2 = buf2' /\ idx2 = buf2_idx' /\ count2 = b2_count'
      OBVIOUS
    <2>5. DOMAIN b2_count = Nr \cup {0} /\ buf[job.bp].nr = c.nr
      BY <1>1, <1>2, <2>2 DEF RingSound
    <2>6. Stored(c, buf2, buf2_idx, b2_count, ring2, idx2, count2)
      BY <1>6, <2>2, <2>3, <2>4, <2>5 DEF Stored
    <2>r. RingSound(ring2, idx2, count2)
      BY <1>1, <2>6, RingPut
    <2>n. \A b \in Block : b = Name(c) => ring2[Newest(b, ring2, idx2)].data = c.data
      BY <1>1, <2>6, RingPut
    <2>7. \A b \in Block : b # Name(c) /\ Copies(b, ring2) # {} =>
                /\ InCache2(b, buf2, b2_count)
                /\ ring2[Newest(b, ring2, idx2)].data = buf2[Newest(b, buf2, buf2_idx)].data
      BY <1>1, <2>6, RingPut
    <2>8. ASSUME NEW b \in Block, Found(b) \subseteq {job.bp}, InCache2(b, buf2', b2_count')
          PROVE  buf2'[Newest(b, buf2', buf2_idx')].data = disk[b]
      <3>1. CASE b = Name(c)
        BY <1>4, <1>6, <2>2, <2>4, <2>n, <3>1
      <3>2. CASE b # Name(c)
        <4>1. job.bp \notin Found(b)
          BY <1>1, <1>2, <2>2, <3>2, FoundIs
        <4>2. Found(b) = {}
          BY <2>8, <4>1
        <4>3. Copies(b, buf2') # {}
          BY <2>8 DEF InCache2
        <4> QED BY <2>4, <2>7, <3>2, <4>2, <4>3 DEF IInv, CleanIsOnDisk
      <3> QED BY <3>1, <3>2
    <2> QED BY <1>1, <1>2, <1>3, <1>4, <2>4, <2>r, <2>8
  <1> QED BY <1>5, <1>6

(* What is put in its place. *)
LEMMA Filled ==
    ASSUME IInv, job.bp # 0, job.dirty = <<>>, put_block2(job.bp), UNCHANGED disk,
           NEW r \in BufferOf, buf' = [buf EXCEPT ![job.bp] = r],
           r.dev # NO_DEV => Name(r) \in Block /\ Found(Name(r)) = {} /\ (~r.dirty => r.data = disk[Name(r)])
    PROVE  /\ PoolSound' /\ RingSound(buf2', buf2_idx', b2_count') /\ CleanIsOnDisk'
           /\ \A b \in Block : r.dev = NO_DEV \/ b # Name(r) => \A v : Shows(b, v) => Shows(b, v)'
           /\ r.dev # NO_DEV => Shows(Name(r), r.data)' /\ \A v : Shows(Name(r), v) => v = disk[Name(r)]
           /\ \A b \in Block : Found(b)' = IF r.dev # NO_DEV /\ b = Name(r) THEN {job.bp} ELSE Found(b) \ {job.bp}
           /\ \A x \in Buf : x # job.bp => buf'[x] = buf[x]
           /\ buf'[job.bp] = r
  <1> DEFINE bp == job.bp
  <1>1. /\ bp \in Buf /\ buf[bp].count = 0
        /\ RingSound(buf2', buf2_idx', b2_count')
        /\ PoolSound /\ disk' = disk
    BY Evicted DEF IInv
  <1>2. buf[bp].dev # NO_DEV => buf[bp].data = disk[Name(buf[bp])]
    BY Evicted
  <1>3. \A b \in Block : Found(b) \subseteq {bp} /\ InCache2(b, buf2', b2_count') =>
                buf2'[Newest(b, buf2', buf2_idx')].data = disk[b]
    BY Evicted
  <1>4. /\ buf \in [Buf -> BufferOf] /\ buf' \in [Buf -> BufferOf] /\ buf'[bp] = r
        /\ \A x \in Buf : x # bp => buf'[x] = buf[x]
    BY <1>1 DEF PoolSound
  <1> HIDE DEF bp
  <1>5. ASSUME NEW x \in Buf, x # bp, r.dev # NO_DEV
        PROVE  ~(buf[x].dev = r.dev /\ buf[x].nr = r.nr)
    <2>1. Name(r) \in Block /\ x \notin Found(Name(r))
      BY <1>5
    <2> QED BY <2>1 DEF Found, Name
  <1>6. PoolSound'
    <2>1. \A x \in Buf : Named(buf'[x])
      BY <1>1, <1>4 DEF PoolSound, Named
    <2>2. NoTwoCopies'
      <3> SUFFICES ASSUME NEW x \in Buf, NEW y \in Buf, x # y, buf'[x].dev # NO_DEV
                   PROVE  ~(buf'[x].dev = buf'[y].dev /\ buf'[x].nr = buf'[y].nr)
        BY DEF NoTwoCopies
      <3>1. CASE x = bp
        BY <1>4, <1>5, <3>1
      <3>2. CASE y = bp
        BY <1>4, <1>5, <3>2
      <3>3. CASE x # bp /\ y # bp
        BY <1>1, <1>4, <3>3 DEF PoolSound, NoTwoCopies
      <3> QED BY <3>1, <3>2, <3>3
    <2> QED BY <1>1, <1>4, <2>1, <2>2 DEF PoolSound
  <1>7. ASSUME NEW b \in Block
        PROVE  Found(b)' = IF r.dev # NO_DEV /\ b = Name(r) THEN {bp} ELSE Found(b) \ {bp}
    <2>1. r.dev = b.dev /\ r.nr = b.nr <=> r.dev # NO_DEV /\ b = Name(r)
      BY BlockIs DEF Name
    <2>2. CASE r.dev # NO_DEV /\ b = Name(r)
      <3>1. \A x \in Buf : buf'[x].dev = b.dev /\ buf'[x].nr = b.nr <=> x = bp
        BY <1>4, <1>5, <2>1, <2>2
      <3> QED BY <1>1, <2>2, <3>1 DEF Found
    <2>3. CASE ~(r.dev # NO_DEV /\ b = Name(r))
      <3>1. \A x \in Buf : buf'[x].dev = b.dev /\ buf'[x].nr = b.nr <=> x # bp /\ buf[x].dev = b.dev /\ buf[x].nr = b.nr
        BY <1>4, <2>1, <2>3
      <3> QED BY <2>3, <3>1 DEF Found
    <2> QED BY <2>2, <2>3
  <1>8. CleanIsOnDisk'
    <2>1. ASSUME NEW x \in Buf, buf'[x].dev # NO_DEV, ~buf'[x].dirty
          PROVE  buf'[x].data = disk[Name(buf'[x])]
      <3>1. CASE x = bp
        BY <1>4, <2>1, <3>1
      <3>2. CASE x # bp
        BY <1>4, <2>1, <3>2 DEF IInv, CleanIsOnDisk, Name
      <3> QED BY <3>1, <3>2
    <2>2. ASSUME NEW b \in Block, Found(b)' = {}, InCache2(b, buf2', b2_count')
          PROVE  buf2'[Newest(b, buf2', buf2_idx')].data = disk[b]
      <3>1. Found(b) \subseteq {bp}
        BY <1>7, <2>2
      <3> QED BY <1>3, <2>2, <3>1
    <2> QED BY <1>1, <2>1, <2>2 DEF CleanIsOnDisk, Name
  <1>9. ASSUME NEW b \in Block, r.dev = NO_DEV \/ b # Name(r), NEW v, Shows(b, v)
        PROVE  Shows(b, v)'
    <2>1. Found(b)' = Found(b) \ {bp}
      BY <1>7, <1>9
    <2>2. CASE Found(b) = {}
      BY <1>1, <1>9, <2>1, <2>2 DEF Shows
    <2>3. CASE Found(b) # {}
      <3>1. PICK p \in Found(b) : buf[p].data = v
        BY <1>9, <2>3 DEF Shows
      <3>2. p \in Buf /\ buf[p].dev # NO_DEV /\ Name(buf[p]) = b /\ \A q \in Found(b) : q = p
        BY <1>1, <3>1, FoundIs
      <3>3. CASE p = bp
        <4>1. v = disk'[b] /\ Found(b)' = {}
          BY <1>1, <1>2, <2>1, <3>1, <3>2, <3>3
        <4> QED BY <4>1 DEF Shows
      <3>4. CASE p # bp
        <4>1. p \in Found(b)' /\ buf'[p].data = v
          BY <1>4, <2>1, <3>1, <3>2, <3>4
        <4> QED BY <4>1 DEF Shows
      <3> QED BY <3>3, <3>4
    <2> QED BY <2>2, <2>3
  <1>10. ASSUME r.dev # NO_DEV
         PROVE  Shows(Name(r), r.data)' /\ \A v : Shows(Name(r), v) => v = disk[Name(r)]
    <2>1. bp \in Found(Name(r))' /\ Found(Name(r)) = {}
      BY <1>7, <1>10
    <2> QED BY <1>4, <2>1 DEF Shows
  <1> QED BY <1>1, <1>4, <1>6, <1>7, <1>8, <1>9, <1>10 DEF bp

(* What the buffer being filled is afterwards, field by field. *)
LEMMA BecomesIs ==
    ASSUME IInv, job.bp # 0, NEW d \in Dev \cup {NO_DEV}, NEW k \in Nr \cup {0}, NEW dirt \in BOOLEAN, NEW v \in Value,
           Becomes(d, k, dirt, v)
    PROVE  \E r \in BufferOf : /\ buf' = [buf EXCEPT ![job.bp] = r]
                               /\ r.dev = d /\ r.nr = k /\ r.dirty = dirt /\ r.count = 1 /\ r.data = v
  <1>1. job.bp \in Buf /\ buf[job.bp].count = 0 /\ 1 \in 0 .. MaxUses
    BY CacheAssumption DEF IInv, JobSound, JobType, TakenSound
  <1> DEFINE r == [dev |-> d, nr |-> k, dirty |-> dirt, count |-> 1, data |-> v]
  <1>2. r \in BufferOf
    BY <1>1 DEF BufferOf
  <1>3. buf' = [buf EXCEPT ![job.bp] = r]
    <2>1. buf' = [buf EXCEPT ![job.bp] = [dev |-> d, nr |-> k, dirty |-> dirt, count |-> buf[job.bp].count + 1, data |-> v]]
      BY DEF Becomes
    <2> QED BY <1>1, <2>1
  <1> QED BY <1>2, <1>3

(* get_block() is done: its caller uses the buffer. *)
LEMMA FilledIdle ==
    ASSUME IInv, NEW op, Filling(op), UNCHANGED <<disk, lru, bufs_in_use>>, job' = Idle,
           NEW r \in BufferOf, buf' = [buf EXCEPT ![job.bp] = r], r.count = 1,
           r.dev # NO_DEV => Name(r) \in Block /\ Found(Name(r)) = {} /\ (~r.dirty => r.data = disk[Name(r)])
    PROVE  IInv'
  <1>1. /\ job.bp # 0 /\ job.dirty = <<>> /\ put_block2(job.bp)
    BY DEF Filling
  <1>2. PoolSound' /\ RingSound(buf2', buf2_idx', b2_count') /\ CleanIsOnDisk'
    BY <1>1, Filled
  <1>3. (\A x \in Buf : x # job.bp => buf'[x] = buf[x]) /\ buf'[job.bp] = r
    BY <1>1, Filled
  <1>4. ChainSound'
    <2>1. Free' = Free
      BY <1>3, IdleIs, BufFinite DEF Free
    <2> QED BY <2>1 DEF IInv, ChainSound
  <1> QED BY <1>2, <1>4, JobIdle DEF IInv

(* The buffer taken by get_block() gets the block asked for. *)
LEMMA FillGetStep ==
    ASSUME IInv, FillGet
    PROVE  IInv' /\ \A x \in Block : \A v : Shows(x, v) => Shows(x, v)'
  <1>1. PICK op \in {"get", "again"} : Filling(op)
    BY DEF FillGet
  <1>2. /\ job.op = op /\ job.bp # 0 /\ job.dirty = <<>> /\ put_block2(job.bp)
        /\ UNCHANGED <<disk, lru, bufs_in_use>> /\ job' = Idle
    BY <1>1 DEF FillGet, Filling
  <1>3. PICK b : b = job.blk
    OBVIOUS
  <1>4. b \in Block /\ Found(b) = {} /\ disk[b] \in Value
    BY <1>1, <1>2, <1>3 DEF IInv, JobSound, TakenSound, PoolSound
  <1>5. InCache2(b, buf2', b2_count') => buf2'[Newest(b, buf2', buf2_idx')].data = disk[b]
    BY <1>2, <1>4, Evicted
  <1>6. \/ \E dirt \in BOOLEAN : Becomes(b.dev, b.nr, dirt, disk[b])
        \/ Becomes(NO_DEV, 0, FALSE, ZERO)
    <2>1. buf[job.bp].dirty \in BOOLEAN
      BY <1>2 DEF IInv, JobSound, JobType, PoolSound, BufferOf
    <2> QED BY <1>3, <1>5, <2>1 DEF FillGet
  <1>7. CASE \E dirt \in BOOLEAN : Becomes(b.dev, b.nr, dirt, disk[b])
    <2>1. PICK dirt \in BOOLEAN : Becomes(b.dev, b.nr, dirt, disk[b])
      BY <1>7
    <2>2. b.dev \in Dev \cup {NO_DEV} /\ b.nr \in Nr \cup {0} /\ b = [dev |-> b.dev, nr |-> b.nr] /\ b.dev # NO_DEV
      BY <1>4, BlockIs
    <2>3. PICK r \in BufferOf : /\ buf' = [buf EXCEPT ![job.bp] = r]
                                /\ r.dev = b.dev /\ r.nr = b.nr /\ r.count = 1 /\ r.data = disk[b]
      BY <1>2, <1>4, <2>1, <2>2, BecomesIs
    <2>4. Name(r) = b /\ r.dev # NO_DEV
      BY <2>2, <2>3 DEF Name
    <2>5. r.dev # NO_DEV => Name(r) \in Block /\ Found(Name(r)) = {} /\ (~r.dirty => r.data = disk[Name(r)])
      BY <1>4, <2>3, <2>4
    <2>6. IInv'
      BY <1>1, <1>2, <2>3, <2>5, FilledIdle
    <2>7. \A x \in Block : r.dev = NO_DEV \/ x # Name(r) => \A v : Shows(x, v) => Shows(x, v)'
      BY <1>2, <2>3, <2>5, Filled
    <2>8. Shows(Name(r), r.data)' /\ \A v : Shows(Name(r), v) => v = disk[Name(r)]
      BY <1>2, <2>3, <2>4, <2>5, Filled
    <2>9. ASSUME NEW x \in Block, NEW v, Shows(x, v)
          PROVE  Shows(x, v)'
      <3>1. CASE x = b
        <4>1. v = r.data
          BY <2>3, <2>4, <2>8, <2>9, <3>1
        <4> QED BY <2>4, <2>8, <3>1, <4>1
      <3> QED BY <2>4, <2>7, <2>9, <3>1
    <2> QED BY <2>6, <2>9
  <1>8. CASE Becomes(NO_DEV, 0, FALSE, ZERO)
    <2>0. PICK d \in Dev \cup {NO_DEV}, k \in Nr \cup {0}, dirt \in BOOLEAN, v \in Value :
              d = NO_DEV /\ Becomes(d, k, dirt, v)
      BY <1>8, CacheAssumption
    <2>1. PICK r \in BufferOf : /\ buf' = [buf EXCEPT ![job.bp] = r]
                                /\ r.dev = NO_DEV /\ r.count = 1
      <3>1. Becomes(d, k, dirt, v)
        BY <2>0
      <3>2. \E r \in BufferOf : /\ buf' = [buf EXCEPT ![job.bp] = r]
                                /\ r.dev = d /\ r.nr = k /\ r.dirty = dirt /\ r.count = 1 /\ r.data = v
        BY <1>2, <3>1, BecomesIs
      <3> QED BY <2>0, <3>2
    <2>2. IInv'
      BY <1>1, <1>2, <2>1, FilledIdle
    <2>3. \A x \in Block : r.dev = NO_DEV \/ x # Name(r) => \A w : Shows(x, w) => Shows(x, w)'
      BY <1>2, <2>1, Filled
    <2> QED BY <2>1, <2>2, <2>3
  <1> QED BY <1>6, <1>7, <1>8

(* NO_READ: the one step of get_block() that changes what a block shows. *)
LEMMA FillNewStep ==
    ASSUME IInv, FillNew
    PROVE  /\ IInv'
           /\ \E b \in Block, v \in Value :
                /\ Shows(b, v)'
                /\ \A x \in Block : \A w : x # b /\ Shows(x, w) => Shows(x, w)'
  <1>1. PICK v \in Value : Becomes(job.blk.dev, job.blk.nr, TRUE, v)
    BY DEF FillNew
  <1>2. /\ job.op = "get" /\ job.bp # 0 /\ job.dirty = <<>> /\ put_block2(job.bp) /\ Filling("get")
        /\ UNCHANGED <<disk, lru, bufs_in_use>> /\ job' = Idle
    BY DEF FillNew, Filling
  <1>3. PICK b : b = job.blk
    OBVIOUS
  <1>4. b \in Block /\ Found(b) = {}
    BY <1>2, <1>3 DEF IInv, JobSound, TakenSound
  <1>5. b.dev \in Dev \cup {NO_DEV} /\ b.nr \in Nr \cup {0} /\ b = [dev |-> b.dev, nr |-> b.nr] /\ b.dev # NO_DEV
    BY <1>4, BlockIs
  <1>6. PICK r \in BufferOf : /\ buf' = [buf EXCEPT ![job.bp] = r]
                              /\ r.dev = b.dev /\ r.nr = b.nr /\ r.dirty = TRUE /\ r.count = 1 /\ r.data = v
    <2>1. PICK d \in Dev \cup {NO_DEV}, k \in Nr \cup {0}, dirt \in BOOLEAN :
              d = b.dev /\ k = b.nr /\ dirt = TRUE /\ Becomes(d, k, dirt, v)
      BY <1>1, <1>3, <1>5
    <2>2. Becomes(d, k, dirt, v)
      BY <2>1
    <2>3. \E r \in BufferOf : /\ buf' = [buf EXCEPT ![job.bp] = r]
                              /\ r.dev = d /\ r.nr = k /\ r.dirty = dirt /\ r.count = 1 /\ r.data = v
      <3>1. job.bp # 0
        BY <1>2
      <3> QED BY <2>2, <3>1, BecomesIs
    <2> QED BY <2>1, <2>3
  <1>7. Name(r) = b /\ r.dev # NO_DEV
    BY <1>5, <1>6 DEF Name
  <1>8. r.dev # NO_DEV => Name(r) \in Block /\ Found(Name(r)) = {} /\ (~r.dirty => r.data = disk[Name(r)])
    BY <1>4, <1>6, <1>7
  <1>9. IInv'
    BY <1>2, <1>6, <1>8, FilledIdle
  <1>10. \A x \in Block : r.dev = NO_DEV \/ x # Name(r) => \A w : Shows(x, w) => Shows(x, w)'
    BY <1>2, <1>6, <1>8, Filled
  <1>11. Shows(Name(r), r.data)'
    BY <1>2, <1>6, <1>7, <1>8, Filled
  <1>12. \A x \in Block : \A w : x # b /\ Shows(x, w) => Shows(x, w)'
    BY <1>7, <1>10
  <1>13. Shows(b, v)'
    BY <1>6, <1>7, <1>11
  <1> QED BY <1>4, <1>9, <1>12, <1>13

(* The buffer taken for a hole in a file is filled with zeros. *)
LEMMA FillZeroStep ==
    ASSUME IInv, FillZero
    PROVE  IInv' /\ \A x \in Block : \A v : Shows(x, v) => Shows(x, v)'
  <1>1. /\ job.bp # 0 /\ job.dirty = <<>> /\ put_block2(job.bp) /\ Filling("zero")
        /\ UNCHANGED <<disk, lru, bufs_in_use>> /\ job' = Idle /\ Becomes(NO_DEV, 0, TRUE, ZERO)
    BY DEF FillZero, Filling
  <1>2. PICK r \in BufferOf : /\ buf' = [buf EXCEPT ![job.bp] = r]
                              /\ r.dev = NO_DEV /\ r.count = 1
    <2>1. PICK d \in Dev \cup {NO_DEV}, k \in Nr \cup {0}, dirt \in BOOLEAN, v \in Value :
              d = NO_DEV /\ Becomes(d, k, dirt, v)
      BY <1>1, CacheAssumption
    <2>2. Becomes(d, k, dirt, v)
      BY <2>1
    <2>3. \E r \in BufferOf : /\ buf' = [buf EXCEPT ![job.bp] = r]
                              /\ r.dev = d /\ r.nr = k /\ r.dirty = dirt /\ r.count = 1 /\ r.data = v
      <3>1. job.bp # 0
        BY <1>1
      <3> QED BY <2>2, <3>1, BecomesIs
    <2> QED BY <2>1, <2>3
  <1>3. IInv'
    BY <1>1, <1>2, FilledIdle
  <1>4. \A x \in Block : r.dev = NO_DEV \/ x # Name(r) => \A v : Shows(x, v) => Shows(x, v)'
    BY <1>1, <1>2, Filled
  <1> QED BY <1>2, <1>3, <1>4

(* The buffers gathered, after a step. *)
LEMMA GatheredAfter ==
    ASSUME NEW q, NEW b, job'.q = q, job'.blk = b, job'.bp = 0, job'.op \in {"ahead", "gather"},
           \A i \in 1 .. Len(q) :
                /\ buf'[q[i]].count = 1 /\ buf'[q[i]].dev = NO_DEV /\ buf'[q[i]].nr <= b.nr
                /\ [dev |-> b.dev, nr |-> buf'[q[i]].nr] \in Block
                /\ Found([dev |-> b.dev, nr |-> buf[q[i]].nr])' = {},
           \A i, k \in 1 .. Len(q) : i # k => buf'[q[i]].nr # buf'[q[k]].nr
    PROVE  GatheredSound'
  <1>1. ASSUME NEW i \in 1 .. Len(q)
        PROVE  /\ buf'[q[i]].count = 1 /\ buf'[q[i]].dev = NO_DEV
               /\ [dev |-> b.dev, nr |-> buf'[q[i]].nr] \in Block
               /\ buf'[q[i]].nr <= b.nr
    OBVIOUS
  <1>2. ASSUME NEW i \in 1 .. Len(q)
        PROVE  Found([dev |-> job.blk.dev, nr |-> buf[job.q[i]].nr])' = {}
    <2>1. Found([dev |-> b.dev, nr |-> buf[q[i]].nr])' = {}
      OBVIOUS
    <2> QED BY <2>1 DEF Found
  <1>3. \A i \in 1 .. Len(job'.q) : /\ buf'[job'.q[i]].count = 1 /\ buf'[job'.q[i]].dev = NO_DEV
                                   /\ [dev |-> job'.blk.dev, nr |-> buf'[job'.q[i]].nr] \in Block
                                   /\ buf'[job'.q[i]].nr <= job'.blk.nr
    BY <1>1
  <1>4. \A i, k \in 1 .. Len(job'.q) : i # k => buf'[job'.q[i]].nr # buf'[job'.q[k]].nr
    OBVIOUS
  <1>5. \A i \in 1 .. Len(job'.q) : Found([dev |-> job.blk.dev, nr |-> buf[job.q[i]].nr])' = {}
    BY <1>2
  <1> QED BY <1>3, <1>4, <1>5 DEF GatheredSound

(* Read-ahead: the block was in the second level cache, or the buffer      *)
(* joins the queue.                                                        *)
LEMMA FillAheadStep ==
    ASSUME IInv, FillAhead
    PROVE  IInv' /\ \A x \in Block : \A v : Shows(x, v) => Shows(x, v)'
  <1>1. /\ job.op = "ahead" /\ job.bp # 0 /\ job.dirty = <<>> /\ put_block2(job.bp) /\ Filling("ahead") /\ UNCHANGED disk
    BY DEF FillAhead, Filling
  <1>2. PICK b, bp : b = job.blk /\ bp = job.bp
    OBVIOUS
  <1>3. /\ b \in Block /\ Found(b) = {} /\ disk[b] \in Value
        /\ bp \in Buf /\ bp # 0 /\ buf[bp] \in BufferOf /\ buf[bp].count = 0 /\ buf[bp].dirty \in BOOLEAN /\ buf \in [Buf -> BufferOf]
        /\ job \in JobType /\ JobSound /\ PoolSound
    BY <1>1, <1>2, BufFinite DEF IInv, JobSound, TakenSound, PoolSound, JobType, BufferOf
  <1>4. b.dev \in Dev \cup {NO_DEV} /\ b.nr \in Nr \cup {0} /\ b = [dev |-> b.dev, nr |-> b.nr] /\ b.dev # NO_DEV /\ b.nr \in Nat
    BY <1>3, BlockIs
  <1>5. InCache2(b, buf2', b2_count') => buf2'[Newest(b, buf2', buf2_idx')].data = disk[b]
    BY <1>1, <1>3, Evicted
  <1>6. \A i \in 1 .. Len(job.q) :
            /\ job.q[i] \in Buf /\ job.q[i] # bp /\ buf[job.q[i]].nr \in Nat /\ buf[job.q[i]].nr < b.nr
            /\ buf[job.q[i]].count = 1 /\ buf[job.q[i]].dev = NO_DEV
            /\ [dev |-> b.dev, nr |-> buf[job.q[i]].nr] \in Block /\ Found([dev |-> b.dev, nr |-> buf[job.q[i]].nr]) = {}
    BY <1>1, <1>2, <1>3, GatheredIs
  <1>7. job.q \in Seq(Buf) /\ Len(job.q) \in Nat
    BY GatheredIs
  <1>8. /\ IsChain(lru, Free) /\ bufs_in_use = NR_BUFS - Len(lru) /\ Len(lru) \in Nat /\ NR_BUFS \in Nat /\ bp \notin Free
    BY <1>2, BufFinite DEF IInv, ChainSound, IsChain, Free
  <1>9. CASE InCache2(b, buf2', b2_count') /\ job.q = <<>>
    <2>1. /\ buf' = [buf EXCEPT ![job.bp] = [dev |-> b.dev, nr |-> b.nr, dirty |-> buf[bp].dirty, count |-> 1, data |-> disk[b]]]
          /\ job' = Idle /\ UNCHANGED <<lru, bufs_in_use>>
      BY <1>2, <1>5, <1>9 DEF FillAhead
    <2>2. PICK r : r = [dev |-> b.dev, nr |-> b.nr, dirty |-> buf[bp].dirty, count |-> 1, data |-> disk[b]]
      OBVIOUS
    <2>3. r \in BufferOf /\ r.count = 1 /\ r.data = disk[b] /\ Name(r) = b /\ r.dev # NO_DEV /\ buf' = [buf EXCEPT ![job.bp] = r]
      BY <1>3, <1>4, <2>1, <2>2, CacheAssumption DEF BufferOf, Name
    <2>4. r.dev # NO_DEV => Name(r) \in Block /\ Found(Name(r)) = {} /\ (~r.dirty => r.data = disk[Name(r)])
      BY <1>3, <2>3
    <2>5. IInv'
      BY <1>1, <2>1, <2>3, <2>4, FilledIdle
    <2>6. \A x \in Block : r.dev = NO_DEV \/ x # Name(r) => \A v : Shows(x, v) => Shows(x, v)'
      BY <1>1, <2>3, <2>4, Filled
    <2>7. Shows(Name(r), r.data)' /\ \A v : Shows(Name(r), v) => v = disk[Name(r)]
      BY <1>1, <2>3, <2>4, Filled
    <2>8. ASSUME NEW x \in Block, NEW v, Shows(x, v)
          PROVE  Shows(x, v)'
      <3>1. CASE x = b
        <4>1. v = r.data
          BY <2>3, <2>7, <2>8, <3>1
        <4> QED BY <2>3, <2>7, <3>1, <4>1
      <3> QED BY <2>3, <2>6, <2>8, <3>1
    <2> QED BY <2>5, <2>8
  <1>10. CASE InCache2(b, buf2', b2_count') /\ job.q # <<>>
    <2>1. /\ buf' = [buf EXCEPT ![job.bp] = [dev |-> b.dev, nr |-> b.nr, dirty |-> buf[bp].dirty, count |-> 0, data |-> disk[b]]]
          /\ lru' = Append(lru, bp) /\ bufs_in_use' = bufs_in_use - 1
          /\ job' = [job EXCEPT !.op = "gather", !.bp = 0, !.dev = NO_DEV]
      BY <1>2, <1>5, <1>10 DEF FillAhead
    <2>2. PICK r : r = [dev |-> b.dev, nr |-> b.nr, dirty |-> buf[bp].dirty, count |-> 0, data |-> disk[b]]
      OBVIOUS
    <2>3. r \in BufferOf /\ r.count = 0 /\ r.data = disk[b] /\ Name(r) = b /\ r.dev # NO_DEV /\ buf' = [buf EXCEPT ![job.bp] = r]
      BY <1>3, <1>4, <2>1, <2>2, CacheAssumption DEF BufferOf, Name
    <2>4. r.dev # NO_DEV => Name(r) \in Block /\ Found(Name(r)) = {} /\ (~r.dirty => r.data = disk[Name(r)])
      BY <1>3, <2>3
    <2>5. PoolSound' /\ RingSound(buf2', buf2_idx', b2_count') /\ CleanIsOnDisk'
      BY <1>1, <2>3, <2>4, Filled
    <2>6. \A x \in Block : r.dev = NO_DEV \/ x # Name(r) => \A v : Shows(x, v) => Shows(x, v)'
      BY <1>1, <2>3, <2>4, Filled
    <2>7. Shows(Name(r), r.data)' /\ \A v : Shows(Name(r), v) => v = disk[Name(r)]
      BY <1>1, <2>3, <2>4, Filled
    <2>8. \A x \in Block : x # b => Found(x)' = Found(x) \ {job.bp}
      BY <1>1, <2>3, <2>4, Filled
    <2>9. (\A x \in Buf : x # bp => buf'[x] = buf[x]) /\ buf'[bp] = r
      BY <1>2, <1>3, <2>3
    <2>10. /\ job'.op = "gather" /\ job'.blk = b /\ job'.bp = 0 /\ job'.dev = NO_DEV /\ job'.dirty = <<>> /\ job'.q = job.q
           /\ job' \in JobType
      BY <1>1, <1>2, <1>3, <2>1 DEF JobType
    <2>11. ChainSound'
      <3>1. PICK G : G = Free \cup {bp}
        OBVIOUS
      <3>2. Free' = G
        BY <1>2, <1>3, <2>3, <2>9, <2>10, <3>1, BufFinite DEF Free
      <3>3. bp \in Buf \ Free
        BY <1>3, <1>8
      <3>4. IsChain(lru', Free \cup {bp})
        BY <1>8, <2>1, <3>3, ChainAdd
      <3>5. Len(lru') = Len(lru) + 1
        BY <1>8, <2>1, <3>3, ChainAdd
      <3>6. bufs_in_use' = NR_BUFS - Len(lru')
        BY <1>8, <2>1, <3>5
      <3> QED BY <3>1, <3>2, <3>4, <3>6 DEF ChainSound
    <2>12. GatheredSound'
      <3>1. ASSUME NEW i \in 1 .. Len(job.q)
            PROVE  buf'[job.q[i]] = buf[job.q[i]] /\ buf[job.q[i]].nr <= b.nr
        <4>1. buf[job.q[i]].nr \in Nat /\ buf[job.q[i]].nr < b.nr /\ job.q[i] \in Buf /\ job.q[i] # bp
          BY <1>6
        <4>2. buf'[job.q[i]] = buf[job.q[i]]
          BY <2>9, <4>1
        <4> QED BY <1>4, <4>1, <4>2
      <3>2. \A i, k \in 1 .. Len(job.q) : i # k => buf[job.q[i]].nr # buf[job.q[k]].nr
        BY GatheredIs
      <3>3. ASSUME NEW i \in 1 .. Len(job.q)
            PROVE  /\ buf'[job.q[i]].count = 1 /\ buf'[job.q[i]].dev = NO_DEV /\ buf'[job.q[i]].nr <= b.nr
                   /\ [dev |-> b.dev, nr |-> buf'[job.q[i]].nr] \in Block
        BY <1>6, <3>1
      <3>4. PICK q : q = job.q
        OBVIOUS
      <3>5. \A i \in 1 .. Len(q) :
                /\ buf'[q[i]].count = 1 /\ buf'[q[i]].dev = NO_DEV /\ buf'[q[i]].nr <= b.nr
                /\ [dev |-> b.dev, nr |-> buf'[q[i]].nr] \in Block
        BY <3>3, <3>4
      <3>6. ASSUME NEW i \in 1 .. Len(q)
            PROVE  Found([dev |-> b.dev, nr |-> buf[q[i]].nr])' = {}
        <4>1. PICK x : x = [dev |-> b.dev, nr |-> buf[q[i]].nr]
          OBVIOUS
        <4>2. buf'[q[i]] = buf[q[i]] /\ [dev |-> b.dev, nr |-> buf[q[i]].nr] \in Block
          BY <1>6, <3>1, <3>4
        <4>3. x # b
          BY <1>4, <1>6, <3>4, <4>1
        <4>4. Found(x) = {} /\ x \in Block
          BY <1>6, <3>4, <4>1
        <4>5. Found(x)' = {}
          BY <2>8, <4>3, <4>4
        <4> QED BY <4>1, <4>2, <4>5 DEF Found
      <3>7. \A i, k \in 1 .. Len(q) : i # k => buf'[q[i]].nr # buf'[q[k]].nr
        <4> SUFFICES ASSUME NEW i \in 1 .. Len(q), NEW k \in 1 .. Len(q), i # k
                     PROVE  buf'[q[i]].nr # buf'[q[k]].nr
          OBVIOUS
        <4>1. buf[q[i]].nr # buf[q[k]].nr
          BY <3>2, <3>4
        <4>2. buf'[q[i]] = buf[q[i]] /\ buf'[q[k]] = buf[q[k]]
          BY <3>1, <3>4
        <4> QED BY <4>1, <4>2
      <3>8. job'.q = q /\ job'.blk = b /\ job'.bp = 0 /\ job'.op \in {"ahead", "gather"}
        BY <2>10, <3>4
      <3>9. \A i \in 1 .. Len(q) : Found([dev |-> b.dev, nr |-> buf[q[i]].nr])' = {}
        BY <3>6
      <3>10. \A i \in 1 .. Len(q) :
                /\ buf'[q[i]].count = 1 /\ buf'[q[i]].dev = NO_DEV /\ buf'[q[i]].nr <= b.nr
                /\ [dev |-> b.dev, nr |-> buf'[q[i]].nr] \in Block
                /\ Found([dev |-> b.dev, nr |-> buf[q[i]].nr])' = {}
        BY <3>5, <3>9
      <3> QED BY <3>7, <3>8, <3>10, GatheredAfter
    <2>13. JobSound'
      <3>1. TakenSound'
        BY <1>10, <2>10 DEF TakenSound
      <3>2. DirtySound'
        BY <2>10 DEF DirtySound
      <3> QED BY <1>3, <2>10, <2>12, <3>1, <3>2 DEF JobSound
    <2>14. ASSUME NEW x \in Block, NEW v, Shows(x, v)
           PROVE  Shows(x, v)'
      <3>1. CASE x = b
        <4>1. v = r.data
          BY <2>3, <2>7, <2>14, <3>1
        <4> QED BY <2>3, <2>7, <3>1, <4>1
      <3> QED BY <2>3, <2>6, <2>14, <3>1
    <2>15. IInv'
      BY <2>5, <2>11, <2>13 DEF IInv
    <2> QED BY <2>14, <2>15
  <1>11. CASE ~InCache2(b, buf2', b2_count')
    <2>1. /\ Becomes(NO_DEV, b.nr, buf[bp].dirty, ZERO)
          /\ job' = [job EXCEPT !.q = Append(@, bp), !.bp = 0, !.dev = NO_DEV]
          /\ UNCHANGED <<lru, bufs_in_use>>
      BY <1>2, <1>11 DEF FillAhead
    <2>2. PICK r \in BufferOf : /\ buf' = [buf EXCEPT ![job.bp] = r]
                                /\ r.dev = NO_DEV /\ r.nr = b.nr /\ r.count = 1
      <3>1. PICK d \in Dev \cup {NO_DEV}, k \in Nr \cup {0}, dirt \in BOOLEAN, v \in Value :
                d = NO_DEV /\ k = b.nr /\ Becomes(d, k, dirt, v)
        BY <1>3, <1>4, <2>1, CacheAssumption
      <3>2. Becomes(d, k, dirt, v)
        BY <3>1
      <3>3. \E r \in BufferOf : /\ buf' = [buf EXCEPT ![job.bp] = r]
                                /\ r.dev = d /\ r.nr = k /\ r.dirty = dirt /\ r.count = 1 /\ r.data = v
        <4>1. job.bp # 0
          BY <1>1
        <4> QED BY <3>2, <4>1, BecomesIs
      <3> QED BY <3>1, <3>3
    <2>3. PoolSound' /\ RingSound(buf2', buf2_idx', b2_count') /\ CleanIsOnDisk'
      BY <1>1, <2>2, Filled
    <2>4. \A x \in Block : r.dev = NO_DEV \/ x # Name(r) => \A v : Shows(x, v) => Shows(x, v)'
      BY <1>1, <2>2, Filled
    <2>5. \A x \in Block : Found(x)' = IF r.dev # NO_DEV /\ x = Name(r) THEN {job.bp} ELSE Found(x) \ {job.bp}
      BY <1>1, <2>2, Filled
    <2>6. (\A x \in Buf : x # bp => buf'[x] = buf[x]) /\ buf'[bp] = r
      BY <1>2, <1>3, <2>2
    <2>7. PICK q2 : q2 = Append(job.q, bp)
      OBVIOUS
    <2>8. /\ q2 \in Seq(Buf) /\ Len(q2) = Len(job.q) + 1 /\ q2[Len(job.q) + 1] = bp
          /\ \A i \in 1 .. Len(job.q) : q2[i] = job.q[i]
          /\ q2 # <<>>
      BY <1>3, <1>7, <2>7
    <2>9. /\ job'.op = "ahead" /\ job'.blk = b /\ job'.bp = 0 /\ job'.dev = NO_DEV /\ job'.dirty = <<>> /\ job'.q = q2
          /\ job' \in JobType
      BY <1>1, <1>2, <1>3, <2>1, <2>7, <2>8 DEF JobType
    <2>10. ChainSound'
      <3>1. Free' = Free
        BY <1>2, <1>3, <2>2, <2>6, <2>9, BufFinite DEF Free
      <3> QED BY <1>8, <2>1, <3>1 DEF ChainSound
    <2>11. ASSUME NEW i \in 1 .. Len(q2)
           PROVE  /\ buf'[q2[i]].count = 1 /\ buf'[q2[i]].dev = NO_DEV /\ buf'[q2[i]].nr <= b.nr
                  /\ [dev |-> b.dev, nr |-> buf'[q2[i]].nr] \in Block
                  /\ Found([dev |-> b.dev, nr |-> buf[q2[i]].nr])' = {}
                  /\ i # Len(q2) => i \in 1 .. Len(job.q) /\ q2[i] = job.q[i] /\ buf'[q2[i]].nr = buf[job.q[i]].nr /\ buf'[q2[i]].nr < b.nr
                  /\ i = Len(q2) => buf'[q2[i]].nr = b.nr
      <3>1. CASE i = Len(q2)
        <4>1. q2[i] = bp /\ buf'[q2[i]] = r /\ buf'[q2[i]].nr = b.nr /\ b.nr <= b.nr
          BY <1>4, <2>2, <2>6, <2>8, <3>1
        <4>2. PICK x : x = [dev |-> b.dev, nr |-> buf'[q2[i]].nr]
          OBVIOUS
        <4>3. x = b
          BY <1>4, <4>1, <4>2
        <4>4. Found(x)' = {}
          BY <1>3, <2>2, <2>5, <4>3
        <4>5. Found([dev |-> b.dev, nr |-> buf[q2[i]].nr])' = Found(x)'
          BY <4>2 DEF Found
        <4> QED BY <1>3, <2>2, <3>1, <4>1, <4>2, <4>3, <4>4, <4>5
      <3>2. CASE i # Len(q2)
        <4>1. i \in 1 .. Len(job.q) /\ q2[i] = job.q[i]
          BY <1>7, <2>8, <3>2
        <4>2. job.q[i] \in Buf /\ job.q[i] # bp /\ buf'[q2[i]] = buf[job.q[i]]
          BY <1>6, <2>6, <4>1
        <4>3. /\ buf[job.q[i]].nr \in Nat /\ buf[job.q[i]].nr < b.nr /\ buf[job.q[i]].count = 1 /\ buf[job.q[i]].dev = NO_DEV
              /\ [dev |-> b.dev, nr |-> buf[job.q[i]].nr] \in Block /\ Found([dev |-> b.dev, nr |-> buf[job.q[i]].nr]) = {}
          BY <1>6, <4>1
        <4>4. PICK x : x = [dev |-> b.dev, nr |-> buf[job.q[i]].nr]
          OBVIOUS
        <4>5. Found(x)' = {}
          BY <2>2, <2>5, <4>3, <4>4
        <4>6. Found([dev |-> b.dev, nr |-> buf[q2[i]].nr])' = Found(x)'
          BY <4>2, <4>4 DEF Found
        <4>7. buf[job.q[i]].nr <= b.nr
          BY <1>4, <4>3
        <4> QED BY <3>2, <4>1, <4>2, <4>3, <4>5, <4>6, <4>7
      <3> QED BY <3>1, <3>2
    <2>12. ASSUME NEW i \in 1 .. Len(q2), NEW k \in 1 .. Len(q2), i # k
           PROVE  buf'[q2[i]].nr # buf'[q2[k]].nr
      <3>1. ASSUME NEW x \in 1 .. Len(q2)
            PROVE  /\ x = Len(q2) => buf'[q2[x]].nr = b.nr
                   /\ x # Len(q2) => buf'[q2[x]].nr # b.nr /\ x \in 1 .. Len(job.q) /\ buf'[q2[x]].nr = buf[job.q[x]].nr
        <4>1. CASE x = Len(q2)
          BY <2>11, <4>1
        <4>2. CASE x # Len(q2)
          <5>1. x \in 1 .. Len(job.q) /\ buf'[q2[x]].nr = buf[job.q[x]].nr
            BY <2>11, <4>2
          <5>2. buf[job.q[x]].nr \in Nat /\ buf[job.q[x]].nr < b.nr
            BY <1>6, <5>1
          <5> QED BY <1>4, <4>2, <5>1, <5>2
        <4> QED BY <4>1, <4>2
      <3>2. \A x, y \in 1 .. Len(job.q) : x # y => buf[job.q[x]].nr # buf[job.q[y]].nr
        BY GatheredIs
      <3>3. CASE i = Len(q2) \/ k = Len(q2)
        BY <2>12, <3>1, <3>3
      <3>4. CASE i # Len(q2) /\ k # Len(q2)
        <4>1. i \in 1 .. Len(job.q) /\ k \in 1 .. Len(job.q)
          BY <3>1, <3>4
        <4>2. buf'[q2[i]].nr = buf[job.q[i]].nr /\ buf'[q2[k]].nr = buf[job.q[k]].nr
          BY <3>1, <3>4
        <4>3. buf[job.q[i]].nr # buf[job.q[k]].nr
          BY <2>12, <3>2, <4>1
        <4> QED BY <4>2, <4>3
      <3> QED BY <3>3, <3>4
    <2>13. JobSound'
      <3>1. TakenSound'
        BY <2>8, <2>9 DEF TakenSound
      <3>2. DirtySound'
        BY <2>9 DEF DirtySound
      <3>3. GatheredSound'
        <4>1. \A i \in 1 .. Len(q2) :
                /\ buf'[q2[i]].count = 1 /\ buf'[q2[i]].dev = NO_DEV /\ buf'[q2[i]].nr <= b.nr
                /\ [dev |-> b.dev, nr |-> buf'[q2[i]].nr] \in Block
          BY <2>11
        <4>2. \A i \in 1 .. Len(q2) : Found([dev |-> b.dev, nr |-> buf[q2[i]].nr])' = {}
          BY <2>11
        <4>3. job'.q = q2 /\ job'.blk = b /\ job'.bp = 0 /\ job'.op \in {"ahead", "gather"}
          BY <2>9
        <4>4. \A i, k \in 1 .. Len(q2) : i # k => buf'[q2[i]].nr # buf'[q2[k]].nr
          BY <2>12
        <4> QED BY <4>1, <4>2, <4>3, <4>4, GatheredAfter
      <3> QED BY <1>3, <2>9, <3>1, <3>2, <3>3 DEF JobSound
    <2>14. IInv'
      BY <2>3, <2>10, <2>13 DEF IInv
    <2> QED BY <2>2, <2>4, <2>14
  <1> QED BY <1>9, <1>10, <1>11

-----------------------------------------------------------------------------
(* The user of a buffer. *)

(* The contents of one buffer change, or its marks; perhaps it is written. *)
LEMMA OneChanged ==
    ASSUME IInv, UNCHANGED cache2, NEW p \in Buf, NEW r \in BufferOf, buf' = [buf EXCEPT ![p] = r],
           r.dev = buf[p].dev, r.nr = buf[p].nr, disk' \in [Block -> Value],
           \A b \in Block : disk'[b] = disk[b] \/ (p \in Found(b) /\ disk'[b] = r.data),
           r.dev # NO_DEV /\ ~r.dirty => r.data = disk'[Name(r)]
    PROVE  /\ PoolSound' /\ RingSound(buf2', buf2_idx', b2_count') /\ CleanIsOnDisk'
           /\ \A b : Found(b)' = Found(b)
           /\ \A x \in Buf : x # p => buf'[x] = buf[x]
           /\ buf'[p] = r
           /\ \A b \in Block : p \in Found(b) => Shows(b, r.data)'
           /\ \A b \in Block : \A v : p \notin Found(b) /\ Shows(b, v) => Shows(b, v)'
  <1>1. /\ buf \in [Buf -> BufferOf] /\ buf' \in [Buf -> BufferOf] /\ buf'[p] = r /\ PoolSound
        /\ \A x \in Buf : x # p => buf'[x] = buf[x]
    BY DEF IInv, PoolSound
  <1>2. \A x \in Buf : buf'[x].dev = buf[x].dev /\ buf'[x].nr = buf[x].nr
    BY <1>1
  <1>3. \A b : Found(b)' = Found(b)
    BY <1>2 DEF Found
  <1>4. buf2' = buf2 /\ buf2_idx' = buf2_idx /\ b2_count' = b2_count
    BY DEF cache2
  <1>5. PoolSound'
    <2>1. \A x \in Buf : Named(buf'[x])
      BY <1>1, <1>2 DEF PoolSound, Named, Name
    <2>2. NoTwoCopies'
      BY <1>1, <1>2 DEF PoolSound, NoTwoCopies
    <2> QED BY <1>1, <2>1, <2>2 DEF PoolSound
  <1>6. CleanIsOnDisk'
    <2>1. ASSUME NEW x \in Buf, buf'[x].dev # NO_DEV, ~buf'[x].dirty
          PROVE  buf'[x].data = disk'[Name(buf'[x])]
      <3>1. CASE x = p
        BY <1>1, <2>1, <3>1
      <3>2. CASE x # p
        <4>1. buf'[x] = buf[x] /\ Name(buf[x]) \in Block /\ x \in Found(Name(buf[x]))
          BY <1>1, <2>1, <3>2, FoundIs
        <4>2. p \notin Found(Name(buf[x]))
          BY <1>1, <3>2, <4>1, FoundIs
        <4>3. disk'[Name(buf[x])] = disk[Name(buf[x])]
          BY <4>1, <4>2
        <4> QED BY <2>1, <4>1, <4>3 DEF IInv, CleanIsOnDisk, Name
      <3> QED BY <3>1, <3>2
    <2>2. ASSUME NEW b \in Block, Found(b)' = {}, InCache2(b, buf2', b2_count')
          PROVE  buf2'[Newest(b, buf2', buf2_idx')].data = disk'[b]
      <3>1. Found(b) = {} /\ InCache2(b, buf2, b2_count)
        BY <1>3, <1>4, <2>2
      <3>2. disk'[b] = disk[b]
        BY <3>1
      <3> QED BY <1>4, <3>1, <3>2 DEF IInv, CleanIsOnDisk
    <2> QED BY <2>1, <2>2 DEF CleanIsOnDisk, Name
  <1>7. ASSUME NEW b \in Block, p \in Found(b)
        PROVE  Shows(b, r.data)'
    <2>1. PICK v : v = r.data
      OBVIOUS
    <2>2. p \in Found(b)' /\ buf'[p].data = v
      BY <1>1, <1>3, <1>7, <2>1
    <2>3. Shows(b, v)'
      BY <2>2 DEF Shows
    <2> QED BY <2>1, <2>3
  <1>8. ASSUME NEW b \in Block, NEW v, p \notin Found(b), Shows(b, v)
        PROVE  Shows(b, v)'
    <2>1. CASE Found(b) = {}
      <3>1. disk[b] = v /\ disk'[b] = disk[b]
        BY <1>8, <2>1 DEF Shows
      <3> QED BY <1>3, <2>1, <3>1 DEF Shows
    <2>2. CASE Found(b) # {}
      <3>1. PICK x \in Found(b) : buf[x].data = v
        BY <1>8, <2>2 DEF Shows
      <3>2. x \in Buf /\ x # p
        BY <1>8 DEF Found
      <3>3. x \in Found(b)' /\ buf'[x].data = v
        BY <1>1, <1>3, <3>1, <3>2
      <3> QED BY <3>3 DEF Shows
    <2> QED BY <2>1, <2>2
  <1> QED BY <1>1, <1>3, <1>4, <1>5, <1>6, <1>7, <1>8 DEF IInv

(* A change to a held buffer is a write of its block, and of no other. *)
LEMMA ModifyStep ==
    ASSUME IInv, NEW p \in Buf, NEW v \in Value, Modify(p, v)
    PROVE  /\ IInv'
           /\ \E b \in Block : /\ Shows(b, v)'
                               /\ \A x \in Block : \A w : x # b /\ Shows(x, w) => Shows(x, w)'
  <1>1. /\ job = Idle /\ job' = Idle /\ buf[p].count > 0 /\ buf[p].dev # NO_DEV
        /\ buf' = [buf EXCEPT ![p].data = v, ![p].dirty = TRUE]
        /\ UNCHANGED <<lru, bufs_in_use, cache2, disk>>
        /\ buf \in [Buf -> BufferOf] /\ PoolSound /\ disk' \in [Block -> Value]
    BY DEF Modify, IInv, PoolSound
  <1>2. PICK r : r = [buf[p] EXCEPT !.data = v, !.dirty = TRUE]
    OBVIOUS
  <1>3. /\ r \in BufferOf /\ r.dev = buf[p].dev /\ r.nr = buf[p].nr /\ r.dirty = TRUE /\ r.count = buf[p].count /\ r.data = v
        /\ buf' = [buf EXCEPT ![p] = r]
    BY <1>1, <1>2 DEF BufferOf
  <1>4. (\A b \in Block : disk'[b] = disk[b]) /\ UNCHANGED cache2 /\ (r.dev # NO_DEV /\ ~r.dirty => r.data = disk'[Name(r)])
    BY <1>1, <1>3
  <1>a. \A b \in Block : disk'[b] = disk[b] \/ (p \in Found(b) /\ disk'[b] = r.data)
    BY <1>4
  <1>b. disk' \in [Block -> Value]
    BY <1>1
  <1>5. PoolSound' /\ RingSound(buf2', buf2_idx', b2_count') /\ CleanIsOnDisk'
    BY <1>3, <1>4, <1>a, <1>b, OneChanged, ZenonT(30)
  <1>6. (\A x \in Buf : x # p => buf'[x] = buf[x]) /\ buf'[p] = r
    BY <1>1, <1>3
  <1>7. \A b \in Block : p \in Found(b) => Shows(b, r.data)'
    BY <1>3, <1>4, <1>a, <1>b, OneChanged, ZenonT(30)
  <1>8. \A b \in Block : \A w : p \notin Found(b) /\ Shows(b, w) => Shows(b, w)'
    BY <1>3, <1>4, <1>a, <1>b, OneChanged, ZenonT(30)
  <1>9. ChainSound'
    <2>1. Free' = Free
      BY <1>1, <1>3, <1>6 DEF Free
    <2> QED BY <1>1, <2>1 DEF IInv, ChainSound
  <1>10. IInv'
    BY <1>1, <1>5, <1>9, JobIdle DEF IInv
  <1>11. PICK b \in Block : p \in Found(b)
    BY <1>1, FoundIs
  <1>12. Shows(b, v)'
    <2>1. Shows(b, r.data)'
      BY <1>7, <1>11
    <2> QED BY <1>3, <2>1
  <1>13. \A x \in Block : \A w : x # b /\ Shows(x, w) => Shows(x, w)'
    <2>1. \A x \in Block : x # b => p \notin Found(x)
      BY <1>1, <1>11, FoundIs
    <2> QED BY <1>8, <2>1
  <1> QED BY <1>10, <1>11, <1>12, <1>13

(* put_block(): what it writes is what the block shows. *)
LEMMA PutStep ==
    ASSUME IInv, Writes = 1, NEW p \in Buf, NEW type, put_block(p, type)
    PROVE  /\ IInv' /\ \A b \in Block : \A v : Shows(b, v) => Shows(b, v)'
           /\ \A b \in Block : disk'[b] = disk[b] \/ Shows(b, disk'[b])
  <1> DEFINE last == buf[p].count = 1
             wr == type = "ZUPER_BLOCK" /\ last /\ buf[p].dirty /\ buf[p].dev # NO_DEV
  <1>1. /\ job = Idle /\ job' = Idle /\ buf[p].count > 0 /\ UNCHANGED cache2
        /\ bufs_in_use' = bufs_in_use - (IF last THEN 1 ELSE 0)
        /\ lru' = IF ~last THEN lru ELSE IF type = "ZUPER_BLOCK" THEN <<p>> \o lru ELSE Append(lru, p)
        /\ buf' = [buf EXCEPT ![p] = [buf[p] EXCEPT !.count = @ - 1, !.dirty = @ /\ ~wr]]
        /\ disk' = IF wr THEN [disk EXCEPT ![[dev |-> buf[p].dev, nr |-> buf[p].nr]] = buf[p].data] ELSE disk
    BY DEF put_block
  <1>2. /\ buf \in [Buf -> BufferOf] /\ buf[p] \in BufferOf /\ PoolSound /\ disk \in [Block -> Value]
        /\ IsChain(lru, Free) /\ bufs_in_use = NR_BUFS - Len(lru)
        /\ job.bp = 0 /\ job'.bp = 0
    BY <1>1, IdleIs DEF IInv, PoolSound, ChainSound
  <1> HIDE DEF wr
  <1>3. PICK r : r = [buf[p] EXCEPT !.count = @ - 1, !.dirty = @ /\ ~wr]
    OBVIOUS
  <1>4. /\ r \in BufferOf /\ r.dev = buf[p].dev /\ r.nr = buf[p].nr /\ r.count = buf[p].count - 1 /\ r.data = buf[p].data
        /\ r.dirty = (buf[p].dirty /\ ~wr)
        /\ buf' = [buf EXCEPT ![p] = r]
    <2>1. buf[p].count \in 1 .. MaxUses /\ buf[p].count - 1 \in 0 .. MaxUses
      <3>1. PICK n : n = buf[p].count
        OBVIOUS
      <3>2. n \in 0 .. MaxUses /\ n > 0 /\ MaxUses \in Nat
        BY <1>1, <1>2, <3>1, CacheAssumption DEF BufferOf
      <3>3. n \in 1 .. MaxUses /\ n - 1 \in 0 .. MaxUses
        BY <3>2
      <3> QED BY <3>1, <3>3
    <2>2. PICK d \in BOOLEAN : d = (buf[p].dirty /\ ~wr)
      OBVIOUS
    <2>3. r = [buf[p] EXCEPT !.count = buf[p].count - 1, !.dirty = d]
      BY <1>3, <2>2
    <2>4. /\ r \in BufferOf /\ r.dev = buf[p].dev /\ r.nr = buf[p].nr /\ r.count = buf[p].count - 1 /\ r.data = buf[p].data
          /\ r.dirty = d
      BY <1>2, <2>1, <2>3 DEF BufferOf
    <2>5. buf' = [buf EXCEPT ![p] = r]
      BY <1>1, <1>3
    <2> QED BY <2>2, <2>4, <2>5
  <1>5. wr => Name(r) \in Block /\ p \in Found(Name(r)) /\ disk' = [disk EXCEPT ![Name(r)] = r.data]
    BY <1>1, <1>2, <1>4, FoundIs DEF wr, Name
  <1>6. /\ disk' \in [Block -> Value]
        /\ \A b \in Block : disk'[b] = disk[b] \/ (p \in Found(b) /\ disk'[b] = r.data)
    <2>1. CASE wr
      BY <1>2, <1>4, <1>5, <2>1 DEF BufferOf
    <2>2. CASE ~wr
      BY <1>1, <1>2, <2>2
    <2> QED BY <2>1, <2>2
  <1>7. r.dev # NO_DEV /\ ~r.dirty => r.data = disk'[Name(r)]
    <2>1. CASE wr
      BY <1>2, <1>5, <2>1
    <2>2. CASE ~wr
      <3>1. disk' = disk /\ (r.dirty <=> buf[p].dirty)
        BY <1>1, <1>4, <2>2
      <3> QED BY <1>4, <3>1 DEF IInv, CleanIsOnDisk, Name
    <2> QED BY <2>1, <2>2
  <1>8. PoolSound' /\ RingSound(buf2', buf2_idx', b2_count') /\ CleanIsOnDisk'
    BY <1>1, <1>4, <1>6, <1>7, OneChanged
  <1>9. (\A x \in Buf : x # p => buf'[x] = buf[x]) /\ buf'[p] = r
    BY <1>2, <1>4
  <1>10. \A b \in Block : p \in Found(b) => Shows(b, r.data)'
    BY <1>1, <1>4, <1>6, <1>7, OneChanged
  <1>11. \A b \in Block : \A w : p \notin Found(b) /\ Shows(b, w) => Shows(b, w)'
    BY <1>1, <1>4, <1>6, <1>7, OneChanged
  <1>12. ChainSound'
    <2>0. Len(lru) \in Nat /\ NR_BUFS \in Nat /\ buf[p].count \in Nat /\ p # 0
      BY <1>2, BufFinite DEF IsChain, BufferOf
    <2>1. CASE last
      <3>1. p \in Buf \ Free
        BY <2>1 DEF Free
      <3>2. lru' = Append(lru, p) \/ lru' = <<p>> \o lru
        BY <1>1, <2>1
      <3>3. IsChain(lru', Free \cup {p})
        BY <1>2, <3>1, <3>2, ChainAdd
      <3>4. Len(lru') = Len(lru) + 1
        BY <1>2, <3>1, <3>2, ChainAdd
      <3>5. r.count = 0
        BY <1>4, <2>1
      <3>6. Free' = Free \cup {p}
        BY <1>2, <1>9, <2>0, <3>5 DEF Free
      <3>7. bufs_in_use' = NR_BUFS - Len(lru')
        BY <1>1, <1>2, <2>0, <2>1, <3>4
      <3> QED BY <3>3, <3>6, <3>7 DEF ChainSound
    <2>2. CASE ~last
      <3>1. lru' = lru /\ bufs_in_use' = bufs_in_use
        BY <1>1, <1>2, <2>0, <2>2
      <3>2. r.count # 0 /\ buf[p].count # 0
        BY <1>1, <1>4, <2>0, <2>2
      <3>3. Free' = Free
        BY <1>2, <1>9, <3>2 DEF Free
      <3> QED BY <1>2, <3>1, <3>3 DEF ChainSound
    <2> QED BY <2>1, <2>2
  <1>13. IInv'
    BY <1>1, <1>8, <1>12, JobIdle DEF IInv
  <1>14. ASSUME NEW b \in Block, NEW v, Shows(b, v)
         PROVE  Shows(b, v)'
    <2>1. CASE p \in Found(b)
      <3>1. v = r.data
        BY <1>2, <1>4, <1>14, <2>1, FoundIs DEF Shows
      <3>2. Shows(b, r.data)'
        BY <1>10, <2>1
      <3> QED BY <3>1, <3>2
    <2>2. CASE p \notin Found(b)
      BY <1>11, <1>14, <2>2
    <2> QED BY <2>1, <2>2
  <1>15. ASSUME NEW b \in Block
         PROVE  disk'[b] = disk[b] \/ Shows(b, disk'[b])
    BY <1>4, <1>6 DEF Shows
  <1> QED BY <1>13, <1>14, <1>15

(* Read-ahead is over: what was read is what the disk holds, of blocks     *)
(* that no buffer had.                                                     *)
LEMMA GatherStepSound ==
    ASSUME IInv, GatherStep
    PROVE  IInv' /\ \A b \in Block : \A v : Shows(b, v) => Shows(b, v)'
  <1> DEFINE G == {job.q[i] : i \in 1 .. Len(job.q)}
  <1>1. /\ job.q \in Seq(Buf) /\ Len(job.q) \in Nat /\ job.q # <<>> /\ job.bp = 0
        /\ buf \in [Buf -> BufferOf] /\ disk \in [Block -> Value] /\ PoolSound
    <2>1. job.bp # 0 => job.op \in {"get", "again", "zero", "ahead"}
      BY DEF IInv, JobSound, TakenSound
    <2>2. job.bp = 0 /\ job.op \in {"ahead", "gather"}
      BY <2>1 DEF GatherStep
    <2>3. job.q # <<>>
      BY <2>2 DEF IInv, JobSound, TakenSound
    <2> QED BY <2>2, <2>3, GatheredIs DEF IInv, PoolSound
  <1> DEFINE d == job.blk.dev
  <1>2. PICK n \in Together(job.q) \cup (IF Reads THEN {0} ELSE {}) :
                       buf' = [p \in Buf |->
                            IF p \notin Range(job.q) THEN buf[p]
                            ELSE IF \E i \in 1 .. n : job.q[i] = p
                                 THEN [buf[p] EXCEPT !.count = 0, !.dev = d, !.data = disk[[dev |-> d, nr |-> buf[p].nr]]]
                                 ELSE [Empty(p) EXCEPT !.count = 0]]
    BY Zenon DEF GatherStep
  <1>3. /\ lru' = lru \o job.q /\ bufs_in_use' = bufs_in_use - Len(job.q)
        /\ job' = [Idle EXCEPT !.op = "again", !.blk = [dev |-> d, nr |-> buf[job.q[1]].nr]]
        /\ UNCHANGED <<cache2, disk>>
    BY DEF GatherStep
  <1>4. Range(job.q) = G
    BY <1>1 DEF Range
  <1>5. ASSUME NEW x \in G
        PROVE  /\ x \in Buf /\ buf[x].count = 1 /\ buf[x].dev = NO_DEV
               /\ [dev |-> d, nr |-> buf[x].nr] \in Block /\ Found([dev |-> d, nr |-> buf[x].nr]) = {}
               /\ buf[x] \in BufferOf
    BY <1>1, <1>2, GatheredIs
  <1>6. ASSUME NEW x \in G, NEW y \in G, x # y
        PROVE  buf[x].nr # buf[y].nr
    BY <1>6, GatheredIs
  <1>7. \A i, k \in 1 .. Len(job.q) : i # k => job.q[i] # job.q[k]
    BY GatheredIs
  <1>8. IsChain(job.q, G)
    BY <1>1, <1>4, <1>7 DEF IsChain
  <1>o. [dev |-> d, nr |-> buf[job.q[1]].nr] \in Block
    <2>1. 1 \in 1 .. Len(job.q)
      BY <1>1
    <2>2. job.q[1] \in G
      BY <2>1
    <2> QED BY <1>5, <2>2
  <1> HIDE DEF G, d
  <1>9. ASSUME NEW x \in Buf, x \notin G
        PROVE  buf'[x] = buf[x]
    BY <1>2, <1>4, <1>9
  <1>10. ASSUME NEW x \in G
         PROVE  \/ buf'[x] = [buf[x] EXCEPT !.count = 0, !.dev = d, !.data = disk[[dev |-> d, nr |-> buf[x].nr]]]
                \/ buf'[x] = [Empty(x) EXCEPT !.count = 0]
    BY <1>2, <1>4, <1>5
  <1>11. ASSUME NEW x \in G
         PROVE  /\ buf'[x] \in BufferOf /\ buf'[x].count = 0
                /\ \/ /\ buf'[x].dev = d /\ buf'[x].nr = buf[x].nr
                      /\ buf'[x].data = disk[[dev |-> d, nr |-> buf[x].nr]]
                   \/ buf'[x].dev = NO_DEV
    <2>1. buf[x] \in BufferOf /\ [dev |-> d, nr |-> buf[x].nr] \in Block
      BY <1>5
    <2>2. d \in Dev /\ disk[[dev |-> d, nr |-> buf[x].nr]] \in Value /\ 0 \in 0 .. MaxUses /\ ZERO \in Value
      <3>1. PICK b \in Block : b = [dev |-> d, nr |-> buf[x].nr]
        BY <2>1
      <3>2. b.dev = d /\ disk[b] \in Value
        BY <1>1, <3>1
      <3> QED BY <3>1, <3>2, CacheAssumption DEF Dev
    <2>3. CASE buf'[x] = [buf[x] EXCEPT !.count = 0, !.dev = d, !.data = disk[[dev |-> d, nr |-> buf[x].nr]]]
      <3>1. PICK v \in Value : v = disk[[dev |-> d, nr |-> buf[x].nr]]
        BY <2>2
      <3>2. buf'[x] = [buf[x] EXCEPT !.count = 0, !.dev = d, !.data = v]
        BY <2>3, <3>1
      <3>3. buf'[x] \in BufferOf /\ buf'[x].count = 0 /\ buf'[x].dev = d /\ buf'[x].nr = buf[x].nr /\ buf'[x].data = v
        BY <2>1, <2>2, <3>2 DEF BufferOf
      <3> QED BY <3>1, <3>3
    <2>4. CASE buf'[x] = [Empty(x) EXCEPT !.count = 0]
      <3>1. buf'[x] = [buf[x] EXCEPT !.dev = NO_DEV, !.nr = 0, !.data = ZERO, !.count = 0]
        BY <2>1, <2>4 DEF Empty, BufferOf
      <3>2. buf'[x] \in BufferOf /\ buf'[x].count = 0 /\ buf'[x].dev = NO_DEV
        BY <2>1, <2>2, <3>1 DEF BufferOf
      <3> QED BY <3>2
    <2> QED BY <1>10, <2>3, <2>4
  <1>12. buf' \in [Buf -> BufferOf]
    <2>1. \A x \in Buf : buf'[x] \in BufferOf
      BY <1>1, <1>9, <1>11
    <2>2. DOMAIN buf' = Buf /\ buf' = [x \in DOMAIN buf' |-> buf'[x]]
      BY <1>2
    <2> QED BY <2>1, <2>2
  <1>13. ASSUME NEW x \in Buf, buf'[x].dev # NO_DEV
         PROVE  \/ buf'[x] = buf[x] /\ x \notin G /\ Name(buf'[x]) \in Block /\ x \in Found(Name(buf'[x]))
                \/ /\ x \in G /\ Name(buf'[x]) \in Block /\ Found(Name(buf'[x])) = {}
                   /\ buf'[x].data = disk[Name(buf'[x])] /\ buf'[x].nr = buf[x].nr
    <2>1. CASE x \notin G
      <3>1. buf'[x] = buf[x]
        BY <1>9, <2>1
      <3> QED BY <1>1, <1>13, <2>1, <3>1, FoundIs
    <2>2. CASE x \in G
      <3>1. /\ buf'[x].dev = d /\ buf'[x].nr = buf[x].nr
            /\ buf'[x].data = disk[[dev |-> d, nr |-> buf[x].nr]]
        BY <1>11, <1>13, <2>2
      <3>2. Name(buf'[x]) = [dev |-> d, nr |-> buf[x].nr]
        BY <3>1 DEF Name
      <3> QED BY <1>5, <2>2, <3>1, <3>2
    <2> QED BY <2>1, <2>2
  <1>14. buf2' = buf2 /\ buf2_idx' = buf2_idx /\ b2_count' = b2_count /\ disk' = disk
    BY <1>3 DEF cache2
  <1>15. PoolSound'
    <2>1. \A x \in Buf : Named(buf'[x])
      BY <1>13 DEF Named
    <2>2. ASSUME NEW x \in Buf, NEW y \in Buf, x # y, buf'[x].dev # NO_DEV, Name(buf'[x]) = Name(buf'[y])
          PROVE  FALSE
      <3>1. buf'[y].dev # NO_DEV /\ buf'[x].nr = buf'[y].nr
        BY <2>2 DEF Name
      <3>2. ~(x \in G /\ y \in G)
        BY <1>6, <1>13, <2>2, <3>1
      <3>3. x \notin G /\ y \notin G
        BY <1>13, <2>2, <3>1, <3>2
      <3>4. buf'[x] = buf[x] /\ buf'[y] = buf[y]
        BY <1>9, <3>3
      <3> QED BY <1>1, <2>2, <3>1, <3>4 DEF PoolSound, NoTwoCopies, Name
    <2>3. NoTwoCopies'
      BY <2>2 DEF NoTwoCopies, Name
    <2> QED BY <1>1, <1>12, <1>14, <2>1, <2>3 DEF PoolSound
  <1>16. \A b \in Block : Found(b) \subseteq Found(b)'
    <2> SUFFICES ASSUME NEW b \in Block, NEW x \in Found(b)
                 PROVE  x \in Found(b)'
      OBVIOUS
    <2>1. x \in Buf /\ buf[x].dev # NO_DEV
      BY BlockIs DEF Found
    <2>2. x \notin G
      BY <1>5, <2>1
    <2>3. buf'[x] = buf[x]
      BY <1>9, <2>1, <2>2
    <2> QED BY <2>3 DEF Found
  <1>17. CleanIsOnDisk'
    <2>1. ASSUME NEW x \in Buf, buf'[x].dev # NO_DEV, ~buf'[x].dirty
          PROVE  buf'[x].data = disk[Name(buf'[x])]
      BY <1>13, <2>1 DEF IInv, CleanIsOnDisk, Name
    <2>2. ASSUME NEW b \in Block, Found(b)' = {}, InCache2(b, buf2', b2_count')
          PROVE  buf2'[Newest(b, buf2', buf2_idx')].data = disk'[b]
      <3>1. Found(b) = {}
        BY <1>16, <2>2
      <3> QED BY <1>14, <2>2, <3>1 DEF IInv, CleanIsOnDisk
    <2> QED BY <1>14, <2>1, <2>2 DEF CleanIsOnDisk, Name
  <1>18. /\ job'.op = "again" /\ job'.bp = 0 /\ job'.dirty = <<>> /\ job'.q = <<>> /\ job'.dev = NO_DEV
         /\ job'.blk \in Block /\ job' \in JobType
    <2>1. PICK b : b = [dev |-> d, nr |-> buf[job.q[1]].nr]
      OBVIOUS
    <2>2. b \in Block
      BY <1>o, <2>1
    <2>3. b \in [dev : Dev \cup {NO_DEV}, nr : Nr \cup {0}]
      BY <2>2, BlockIs
    <2>4. job' = [op |-> "again", blk |-> b, bp |-> 0, dev |-> NO_DEV, dirty |-> <<>>, q |-> <<>>]
      BY <1>3, <2>1 DEF Idle
    <2> QED BY <2>2, <2>3, <2>4 DEF JobType
  <1>19. IsChain(lru', Free') /\ Len(lru') = Len(lru) + Len(job.q)
    <2>0. PICK q, t, H : q = job.q /\ t = lru' /\ H = Free'
      OBVIOUS
    <2>1. IsChain(lru, Free) /\ IsChain(q, G)
      BY <1>8, <2>0 DEF IInv, ChainSound
    <2>2. \A x : ~(x \in Free /\ x \in G)
      <3>1. \A x \in G : buf[x].count = 1
        BY <1>5
      <3>2. \A x \in Free : buf[x].count = 0
        BY DEF Free
      <3> QED BY <3>1, <3>2
    <2>3. \A x : x \in H <=> x \in Free \/ x \in G
      <3>1. ASSUME NEW x \in Buf
            PROVE  buf'[x].count = 0 <=> buf[x].count = 0 \/ x \in G
        BY <1>9, <1>11
      <3>2. \A x : x \in H <=> x \in Buf /\ buf'[x].count = 0 /\ x # 0
        BY <1>18, <2>0 DEF Free
      <3>3. \A x : x \in Free <=> x \in Buf /\ buf[x].count = 0 /\ x # 0
        BY <1>1 DEF Free
      <3>4. \A x : x \in G => x \in Buf /\ x # 0
        BY <1>5, BufFinite
      <3> QED BY <3>1, <3>2, <3>3, <3>4
    <2>4. t = lru \o q
      BY <1>3, <2>0
    <2>5. IsChain(t, H)
      BY <2>1, <2>2, <2>3, <2>4, ChainConcat
    <2>6. Len(t) = Len(lru) + Len(q)
      BY <2>1, <2>2, <2>3, <2>4, ChainConcat
    <2> QED BY <2>0, <2>5, <2>6
  <1>20. /\ bufs_in_use' = NR_BUFS - Len(lru') /\ bufs_in_use' < NR_BUFS
    <2>1. bufs_in_use = NR_BUFS - Len(lru) /\ Len(lru) \in Nat /\ NR_BUFS \in Nat
      BY BufFinite DEF IInv, ChainSound, IsChain
    <2>2. Len(job.q) # 0
      BY <1>1
    <2> QED BY <1>1, <1>3, <1>19, <2>1, <2>2
  <1>21. ChainSound'
    BY <1>19, <1>20 DEF ChainSound
  <1>22. JobSound'
    BY <1>18, <1>20 DEF JobSound, TakenSound, DirtySound, GatheredSound
  <1>23. ASSUME NEW b \in Block, NEW v, Shows(b, v)
         PROVE  Shows(b, v)'
    <2>1. CASE Found(b) # {}
      <3>1. PICK x \in Found(b) : buf[x].data = v
        BY <1>23, <2>1 DEF Shows
      <3>2. x \in Buf /\ buf[x].dev # NO_DEV
        BY BlockIs DEF Found
      <3>3. x \notin G
        BY <1>5, <3>2
      <3>4. buf'[x].data = v /\ x \in Found(b)'
        BY <1>9, <1>16, <3>1, <3>2, <3>3
      <3> QED BY <3>4 DEF Shows
    <2>2. CASE Found(b) = {}
      <3>1. disk[b] = v
        BY <1>23, <2>2 DEF Shows
      <3>2. CASE Found(b)' = {}
        BY <1>14, <3>1, <3>2 DEF Shows
      <3>3. CASE Found(b)' # {}
        <4>1. PICK x : x \in Found(b)'
          BY <3>3
        <4>2. x \in Buf /\ buf'[x].dev # NO_DEV /\ Name(buf'[x]) = b
          BY <4>1, BlockIs DEF Found, Name
        <4>3. buf'[x].data = disk[b]
          BY <1>13, <2>2, <4>2
        <4> QED BY <3>1, <4>1, <4>3 DEF Shows
      <3> QED BY <3>2, <3>3
    <2> QED BY <2>1, <2>2
  <1>24. IInv'
    BY <1>14, <1>15, <1>17, <1>21, <1>22 DEF IInv
  <1> QED BY <1>23, <1>24

-----------------------------------------------------------------------------
(* Sync, and the start. *)

(* A sync starts: no buffer changes. *)
LEMMA StartSyncStep ==
    ASSUME IInv, NEW d \in Dev \cup {NO_DEV}, StartSync(d)
    PROVE  IInv' /\ \A x, v : Shows(x, v)' = Shows(x, v)
  <1>1. /\ job = Idle /\ job' = [Idle EXCEPT !.op = "sync", !.blk.dev = d]
        /\ buf' = buf /\ UNCHANGED <<cache2, disk, lru, bufs_in_use>>
        /\ buf \in [Buf -> BufferOf]
    BY DEF StartSync, IInv, PoolSound
  <1>2. /\ job'.op = "sync" /\ job'.bp = 0 /\ job'.dirty = <<>> /\ job'.q = <<>> /\ job' \in JobType
    <2>1. job' = [op |-> "sync", blk |-> [dev |-> d, nr |-> 0], bp |-> 0, dev |-> NO_DEV, dirty |-> <<>>, q |-> <<>>]
      BY <1>1 DEF Idle, NoBlock
    <2> QED BY <2>1 DEF JobType
  <1>3. /\ PoolSound' /\ RingSound(buf2', buf2_idx', b2_count') /\ CleanIsOnDisk'
        /\ \A x, v : Shows(x, v)' = Shows(x, v)
    BY <1>1, SameBlocks
  <1>4. ChainSound'
    <2>1. Free' = Free
      BY <1>1, <1>2, IdleIs DEF Free
    <2> QED BY <1>1, <2>1 DEF IInv, ChainSound
  <1>5. JobSound'
    BY <1>2 DEF JobSound, TakenSound, DirtySound, GatheredSound
  <1> QED BY <1>3, <1>4, <1>5 DEF IInv

(* While FS syncs it has no buffer in its hands. *)
LEMMA SyncIs ==
    ASSUME IInv, job.op \in {"sync", "synced"}
    PROVE  job.bp = 0 /\ job.q = <<>>
  BY DEF IInv, JobSound, TakenSound, GatheredSound

(* A sync collects the dirty blocks of one device. *)
LEMMA SyncStepSound ==
    ASSUME IInv, SyncStep
    PROVE  IInv' /\ \A x, v : Shows(x, v)' = Shows(x, v)
  <1>1. /\ job.op = "sync" /\ job.dirty = <<>> /\ job.bp = 0 /\ job.q = <<>> /\ job \in JobType
        /\ buf' = buf /\ UNCHANGED <<cache2, disk, lru, bufs_in_use>>
        /\ buf \in [Buf -> BufferOf] /\ PoolSound
    BY SyncIs DEF SyncStep, IInv, PoolSound, JobSound
  <1>2. /\ PoolSound' /\ RingSound(buf2', buf2_idx', b2_count') /\ CleanIsOnDisk'
        /\ \A x, v : Shows(x, v)' = Shows(x, v)
    BY <1>1, SameBlocks
  <1>3. ASSUME job'.bp = 0
        PROVE  ChainSound'
    <2>1. Free' = Free
      BY <1>1, <1>3 DEF Free
    <2> QED BY <1>1, <2>1 DEF IInv, ChainSound
  <1>4. CASE ToSync = {}
    <2>1. job' = [job EXCEPT !.op = "synced", !.dev = NO_DEV]
      BY <1>4 DEF SyncStep
    <2>2. job'.op = "synced" /\ job'.bp = 0 /\ job'.dirty = <<>> /\ job'.q = <<>> /\ job' \in JobType
      BY <1>1, <2>1 DEF JobType
    <2>3. \A p \in Buf : buf'[p].dev # NO_DEV => ~buf'[p].dirty
      BY <1>1, <1>4 DEF ToSync
    <2>4. JobSound'
      BY <2>2, <2>3 DEF JobSound, TakenSound, DirtySound, GatheredSound
    <2> QED BY <1>2, <1>3, <2>2, <2>4 DEF IInv
  <1>5. CASE ToSync # {}
    <2>1. PICK d, s : /\ d = buf[CHOOSE p \in ToSync : \A x \in ToSync : p <= x].dev /\ s = flushall(d)
                      /\ job' = [job EXCEPT !.dev = d, !.dirty = s]
      BY <1>5 DEF SyncStep
    <2>2. d \in Dev /\ d # NO_DEV
      <3>1. \E p \in ToSync : \A x \in ToSync : p <= x
        <4>1. ToSync \in SUBSET Nat
          BY CacheAssumption DEF ToSync, Buf
        <4> QED BY <1>5, <4>1, LeastNumber
      <3>2. PICK p \in ToSync : d = buf[p].dev
        BY <2>1, <3>1
      <3>3. buf[p] \in BufferOf /\ buf[p].dev # NO_DEV
        BY <1>1, <3>2 DEF ToSync
      <3> QED BY <3>2, <3>3 DEF BufferOf
    <2>3. s \in Seq(Buf)
      BY <1>1, <2>1, <2>2, FlushAll
    <2>4. \A i \in 1 .. Len(s) : buf[s[i]].dev = d
      BY <1>1, <2>1, <2>2, FlushAll
    <2>5. /\ job'.op = "sync" /\ job'.bp = 0 /\ job'.dev = d /\ job'.dirty = s /\ job'.q = <<>> /\ job' \in JobType
      BY <1>1, <2>1, <2>2, <2>3 DEF JobType
    <2>6. DirtySound'
      BY <1>1, <2>2, <2>4, <2>5 DEF DirtySound
    <2>7. JobSound'
      BY <2>5, <2>6 DEF JobSound, TakenSound, GatheredSound
    <2> QED BY <1>2, <1>3, <2>5, <2>7 DEF IInv
  <1> QED BY <1>4, <1>5

(* invalidate(): everything of the device is on the disk. *)
LEMMA InvalidateStep ==
    ASSUME IInv, job.op = "synced", job' = Idle, NEW d \in Dev, invalidate(d), UNCHANGED <<lru, bufs_in_use, disk>>
    PROVE  IInv' /\ \A b \in Block : \A v : Shows(b, v) => Shows(b, v)'
  <1>1. /\ buf' = [p \in Buf |-> IF buf[p].dev = d THEN Empty(p) ELSE buf[p]]
        /\ invalidate2(d) /\ job.bp = 0 /\ d # NO_DEV
        /\ buf \in [Buf -> BufferOf] /\ disk \in [Block -> Value] /\ PoolSound /\ disk' = disk
        /\ RingSound(buf2, buf2_idx, b2_count)
        /\ \A p \in Buf : buf[p].dev # NO_DEV => ~buf[p].dirty
    BY SyncIs, CacheAssumption DEF invalidate, IInv, PoolSound, JobSound
  <1>2. ASSUME NEW p \in Buf, buf[p].dev = d
        PROVE  buf'[p] \in BufferOf /\ buf'[p].dev = NO_DEV /\ buf'[p].count = buf[p].count
    <2>1. buf[p] \in BufferOf /\ buf'[p] = [buf[p] EXCEPT !.dev = NO_DEV, !.nr = 0, !.data = ZERO]
      BY <1>1, <1>2 DEF Empty
    <2> QED BY <2>1, CacheAssumption DEF BufferOf
  <1>3. ASSUME NEW p \in Buf, buf[p].dev # d
        PROVE  buf'[p] = buf[p]
    BY <1>1, <1>3
  <1>4. buf' \in [Buf -> BufferOf]
    <2>1. \A p \in Buf : buf'[p] \in BufferOf
      BY <1>1, <1>2, <1>3
    <2>2. DOMAIN buf' = Buf /\ buf' = [x \in DOMAIN buf' |-> buf'[x]]
      BY <1>1
    <2> QED BY <2>1, <2>2
  <1>5. /\ \A b \in Block : b.dev = d => Found(b)' = {}
        /\ \A b \in Block : b.dev # d => Found(b)' = Found(b)
    <2>1. \A b \in Block : b.dev # NO_DEV
      BY BlockIs
    <2> QED BY <1>1, <1>2, <1>3, <2>1 DEF Found
  <1>6. PoolSound'
    <2>1. \A p \in Buf : buf'[p].dev # NO_DEV => buf'[p] = buf[p]
      BY <1>2, <1>3
    <2>2. \A p \in Buf : Named(buf'[p])
      BY <1>1, <2>1 DEF PoolSound, Named
    <2>3. NoTwoCopies'
      <3> SUFFICES ASSUME NEW p \in Buf, NEW q \in Buf, p # q, buf'[p].dev # NO_DEV
                   PROVE  <<buf'[p].dev, buf'[p].nr>> # <<buf'[q].dev, buf'[q].nr>>
        BY DEF NoTwoCopies
      <3>1. buf'[p] = buf[p] /\ (buf'[q].dev = NO_DEV \/ buf'[q] = buf[q])
        BY <2>1
      <3> QED BY <1>1, <3>1 DEF PoolSound, NoTwoCopies
    <2> QED BY <1>1, <1>4, <2>2, <2>3 DEF PoolSound
  <1>7. PICK ring2, count2 : ring2 = buf2' /\ count2 = b2_count'
    OBVIOUS
  <1>8. /\ ring2 = [i \in 1 .. NR_BUF2 |-> IF buf2[i].dev = d THEN NoCopy ELSE buf2[i]]
        /\ count2 = [k \in Nr \cup {0} |->
                b2_count[k] - Cardinality({i \in 1 .. NR_BUF2 : buf2[i].dev = d /\ buf2[i].nr = k})]
        /\ buf2_idx' = buf2_idx
    <2>1. DOMAIN buf2 = 1 .. NR_BUF2 /\ DOMAIN b2_count = Nr \cup {0}
      BY <1>1 DEF RingSound
    <2> QED BY <1>1, <1>7, <2>1 DEF invalidate2
  <1>p. Dropped(d, buf2, b2_count, ring2, count2) /\ RingSound(buf2, buf2_idx, b2_count)
    BY <1>1, <1>8 DEF Dropped
  <1>9. RingSound(ring2, buf2_idx, count2)
    BY <1>p, RingDrop
  <1>10. \A b \in Block : b.dev = d => Copies(b, ring2) = {}
    BY <1>p, RingDrop
  <1>11. \A b \in Block : b.dev # d /\ Copies(b, ring2) # {} =>
                /\ InCache2(b, buf2, b2_count)
                /\ ring2[Newest(b, ring2, buf2_idx)].data = buf2[Newest(b, buf2, buf2_idx)].data
    BY <1>p, RingDrop
  <1>12. CleanIsOnDisk'
    <2>1. ASSUME NEW p \in Buf, buf'[p].dev # NO_DEV, ~buf'[p].dirty
          PROVE  buf'[p].data = disk[Name(buf'[p])]
      <3>1. buf'[p] = buf[p]
        BY <1>2, <1>3, <2>1
      <3> QED BY <2>1, <3>1 DEF IInv, CleanIsOnDisk, Name
    <2>2. ASSUME NEW b \in Block, Found(b)' = {}, InCache2(b, ring2, count2)
          PROVE  ring2[Newest(b, ring2, buf2_idx)].data = disk[b]
      <3>1. Copies(b, ring2) # {}
        BY <2>2 DEF InCache2
      <3>2. b.dev # d /\ Found(b) = {}
        BY <1>5, <1>10, <2>2, <3>1
      <3> QED BY <1>11, <3>1, <3>2 DEF IInv, CleanIsOnDisk
    <2>3. \A b \in Block : Found(b)' = {} /\ InCache2(b, buf2', b2_count') => buf2'[Newest(b, buf2', buf2_idx')].data = disk'[b]
      BY <1>1, <1>7, <1>8, <2>2
    <2> QED BY <1>1, <2>1, <2>3 DEF CleanIsOnDisk, Name
  <1>13. ChainSound'
    <2>1. job'.bp = 0 /\ lru' = lru /\ bufs_in_use' = bufs_in_use
      BY IdleIs
    <2>2. \A p \in Buf : buf'[p].count = buf[p].count
      BY <1>2, <1>3
    <2>3. Free' = Free
      BY <1>1, <2>1, <2>2 DEF Free
    <2> QED BY <2>1, <2>3 DEF IInv, ChainSound
  <1>14. IInv'
    BY <1>6, <1>7, <1>8, <1>9, <1>12, <1>13, JobIdle DEF IInv
  <1>15. ASSUME NEW b \in Block, NEW v, Shows(b, v)
         PROVE  Shows(b, v)'
    <2>1. CASE b.dev = d
      <3>1. disk[b] = v
        <4>1. CASE Found(b) = {}
          BY <1>15, <4>1 DEF Shows
        <4>2. CASE Found(b) # {}
          <5>1. PICK p \in Found(b) : buf[p].data = v
            BY <1>15, <4>2 DEF Shows
          <5>2. p \in Buf /\ buf[p].dev # NO_DEV /\ Name(buf[p]) = b
            BY <1>1, <5>1, FoundIs
          <5>3. ~buf[p].dirty
            BY <1>1, <5>2
          <5> QED BY <5>1, <5>2, <5>3 DEF IInv, CleanIsOnDisk, Name
        <4> QED BY <4>1, <4>2
      <3> QED BY <1>1, <1>5, <2>1, <3>1 DEF Shows
    <2>2. CASE b.dev # d
      <3>1. Found(b)' = Found(b) /\ \A p \in Found(b) : buf'[p] = buf[p]
        BY <1>3, <1>5, <2>2 DEF Found
      <3> QED BY <1>1, <1>15, <3>1 DEF Shows
    <2> QED BY <2>1, <2>2
  <1> QED BY <1>14, <1>15

(* The end of a sync: a device that is unmounted leaves both caches. *)
LEMMA EndSyncStep ==
    ASSUME IInv, EndSync
    PROVE  IInv' /\ \A b \in Block : \A v : Shows(b, v) => Shows(b, v)'
  <1>1. /\ job.op = "synced" /\ job' = Idle /\ UNCHANGED <<lru, bufs_in_use, disk>>
        /\ job.bp = 0 /\ job.blk.dev \in Dev \cup {NO_DEV} /\ buf \in [Buf -> BufferOf]
    BY SyncIs DEF EndSync, IInv, JobSound, JobType, PoolSound
  <1>2. CASE job.blk.dev = NO_DEV
    <2>1. buf' = buf /\ UNCHANGED cache2
      BY <1>2 DEF EndSync
    <2>2. /\ PoolSound' /\ RingSound(buf2', buf2_idx', b2_count') /\ CleanIsOnDisk'
          /\ \A x, v : Shows(x, v)' = Shows(x, v)
      BY <1>1, <2>1, SameBlocks
    <2>3. ChainSound'
      <3>1. Free' = Free
        BY <1>1, <2>1, IdleIs DEF Free
      <3> QED BY <1>1, <3>1 DEF IInv, ChainSound
    <2>4. IInv'
      BY <1>1, <2>2, <2>3, JobIdle DEF IInv
    <2> QED BY <2>2, <2>4
  <1>3. CASE job.blk.dev # NO_DEV
    <2>1. invalidate(job.blk.dev) /\ job.blk.dev \in Dev
      BY <1>1, <1>3 DEF EndSync
    <2> QED BY <1>1, <2>1, InvalidateStep
  <1> QED BY <1>2, <1>3

(* Memory is empty: at the start, and after a crash. *)
Fresh ==
    /\ buf = buf_pool /\ lru = chain_pool /\ bufs_in_use = 0
    /\ buf2 = empty_cache2 /\ buf2_idx = 0 /\ b2_count = no_copies
    /\ job = Idle /\ disk \in [Block -> Value]

(* A cache just initialised satisfies the invariant and shows the disk. *)
LEMMA FreshSound == Fresh => IInv /\ \A b \in Block : Shows(b, disk[b])
  <1> SUFFICES ASSUME Fresh
               PROVE  IInv /\ \A b \in Block : Shows(b, disk[b])
    OBVIOUS
  <1>1. /\ buf = buf_pool /\ lru = chain_pool /\ bufs_in_use = 0
        /\ buf2 = empty_cache2 /\ buf2_idx = 0 /\ b2_count = no_copies
        /\ job = Idle /\ disk \in [Block -> Value]
    BY DEF Fresh
  <1>2. \A p \in Buf : buf[p].dev = NO_DEV /\ buf[p].count = 0
    BY <1>1 DEF buf_pool
  <1>3. buf \in [Buf -> BufferOf]
    BY <1>1, CacheAssumption DEF buf_pool, BufferOf
  <1>4. \A b \in Block : Found(b) = {}
    BY <1>2, BlockIs DEF Found
  <1>5. PoolSound
    BY <1>1, <1>2, <1>3 DEF PoolSound, Named, NoTwoCopies
  <1>6. RingSound(buf2, buf2_idx, b2_count)
    <2>1. NR_BUF2 \in Nat /\ ZERO \in Value
      BY CacheAssumption
    <2>2. \A i \in 1 .. NR_BUF2 : buf2[i] = NoCopy
      BY <1>1 DEF empty_cache2
    <2>3. buf2 \in [1 .. NR_BUF2 -> CopyOf]
      BY <1>1, <2>1 DEF empty_cache2, NoCopy, CopyOf
    <2>4. \A i \in 1 .. NR_BUF2 : buf2[i].dev = NO_DEV /\ Named(buf2[i])
      BY <2>2 DEF NoCopy, Named
    <2>5. ASSUME NEW k \in Nr \cup {0}
          PROVE  b2_count[k] = Cardinality({i \in 1 .. NR_BUF2 : buf2[i].dev # NO_DEV /\ buf2[i].nr = k})
      <3>1. {i \in 1 .. NR_BUF2 : buf2[i].dev # NO_DEV /\ buf2[i].nr = k} = {}
        BY <2>4
      <3>2. b2_count[k] = 0
        BY <1>1 DEF no_copies
      <3> QED BY <3>1, <3>2, FS_EmptySet
    <2>6. b2_count \in [Nr \cup {0} -> Nat]
      BY <1>1 DEF no_copies
    <2>7. NR_BUF2 # 0 => buf2_idx \in 0 .. NR_BUF2 - 1
      BY <1>1, <2>1
    <2> QED BY <1>1, <2>3, <2>4, <2>5, <2>6, <2>7 DEF RingSound
  <1>7. ChainSound
    <2>1. Free = Buf
      BY <1>1, <1>2, IdleIs, BufFinite DEF Free
    <2>2. NR_BUFS \in Nat /\ lru = [i \in 1 .. NR_BUFS |-> i]
      BY <1>1, BufFinite DEF chain_pool
    <2>3. lru \in Seq(Buf) /\ Len(lru) = NR_BUFS /\ \A i \in 1 .. NR_BUFS : lru[i] = i
      BY <2>2 DEF Buf
    <2>4. IsChain(lru, Buf)
      BY <2>3, ChainIs DEF Buf
    <2>5. bufs_in_use = NR_BUFS - Len(lru)
      BY <1>1, <2>2, <2>3
    <2> QED BY <2>1, <2>4, <2>5 DEF ChainSound
  <1>8. CleanIsOnDisk
    <2>1. \A b \in Block : Copies(b, buf2) = {}
      <3>1. \A i \in 1 .. NR_BUF2 : buf2[i].dev = NO_DEV
        BY <1>1 DEF empty_cache2, NoCopy
      <3> QED BY <3>1, BlockIs DEF Copies
    <2> QED BY <1>2, <2>1 DEF CleanIsOnDisk, InCache2
  <1>9. JobSound
    BY <1>1, IdleIs DEF JobSound, TakenSound, DirtySound, GatheredSound
  <1> QED BY <1>4, <1>5, <1>6, <1>7, <1>8, <1>9 DEF IInv, Shows

-----------------------------------------------------------------------------
(* What a step does to what is read and to the disk. *)
Kept == \A b \in Block : \A v : Shows(b, v) => Shows(b, v)'

CarriesOver == Kept /\ \A b \in Block : disk'[b] = disk[b] \/ Shows(b, disk'[b])

WritesOne == disk' = disk /\ \E b \in Block, v \in Value :
                /\ Shows(b, v)'
                /\ \A x \in Block : \A w : x # b /\ Shows(x, w) => Shows(x, w)'

FallsBack == disk' = disk /\ \A b \in Block : Shows(b, disk[b])'

(* Every step keeps the invariant, and is one of three kinds for the blocks. *)
LEMMA NextSound ==
    ASSUME IInv, Writes = 1, [Next]_vars
    PROVE  IInv' /\ (CarriesOver \/ WritesOne \/ FallsBack)
  <1>1. ASSUME UNCHANGED disk, Kept
        PROVE  CarriesOver
    BY <1>1 DEF CarriesOver
  <1>2. ASSUME \A x, v : Shows(x, v)' = Shows(x, v)
        PROVE  Kept
    BY <1>2 DEF Kept
  <1>3. CASE FlushStep
    BY <1>3, FlushStepSound DEF CarriesOver, Kept
  <1>4. CASE FillGet
    <2>1. UNCHANGED disk
      BY <1>4 DEF FillGet
    <2> QED BY <1>1, <1>4, <2>1, FillGetStep DEF Kept
  <1>5. CASE FillNew
    <2>1. UNCHANGED disk
      BY <1>5 DEF FillNew
    <2> QED BY <1>5, <2>1, FillNewStep DEF WritesOne
  <1>6. CASE FillZero
    <2>1. UNCHANGED disk
      BY <1>6 DEF FillZero
    <2> QED BY <1>1, <1>6, <2>1, FillZeroStep DEF Kept
  <1>7. CASE FillAhead
    <2>1. UNCHANGED disk
      BY <1>7 DEF FillAhead
    <2> QED BY <1>1, <1>7, <2>1, FillAheadStep DEF Kept
  <1>8. CASE AheadNext
    <2>1. UNCHANGED disk
      BY <1>8 DEF AheadNext, Take
    <2> QED BY <1>1, <1>2, <1>8, <2>1, AheadNextStep
  <1>9. CASE GatherStep
    <2>1. UNCHANGED disk
      BY <1>9 DEF GatherStep
    <2> QED BY <1>1, <1>9, <2>1, GatherStepSound DEF Kept
  <1>10. CASE AheadEnd
    <2>1. UNCHANGED disk
      BY <1>10 DEF AheadEnd, get_block, Take, Hold
    <2> QED BY <1>1, <1>2, <1>10, <2>1, AheadEndStep
  <1>11. CASE SyncStep
    <2>1. UNCHANGED disk
      BY <1>11 DEF SyncStep
    <2> QED BY <1>1, <1>2, <1>11, <2>1, SyncStepSound
  <1>12. CASE EndSync
    <2>1. UNCHANGED disk
      BY <1>12 DEF EndSync
    <2> QED BY <1>1, <1>12, <2>1, EndSyncStep DEF Kept
  <1>13. CASE \E b \in Block : Get(b) \/ Ahead(b)
    <2>1. PICK b \in Block : Get(b) \/ Ahead(b)
      BY <1>13
    <2>2. UNCHANGED disk
      BY <2>1 DEF Get, Ahead, get_block, Take, Hold
    <2>3. IInv' /\ \A x, v : Shows(x, v)' = Shows(x, v)
      BY <2>1, GetStep, AheadStep
    <2> QED BY <1>1, <1>2, <2>2, <2>3
  <1>14. CASE GetZero
    <2>1. UNCHANGED disk
      BY <1>14 DEF GetZero, Take
    <2> QED BY <1>1, <1>2, <1>14, <2>1, GetZeroStep
  <1>15. CASE \E p \in Buf, v \in Value : Modify(p, v)
    <2>1. PICK p \in Buf, v \in Value : Modify(p, v)
      BY <1>15
    <2>2. UNCHANGED disk
      BY <2>1 DEF Modify
    <2> QED BY <2>1, <2>2, ModifyStep DEF WritesOne
  <1>16. CASE \E p \in Buf : \E t \in {"PARTIAL_DATA_BLOCK", "ZUPER_BLOCK"} : put_block(p, t)
    <2>1. PICK p \in Buf, t \in {"PARTIAL_DATA_BLOCK", "ZUPER_BLOCK"} : put_block(p, t)
      BY <1>16
    <2> QED BY <2>1, PutStep DEF CarriesOver, Kept
  <1>17. CASE \E d \in (Dev \cup {NO_DEV}) \ {ROOT_DEV} : StartSync(d)
    <2>1. PICK d \in Dev \cup {NO_DEV} : StartSync(d)
      BY <1>17
    <2>2. UNCHANGED disk
      BY <2>1 DEF StartSync
    <2> QED BY <1>1, <1>2, <2>1, <2>2, StartSyncStep
  <1>18. CASE Crash
    <2>1. Fresh' /\ disk' = disk
      BY <1>18 DEF Crash, Fresh, IInv, PoolSound
    <2>2. IInv' /\ \A b \in Block : Shows(b, disk[b])'
      <3>1. Fresh' => (IInv /\ \A b \in Block : Shows(b, disk[b]))'
        BY FreshSound, PTL
      <3> QED BY <2>1, <3>1
    <2> QED BY <2>1, <2>2 DEF FallsBack
  <1>19. CASE UNCHANGED vars
    <2>1. buf' = buf /\ UNCHANGED <<cache2, disk, lru, bufs_in_use, job>> /\ buf \in [Buf -> BufferOf]
      BY <1>19 DEF vars, IInv, PoolSound
    <2>2. /\ PoolSound' /\ RingSound(buf2', buf2_idx', b2_count') /\ CleanIsOnDisk'
          /\ \A x, v : Shows(x, v)' = Shows(x, v)
      BY <2>1, SameBlocks
    <2>3. IInv'
      BY <2>1, <2>2 DEF IInv, ChainSound, Free, JobSound, TakenSound, DirtySound, GatheredSound, Found
    <2> QED BY <1>1, <1>2, <2>1, <2>2, <2>3
  <1> QED BY <1>3, <1>4, <1>5, <1>6, <1>7, <1>8, <1>9, <1>10, <1>11, <1>12, <1>13, <1>14, <1>15, <1>16, <1>17, <1>18, <1>19
          DEF Next, Step, Call

-----------------------------------------------------------------------------
(* What the runs check follows from the invariant. *)

(* The buffers are sound: what the run checks, from the invariant. *)
LEMMA BuffersFollow == IInv => BuffersSound
  <1> SUFFICES ASSUME IInv
               PROVE  BuffersSound
    OBVIOUS
  <1>1. PoolSound /\ RingSound(buf2, buf2_idx, b2_count) /\ IsChain(lru, Free) /\ bufs_in_use = NR_BUFS - Len(lru) /\ job \in JobType
    BY DEF IInv, ChainSound, JobSound
  <1>2. lru \in Seq(Buf) /\ bufs_in_use \in 0 .. NR_BUFS
    BY ChainLeft
  <1>3. TypeOK
    <2>1. buf \in [Buf -> [dev : Dev \cup {NO_DEV}, nr : Nr \cup {0}, dirty : BOOLEAN, count : 0 .. MaxUses, data : Value]]
      BY <1>1 DEF PoolSound, BufferOf
    <2>2. buf2 \in [1 .. NR_BUF2 -> [dev : Dev \cup {NO_DEV}, nr : Nr \cup {0}, data : Value]]
      BY <1>1 DEF RingSound, CopyOf
    <2>3. buf2_idx \in {0} \cup 0 .. NR_BUF2 - 1 /\ b2_count \in [Nr \cup {0} -> Nat]
      BY <1>1 DEF RingSound
    <2>4. disk \in [Block -> Value]
      BY <1>1 DEF PoolSound
    <2>5. job \in [op : {"idle", "get", "again", "zero", "ahead", "gather", "sync", "synced", "panic"},
                blk : [dev : Dev \cup {NO_DEV}, nr : Nr \cup {0}], bp : Buf \cup {0}, dev : Dev \cup {NO_DEV},
                dirty : Seq(Buf), q : Seq(Buf)]
      BY <1>1 DEF JobType
    <2> QED BY <1>2, <2>1, <2>2, <2>3, <2>4, <2>5 DEF TypeOK
  <1>4. ChainExact
    <2>1. DOMAIN lru = 1 .. Len(lru)
      BY <1>2
    <2> QED BY <1>1, <2>1 DEF ChainExact, IsChain, Free
  <1>5. BufferLeft
    BY <1>1 DEF BufferLeft, JobType
  <1>6. CopiesCounted
    <2>1. DOMAIN b2_count = Nr \cup {0} /\ DOMAIN buf2 = 1 .. NR_BUF2
      BY <1>1 DEF RingSound
    <2> QED BY <1>1, <2>1 DEF CopiesCounted, RingSound
  <1> QED BY <1>1, <1>3, <1>4, <1>5, <1>6 DEF BuffersSound, PoolSound

(* What is shown at the end of a sync is what the disk holds. *)
LEMMA SyncFollows == IInv => SyncWorks
  <1> SUFFICES ASSUME IInv, job.op = "synced"
               PROVE  Seen = disk
    BY DEF SyncWorks
  <1>1. /\ Seen \in [Block -> Value] /\ disk \in [Block -> Value]
        /\ \A b \in Block : \A v : Shows(b, v) <=> Seen[b] = v
    BY SeenIs
  <1>2. ASSUME NEW b \in Block
        PROVE  Shows(b, disk[b])
    <2>1. CASE Found(b) = {}
      BY <2>1 DEF Shows
    <2>2. CASE Found(b) # {}
      <3>1. PICK p \in Found(b) : p \in Buf /\ buf[p].dev # NO_DEV /\ Name(buf[p]) = b
        BY <2>2, FoundIs DEF IInv
      <3>2. ~buf[p].dirty
        BY <3>1 DEF IInv, JobSound
      <3>3. buf[p].data = disk[b]
        BY <3>1, <3>2 DEF IInv, CleanIsOnDisk, Name
      <3> QED BY <3>1, <3>3 DEF Shows
    <2> QED BY <2>1, <2>2
  <1>3. \A b \in Block : Seen[b] = disk[b]
    BY <1>1, <1>2
  <1> QED BY <1>1, <1>3

(* The initial states satisfy the invariant and are initial on the disk. *)
LEMMA InitSound == Init => IInv /\ D!Init
  <1> SUFFICES ASSUME Init
               PROVE  IInv /\ D!Init
    OBVIOUS
  <1>1. IInv /\ \A b \in Block : Shows(b, disk[b])
    <2>1. Fresh
      BY DEF Init, Fresh
    <2> QED BY <2>1, FreshSound
  <1>2. /\ Seen \in [Block -> Value] /\ disk \in [Block -> Value]
        /\ \A b \in Block : \A v : Shows(b, v) <=> Seen[b] = v
    BY <1>1, SeenIs
  <1>3. \A b \in Block : Seen[b] = disk[b]
    BY <1>1, <1>2
  <1>4. Seen = disk
    BY <1>2, <1>3
  <1> QED BY <1>1, <1>2, <1>4 DEF D!Init

(* Every step is a step of the disk specification, or stutters. *)
LEMMA StepKept ==
    ASSUME IInv, Writes = 1, [Next]_vars
    PROVE  [D!Next]_<<Seen, disk>>
  <1>1. IInv' /\ (CarriesOver \/ WritesOne \/ FallsBack)
    BY NextSound
  <1>2. /\ Seen \in [Block -> Value] /\ disk \in [Block -> Value]
        /\ \A b \in Block : \A v : Shows(b, v) <=> Seen[b] = v
    BY SeenIs
  <1>3. /\ Seen' \in [Block -> Value] /\ disk' \in [Block -> Value]
        /\ \A b \in Block : \A v : Shows(b, v)' <=> Seen'[b] = v
    <2>1. IInv' => (/\ Seen \in [Block -> Value] /\ disk \in [Block -> Value]
                    /\ \A b \in Block : \A v : Shows(b, v) <=> Seen[b] = v)'
      BY SeenIs, PTL
    <2> QED BY <1>1, <2>1
  <1>4. CASE CarriesOver
    <2>1. \A b \in Block : Seen'[b] = Seen[b]
      <3> SUFFICES ASSUME NEW b \in Block
                   PROVE  Seen'[b] = Seen[b]
        OBVIOUS
      <3>1. PICK v : v = Seen[b]
        OBVIOUS
      <3>2. Shows(b, v)'
        BY <1>2, <1>4, <3>1 DEF CarriesOver, Kept
      <3> QED BY <1>3, <3>1, <3>2
    <2>2. Seen' = Seen
      BY <1>2, <1>3, <2>1
    <2>3. \A b \in Block : disk'[b] \in {disk[b], Seen[b]}
      BY <1>2, <1>4 DEF CarriesOver
    <2>4. D!CarryOver
      BY <1>3, <2>2, <2>3 DEF D!CarryOver
    <2> QED BY <2>4 DEF D!Next
  <1>5. CASE WritesOne
    <2>1. PICK b \in Block, v \in Value : /\ Shows(b, v)'
                                          /\ \A x \in Block : \A w : x # b /\ Shows(x, w) => Shows(x, w)'
      BY <1>5 DEF WritesOne
    <2>2. Seen'[b] = v
      BY <1>3, <2>1
    <2>3. ASSUME NEW x \in Block, x # b
          PROVE  Seen'[x] = Seen[x]
      <3>1. PICK w : w = Seen[x]
        OBVIOUS
      <3>2. Shows(x, w)'
        BY <1>2, <2>1, <2>3, <3>1
      <3> QED BY <1>3, <3>1, <3>2
    <2>4. Seen' = [Seen EXCEPT ![b] = v]
      BY <1>2, <1>3, <2>2, <2>3
    <2>5. D!Write
      <3>1. disk' = disk
        BY <1>5 DEF WritesOne
      <3> QED BY <2>4, <3>1 DEF D!Write
    <2> QED BY <2>5 DEF D!Next
  <1>6. CASE FallsBack
    <2>1. disk' = disk /\ \A b \in Block : Shows(b, disk[b])'
      BY <1>6 DEF FallsBack
    <2>2. \A b \in Block : Seen'[b] = disk[b]
      <3> SUFFICES ASSUME NEW b \in Block
                   PROVE  Seen'[b] = disk[b]
        OBVIOUS
      <3>1. PICK v : v = disk'[b]
        OBVIOUS
      <3>2. Shows(b, v)'
        <4>1. Shows(b, disk[b])'
          BY <2>1
        <4> QED BY <3>1, <4>1 DEF Shows
      <3> QED BY <1>3, <2>1, <3>1, <3>2
    <2>3. Seen' = disk
      BY <1>2, <1>3, <2>2
    <2>4. D!Crash
      BY <2>1, <2>3 DEF D!Crash
    <2> QED BY <2>4 DEF D!Next
  <1> QED BY <1>1, <1>4, <1>5, <1>6

-----------------------------------------------------------------------------
(* The invariant holds in every state, whatever the caches, the chain and  *)
(* the machine's crashes do, if the driver writes at least one block of    *)
(* those it is given (flushall(), rw_scattered() and what they leave).     *)
THEOREM Invariance ==
    ASSUME Writes = 1
    PROVE  Spec => []IInv
  <1>1. Init => IInv
    BY InitSound
  <1>2. IInv /\ [Next]_vars => IInv'
    BY NextSound
  <1> QED BY <1>1, <1>2, PTL DEF Spec

(* The caches stay well formed: no block has two buffers, the chain holds  *)
(* each free buffer once (rm_lru(), put_block()), get_block() never panics *)
(* for want of one, and b2_count is right.                                 *)
THEOREM BuffersAreSound ==
    ASSUME Writes = 1
    PROVE  Spec => []BuffersSound
  BY Invariance, BuffersFollow, PTL

(* What get_block() may throw away, a clean buffer or a copy in the second *)
(* level cache, is on the disk.                                            *)
THEOREM CleanAlways ==
    ASSUME Writes = 1
    PROVE  Spec => []CleanIsOnDisk
  <1>1. IInv => CleanIsOnDisk
    BY DEF IInv
  <1> QED BY <1>1, Invariance, PTL

(* When do_sync() has been through the buffers the disk holds everything   *)
(* that was written.                                                       *)
THEOREM SyncAlways ==
    ASSUME Writes = 1
    PROVE  Spec => []SyncWorks
  BY Invariance, SyncFollows, PTL

(* The cache is a disk: get_block() gives what was last written, and a     *)
(* crash gives back what the driver was told to write.                     *)
THEOREM DiskIsKept ==
    ASSUME Writes = 1
    PROVE  Spec => DiskKept
  <1>1. Init => D!Init
    BY InitSound
  <1>2. IInv /\ [Next]_vars => [D!Next]_<<Seen, disk>>
    BY StepKept
  <1> QED BY <1>1, <1>2, Invariance, PTL DEF Spec, DiskKept, D!Spec
============================================================================
