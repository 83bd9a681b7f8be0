---------------------------- MODULE AllocProofs ----------------------------
(***************************************************************************)
(* The memory manager's list of holes and its callers, proved for every    *)
(* number of processes, set of programs, chunks of memory and swap areas.  *)
(*                                                                         *)
(* That two holes never touch cannot be shown of the list alone: free_mem()*)
(* relies on its callers not to give back what is free already.  So the    *)
(* invariant has the whole of memory in it, as the abstract module Memory  *)
(* sees it, and is shown along with the refinement: a step that keeps the  *)
(* list in order is a step of Memory, and those lose nothing.              *)
(***************************************************************************)
EXTENDS Alloc, FiniteSetTheorems, WellFoundedInduction, TLAPS

(* The clicks in the holes of a list. *)
Cover(hs) == UNION {Clicks(hs[i]) : i \in 1 .. Len(hs)}

(* The holes of a list lie in order and do not overlap, ... *)
Sorted(hs) == /\ \A i \in 1 .. Len(hs) : hs[i].len > 0
              /\ \A i, j \in 1 .. Len(hs) : i < j => hs[i].base + hs[i].len <= hs[j].base

(* ... and between two of them there is something. *)
Apart(hs) == /\ \A i \in 1 .. Len(hs) : hs[i].len > 0
             /\ \A i, j \in 1 .. Len(hs) : i < j => hs[i].base + hs[i].len < hs[j].base

(* Only the holes with these numbers may touch the next one. *)
TouchOnly(hs, S) == \A i \in 1 .. Len(hs) - 1 : Borders(hs, i) => i \in S

-----------------------------------------------------------------------------
(* A nonempty set of natural numbers has a least one. *)
LEMMA SmallestNumber ==
    ASSUME NEW S \in SUBSET Nat, S # {}
    PROVE  \E x \in S : \A y \in S : x <= y
  <1>1. PICK x \in S : \A y \in S : ~(<<y, x>> \in OpToRel(<, Nat))
    BY NatLessThanWellFounded, WFMin
  <1>2. \A y \in S : ~(y < x)
    BY <1>1 DEF OpToRel
  <1> QED BY <1>2

(* First() is the least number of a set. *)
LEMMA FirstIs ==
    ASSUME NEW S \in SUBSET Nat, S # {}
    PROVE  First(S) \in S /\ \A j \in S : First(S) <= j
  <1>1. \E i \in S : \A j \in S : i <= j
    BY SmallestNumber
  <1> QED BY <1>1 DEF First

(* What a list of holes covers. *)
LEMMA CoverIs ==
    ASSUME NEW hs, NEW x
    PROVE  x \in Cover(hs) <=> \E i \in 1 .. Len(hs) : x \in Clicks(hs[i])
  BY DEF Cover

(* The clicks of a block. *)
LEMMA ClicksAre ==
    ASSUME NEW b \in Block, NEW x
    PROVE  /\ b.base \in Nat /\ b.len \in Nat
           /\ x \in Clicks(b) <=> x \in Int /\ b.base <= x /\ x < b.base + b.len
  BY DEF Clicks, Block

(* A block of no length has none. *)
LEMMA NoClicks ==
    ASSUME NEW n \in Nat
    PROVE  Clicks([base |-> n, len |-> 0]) = {}
  <1>1. \A x \in Int : ~(n <= x /\ x <= n + 0 - 1)
    OBVIOUS
  <1> QED BY <1>1 DEF Clicks

(* The holes of a list are blocks. *)
LEMMA BlocksAre ==
    ASSUME NEW hs \in Seq(Block)
    PROVE  /\ Len(hs) \in Nat
           /\ \A i \in 1 .. Len(hs) : /\ hs[i] \in Block
                                      /\ hs[i].base \in Nat /\ hs[i].len \in Nat
  <1>1. Len(hs) \in Nat /\ \A i \in 1 .. Len(hs) : hs[i] \in Block
    OBVIOUS
  <1> QED BY <1>1 DEF Block

(* Lower() finds the place of a block in a list that is in order. *)
LEMMA LowerIs ==
    ASSUME NEW hs \in Seq(Block), Sorted(hs), NEW b, b.base \in Int
    PROVE  /\ Lower(hs, b) \in 0 .. Len(hs)
           /\ \A i \in 1 .. Len(hs) : hs[i].base < b.base <=> i <= Lower(hs, b)
  <1> DEFINE S == {n \in 1 .. Len(hs) + 1 : n = Len(hs) + 1 \/ ~(hs[n].base < b.base)}
  <1>0. Len(hs) \in Nat /\ \A i \in 1 .. Len(hs) : hs[i].base \in Nat /\ hs[i].len \in Nat
    BY BlocksAre
  <1>1. S \in SUBSET Nat /\ Len(hs) + 1 \in S
    BY <1>0
  <1>2. PICK n \in S : \A m \in S : n <= m
    BY <1>1, SmallestNumber
  <1>3. \A i \in 1 .. Len(hs) : hs[i].base < b.base <=> i <= n - 1
    <2> TAKE i \in 1 .. Len(hs)
    <2>1. CASE i <= n - 1
      BY <1>0, <1>2, <2>1
    <2>2. CASE i = n
      BY <1>0, <1>2, <2>2
    <2>3. CASE i > n
      <3>1. n \in 1 .. Len(hs) /\ ~(hs[n].base < b.base)
        BY <1>0, <1>2, <2>3
      <3>2. hs[n].base + hs[n].len <= hs[i].base
        BY <2>3, <3>1 DEF Sorted
      <3> QED BY <1>0, <1>2, <2>3, <3>1, <3>2, SMTT(30)
    <2> QED BY <1>0, <1>2, <2>1, <2>2, <2>3
  <1>4. {i \in 1 .. Len(hs) : hs[i].base < b.base} = 1 .. n - 1
    BY <1>0, <1>2, <1>3
  <1>5. Cardinality(1 .. n - 1) = n - 1
    BY <1>0, <1>2, FS_Interval
  <1>6. Lower(hs, b) = n - 1
    BY <1>4, <1>5 DEF Lower
  <1> QED BY <1>0, <1>2, <1>3, <1>6

-----------------------------------------------------------------------------
(* Changes of the list. *)

(* A list with a new hole behind the first k. *)
LEMMA InsertIs ==
    ASSUME NEW hs \in Seq(Block), NEW k \in 0 .. Len(hs), NEW b \in Block
    PROVE  /\ Insert(hs, k, b) \in Seq(Block) /\ Len(Insert(hs, k, b)) = Len(hs) + 1
           /\ \A i \in 1 .. Len(hs) + 1 :
                 \/ i <= k /\ i \in 1 .. Len(hs) /\ Insert(hs, k, b)[i] = hs[i]
                 \/ i = k + 1 /\ Insert(hs, k, b)[i] = b
                 \/ i > k + 1 /\ i - 1 \in 1 .. Len(hs) /\ Insert(hs, k, b)[i] = hs[i - 1]
           /\ Insert(hs, k, b)[k + 1] = b
           /\ \A i \in 1 .. Len(hs) : i <= k => Insert(hs, k, b)[i] = hs[i]
           /\ \A i \in 1 .. Len(hs) : i > k => Insert(hs, k, b)[i + 1] = hs[i]
  <1> DEFINE r == Insert(hs, k, b)
             at(i) == IF i <= k THEN hs[i] ELSE IF i = k + 1 THEN b ELSE hs[i - 1]
  <1>0. Len(hs) \in Nat /\ \A i \in 1 .. Len(hs) : hs[i] \in Block
    BY BlocksAre
  <1>1. \A i \in 1 .. Len(hs) + 1 : at(i) \in Block
    BY <1>0
  <1>2. r = [i \in 1 .. Len(hs) + 1 |-> at(i)]
    BY DEF Insert
  <1> HIDE DEF at
  <1>3. r \in Seq(Block) /\ Len(r) = Len(hs) + 1
    BY <1>0, <1>1, <1>2
  <1>4. \A i \in 1 .. Len(hs) + 1 : r[i] = at(i)
    BY <1>2
  <1> HIDE DEF r
  <1>5. ASSUME NEW i \in 1 .. Len(hs) + 1
        PROVE  \/ i <= k /\ i \in 1 .. Len(hs) /\ r[i] = hs[i]
               \/ i = k + 1 /\ r[i] = b
               \/ i > k + 1 /\ i - 1 \in 1 .. Len(hs) /\ r[i] = hs[i - 1]
    <2>1. r[i] = at(i)
      BY <1>4
    <2> QED BY <1>0, <2>1 DEF at
  <1>6. r[k + 1] = b
    BY <1>0, <1>5
  <1>7. ASSUME NEW i \in 1 .. Len(hs), i <= k PROVE r[i] = hs[i]
    BY <1>0, <1>5, <1>7
  <1>8. ASSUME NEW i \in 1 .. Len(hs), i > k PROVE r[i + 1] = hs[i]
    <2>1. i + 1 \in 1 .. Len(hs) + 1 /\ i + 1 > k + 1 /\ (i + 1) - 1 = i
      BY <1>0, <1>8
    <2>2. r[i + 1] = hs[(i + 1) - 1]
      BY <1>5, <2>1
    <2> QED BY <2>1, <2>2
  <1> QED BY <1>3, <1>5, <1>6, <1>7, <1>8 DEF r

(* A list without its hole number k. *)
LEMMA DelSlotIs ==
    ASSUME NEW hs \in Seq(Block), NEW k \in 1 .. Len(hs)
    PROVE  /\ del_slot(hs, k) \in Seq(Block) /\ Len(del_slot(hs, k)) = Len(hs) - 1
           /\ \A i \in 1 .. Len(hs) - 1 :
                 \/ i < k /\ i \in 1 .. Len(hs) /\ del_slot(hs, k)[i] = hs[i]
                 \/ i >= k /\ i + 1 \in 1 .. Len(hs) /\ del_slot(hs, k)[i] = hs[i + 1]
           /\ \A i \in 1 .. Len(hs) : i < k => i \in 1 .. Len(hs) - 1 /\ del_slot(hs, k)[i] = hs[i]
           /\ \A i \in 1 .. Len(hs) : i > k => /\ i - 1 \in 1 .. Len(hs) - 1
                                              /\ del_slot(hs, k)[i - 1] = hs[i]
  <1> DEFINE r == del_slot(hs, k)
             at(i) == IF i < k THEN hs[i] ELSE hs[i + 1]
  <1>0. Len(hs) \in Nat /\ \A i \in 1 .. Len(hs) : hs[i] \in Block
    BY BlocksAre
  <1>1. \A i \in 1 .. Len(hs) - 1 : at(i) \in Block
    BY <1>0
  <1>2. r = [i \in 1 .. Len(hs) - 1 |-> at(i)]
    BY DEF del_slot
  <1> HIDE DEF at
  <1>3. r \in Seq(Block) /\ Len(r) = Len(hs) - 1
    BY <1>0, <1>1, <1>2
  <1>4. \A i \in 1 .. Len(hs) - 1 : r[i] = at(i)
    BY <1>2
  <1> HIDE DEF r
  <1>5. ASSUME NEW i \in 1 .. Len(hs) - 1
        PROVE  \/ i < k /\ i \in 1 .. Len(hs) /\ r[i] = hs[i]
               \/ i >= k /\ i + 1 \in 1 .. Len(hs) /\ r[i] = hs[i + 1]
    <2>1. r[i] = at(i)
      BY <1>4
    <2> QED BY <1>0, <2>1 DEF at
  <1>6. ASSUME NEW i \in 1 .. Len(hs), i < k PROVE i \in 1 .. Len(hs) - 1 /\ r[i] = hs[i]
    <2>1. i \in 1 .. Len(hs) - 1
      BY <1>0, <1>6
    <2> QED BY <1>5, <1>6, <2>1
  <1>7. ASSUME NEW i \in 1 .. Len(hs), i > k PROVE i - 1 \in 1 .. Len(hs) - 1 /\ r[i - 1] = hs[i]
    <2>1. i - 1 \in 1 .. Len(hs) - 1 /\ i - 1 >= k /\ (i - 1) + 1 = i
      BY <1>0, <1>7
    <2>2. r[i - 1] = hs[(i - 1) + 1]
      BY <1>5, <2>1
    <2> QED BY <2>1, <2>2
  <1> QED BY <1>3, <1>5, <1>6, <1>7 DEF r

(* A new hole goes where it belongs, and touches at most its neighbours. *)
LEMMA InsertSorted ==
    ASSUME NEW hs \in Seq(Block), Apart(hs), NEW b \in Block, b.len > 0,
           Clicks(b) \cap Cover(hs) = {}, NEW k, k = Lower(hs, b)
    PROVE  /\ k \in 0 .. Len(hs)
           /\ Insert(hs, k, b) \in Seq(Block) /\ Len(Insert(hs, k, b)) = Len(hs) + 1
           /\ Sorted(Insert(hs, k, b)) /\ TouchOnly(Insert(hs, k, b), {k, k + 1})
           /\ Cover(Insert(hs, k, b)) = Cover(hs) \cup Clicks(b)
  <1> DEFINE r == Insert(hs, k, b)
             n == Len(hs)
  <1>0. /\ n \in Nat /\ b.base \in Nat /\ b.len \in Nat
        /\ \A i \in 1 .. n : hs[i] \in Block /\ hs[i].base \in Nat /\ hs[i].len \in Nat
    BY BlocksAre DEF Block
  <1>1. Sorted(hs)
    BY <1>0 DEF Apart, Sorted
  <1>2. k \in 0 .. n /\ \A i \in 1 .. n : hs[i].base < b.base <=> i <= k
    BY <1>0, <1>1, LowerIs
  <1>3. r \in Seq(Block) /\ Len(r) = n + 1
    BY <1>2, InsertIs
  <1>4. \A i \in 1 .. n + 1 : \/ i <= k /\ i \in 1 .. n /\ r[i] = hs[i]
                              \/ i = k + 1 /\ r[i] = b
                              \/ i > k + 1 /\ i - 1 \in 1 .. n /\ r[i] = hs[i - 1]
    BY <1>2, InsertIs, Zenon
  <1>5. /\ r[k + 1] = b
        /\ \A i \in 1 .. n : i <= k => r[i] = hs[i]
        /\ \A i \in 1 .. n : i > k => r[i + 1] = hs[i]
    <2>1. r[k + 1] = b
      BY <1>2, InsertIs, ZenonT(30)
    <2>2. \A i \in 1 .. n : i <= k => r[i] = hs[i]
      BY <1>2, InsertIs
    <2>3. \A i \in 1 .. n : i > k => r[i + 1] = hs[i]
      BY <1>2, InsertIs
    <2> QED BY <2>1, <2>2, <2>3
  <1>6. \A i \in 1 .. n : Clicks(b) \cap Clicks(hs[i]) = {}
    BY DEF Cover
  <1> HIDE DEF r, n
  <1>7. \A i \in 1 .. n : i <= k => hs[i].base + hs[i].len <= b.base
    <2> SUFFICES ASSUME NEW i \in 1 .. n, i <= k PROVE hs[i].base + hs[i].len <= b.base
      OBVIOUS
    <2>1. hs[i].base < b.base
      BY <1>2
    <2>2. b.base \in Clicks(b) /\ b.base \notin Clicks(hs[i])
      BY <1>0, <1>6, ClicksAre
    <2> QED BY <1>0, <2>1, <2>2, ClicksAre, SMTT(30)
  <1>8. \A i \in 1 .. n : i > k => b.base + b.len <= hs[i].base
    <2> SUFFICES ASSUME NEW i \in 1 .. n, i > k PROVE b.base + b.len <= hs[i].base
      OBVIOUS
    <2>1. b.base <= hs[i].base /\ hs[i].len > 0
      BY <1>0, <1>2 DEF Apart, n
    <2>2. hs[i].base \in Clicks(hs[i]) /\ hs[i].base \notin Clicks(b)
      BY <1>0, <1>6, <2>1, ClicksAre, SMTT(30)
    <2> QED BY <1>0, <2>1, <2>2, ClicksAre
  <1>9. \A i, j \in 1 .. n : i < j => hs[i].base + hs[i].len < hs[j].base
    BY DEF Apart, n
  <1>10. Sorted(r)
    <2>1. ASSUME NEW i \in 1 .. n + 1 PROVE r[i].len > 0
      <3>1. \A j \in 1 .. n : hs[j].len > 0
        BY DEF Apart, n
      <3> QED BY <1>4, <3>1
    <2>2. ASSUME NEW i \in 1 .. n + 1, NEW j \in 1 .. n + 1, i < j
          PROVE  r[i].base + r[i].len <= r[j].base
      <3>1. CASE i <= k
        <4>1. i \in 1 .. n /\ r[i] = hs[i]
          BY <1>0, <1>2, <1>4, <3>1
        <4>2. CASE j <= k
          <5>1. j \in 1 .. n /\ r[j] = hs[j]
            BY <1>0, <1>2, <1>4, <4>2
          <5> QED BY <1>0, <1>9, <2>2, <4>1, <5>1, SMTT(30)
        <4>3. CASE j = k + 1
          BY <1>5, <1>7, <3>1, <4>1, <4>3
        <4>4. CASE j > k + 1
          <5>1. j - 1 \in 1 .. n /\ r[j] = hs[j - 1] /\ i < j - 1
            BY <1>0, <1>2, <1>4, <3>1, <4>4
          <5> QED BY <1>0, <1>9, <4>1, <5>1, SMTT(30)
        <4> QED BY <1>2, <4>2, <4>3, <4>4
      <3>2. CASE i = k + 1
        <4>1. j - 1 \in 1 .. n /\ r[j] = hs[j - 1] /\ j - 1 > k
          BY <1>0, <1>2, <1>4, <2>2, <3>2
        <4> QED BY <1>5, <1>8, <3>2, <4>1
      <3>3. CASE i > k + 1
        <4>1. j > k + 1 /\ i - 1 < j - 1
          BY <1>2, <2>2, <3>3
        <4>2. i - 1 \in 1 .. n /\ r[i] = hs[i - 1]
          BY <1>2, <1>4, <3>3
        <4>3. j - 1 \in 1 .. n /\ r[j] = hs[j - 1]
          BY <1>2, <1>4, <4>1
        <4>4. hs[i - 1].base + hs[i - 1].len < hs[j - 1].base
          BY <1>9, <4>1, <4>2, <4>3
        <4>5. /\ hs[i - 1].base \in Nat /\ hs[i - 1].len \in Nat /\ hs[j - 1].base \in Nat
              /\ r[i].base = hs[i - 1].base /\ r[i].len = hs[i - 1].len
              /\ r[j].base = hs[j - 1].base
          BY <1>0, <4>2, <4>3
        <4> QED BY <4>4, <4>5
      <3> QED BY <1>2, <3>1, <3>2, <3>3
    <2> QED BY <1>3, <2>1, <2>2 DEF Sorted
  <1>11. TouchOnly(r, {k, k + 1})
    <2> SUFFICES ASSUME NEW i \in 1 .. n, i # k, i # k + 1
                 PROVE  r[i].base + r[i].len # r[i + 1].base
      BY <1>0, <1>3 DEF TouchOnly, Borders
    <2>1. CASE i < k
      <3>1. i + 1 \in 1 .. n /\ r[i] = hs[i] /\ r[i + 1] = hs[i + 1] /\ i < i + 1
        BY <1>0, <1>2, <1>5, <2>1
      <3>2. hs[i].base + hs[i].len < hs[i + 1].base
        BY <1>9, <3>1
      <3> QED BY <1>0, <3>1, <3>2
    <2>2. CASE i > k + 1
      <3>1. i \in 1 .. n + 1 /\ i > k
        BY <1>0, <1>2, <2>2
      <3>2. i - 1 \in 1 .. n /\ r[i] = hs[i - 1] /\ i - 1 < i
        BY <1>2, <1>4, <2>2, <3>1
      <3>3. r[i + 1] = hs[i]
        BY <1>5, <3>1
      <3>4. hs[i - 1].base + hs[i - 1].len < hs[i].base
        BY <1>9, <3>2
      <3> QED BY <1>0, <3>2, <3>3, <3>4
    <2> QED BY <1>2, <2>1, <2>2
  <1>12. Cover(r) = Cover(hs) \cup Clicks(b)
    <2>1. \A i \in 1 .. n + 1 : r[i] = b \/ \E j \in 1 .. n : r[i] = hs[j]
      BY <1>4
    <2>2. k + 1 \in 1 .. n + 1
      BY <1>0, <1>2
    <2>3. ASSUME NEW j \in 1 .. n PROVE \E i \in 1 .. n + 1 : r[i] = hs[j]
      <3>1. j \in 1 .. n + 1 /\ j + 1 \in 1 .. n + 1
        BY <1>0
      <3> QED BY <1>2, <1>5, <3>1
    <2>4. ASSUME NEW x \in Cover(r) PROVE x \in Cover(hs) \cup Clicks(b)
      <3>1. PICK i \in 1 .. n + 1 : x \in Clicks(r[i])
        BY <1>3, CoverIs
      <3> QED BY <2>1, <3>1, CoverIs DEF n
    <2>5. ASSUME NEW x \in Cover(hs) \cup Clicks(b) PROVE x \in Cover(r)
      <3>1. CASE x \in Clicks(b)
        BY <1>3, <1>5, <2>2, <3>1, CoverIs
      <3>2. CASE x \in Cover(hs)
        <4>1. PICK j \in 1 .. n : x \in Clicks(hs[j])
          BY <3>2, CoverIs DEF n
        <4>2. PICK i \in 1 .. n + 1 : r[i] = hs[j]
          BY <2>3
        <4> QED BY <1>3, <4>1, <4>2, CoverIs
      <3> QED BY <2>5, <3>1, <3>2
    <2> QED BY <2>4, <2>5
  <1> QED BY <1>2, <1>3, <1>10, <1>11, <1>12 DEF r, n

(* A hole that grows. *)
LEMMA LongerIs ==
    ASSUME NEW b \in Block, NEW m \in Nat
    PROVE  /\ [b EXCEPT !.len = @ + m] \in Block
           /\ [b EXCEPT !.len = @ + m].base = b.base
           /\ [b EXCEPT !.len = @ + m].len = b.len + m
  <1>1. b = [base |-> b.base, len |-> b.len] /\ b.base \in Nat /\ b.len \in Nat
    BY DEF Block
  <1>2. [b EXCEPT !.len = @ + m] = [base |-> b.base, len |-> b.len + m]
    BY <1>1
  <1>3. [base |-> b.base, len |-> b.len + m] \in Block
    BY <1>1 DEF Block
  <1> QED BY <1>2, <1>3

(* A list in which one hole is another. *)
LEMMA ReplaceIs ==
    ASSUME NEW hs \in Seq(Block), NEW k \in 1 .. Len(hs), NEW b \in Block,
           NEW r, r = [hs EXCEPT ![k] = b]
    PROVE  /\ r \in Seq(Block) /\ Len(r) = Len(hs) /\ r[k] = b
           /\ \A i \in 1 .. Len(hs) : i # k => r[i] = hs[i]
  OBVIOUS

(* A hole that takes over the next one covers what both did, and touches   *)
(* what the next one touched.                                              *)
LEMMA AbsorbIs ==
    ASSUME NEW hs \in Seq(Block), Sorted(hs), NEW k \in 1 .. Len(hs), Borders(hs, k),
           NEW r, r = Absorb(hs, k)
    PROVE  /\ r \in Seq(Block) /\ Len(r) = Len(hs) - 1
           /\ Sorted(r) /\ Cover(r) = Cover(hs)
           /\ \A i \in 1 .. Len(hs) - 1 :
                 Borders(r, i) => IF i < k THEN Borders(hs, i) ELSE Borders(hs, i + 1)
  <1> DEFINE n == Len(hs)
             big == [hs[k] EXCEPT !.len = @ + hs[k + 1].len]
             gs == [hs EXCEPT ![k].len = @ + hs[k + 1].len]
  <1>0. /\ n \in Nat
        /\ \A i \in 1 .. n : hs[i] \in Block /\ hs[i].base \in Nat /\ hs[i].len \in Nat
    BY BlocksAre
  <1>1. k + 1 \in 1 .. n /\ hs[k].base + hs[k].len = hs[k + 1].base
    BY <1>0 DEF Borders
  <1>2. /\ big \in Block /\ big.base = hs[k].base
        /\ big.len = hs[k].len + hs[k + 1].len
    BY <1>0, <1>1, LongerIs
  <1>3. gs = [hs EXCEPT ![k] = big]
    OBVIOUS
  <1> HIDE DEF big, gs
  <1>4. /\ gs \in Seq(Block) /\ Len(gs) = n /\ gs[k] = big
        /\ \A i \in 1 .. n : i # k => gs[i] = hs[i]
    BY <1>2, <1>3, ReplaceIs
  <1>5. r = del_slot(gs, k + 1)
    BY DEF Absorb, gs
  <1>6. /\ r \in Seq(Block) /\ Len(r) = n - 1
        /\ \A i \in 1 .. n - 1 :
              \/ i < k + 1 /\ i \in 1 .. n /\ r[i] = gs[i]
              \/ i >= k + 1 /\ i + 1 \in 1 .. n /\ r[i] = gs[i + 1]
    <2>1. k + 1 \in 1 .. Len(gs) /\ gs \in Seq(Block)
      BY <1>1, <1>4
    <2>2. /\ del_slot(gs, k + 1) \in Seq(Block) /\ Len(del_slot(gs, k + 1)) = Len(gs) - 1
          /\ \A i \in 1 .. Len(gs) - 1 :
                \/ i < k + 1 /\ i \in 1 .. Len(gs) /\ del_slot(gs, k + 1)[i] = gs[i]
                \/ i >= k + 1 /\ i + 1 \in 1 .. Len(gs) /\ del_slot(gs, k + 1)[i] = gs[i + 1]
      BY <2>1, DelSlotIs, Zenon
    <2> QED BY <1>4, <1>5, <2>2
  <1>7. \A i \in 1 .. n - 1 : \/ i < k /\ i \in 1 .. n /\ r[i] = hs[i]
                              \/ i = k /\ r[i] = big
                              \/ i > k /\ i + 1 \in 1 .. n /\ r[i] = hs[i + 1]
    <2> TAKE i \in 1 .. n - 1
    <2>1. CASE i < k
      BY <1>0, <1>4, <1>6, <2>1, SMTT(30)
    <2>2. CASE i = k
      BY <1>0, <1>4, <1>6, <2>2
    <2>3. CASE i > k
      <3>1. i >= k + 1 /\ i + 1 # k
        BY <1>0, <2>3
      <3>2. i + 1 \in 1 .. n /\ r[i] = gs[i + 1]
        BY <1>0, <1>6, <3>1
      <3> QED BY <1>4, <2>3, <3>1, <3>2
    <2> QED BY <1>0, <2>1, <2>2, <2>3
  <1>8. /\ \A i \in 1 .. n : hs[i].len > 0
        /\ \A i, j \in 1 .. n : i < j => hs[i].base + hs[i].len <= hs[j].base
    BY DEF Sorted
  <1>9. big.len > 0 /\ big.base + big.len = hs[k + 1].base + hs[k + 1].len
    BY <1>0, <1>1, <1>2, <1>8
  <1> DEFINE End(i) == IF i < k THEN hs[i].base + hs[i].len ELSE hs[i + 1].base + hs[i + 1].len
             Start(i) == IF i <= k THEN hs[i].base ELSE hs[i + 1].base
  <1>10. ASSUME NEW i \in 1 .. n - 1
         PROVE  r[i].base = Start(i) /\ r[i].base + r[i].len = End(i) /\ r[i].len > 0
    <2>1. CASE i < k
      <3>1. i \in 1 .. n /\ r[i] = hs[i] /\ i <= k
        BY <1>0, <1>7, <2>1
      <3> QED BY <1>8, <2>1, <3>1
    <2>2. CASE i = k
      BY <1>0, <1>1, <1>2, <1>7, <1>9, <2>2
    <2>3. CASE i > k
      BY <1>0, <1>7, <1>8, <2>3
    <2> QED BY <1>0, <2>1, <2>2, <2>3
  <1>11. Sorted(r)
    <2>1. ASSUME NEW i \in 1 .. n - 1, NEW j \in 1 .. n - 1, i < j
          PROVE  End(i) <= Start(j)
      <3>1. CASE i < k /\ j <= k
        <4>1. i \in 1 .. n /\ j \in 1 .. n
          BY <1>0
        <4> QED BY <1>8, <2>1, <3>1, <4>1
      <3>2. CASE i < k /\ j > k
        <4>1. i \in 1 .. n /\ j + 1 \in 1 .. n /\ i < j + 1
          BY <1>0, <2>1
        <4> QED BY <1>8, <3>2, <4>1
      <3>3. CASE i >= k
        <4>1. i + 1 \in 1 .. n /\ j + 1 \in 1 .. n /\ i + 1 < j + 1 /\ j > k
          BY <1>0, <2>1, <3>3
        <4> QED BY <1>8, <3>3, <4>1
      <3> QED BY <1>0, <3>1, <3>2, <3>3
    <2> HIDE DEF End, Start
    <2>2. ASSUME NEW i \in 1 .. n - 1, NEW j \in 1 .. n - 1, i < j
          PROVE  r[i].base + r[i].len <= r[j].base
      BY <1>10, <2>1, <2>2
    <2> QED BY <1>6, <1>10, <2>2 DEF Sorted
  <1>12. ASSUME NEW i \in 1 .. n - 1, Borders(r, i)
         PROVE  IF i < k THEN Borders(hs, i) ELSE Borders(hs, i + 1)
    <2>1. i < n - 1 /\ r[i].base + r[i].len = r[i + 1].base
      BY <1>6, <1>12 DEF Borders
    <2>2. i + 1 \in 1 .. n - 1
      BY <1>0, <2>1
    <2>3. End(i) = Start(i + 1)
      BY <1>10, <2>1, <2>2
    <2>4. CASE i < k
      BY <1>0, <2>1, <2>3, <2>4 DEF Borders
    <2>5. CASE i >= k
      <3>1. End(i) = hs[i + 1].base + hs[i + 1].len /\ Start(i + 1) = hs[(i + 1) + 1].base
        BY <1>0, <2>5
      <3> QED BY <1>0, <2>1, <2>3, <2>5, <3>1 DEF Borders
    <2> QED BY <1>0, <2>4, <2>5
  <1>13. Clicks(big) = Clicks(hs[k]) \cup Clicks(hs[k + 1])
    <2>1. \A x : x \in Clicks(big) <=> x \in Clicks(hs[k]) \/ x \in Clicks(hs[k + 1])
      <3> TAKE x
      <3>1. /\ x \in Clicks(hs[k]) <=> x \in Int /\ hs[k].base <= x /\ x < hs[k].base + hs[k].len
            /\ hs[k].base \in Nat /\ hs[k].len \in Nat
        BY <1>0, ClicksAre
      <3>2. /\ x \in Clicks(hs[k + 1])
               <=> x \in Int /\ hs[k + 1].base <= x /\ x < hs[k + 1].base + hs[k + 1].len
            /\ hs[k + 1].base \in Nat /\ hs[k + 1].len \in Nat
        BY <1>0, <1>1, ClicksAre
      <3>3. x \in Clicks(big) <=> x \in Int /\ big.base <= x /\ x < big.base + big.len
        BY <1>2, ClicksAre
      <3> QED BY <1>1, <1>2, <3>1, <3>2, <3>3, SMTT(30)
    <2> QED BY <2>1
  <1>14. Cover(r) = Cover(hs)
    <2>1. ASSUME NEW x \in Cover(r) PROVE x \in Cover(hs)
      <3>1. PICK i \in 1 .. n - 1 : x \in Clicks(r[i])
        BY <1>6, CoverIs
      <3>2. CASE r[i] = big
        BY <1>1, <1>13, <3>1, <3>2, CoverIs
      <3>3. CASE r[i] # big
        BY <1>7, <3>1, <3>3, CoverIs
      <3> QED BY <3>2, <3>3
    <2>2. ASSUME NEW x \in Cover(hs) PROVE x \in Cover(r)
      <3>1. PICK j \in 1 .. n : x \in Clicks(hs[j])
        BY <2>2, CoverIs
      <3>2. CASE j < k
        <4>1. j \in 1 .. n - 1 /\ r[j] = hs[j]
          BY <1>0, <1>7, <3>2
        <4> QED BY <1>6, <3>1, <4>1, CoverIs
      <3>3. CASE j = k \/ j = k + 1
        <4>1. k \in 1 .. n - 1 /\ r[k] = big
          BY <1>0, <1>1, <1>7, SMTT(30)
        <4>2. x \in Clicks(r[k])
          BY <1>13, <3>1, <3>3, <4>1
        <4> QED BY <1>6, <4>1, <4>2, CoverIs
      <3>4. CASE j > k + 1
        <4>1. j - 1 \in 1 .. n - 1 /\ j - 1 > k /\ (j - 1) + 1 = j
          BY <1>0, <3>4
        <4>2. r[j - 1] = hs[(j - 1) + 1]
          BY <1>7, <4>1
        <4> QED BY <1>6, <3>1, <4>1, <4>2, CoverIs
      <3> QED BY <1>0, <3>2, <3>3, <3>4
    <2> QED BY <2>1, <2>2
  <1> QED BY <1>6, <1>11, <1>12, <1>14

(* A list in order in which nothing touches the next hole is apart. *)
LEMMA TouchNothing ==
    ASSUME NEW hs \in Seq(Block), Sorted(hs), \A i \in 1 .. Len(hs) - 1 : ~Borders(hs, i)
    PROVE  Apart(hs)
  <1>0. /\ Len(hs) \in Nat
        /\ \A i \in 1 .. Len(hs) : hs[i].base \in Nat /\ hs[i].len \in Nat
    BY BlocksAre
  <1>1. /\ \A i \in 1 .. Len(hs) : hs[i].len > 0
        /\ \A i, j \in 1 .. Len(hs) : i < j => hs[i].base + hs[i].len <= hs[j].base
    BY DEF Sorted
  <1>2. ASSUME NEW i \in 1 .. Len(hs), NEW j \in 1 .. Len(hs), i < j
        PROVE  hs[i].base + hs[i].len < hs[j].base
    <2>1. i \in 1 .. Len(hs) - 1 /\ i < i + 1 /\ i + 1 \in 1 .. Len(hs)
      BY <1>0, <1>2
    <2>0. /\ hs[i].base \in Nat /\ hs[i].len \in Nat /\ hs[j].base \in Nat
          /\ hs[i + 1].base \in Nat /\ hs[i + 1].len \in Nat
      BY <1>0, <2>1
    <2>2. hs[i].base + hs[i].len < hs[i + 1].base
      <3>1. hs[i].base + hs[i].len # hs[i + 1].base
        BY <1>0, <2>1 DEF Borders
      <3>2. hs[i].base + hs[i].len <= hs[i + 1].base
        BY <1>1, <2>1
      <3> DEFINE e == hs[i].base + hs[i].len
                 b == hs[i + 1].base
      <3>3. e \in Int /\ b \in Int /\ e # b /\ e <= b
        BY <2>0, <3>1, <3>2
      <3> HIDE DEF e, b
      <3>4. e < b
        BY <3>3
      <3> QED BY <3>4 DEF e, b
    <2>3. CASE j = i + 1
      BY <2>2, <2>3
    <2>4. CASE j > i + 1
      <3>1. hs[i + 1].base + hs[i + 1].len <= hs[j].base
        BY <1>1, <2>1, <2>4
      <3> DEFINE e == hs[i].base + hs[i].len
                 b == hs[i + 1].base
                 l == hs[i + 1].len
                 c == hs[j].base
      <3>2. e \in Int /\ b \in Nat /\ l \in Nat /\ c \in Int /\ e < b /\ b + l <= c
        BY <2>0, <2>2, <3>1
      <3> HIDE DEF e, b, l, c
      <3>3. e < c
        BY <3>2
      <3> QED BY <3>3 DEF e, c
    <2> QED BY <1>0, <1>2, <2>3, <2>4
  <1> QED BY <1>1, <1>2 DEF Apart

(* merge() removes the at most two places where a new hole touches others. *)
LEMMA MergeIs ==
    ASSUME NEW hs \in Seq(Block), Sorted(hs), NEW k \in Nat, k > 0, TouchOnly(hs, {k, k + 1}),
           NEW r, r = merge(hs, k)
    PROVE  r \in Seq(Block) /\ Apart(r) /\ Cover(r) = Cover(hs)
  <1> DEFINE one == IF Borders(hs, k) THEN Absorb(hs, k) ELSE hs
             nxt == IF Borders(hs, k) THEN k ELSE k + 1
  <1>0. Len(hs) \in Nat
    BY BlocksAre
  <1>1. \A i \in 1 .. Len(hs) - 1 : Borders(hs, i) => i = k \/ i = k + 1
    BY DEF TouchOnly
  <1>2. /\ one \in Seq(Block) /\ Sorted(one) /\ Cover(one) = Cover(hs)
        /\ \A i \in 1 .. Len(one) - 1 : Borders(one, i) => i = nxt
        /\ nxt \in Nat /\ nxt > 0
    <2>1. CASE Borders(hs, k)
      <3>1. k \in 1 .. Len(hs) /\ one = Absorb(hs, k) /\ nxt = k
        BY <1>0, <2>1 DEF Borders
      <3> HIDE DEF one, nxt
      <3>2. /\ one \in Seq(Block) /\ Len(one) = Len(hs) - 1
            /\ Sorted(one) /\ Cover(one) = Cover(hs)
            /\ \A i \in 1 .. Len(hs) - 1 :
                  Borders(one, i) => IF i < k THEN Borders(hs, i) ELSE Borders(hs, i + 1)
        BY <2>1, <3>1, AbsorbIs, Zenon
      <3>3. ASSUME NEW i \in 1 .. Len(one) - 1, Borders(one, i) PROVE i = k
        <4>1. i \in 1 .. Len(hs) - 1 /\ i + 1 \in 1 .. Len(hs) - 1
          BY <1>0, <3>2
        <4>2. IF i < k THEN Borders(hs, i) ELSE Borders(hs, i + 1)
          BY <3>2, <3>3, <4>1
        <4> QED BY <1>1, <4>1, <4>2
      <3> QED BY <3>1, <3>2, <3>3
    <2>2. CASE ~Borders(hs, k)
      <3>1. one = hs /\ nxt = k + 1
        BY <2>2
      <3> HIDE DEF one, nxt
      <3> QED BY <1>1, <2>2, <3>1
    <2> QED BY <2>1, <2>2
  <1>3. r = IF Borders(one, nxt) THEN Absorb(one, nxt) ELSE one
    BY DEF merge
  <1> HIDE DEF one, nxt
  <1>4. CASE Borders(one, nxt)
    <2>1. nxt \in 1 .. Len(one) /\ Len(one) \in Nat
      BY <1>2, <1>4, BlocksAre DEF Borders
    <2>2. /\ r \in Seq(Block) /\ Len(r) = Len(one) - 1
          /\ Sorted(r) /\ Cover(r) = Cover(one)
          /\ \A i \in 1 .. Len(one) - 1 :
                Borders(r, i) => IF i < nxt THEN Borders(one, i) ELSE Borders(one, i + 1)
      <3>1. r = Absorb(one, nxt) /\ Sorted(one) /\ one \in Seq(Block)
        BY <1>2, <1>3, <1>4
      <3> QED BY <1>4, <2>1, <3>1, AbsorbIs, Zenon
    <2>3. ASSUME NEW i \in 1 .. Len(r) - 1 PROVE ~Borders(r, i)
      <3>1. i \in 1 .. Len(one) - 1 /\ i + 1 \in 1 .. Len(one) - 1
        BY <2>1, <2>2
      <3> QED BY <1>2, <2>2, <3>1
    <2> QED BY <1>2, <2>2, <2>3, TouchNothing
  <1>5. CASE ~Borders(one, nxt)
    <2>1. \A i \in 1 .. Len(one) - 1 : ~Borders(one, i)
      BY <1>2, <1>5
    <2>2. Apart(one)
      BY <1>2, <2>1, TouchNothing
    <2> QED BY <1>2, <1>3, <1>5, <2>2
  <1> QED BY <1>4, <1>5

(* free_mem() keeps the holes apart, provided that what is given back was  *)
(* not free.                                                               *)
LEMMA FreeMemIs ==
    ASSUME NEW hs \in Seq(Block), Apart(hs), NEW b \in Block, Clicks(b) \cap Cover(hs) = {},
           NEW r, r = free_mem(hs, b)
    PROVE  r \in Seq(Block) /\ Apart(r) /\ Cover(r) = Cover(hs) \cup Clicks(b)
  <1>0. b.base \in Nat /\ b.len \in Nat
    BY DEF Block
  <1>1. CASE b.len = 0
    <2>1. Clicks(b) = {}
      BY <1>0, <1>1 DEF Clicks
    <2> QED BY <1>1, <2>1 DEF free_mem
  <1>2. CASE b.len # 0
    <2> DEFINE k == Lower(hs, b)
               m == Insert(hs, k, b)
               at == IF k = 0 THEN 1 ELSE k
    <2>1. r = merge(m, at)
      BY <1>2 DEF free_mem
    <2>2. /\ k \in 0 .. Len(hs)
          /\ m \in Seq(Block) /\ Sorted(m) /\ TouchOnly(m, {k, k + 1})
          /\ Cover(m) = Cover(hs) \cup Clicks(b)
      <3>1. b.len > 0
        BY <1>0, <1>2
      <3> QED BY <3>1, InsertSorted, Zenon
    <2>3. at \in Nat /\ at > 0
      BY <2>2, BlocksAre
    <2> HIDE DEF m
    <2>4. TouchOnly(m, {at, at + 1})
      <3>1. ASSUME NEW i \in 1 .. Len(m) - 1, Borders(m, i) PROVE i = at \/ i = at + 1
        <4>1. i = k \/ i = k + 1
          BY <2>2, <3>1 DEF TouchOnly
        <4> QED BY <2>2, <4>1
      <3> QED BY <3>1 DEF TouchOnly
    <2> HIDE DEF at
    <2>5. r \in Seq(Block) /\ Apart(r) /\ Cover(r) = Cover(m)
      BY <2>1, <2>2, <2>3, <2>4, MergeIs, Zenon
    <2> QED BY <2>2, <2>5
  <1> QED BY <1>1, <1>2

(* Holes that are apart have no click in common. *)
LEMMA ApartDisjoint ==
    ASSUME NEW hs \in Seq(Block), Apart(hs), NEW i \in 1 .. Len(hs), NEW j \in 1 .. Len(hs), i # j
    PROVE  Clicks(hs[i]) \cap Clicks(hs[j]) = {}
  <1>0. /\ Len(hs) \in Nat
        /\ \A h \in 1 .. Len(hs) : hs[h] \in Block
    BY BlocksAre
  <1>1. \A g, h \in 1 .. Len(hs) : g < h => hs[g].base + hs[g].len < hs[h].base
    BY DEF Apart
  <1>2. ASSUME NEW g \in 1 .. Len(hs), NEW h \in 1 .. Len(hs), g < h, NEW x
        PROVE  ~(x \in Clicks(hs[g]) /\ x \in Clicks(hs[h]))
    <2>1. hs[g].base + hs[g].len < hs[h].base
      BY <1>1, <1>2
    <2>2. /\ x \in Clicks(hs[g]) => x \in Int /\ x < hs[g].base + hs[g].len
          /\ x \in Clicks(hs[h]) => x \in Int /\ hs[h].base <= x
          /\ hs[g].base \in Nat /\ hs[g].len \in Nat /\ hs[h].base \in Nat
      BY <1>0, ClicksAre
    <2> QED BY <2>1, <2>2
  <1>3. i < j \/ j < i
    OBVIOUS
  <1> QED BY <1>2, <1>3

(* Without one hole the others are still apart. *)
LEMMA DelSlotApart ==
    ASSUME NEW hs \in Seq(Block), Apart(hs), NEW k \in 1 .. Len(hs), NEW r, r = del_slot(hs, k)
    PROVE  r \in Seq(Block) /\ Apart(r) /\ Cover(r) = Cover(hs) \ Clicks(hs[k])
  <1> DEFINE n == Len(hs)
             at(i) == IF i < k THEN i ELSE i + 1
  <1>0. n \in Nat
    BY BlocksAre
  <1>1. /\ r \in Seq(Block) /\ Len(r) = n - 1
        /\ \A i \in 1 .. n - 1 :
              \/ i < k /\ i \in 1 .. n /\ r[i] = hs[i]
              \/ i >= k /\ i + 1 \in 1 .. n /\ r[i] = hs[i + 1]
        /\ \A i \in 1 .. n : i < k => i \in 1 .. n - 1 /\ r[i] = hs[i]
        /\ \A i \in 1 .. n : i > k => i - 1 \in 1 .. n - 1 /\ r[i - 1] = hs[i]
    BY DelSlotIs
  <1>2. ASSUME NEW i \in 1 .. n - 1
        PROVE  at(i) \in 1 .. n /\ at(i) # k /\ r[i] = hs[at(i)]
    BY <1>0, <1>1
  <1>3. ASSUME NEW i \in 1 .. n - 1, NEW j \in 1 .. n - 1, i < j PROVE at(i) < at(j)
    BY <1>0, <1>3
  <1> HIDE DEF at
  <1>4. /\ \A i \in 1 .. n : hs[i].len > 0
        /\ \A i, j \in 1 .. n : i < j => hs[i].base + hs[i].len < hs[j].base
    BY DEF Apart
  <1>5. ASSUME NEW i \in 1 .. n - 1 PROVE r[i].len > 0
    BY <1>2, <1>4
  <1>6. ASSUME NEW i \in 1 .. n - 1, NEW j \in 1 .. n - 1, i < j
        PROVE  r[i].base + r[i].len < r[j].base
    <2>1. hs[at(i)].base + hs[at(i)].len < hs[at(j)].base
      BY <1>2, <1>3, <1>4, <1>6
    <2> QED BY <1>2, <2>1
  <1>7. Apart(r)
    BY <1>1, <1>5, <1>6 DEF Apart
  <1>8. ASSUME NEW x \in Cover(r) PROVE x \in Cover(hs) /\ x \notin Clicks(hs[k])
    <2>1. PICK i \in 1 .. n - 1 : x \in Clicks(r[i])
      BY <1>1, CoverIs
    <2>2. x \in Clicks(hs[at(i)]) /\ at(i) \in 1 .. n /\ at(i) # k
      BY <1>2, <2>1
    <2>3. Clicks(hs[at(i)]) \cap Clicks(hs[k]) = {}
      BY <2>2, ApartDisjoint
    <2> QED BY <2>2, <2>3, CoverIs
  <1>9. ASSUME NEW x \in Cover(hs), x \notin Clicks(hs[k]) PROVE x \in Cover(r)
    <2>1. PICK j \in 1 .. n : x \in Clicks(hs[j])
      BY CoverIs
    <2>2. CASE j < k
      <3>1. j \in 1 .. n - 1 /\ r[j] = hs[j]
        BY <1>1, <2>2
      <3> QED BY <1>1, <2>1, <3>1, CoverIs
    <2>3. CASE j > k
      <3>1. j - 1 \in 1 .. n - 1 /\ r[j - 1] = hs[j]
        BY <1>1, <2>3
      <3> QED BY <1>1, <2>1, <3>1, CoverIs
    <2>4. j # k
      BY <1>9, <2>1
    <2> QED BY <1>0, <2>2, <2>3, <2>4
  <1> QED BY <1>1, <1>7, <1>8, <1>9

(* Taking the front of a hole. *)
LEMMA BiteIs ==
    ASSUME NEW hs \in Seq(Block), Apart(hs), NEW k \in 1 .. Len(hs),
           NEW n \in Nat, n <= hs[k].len, NEW r, r = Bite(hs, k, n),
           NEW b, b = [base |-> hs[k].base, len |-> n]
    PROVE  /\ r \in Seq(Block) /\ Apart(r)
           /\ b \in Block /\ Clicks(b) \subseteq Cover(hs)
           /\ Cover(r) = Cover(hs) \ Clicks(b)
  <1>0. /\ Len(hs) \in Nat /\ hs[k] \in Block /\ hs[k].base \in Nat /\ hs[k].len \in Nat
        /\ \A i \in 1 .. Len(hs) : hs[i] \in Block /\ hs[i].base \in Nat /\ hs[i].len \in Nat
    BY BlocksAre
  <1>1. b \in Block /\ b.base = hs[k].base /\ b.len = n
    BY <1>0 DEF Block
  <1>2. \A x : x \in Clicks(b) <=> x \in Int /\ hs[k].base <= x /\ x < hs[k].base + n
    BY <1>1, ClicksAre
  <1>3. \A x : x \in Clicks(hs[k]) <=> x \in Int /\ hs[k].base <= x /\ x < hs[k].base + hs[k].len
    BY <1>0, ClicksAre
  <1>4. Clicks(b) \subseteq Clicks(hs[k])
    BY <1>0, <1>2, <1>3
  <1>5. Clicks(b) \subseteq Cover(hs)
    BY <1>4, CoverIs
  <1>6. CASE hs[k].len = n
    <2>1. Clicks(b) = Clicks(hs[k])
      BY <1>2, <1>3, <1>6
    <2>2. r = del_slot(hs, k)
      BY <1>6 DEF Bite
    <2>3. r \in Seq(Block) /\ Apart(r) /\ Cover(r) = Cover(hs) \ Clicks(hs[k])
      BY <2>2, DelSlotApart
    <2> QED BY <1>1, <1>5, <2>1, <2>3
  <1>7. CASE hs[k].len # n
    <2> DEFINE s == [base |-> hs[k].base + n, len |-> hs[k].len - n]
    <2>1. s \in Block /\ s.base = hs[k].base + n /\ s.len = hs[k].len - n
      BY <1>0, <1>7, SMTT(30) DEF Block
    <2>2. r = [hs EXCEPT ![k] = s]
      BY <1>7 DEF Bite
    <2> HIDE DEF s
    <2>3. /\ r \in Seq(Block) /\ Len(r) = Len(hs) /\ r[k] = s
          /\ \A i \in 1 .. Len(hs) : i # k => r[i] = hs[i]
      BY <2>1, <2>2, ReplaceIs
    <2>4. /\ s.len > 0 /\ s.base >= hs[k].base
          /\ s.base + s.len = hs[k].base + hs[k].len
      BY <1>0, <1>7, <2>1, SMTT(30)
    <2>5. ASSUME NEW i \in 1 .. Len(hs)
          PROVE  /\ r[i].base \in Nat /\ r[i].base >= hs[i].base
                 /\ r[i].base + r[i].len = hs[i].base + hs[i].len
                 /\ r[i].len > 0
      <3>1. hs[i].len > 0
        BY DEF Apart
      <3>2. CASE i = k
        BY <2>1, <2>3, <2>4, <3>2, <1>0
      <3>3. CASE i # k
        BY <1>0, <2>3, <3>1, <3>3
      <3> QED BY <3>2, <3>3
    <2>6. ASSUME NEW i \in 1 .. Len(hs), NEW j \in 1 .. Len(hs), i < j
          PROVE  r[i].base + r[i].len < r[j].base
      <3>1. hs[i].base + hs[i].len < hs[j].base
        BY <2>6 DEF Apart
      <3> QED BY <1>0, <2>5, <3>1, SMTT(30)
    <2>7. Apart(r)
      BY <2>3, <2>5, <2>6 DEF Apart
    <2>8. Clicks(s) = Clicks(hs[k]) \ Clicks(b)
      <3>1. \A x : x \in Clicks(s) <=> x \in Int /\ s.base <= x /\ x < s.base + s.len
        BY <2>1, ClicksAre
      <3>2. \A x : x \in Clicks(s) <=> x \in Clicks(hs[k]) /\ x \notin Clicks(b)
        BY <1>0, <1>2, <1>3, <2>1, <2>4, <3>1
      <3> QED BY <3>2
    <2>9. ASSUME NEW x \in Cover(r) PROVE x \in Cover(hs) /\ x \notin Clicks(b)
      <3>1. PICK i \in 1 .. Len(hs) : x \in Clicks(r[i])
        BY <2>3, CoverIs
      <3>2. CASE i = k
        BY <2>3, <2>8, <3>1, <3>2, CoverIs
      <3>3. CASE i # k
        <4>1. x \in Clicks(hs[i])
          BY <2>3, <3>1, <3>3
        <4>2. Clicks(hs[i]) \cap Clicks(hs[k]) = {}
          BY <3>3, ApartDisjoint
        <4> QED BY <1>4, <4>1, <4>2, CoverIs
      <3> QED BY <3>2, <3>3
    <2>10. ASSUME NEW x \in Cover(hs), x \notin Clicks(b) PROVE x \in Cover(r)
      <3>1. PICK i \in 1 .. Len(hs) : x \in Clicks(hs[i])
        BY CoverIs
      <3>2. x \in Clicks(r[i])
        BY <2>3, <2>8, <2>10, <3>1
      <3> QED BY <2>3, <3>2, CoverIs
    <2> QED BY <1>1, <1>5, <2>3, <2>7, <2>9, <2>10
  <1> QED BY <1>6, <1>7

(* First fit finds a hole that is large enough on the right side. *)
LEMMA FitsIs ==
    ASSUME NEW hs \in Seq(Block), NEW n, NEW onswap, Fits(hs, n, onswap) # {},
           NEW k, k = First(Fits(hs, n, onswap))
    PROVE  k \in 1 .. Len(hs) /\ hs[k].len >= n /\ (hs[k].base >= swap_base <=> onswap)
  <1>1. Len(hs) \in Nat
    BY BlocksAre
  <1>2. Fits(hs, n, onswap) \in SUBSET Nat
    BY <1>1 DEF Fits
  <1>3. k \in Fits(hs, n, onswap)
    BY <1>2, FirstIs
  <1> QED BY <1>3 DEF Fits

(* The first n holes of a list. *)
LEMMA FrontIs ==
    ASSUME NEW hs \in Seq(Block), NEW n \in Nat, n <= Len(hs)
    PROVE  /\ \A i \in 1 .. n : i \in 1 .. Len(hs) /\ [j \in 1 .. n |-> hs[j]][i] = hs[i]
           /\ [j \in 1 .. n |-> hs[j]] \in Seq(Block) /\ Len([j \in 1 .. n |-> hs[j]]) = n
  <1> DEFINE at(i) == hs[i]
             r == [j \in 1 .. n |-> at(j)]
  <1>0. Len(hs) \in Nat /\ \A i \in 1 .. Len(hs) : hs[i] \in Block
    BY BlocksAre
  <1>1. \A i \in 1 .. n : i \in 1 .. Len(hs)
    BY <1>0
  <1>2. \A i \in 1 .. n : at(i) \in Block
    BY <1>0, <1>1
  <1> HIDE DEF at
  <1>3. r \in Seq(Block) /\ Len(r) = n
    BY <1>2
  <1>4. \A i \in 1 .. n : r[i] = at(i)
    OBVIOUS
  <1> QED BY <1>1, <1>3, <1>4 DEF at

(* The front of a list, cut where no hole is cut. *)
LEMMA CutIs ==
    ASSUME NEW hs \in Seq(Block), Apart(hs), NEW at \in Nat, at > 0, at - 1 \notin Cover(hs),
           NEW r, r = [i \in 1 .. Lower(hs, [base |-> at]) |-> hs[i]]
    PROVE  /\ r \in Seq(Block) /\ Apart(r)
           /\ Cover(r) = {x \in Cover(hs) : x < at}
  <1> DEFINE n == Lower(hs, [base |-> at])
  <1>0. /\ Len(hs) \in Nat
        /\ \A i \in 1 .. Len(hs) : hs[i] \in Block /\ hs[i].base \in Nat /\ hs[i].len \in Nat
    BY BlocksAre
  <1>1. n \in 0 .. Len(hs) /\ \A i \in 1 .. Len(hs) : hs[i].base < at <=> i <= n
    <2>1. Sorted(hs)
      BY <1>0 DEF Apart, Sorted
    <2>2. [base |-> at].base = at
      OBVIOUS
    <2> QED BY <2>1, <2>2, LowerIs
  <1> HIDE DEF n
  <1>2. r = [i \in 1 .. n |-> hs[i]]
    BY DEF n
  <1>3. n \in Nat /\ n <= Len(hs)
    BY <1>0, <1>1
  <1>4. /\ \A i \in 1 .. n : i \in 1 .. Len(hs) /\ r[i] = hs[i]
        /\ r \in Seq(Block) /\ Len(r) = n
    BY <1>2, <1>3, FrontIs, ZenonT(30)
  <1>5. Apart(r)
    BY <1>4 DEF Apart
  <1>6. ASSUME NEW i \in 1 .. Len(hs), NEW x, x \in Clicks(hs[i])
        PROVE  x < at <=> i <= n
    <2>1. x \in Int /\ hs[i].base <= x /\ x < hs[i].base + hs[i].len
      BY <1>0, <1>6, ClicksAre
    <2>2. at - 1 \notin Clicks(hs[i])
      BY CoverIs
    <2>3. at - 1 \in Int /\ ~(hs[i].base <= at - 1 /\ at - 1 < hs[i].base + hs[i].len)
      BY <1>0, <2>2, ClicksAre
    <2>4. hs[i].base < at <=> i <= n
      BY <1>1
    <2>5. hs[i].base \in Nat /\ hs[i].len \in Nat
      BY <1>0
    <2> QED BY <2>1, <2>3, <2>4, <2>5
  <1>7. ASSUME NEW x \in Cover(r) PROVE x \in Cover(hs) /\ x < at
    <2>1. PICK i \in 1 .. n : x \in Clicks(r[i])
      BY <1>4, CoverIs
    <2>2. i \in 1 .. Len(hs) /\ x \in Clicks(hs[i]) /\ i <= n
      BY <1>1, <1>4, <2>1
    <2> QED BY <1>6, <2>2, CoverIs
  <1>8. ASSUME NEW x \in Cover(hs), x < at PROVE x \in Cover(r)
    <2>1. PICK i \in 1 .. Len(hs) : x \in Clicks(hs[i])
      BY CoverIs
    <2>2. i \in 1 .. n
      BY <1>1, <1>6, <1>8, <2>1
    <2> QED BY <1>4, <2>1, <2>2, CoverIs
  <1> QED BY <1>4, <1>5, <1>7, <1>8

-----------------------------------------------------------------------------
(* What the state stands for in the module Memory. *)

Progs     == Program \cup {InitProgram}
InitClicks == Clicks(InitSeg.T) \cup Clicks(InitSeg.D)
SwapArea  == [base |-> swap_base, len |-> IF swap_size = -1 THEN 0 ELSE swap_size]
All       == Given \cup InitClicks \cup Clicks(SwapArea)
DataOf(p) == IF Has(p, "IN_USE") THEN Clicks(seg[p].D) ELSE {}
TextOf(f) == UNION {Clicks(seg[p].T) : p \in {q \in InUse : prog[q] = f}}

(* Nobody has what another one has, and what nobody has is a hole. *)
Kept ==
    /\ \A p \in Proc : DataOf(p) \subseteq All
    /\ \A f \in Progs : TextOf(f) \subseteq All
    /\ Cover(hole) \subseteq All
    /\ \A x \in All : x \in Cover(hole) <=> /\ \A p \in Proc : x \notin DataOf(p)
                                            /\ \A f \in Progs : x \notin TextOf(f)
    /\ \A p, q \in Proc : p # q => DataOf(p) \cap DataOf(q) = {}
    /\ \A f, g \in Progs : f # g => TextOf(f) \cap TextOf(g) = {}
    /\ \A p \in Proc, f \in Progs : DataOf(p) \cap TextOf(f) = {}

(* NothingLost of Memory says this of the state. *)
LEMMA KeptIs == M!NothingLost => Kept
  <1> SUFFICES ASSUME M!NothingLost PROVE Kept
    OBVIOUS
  <1> DEFINE data == [p \in Proc |-> DataOf(p)]
             text == [f \in Progs |-> TextOf(f)]
             owned == (UNION {data[p] : p \in Proc}) \cup (UNION {text[f] : f \in Progs})
  <1>1. /\ owned \subseteq All /\ Cover(hole) = All \ owned
        /\ \A p, q \in Proc : p # q => data[p] \cap data[q] = {}
        /\ \A f, g \in Progs : f # g => text[f] \cap text[g] = {}
        /\ \A p \in Proc, f \in Progs : data[p] \cap text[f] = {}
    BY DEF M!NothingLost, M!Owned, Progs, DataOf, TextOf, All, SwapArea, InitClicks, Cover
  <1>2. /\ \A p \in Proc : data[p] = DataOf(p)
        /\ \A f \in Progs : text[f] = TextOf(f)
    OBVIOUS
  <1> HIDE DEF data, text
  <1>3. \A x : x \in owned <=> \/ \E p \in Proc : x \in DataOf(p)
                              \/ \E f \in Progs : x \in TextOf(f)
    BY <1>2
  <1> HIDE DEF owned
  <1> QED BY <1>1, <1>2, <1>3 DEF Kept

(* Processes have positive numbers; INIT is one. *)
LEMMA ProcIs ==
    INIT \in Proc /\ Proc \subseteq Nat /\ 0 \notin Proc /\ NR_PROCS \in Nat /\ NR_PROCS > INIT
  BY AllocAssumption DEF INIT, Proc, LOW_USER

(* Programs, INIT's among them.  None is not one. *)
LEMMA ProgramsAre ==
    /\ \A f \in Program : /\ f.sep \in BOOLEAN /\ f.text \in Nat /\ f.tot \in Nat /\ f.tot > 0
                          /\ f.sep <=> f.text > 0
    /\ None \notin Progs /\ InitProgram \in Progs /\ InitProgram \notin Program
    /\ InitProgram.sep = TRUE
    /\ \A f \in Progs : f.sep \in BOOLEAN
  <1>1. \A f \in Program : /\ f.sep \in BOOLEAN /\ f.text \in Nat /\ f.tot \in Nat /\ f.tot > 0
                           /\ f.sep <=> f.text > 0
    BY AllocAssumption
  <1>2. \A f \in Program : f.name \notin {"none", "init"}
    BY AllocAssumption
  <1>3. None \notin Progs
    BY <1>2 DEF None, Progs, InitProgram
  <1>4. InitProgram \in Progs /\ InitProgram \notin Program /\ InitProgram.sep = TRUE
    BY <1>2 DEF InitProgram, Progs
  <1>5. \A f \in Progs : f.sep \in BOOLEAN
    BY <1>1, <1>4 DEF Progs
  <1> QED BY <1>1, <1>3, <1>4, <1>5

(* The boot image and the chunks. *)
LEMMA MemoryGiven ==
    /\ InitSeg.T \in Block /\ InitSeg.T.len > 0 /\ InitSeg.D \in Block /\ InitSeg.D.len > 0
    /\ InitSeg \in [T : Block, D : Block]
    /\ Chunks \in Seq(Block) /\ Len(Chunks) \in Nat
    /\ \A i \in 1 .. Len(Chunks) : Chunks[i] \in Block /\ Chunks[i].len > 0
  <1>1. InitSeg \in [T : Block, D : Block] /\ InitSeg.T.len > 0 /\ InitSeg.D.len > 0
    BY AllocAssumption
  <1>2. InitSeg.T \in Block /\ InitSeg.D \in Block
    BY <1>1
  <1>3. Chunks \in Seq(Block) /\ \A i \in 1 .. Len(Chunks) : Chunks[i].len > 0
    BY AllocAssumption
  <1>4. Len(Chunks) \in Nat /\ \A i \in 1 .. Len(Chunks) : Chunks[i] \in Block
    BY <1>3
  <1> QED BY <1>1, <1>2, <1>3, <1>4

-----------------------------------------------------------------------------
(* The inductive invariant. *)

(* A slot not in use has no flags, and the flags of the others and their   *)
(* segments agree with the program.                                        *)
Slots == \A p \in Proc :
            /\ flags[p] # {} => Has(p, "IN_USE")
            /\ prog[p] = None <=> ~Has(p, "IN_USE")
            /\ Has(p, "IN_USE") => /\ Has(p, "SEPARATE") <=> prog[p].sep
                                   /\ seg[p].T.len > 0 <=> prog[p].sep
                                   /\ seg[p].D.len > 0

(* Who executes the same program has the same text. *)
Shared == \A p, q \in InUse : prog[p] = prog[q] /\ prog[p].sep => seg[p].T = seg[q].T

(* What is not swap area lies below it, with a gap of one click. *)
Border == IF job.op = "mem_init" THEN \A x \in Given : x < swap_base
          ELSE /\ \A x \in Given \cup InitClicks : x + 1 < swap_base
               /\ \A p \in InUse : seg[p].T.len > 0 => seg[p].T.base < swap_base

(* What alloc_mem() was called for is still what is needed when it is done.*)
Jobs ==
    /\ job.op = "mem_init" => /\ job.next \in 1 .. Len(Chunks) + 1 /\ swap_size = -1
                              /\ InUse = {INIT} /\ seg[INIT] = InitSeg
                              /\ flags[INIT] = {"IN_USE", "SEPARATE"}
    /\ job.op \in {"fork", "exec", "join", "off"} => Has(job.who, "IN_USE")
    /\ job.op = "fork" => job.n = seg[job.who].D.len /\ FreeSlots # {}
    /\ job.op = "exec" => /\ job.share = find_share(job.who, job.prog)
                          /\ job.n = job.prog.tot + IF job.share = 0 THEN job.prog.text ELSE 0
    /\ job.op \in {"join", "off"} => swap_size # -1
    /\ job.op \in {"in", "off"} => job.pos \in 1 .. Len(in_queue) + 1

(* The parts that are about processes, ... *)
Users == Slots /\ Shared /\ Border /\ SwapMarked

IInv == TypeOK /\ Apart(hole) /\ Users /\ Jobs /\ M!NothingLost

(* A text is where any of those that execute it has it. *)
LEMMA TextIs ==
    TypeOK /\ Slots /\ Shared =>
        \A f \in Progs : /\ \A p \in InUse : prog[p] = f => TextOf(f) = Clicks(seg[p].T)
                         /\ (~\E p \in InUse : prog[p] = f) => TextOf(f) = {}
  <1> SUFFICES ASSUME TypeOK, Slots, Shared, NEW f \in Progs
               PROVE  /\ \A p \in InUse : prog[p] = f => TextOf(f) = Clicks(seg[p].T)
                      /\ (~\E p \in InUse : prog[p] = f) => TextOf(f) = {}
    OBVIOUS
  <1>1. \A x : x \in TextOf(f) <=> \E p \in InUse : prog[p] = f /\ x \in Clicks(seg[p].T)
    BY DEF TextOf
  <1>2. (~\E p \in InUse : prog[p] = f) => TextOf(f) = {}
    BY <1>1
  <1>3. ASSUME NEW p \in InUse, NEW q \in InUse, prog[p] = f, prog[q] = f
        PROVE  Clicks(seg[p].T) = Clicks(seg[q].T)
    <2>1. CASE f.sep
      BY <1>3, <2>1 DEF Shared
    <2>2. CASE ~f.sep
      <3>1. p \in Proc /\ q \in Proc /\ Has(p, "IN_USE") /\ Has(q, "IN_USE")
        BY DEF InUse
      <3>2. seg[p].T \in Block /\ seg[q].T \in Block
        BY <3>1 DEF TypeOK
      <3>3. ~(seg[p].T.len > 0) /\ ~(seg[q].T.len > 0)
        BY <1>3, <2>2, <3>1 DEF Slots
      <3>4. \A x : x \notin Clicks(seg[p].T) /\ x \notin Clicks(seg[q].T)
        BY <3>2, <3>3, ClicksAre
      <3> QED BY <3>4
    <2> QED BY <2>1, <2>2
  <1>4. ASSUME NEW p \in InUse, prog[p] = f PROVE TextOf(f) = Clicks(seg[p].T)
    BY <1>1, <1>3, <1>4
  <1> QED BY <1>2, <1>4

(* What MM is in the middle of has what it needs. *)
LEMMA JobIs ==
    TypeOK =>
        /\ job.op = "mem_init" => job.next \in Nat /\ job = [op |-> "mem_init", next |-> job.next]
        /\ job.op \in {"fork", "exec"} => job.who \in Proc /\ job.n \in Nat
        /\ job.op = "exec" => job.prog \in Program /\ job.share \in Proc \cup {0}
        /\ job.op = "in" => job.pos \in Nat /\ job = [op |-> "in", pos |-> job.pos]
        /\ job.op = "off" => /\ job.who \in Proc /\ job.pos \in Nat
                             /\ job = [op |-> "off", who |-> job.who, pos |-> job.pos]
        /\ job.op = "join" => /\ job.who \in Proc /\ job.next \in Proc
                              /\ job = [op |-> "join", who |-> job.who, next |-> job.next]
        /\ job.op = "idle" => job = Idle
        /\ job.op = "lost" => job = Lost
  <1> SUFFICES ASSUME job \in Job PROVE
        /\ job.op = "mem_init" => job.next \in Nat /\ job = [op |-> "mem_init", next |-> job.next]
        /\ job.op \in {"fork", "exec"} => job.who \in Proc /\ job.n \in Nat
        /\ job.op = "exec" => job.prog \in Program /\ job.share \in Proc \cup {0}
        /\ job.op = "in" => job.pos \in Nat /\ job = [op |-> "in", pos |-> job.pos]
        /\ job.op = "off" => /\ job.who \in Proc /\ job.pos \in Nat
                             /\ job = [op |-> "off", who |-> job.who, pos |-> job.pos]
        /\ job.op = "join" => /\ job.who \in Proc /\ job.next \in Proc
                              /\ job = [op |-> "join", who |-> job.who, next |-> job.next]
        /\ job.op = "idle" => job = Idle
        /\ job.op = "lost" => job = Lost
    BY DEF TypeOK
  <1>1. CASE job \in {Idle, Lost}
    BY <1>1 DEF Idle, Lost
  <1>2. CASE job \in [op : {"mem_init"}, next : Nat]
    BY <1>2
  <1>3. CASE job \in [op : {"fork"}, who : Proc, n : Nat]
    BY <1>3
  <1>4. CASE job \in [op : {"exec"}, who : Proc, n : Nat, prog : Program, share : Proc \cup {0}]
    BY <1>4
  <1>5. CASE job \in [op : {"in"}, pos : Nat]
    BY <1>5
  <1>6. CASE job \in [op : {"join"}, who : Proc, next : Proc]
    BY <1>6
  <1>7. CASE job \in [op : {"off"}, who : Proc, pos : Nat]
    BY <1>7
  <1> QED BY <1>1, <1>2, <1>3, <1>4, <1>5, <1>6, <1>7 DEF Job

-----------------------------------------------------------------------------
(* Who hears from MM: only marks for MM's own use change, and nobody is on *)
(* the queue of swap_in() twice.                                           *)

Soft   == {"WAITING", "REPLY", "SWAPIN"}
MState == [fl : [Proc -> SUBSET Flag], q : Seq(Proc)]

Softens(fl, gl) == \A p \in Proc : /\ gl[p] \ Soft = fl[p] \ Soft
                                   /\ "IN_USE" \in fl[p] \/ gl[p] = fl[p]

OnQueue(q, p) == \E i \in 1 .. Len(q) : q[i] = p
Once(q)       == \A i, j \in 1 .. Len(q) : q[i] = q[j] => i = j

(* Who is marked is on the queue once; only S may be there without a mark. *)
Lined(m, S) == /\ Once(m.q)
               /\ \A p \in Proc : "SWAPIN" \in m.fl[p] => OnQueue(m.q, p)
               /\ \A p \in Proc \ S : OnQueue(m.q, p) => "SWAPIN" \in m.fl[p]

(* The queue stays in order where p is not left over on it. *)
KeepsLine(m, p, r) == \A S : p \notin S /\ Lined(m, S) => Lined(r, S)

(* The fields of such a record. *)
LEMMA MStateIs ==
    ASSUME NEW fl \in [Proc -> SUBSET Flag], NEW q \in Seq(Proc)
    PROVE  /\ [fl |-> fl, q |-> q] \in MState
           /\ [fl |-> fl, q |-> q].fl = fl /\ [fl |-> fl, q |-> q].q = q
  BY DEF MState

(* A list of processes with one more. *)
LEMMA AppendIs ==
    ASSUME NEW q \in Seq(Proc), NEW p \in Proc, NEW r, r = Append(q, p)
    PROVE  /\ r \in Seq(Proc)
           /\ \A x : OnQueue(r, x) <=> OnQueue(q, x) \/ x = p
           /\ Once(q) /\ ~OnQueue(q, p) => Once(r)
  <1>1. /\ Len(q) \in Nat /\ r \in Seq(Proc) /\ Len(r) = Len(q) + 1 /\ r[Len(q) + 1] = p
        /\ \A i \in 1 .. Len(q) : r[i] = q[i]
    OBVIOUS
  <1>2. /\ Len(q) + 1 \in 1 .. Len(r) /\ \A i \in 1 .. Len(q) : i \in 1 .. Len(r)
        /\ \A i \in 1 .. Len(r) : i \in 1 .. Len(q) \/ i = Len(q) + 1
    BY <1>1
  <1>3. \A x : OnQueue(r, x) <=> OnQueue(q, x) \/ x = p
    BY <1>1, <1>2 DEF OnQueue
  <1>4. ASSUME Once(q), ~OnQueue(q, p), NEW i \in 1 .. Len(r), NEW j \in 1 .. Len(r), r[i] = r[j]
        PROVE  i = j
    <2>1. \A h \in 1 .. Len(q) : r[h] # p
      BY <1>1, <1>4 DEF OnQueue
    <2> QED BY <1>1, <1>2, <1>4, <2>1 DEF Once
  <1> QED BY <1>1, <1>3, <1>4 DEF Once

(* swap_inqueue() *)
LEMMA InqueueIs ==
    ASSUME NEW m \in MState, NEW p \in Proc, "IN_USE" \in m.fl[p],
           NEW r, r = swap_inqueue(m, p)
    PROVE  r \in MState /\ Softens(m.fl, r.fl) /\ KeepsLine(m, p, r)
  <1>1. m.fl \in [Proc -> SUBSET Flag] /\ m.q \in Seq(Proc)
    BY DEF MState
  <1>2. CASE "SWAPIN" \in m.fl[p]
    BY <1>2 DEF swap_inqueue, Softens, KeepsLine
  <1>3. CASE "SWAPIN" \notin m.fl[p]
    <2> DEFINE gl == [m.fl EXCEPT ![p] = @ \cup {"SWAPIN"}]
               q2 == Append(m.q, p)
    <2>1. r = [fl |-> gl, q |-> q2]
      BY <1>3 DEF swap_inqueue
    <2>2. /\ gl \in [Proc -> SUBSET Flag] /\ gl[p] = m.fl[p] \cup {"SWAPIN"}
          /\ \A x \in Proc : x # p => gl[x] = m.fl[x]
      BY <1>1 DEF Flag
    <2>3. /\ q2 \in Seq(Proc) /\ \A x : OnQueue(q2, x) <=> OnQueue(m.q, x) \/ x = p
          /\ Once(m.q) /\ ~OnQueue(m.q, p) => Once(q2)
      BY <1>1, AppendIs
    <2> HIDE DEF gl, q2
    <2>4. r \in MState /\ r.fl = gl /\ r.q = q2
      BY <2>1, <2>2, <2>3, MStateIs
    <2>5. Softens(m.fl, gl)
      BY <2>2 DEF Softens, Soft
    <2>6. ASSUME NEW S, p \notin S, Lined(m, S) PROVE Lined(r, S)
      <3>1. ~OnQueue(m.q, p)
        BY <1>3, <2>6 DEF Lined
      <3> QED BY <2>2, <2>3, <2>4, <2>6, <3>1 DEF Lined
    <2> QED BY <2>4, <2>5, <2>6 DEF KeepsLine
  <1> QED BY <1>2, <1>3

(* One mark after the other. *)
LEMMA SoftensTrans ==
    ASSUME NEW fl, NEW gl, NEW hl, Softens(fl, gl), Softens(gl, hl)
    PROVE  Softens(fl, hl)
  <1> SUFFICES ASSUME NEW p \in Proc
               PROVE  hl[p] \ Soft = fl[p] \ Soft /\ ("IN_USE" \in fl[p] \/ hl[p] = fl[p])
    BY DEF Softens
  <1>1. /\ gl[p] \ Soft = fl[p] \ Soft /\ ("IN_USE" \in fl[p] \/ gl[p] = fl[p])
        /\ hl[p] \ Soft = gl[p] \ Soft /\ ("IN_USE" \in gl[p] \/ hl[p] = gl[p])
    BY DEF Softens
  <1> QED BY <1>1

(* A mark that is not SWAPIN leaves the queue alone. *)
Marked(f, g) == /\ f \in SUBSET Flag /\ f \ Soft = g \ Soft
                /\ "SWAPIN" \in f <=> "SWAPIN" \in g

Put(m, p, f) == [fl |-> [m.fl EXCEPT ![p] = f], q |-> m.q]

(* A process marked in another way. *)
LEMMA FlagIs ==
    ASSUME NEW m \in MState, NEW p \in Proc, "IN_USE" \in m.fl[p],
           NEW f, Marked(f, m.fl[p]), NEW r, r = Put(m, p, f)
    PROVE  /\ r \in MState /\ Softens(m.fl, r.fl) /\ KeepsLine(m, p, r)
           /\ r.fl[p] = f /\ r.q = m.q
  <1>1. m.fl \in [Proc -> SUBSET Flag] /\ m.q \in Seq(Proc) /\ m = [fl |-> m.fl, q |-> m.q]
    BY DEF MState
  <1>0. /\ f \in SUBSET Flag /\ f \ Soft = m.fl[p] \ Soft
        /\ "SWAPIN" \in f <=> "SWAPIN" \in m.fl[p]
    BY DEF Marked
  <1> DEFINE gl == [m.fl EXCEPT ![p] = f]
  <1>2. r = [fl |-> gl, q |-> m.q]
    BY <1>1 DEF Put
  <1>3. /\ gl \in [Proc -> SUBSET Flag] /\ gl[p] = f
        /\ \A x \in Proc : x # p => gl[x] = m.fl[x]
    BY <1>0, <1>1
  <1> HIDE DEF gl
  <1>4. r \in MState /\ r.fl = gl /\ r.q = m.q
    BY <1>1, <1>2, <1>3, MStateIs
  <1>5. Softens(m.fl, gl)
    BY <1>0, <1>3 DEF Softens
  <1>6. ASSUME NEW S, Lined(m, S) PROVE Lined(r, S)
    BY <1>0, <1>3, <1>4, <1>6 DEF Lined
  <1> QED BY <1>3, <1>4, <1>5, <1>6 DEF KeepsLine

(* setreply() *)
LEMMA SetreplyIs ==
    ASSUME NEW m \in MState, NEW p \in Proc, "IN_USE" \in m.fl[p],
           NEW r, r = setreply(m, p)
    PROVE  /\ r \in MState /\ Softens(m.fl, r.fl) /\ KeepsLine(m, p, r)
           /\ "ONSWAP" \notin m.fl[p] => r.q = m.q
  <1> DEFINE s == [m EXCEPT !.fl[p] = @ \cup {"REPLY"}]
  <1>1. /\ s \in MState /\ Softens(m.fl, s.fl) /\ KeepsLine(m, p, s)
        /\ s.fl[p] = m.fl[p] \cup {"REPLY"} /\ s.q = m.q
    <2> DEFINE f == m.fl[p] \cup {"REPLY"}
    <2>1. Marked(f, m.fl[p])
      BY DEF MState, Flag, Soft, Marked
    <2>2. s = Put(m, p, f)
      <3>1. m = [fl |-> m.fl, q |-> m.q] /\ m.fl \in [Proc -> SUBSET Flag]
        BY DEF MState
      <3> QED BY <3>1 DEF Put
    <2> HIDE DEF f, s
    <2>3. /\ s \in MState /\ Softens(m.fl, s.fl) /\ KeepsLine(m, p, s)
          /\ s.fl[p] = f /\ s.q = m.q
      <3>1. s \in MState /\ Softens(m.fl, s.fl)
        BY <2>1, <2>2, FlagIs
      <3>2. KeepsLine(m, p, s)
        BY <2>1, <2>2, FlagIs
      <3>3. s.fl[p] = f /\ s.q = m.q
        BY <2>1, <2>2, FlagIs
      <3> QED BY <3>1, <3>2, <3>3
    <2> QED BY <2>3 DEF f
  <1>2. r = IF "ONSWAP" \in m.fl[p] THEN swap_inqueue(s, p) ELSE s
    BY DEF setreply
  <1> HIDE DEF s
  <1>3. CASE "ONSWAP" \in m.fl[p]
    <2>1. /\ r \in MState /\ Softens(s.fl, r.fl) /\ KeepsLine(s, p, r)
      <3>1. "IN_USE" \in s.fl[p] /\ r = swap_inqueue(s, p) /\ s \in MState
        BY <1>1, <1>2, <1>3
      <3> QED BY <3>1, InqueueIs
    <2> QED BY <1>1, <1>3, <2>1, SoftensTrans DEF KeepsLine
  <1>4. CASE "ONSWAP" \notin m.fl[p]
    BY <1>1, <1>2, <1>4
  <1> QED BY <1>3, <1>4

(* Wake() *)
LEMMA WakeIs ==
    ASSUME NEW m \in MState, NEW p \in Proc, "IN_USE" \in m.fl[p],
           NEW r, r = Wake(m, p)
    PROVE  /\ r \in MState /\ Softens(m.fl, r.fl) /\ KeepsLine(m, p, r)
           /\ "ONSWAP" \notin m.fl[p] => r.q = m.q
  <1> DEFINE s == setreply(m, p)
  <1>1. /\ s \in MState /\ Softens(m.fl, s.fl) /\ KeepsLine(m, p, s)
        /\ "ONSWAP" \notin m.fl[p] => s.q = m.q
    BY SetreplyIs
  <1>2. r = [s EXCEPT !.fl[p] = @ \ {"WAITING"}]
    BY DEF Wake
  <1> HIDE DEF s
  <1>3. "IN_USE" \in s.fl[p]
    <2>1. s.fl[p] \ Soft = m.fl[p] \ Soft
      BY <1>1 DEF Softens
    <2> QED BY <2>1 DEF Soft
  <1> DEFINE f == s.fl[p] \ {"WAITING"}
  <1>4. Marked(f, s.fl[p])
    BY <1>1 DEF MState, Flag, Soft, Marked
  <1>5. r = Put(s, p, f)
    <2>1. s = [fl |-> s.fl, q |-> s.q] /\ s.fl \in [Proc -> SUBSET Flag]
      BY <1>1 DEF MState
    <2> QED BY <1>2, <2>1 DEF Put
  <1> HIDE DEF f
  <1>6. r \in MState /\ Softens(s.fl, r.fl) /\ KeepsLine(s, p, r) /\ r.q = s.q
    <2>1. r \in MState /\ Softens(s.fl, r.fl)
      BY <1>1, <1>3, <1>4, <1>5, FlagIs
    <2>2. KeepsLine(s, p, r)
      BY <1>1, <1>3, <1>4, <1>5, FlagIs
    <2>3. r.q = s.q
      BY <1>1, <1>3, <1>4, <1>5, FlagIs
    <2> QED BY <2>1, <2>2, <2>3
  <1> QED BY <1>1, <1>6, SoftensTrans DEF KeepsLine

(* The marks that matter to the memory of a process stay. *)
LEMMA SoftFlags ==
    ASSUME NEW fl, NEW gl, Softens(fl, gl), NEW p \in Proc
    PROVE  /\ "IN_USE" \in gl[p] <=> "IN_USE" \in fl[p]
           /\ "SEPARATE" \in gl[p] <=> "SEPARATE" \in fl[p]
           /\ "ONSWAP" \in gl[p] <=> "ONSWAP" \in fl[p]
           /\ gl[p] # {} => fl[p] # {}
  <1>1. gl[p] \ Soft = fl[p] \ Soft /\ ("IN_USE" \in fl[p] \/ gl[p] = fl[p])
    BY DEF Softens
  <1>2. \A f : f \notin Soft => (f \in gl[p] <=> f \in fl[p])
    BY <1>1
  <1>3. "IN_USE" \notin Soft /\ "SEPARATE" \notin Soft /\ "ONSWAP" \notin Soft
    BY DEF Soft
  <1> QED BY <1>1, <1>2, <1>3

-----------------------------------------------------------------------------
(* Steps of Memory. *)

(* A step of Memory, or none, loses nothing. *)
LEMMA StepLosesNothing ==
    ASSUME M!NothingLost, [M!Next]_M!vars
    PROVE  M!NothingLost'
  <1>1. None \notin Program \cup {InitProgram}
    BY ProgramsAre DEF Progs
  <1> QED BY <1>1, M!NothingLostStep

(* When only marks change, nothing happens to the memory of processes. *)
LEMMA QuietUsers ==
    ASSUME IInv, seg' = seg, prog' = prog, swap_base' = swap_base,
           flags' \in [Proc -> SUBSET Flag], Softens(flags, flags'),
           job.op # "mem_init", job'.op # "mem_init"
    PROVE  /\ Users' /\ InUse' = InUse /\ Given' = Given
           /\ \A p \in Proc : DataOf(p)' = DataOf(p)
           /\ \A f \in Progs : TextOf(f)' = TextOf(f)
  <1>1. \A p \in Proc : /\ "IN_USE" \in flags'[p] <=> "IN_USE" \in flags[p]
                        /\ "SEPARATE" \in flags'[p] <=> "SEPARATE" \in flags[p]
                        /\ "ONSWAP" \in flags'[p] <=> "ONSWAP" \in flags[p]
                        /\ flags'[p] # {} => flags[p] # {}
    BY SoftFlags
  <1>2. InUse' = InUse
    BY <1>1 DEF InUse, Has
  <1>3. Given' = Given
    BY DEF Given
  <1>4. Slots'
    BY <1>1 DEF IInv, Users, Slots, Has
  <1>5. Shared'
    BY <1>2 DEF IInv, Users, Shared
  <1>6. Border'
    BY <1>2, <1>3 DEF IInv, Users, Border
  <1>7. SwapMarked'
    BY <1>1, <1>2 DEF IInv, Users, SwapMarked, Has, InUse
  <1>8. \A p \in Proc : DataOf(p)' = DataOf(p)
    BY <1>1 DEF DataOf, Has
  <1>9. \A f \in Progs : TextOf(f)' = TextOf(f)
    BY <1>2 DEF TextOf
  <1> QED BY <1>2, <1>3, <1>4, <1>5, <1>6, <1>7, <1>8, <1>9 DEF Users

(* The state of Memory is unchanged if its parts are. *)
LEMMA SameMemory ==
    ASSUME prog' = prog, Cover(hole)' = Cover(hole), All' = All,
           \A p \in Proc : DataOf(p)' = DataOf(p),
           \A f \in Progs : TextOf(f)' = TextOf(f)
    PROVE  UNCHANGED M!vars
  <1> DEFINE data == [p \in Proc |-> DataOf(p)]
             text == [f \in Progs |-> TextOf(f)]
  <1>1. data' = data
    OBVIOUS
  <1>2. text' = text
    OBVIOUS
  <1> QED
    BY <1>1, <1>2 DEF M!vars, Progs, DataOf, TextOf, All, SwapArea, InitClicks, Cover

(* A step in which only marks and MM's own business change. *)
LEMMA QuietStep ==
    ASSUME IInv, hole' = hole, seg' = seg, prog' = prog, swap_base' = swap_base,
           swap_size' = swap_size, TypeOK', Softens(flags, flags'),
           job.op # "mem_init", job'.op # "mem_init", Jobs'
    PROVE  IInv' /\ [M!Next]_M!vars
  <1>1. flags' \in [Proc -> SUBSET Flag]
    BY DEF TypeOK
  <1>2. /\ Users' /\ InUse' = InUse /\ Given' = Given
        /\ \A p \in Proc : DataOf(p)' = DataOf(p)
        /\ \A f \in Progs : TextOf(f)' = TextOf(f)
    BY <1>1, QuietUsers
  <1>3. All' = All
    BY <1>2 DEF All, SwapArea
  <1>4. UNCHANGED M!vars
    BY <1>2, <1>3, SameMemory
  <1>5. M!NothingLost'
    BY <1>4, StepLosesNothing DEF IInv
  <1> QED BY <1>2, <1>4, <1>5 DEF IInv

-----------------------------------------------------------------------------
(* Steps that leave memory alone. *)

(* The marks and the queue at the start of a step. *)
LEMMA NowIs ==
    ASSUME TypeOK
    PROVE  Now \in MState /\ Now.fl = flags /\ Now.q = in_queue
  BY MStateIs DEF TypeOK, Now

(* The end of a call: nothing is pending but the queue. *)
LEMMA TurnIs ==
    ASSUME NEW m \in MState, Turn(m)
    PROVE  /\ flags' = m.fl /\ flags' \in [Proc -> SUBSET Flag] /\ in_queue' \in Seq(Proc)
           /\ in_queue' = m.q /\ job' \in Job /\ job'.op = "in" /\ job'.pos = 1 /\ Jobs'
  <1>1. flags' = m.fl /\ in_queue' = m.q /\ job' = [op |-> "in", pos |-> 1]
    BY DEF Turn
  <1>2. m.fl \in [Proc -> SUBSET Flag] /\ m.q \in Seq(Proc)
    BY DEF MState
  <1>3. job'.op = "in" /\ job'.pos = 1 /\ job' \in Job
    BY <1>1 DEF Job
  <1>4. job'.pos \in 1 .. Len(in_queue') + 1
    BY <1>1, <1>2, <1>3
  <1>5. Jobs'
    BY <1>3, <1>4 DEF Jobs
  <1> QED BY <1>1, <1>2, <1>3, <1>5

(* A step that ends in Turn() and changes marks only. *)
LEMMA QuietTurn ==
    ASSUME IInv, NEW m \in MState, Softens(flags, m.fl), Turn(m), job.op # "mem_init",
           UNCHANGED <<hole, swap_base, swap_size, seg, prog, outswap>>,
           pending' \in [Proc -> BOOLEAN], blocked' \in [Proc -> BOOLEAN]
    PROVE  IInv' /\ [M!Next]_M!vars
  <1>1. /\ flags' = m.fl /\ flags' \in [Proc -> SUBSET Flag] /\ in_queue' \in Seq(Proc)
        /\ job' \in Job /\ job'.op = "in" /\ Jobs'
    BY TurnIs
  <1>2. TypeOK'
    BY <1>1 DEF IInv, TypeOK
  <1> QED BY <1>1, <1>2, QuietStep

(* A call begins. *)
LEMMA CallsIs ==
    ASSUME TypeOK, NEW p \in Proc, Calls(p)
    PROVE  /\ job = Idle /\ job.op = "idle" /\ "IN_USE" \in flags[p]
           /\ blocked' \in [Proc -> BOOLEAN]
  BY DEF TypeOK, Calls, Idle, Has

(* A reply to who is in use. *)
LEMMA ReplyStep ==
    ASSUME IInv, NEW p \in Proc, "IN_USE" \in flags[p], Turn(setreply(Now, p)), job.op # "mem_init",
           UNCHANGED <<hole, swap_base, swap_size, seg, prog, outswap>>,
           pending' \in [Proc -> BOOLEAN], blocked' \in [Proc -> BOOLEAN]
    PROVE  IInv' /\ [M!Next]_M!vars
  <1> DEFINE m == setreply(Now, p)
  <1>1. Now \in MState /\ Now.fl = flags
    BY NowIs DEF IInv
  <1>2. m \in MState /\ Softens(Now.fl, m.fl)
    BY <1>1, SetreplyIs
  <1>3. Turn(m)
    OBVIOUS
  <1> HIDE DEF m
  <1> QED BY <1>1, <1>2, <1>3, QuietTurn

(* fork() begins. *)
LEMMA DoForkStep ==
    ASSUME IInv, NEW p \in Proc, do_fork(p)
    PROVE  IInv' /\ [M!Next]_M!vars
  <1>1. TypeOK
    BY DEF IInv
  <1>2. /\ job = Idle /\ job.op = "idle" /\ "IN_USE" \in flags[p]
        /\ blocked' \in [Proc -> BOOLEAN]
    BY <1>1, CallsIs DEF do_fork
  <1>3. CASE FreeSlots = {}
    BY <1>1, <1>2, <1>3, ReplyStep DEF do_fork, TypeOK
  <1>4. CASE FreeSlots # {}
    <2>1. /\ job' = [op |-> "fork", who |-> p, n |-> seg[p].D.len]
          /\ UNCHANGED <<hole, swap_base, swap_size, seg, prog, pending, outswap, flags, in_queue>>
      BY <1>4 DEF do_fork
    <2>2. seg[p].D.len \in Nat
      BY <1>1 DEF TypeOK, Block
    <2>3. job' \in Job /\ job'.op = "fork" /\ job'.who = p /\ job'.n = seg[p].D.len
      BY <2>1, <2>2 DEF Job
    <2>4. TypeOK'
      BY <1>1, <1>2, <2>1, <2>3 DEF TypeOK
    <2>5. FreeSlots' = FreeSlots
      BY <2>1 DEF FreeSlots, Has
    <2>6. Jobs'
      BY <1>2, <1>4, <2>1, <2>3, <2>5 DEF Jobs, Has
    <2>7. Softens(flags, flags')
      BY <2>1 DEF Softens
    <2> QED BY <1>2, <2>1, <2>3, <2>4, <2>6, <2>7, QuietStep
  <1> QED BY <1>3, <1>4

(* find_share() finds another process that executes the program. *)
LEMMA ShareIs ==
    ASSUME NEW ign, NEW f, NEW s, s = find_share(ign, f)
    PROVE  /\ s \in Proc \cup {0}
           /\ s # 0 => s \in Proc /\ s # ign /\ Has(s, "SEPARATE") /\ prog[s] = f
           /\ s = 0 => \A q \in Proc : q # ign /\ Has(q, "SEPARATE") => prog[q] # f
  <1> DEFINE S == {q \in Proc \ {ign} : Has(q, "SEPARATE") /\ prog[q] = f}
  <1>1. s = IF S = {} THEN 0 ELSE First(S)
    BY DEF find_share
  <1>2. S \in SUBSET Nat
    BY ProcIs
  <1>3. CASE S = {}
    BY <1>1, <1>3
  <1>4. CASE S # {}
    <2>1. s \in S
      BY <1>1, <1>2, <1>4, FirstIs
    <2> QED BY <2>1, ProcIs
  <1> QED BY <1>3, <1>4

(* find_share() goes by programs and their kind. *)
LEMMA ShareStays ==
    ASSUME prog' = prog, \A q \in Proc : "SEPARATE" \in flags'[q] <=> "SEPARATE" \in flags[q]
    PROVE  \A ign, f : find_share(ign, f)' = find_share(ign, f)
  <1>1. \A q \in Proc : Has(q, "SEPARATE")' <=> Has(q, "SEPARATE")
    BY DEF Has
  <1>2. ASSUME NEW ign, NEW f PROVE find_share(ign, f)' = find_share(ign, f)
    <2> DEFINE S == {q \in Proc \ {ign} : Has(q, "SEPARATE") /\ prog[q] = f}
    <2>1. S' = S
      BY <1>1
    <2>2. find_share(ign, f) = IF S = {} THEN 0 ELSE First(S)
      BY DEF find_share
    <2>3. find_share(ign, f)' = IF S' = {} THEN 0 ELSE First(S')
      BY DEF find_share
    <2> HIDE DEF S
    <2> QED BY <2>1, <2>2, <2>3
  <1> QED BY <1>2

(* exec() begins. *)
LEMMA DoExecStep ==
    ASSUME IInv, NEW p \in Proc, NEW f \in Program, do_exec(p, f)
    PROVE  IInv' /\ [M!Next]_M!vars
  <1>1. TypeOK
    BY DEF IInv
  <1>2. /\ job = Idle /\ job.op = "idle" /\ "IN_USE" \in flags[p]
        /\ blocked' \in [Proc -> BOOLEAN]
    BY <1>1, CallsIs DEF do_exec
  <1> DEFINE sh == find_share(p, f)
             n == f.tot + IF sh = 0 THEN f.text ELSE 0
  <1>3. /\ job' = [op |-> "exec", who |-> p, prog |-> f, share |-> sh, n |-> n]
        /\ UNCHANGED <<hole, swap_base, swap_size, seg, prog, pending, in_queue, outswap>>
    BY DEF do_exec
  <1>4. PICK marked \in {{}, {"WAITING"}} : flags' = [flags EXCEPT ![p] = @ \cup marked]
    BY DEF do_exec
  <1>5. sh \in Proc \cup {0}
    BY ShareIs
  <1> HIDE DEF sh
  <1>6. n \in Nat
    BY ProgramsAre
  <1> HIDE DEF n
  <1>7. /\ job' \in Job /\ job'.op = "exec" /\ job'.who = p /\ job'.prog = f
        /\ job'.share = sh /\ job'.n = n
    BY <1>3, <1>5, <1>6 DEF Job
  <1>8. flags' \in [Proc -> SUBSET Flag]
    BY <1>1, <1>4 DEF TypeOK, Flag
  <1>9. Softens(flags, flags')
    BY <1>1, <1>2, <1>4 DEF TypeOK, Softens, Soft
  <1>10. TypeOK'
    BY <1>1, <1>2, <1>3, <1>7, <1>8 DEF TypeOK
  <1>11. find_share(p, f)' = sh
    BY <1>3, <1>9, SoftFlags, ShareStays DEF sh
  <1>12. Has(p, "IN_USE")'
    BY <1>2, <1>9, SoftFlags DEF Has
  <1>13. Jobs'
    <2>1. find_share(job.who, job.prog)' = sh
      BY <1>7, <1>11 DEF find_share
    <2>2. Has(job.who, "IN_USE")'
      BY <1>7, <1>12 DEF Has
    <2> QED BY <1>7, <2>1, <2>2 DEF Jobs, n
  <1> QED BY <1>2, <1>3, <1>7, <1>9, <1>10, <1>13, QuietStep

(* A call that hangs. *)
LEMMA HangStep ==
    ASSUME IInv, NEW p \in Proc, Hang(p)
    PROVE  IInv' /\ [M!Next]_M!vars
  <1>1. TypeOK
    BY DEF IInv
  <1>2. /\ job = Idle /\ job.op = "idle" /\ "IN_USE" \in flags[p]
        /\ blocked' \in [Proc -> BOOLEAN]
    BY <1>1, CallsIs DEF Hang
  <1> DEFINE f == flags[p] \cup {"WAITING"}
             m == Put(Now, p, f)
  <1>3. Now \in MState /\ Now.fl = flags /\ Now.q = in_queue
    BY <1>1, NowIs
  <1>4. Turn(m)
    <2>1. Now = [fl |-> Now.fl, q |-> Now.q] /\ Now.fl \in [Proc -> SUBSET Flag]
      BY <1>3 DEF MState
    <2>2. [Now EXCEPT !.fl[p] = @ \cup {"WAITING"}] = m
      BY <1>3, <2>1 DEF Put
    <2> HIDE DEF m
    <2> QED BY <2>2 DEF Hang
  <1>5. Marked(f, flags[p])
    BY <1>1 DEF TypeOK, Flag, Soft, Marked
  <1> HIDE DEF f
  <1>6. m \in MState /\ Softens(Now.fl, m.fl)
    BY <1>2, <1>3, <1>5, FlagIs
  <1> HIDE DEF m
  <1> QED BY <1>1, <1>2, <1>3, <1>4, <1>6, QuietTurn DEF Hang, TypeOK

(* A signal for a process that hangs. *)
LEMMA SigProcStep ==
    ASSUME IInv, NEW p \in Proc, sig_proc(p)
    PROVE  IInv' /\ [M!Next]_M!vars
  <1>1. TypeOK
    BY DEF IInv
  <1>2. /\ job.op # "mem_init" /\ "IN_USE" \in flags[p]
        /\ pending' \in [Proc -> BOOLEAN]
        /\ UNCHANGED <<hole, swap_base, swap_size, seg, prog, blocked, outswap>>
    BY <1>1 DEF sig_proc, Has, Idle, TypeOK
  <1> DEFINE m == IF Has(p, "ONSWAP") THEN swap_inqueue(Now, p) ELSE Wake(Now, p)
  <1>3. Now \in MState /\ Now.fl = flags
    BY <1>1, NowIs
  <1>4. Turn(m)
    BY DEF sig_proc
  <1>5. m \in MState /\ Softens(Now.fl, m.fl)
    <2>1. CASE Has(p, "ONSWAP")
      BY <1>2, <1>3, <2>1, InqueueIs
    <2>2. CASE ~Has(p, "ONSWAP")
      BY <1>2, <1>3, <2>2, WakeIs
    <2> QED BY <2>1, <2>2
  <1> HIDE DEF m
  <1> QED BY <1>1, <1>2, <1>3, <1>4, <1>5, QuietTurn DEF TypeOK

(* A queue without its entry number k. *)
LEMMA DropIs ==
    ASSUME NEW q \in Seq(Proc), NEW k \in 1 .. Len(q),
           NEW r, r = [i \in 1 .. Len(q) - 1 |-> IF i < k THEN q[i] ELSE q[i + 1]]
    PROVE  /\ r \in Seq(Proc) /\ Len(r) = Len(q) - 1 /\ Len(q) \in Nat
           /\ \A i \in 1 .. Len(r) : i < k => i \in 1 .. Len(q) /\ r[i] = q[i]
           /\ Once(q) => /\ Once(r)
                         /\ \A x : OnQueue(r, x) <=> OnQueue(q, x) /\ x # q[k]
  <1> DEFINE at(i) == IF i < k THEN i ELSE i + 1
  <1>0. Len(q) \in Nat /\ \A i \in 1 .. Len(q) : q[i] \in Proc
    OBVIOUS
  <1>1. \A i \in 1 .. Len(q) - 1 : at(i) \in 1 .. Len(q) /\ at(i) # k
    BY <1>0
  <1>2. \A i, j \in 1 .. Len(q) - 1 : at(i) = at(j) => i = j
    BY <1>0
  <1>3. \A h \in 1 .. Len(q) : h # k => \E i \in 1 .. Len(q) - 1 : at(i) = h
    <2> SUFFICES ASSUME NEW h \in 1 .. Len(q), h # k
                 PROVE  \E i \in 1 .. Len(q) - 1 : at(i) = h
      OBVIOUS
    <2>1. CASE h < k
      <3>1. h \in 1 .. Len(q) - 1 /\ at(h) = h
        BY <1>0, <2>1
      <3> QED BY <3>1
    <2>2. CASE h > k
      <3>1. h - 1 \in 1 .. Len(q) - 1 /\ at(h - 1) = h
        BY <1>0, <2>2
      <3> QED BY <3>1
    <2> QED BY <1>0, <2>1, <2>2
  <1>4. r = [i \in 1 .. Len(q) - 1 |-> q[at(i)]]
    <2>1. \A i \in 1 .. Len(q) - 1 : (IF i < k THEN q[i] ELSE q[i + 1]) = q[at(i)]
      OBVIOUS
    <2> HIDE DEF at
    <2> QED BY <2>1
  <1>5. \A i \in 1 .. Len(q) : i < k => at(i) = i
    BY <1>0
  <1> HIDE DEF at
  <1>6. \A i \in 1 .. Len(q) - 1 : q[at(i)] \in Proc
    BY <1>0, <1>1
  <1> DEFINE e(i) == q[at(i)]
  <1>7. r = [i \in 1 .. Len(q) - 1 |-> e(i)] /\ \A i \in 1 .. Len(q) - 1 : e(i) \in Proc
    BY <1>4, <1>6
  <1> HIDE DEF e
  <1>8. r \in Seq(Proc) /\ Len(r) = Len(q) - 1
    BY <1>0, <1>7
  <1>9. \A i \in 1 .. Len(r) : r[i] = q[at(i)]
    BY <1>7, <1>8 DEF e
  <1>10. ASSUME NEW i \in 1 .. Len(r), i < k PROVE i \in 1 .. Len(q) /\ r[i] = q[i]
    <2>1. i \in 1 .. Len(q)
      BY <1>0, <1>8
    <2> QED BY <1>5, <1>9, <1>10, <2>1
  <1>11. ASSUME Once(q), NEW i \in 1 .. Len(r), NEW j \in 1 .. Len(r), r[i] = r[j] PROVE i = j
    BY <1>1, <1>2, <1>8, <1>9, <1>11 DEF Once
  <1>12. ASSUME Once(q), NEW x PROVE OnQueue(r, x) <=> OnQueue(q, x) /\ x # q[k]
    <2>1. ASSUME OnQueue(r, x) PROVE OnQueue(q, x) /\ x # q[k]
      <3>1. PICK i \in 1 .. Len(r) : r[i] = x
        BY <2>1 DEF OnQueue
      <3>2. at(i) \in 1 .. Len(q) /\ at(i) # k /\ q[at(i)] = x
        BY <1>1, <1>8, <1>9, <3>1
      <3> QED BY <1>12, <3>2 DEF Once, OnQueue
    <2>2. ASSUME OnQueue(q, x), x # q[k] PROVE OnQueue(r, x)
      <3>1. PICK h \in 1 .. Len(q) : q[h] = x
        BY <2>2 DEF OnQueue
      <3>2. PICK i \in 1 .. Len(q) - 1 : at(i) = h
        BY <1>3, <2>2, <3>1
      <3> QED BY <1>8, <1>9, <3>1, <3>2 DEF OnQueue
    <2> QED BY <2>1, <2>2
  <1> QED BY <1>0, <1>8, <1>10, <1>11, <1>12 DEF Once

(* swap_off() begins. *)
LEMMA SwapOffStep ==
    ASSUME IInv, NEW p \in Proc, swap_off(p)
    PROVE  IInv' /\ [M!Next]_M!vars
  <1>1. TypeOK
    BY DEF IInv
  <1>2. /\ job.op # "mem_init" /\ "IN_USE" \in flags[p]
        /\ blocked' \in [Proc -> BOOLEAN]
        /\ UNCHANGED <<hole, swap_base, swap_size, seg, prog, pending, outswap>>
    BY <1>1, CallsIs DEF swap_off
  <1>3. CASE swap_size = -1
    BY <1>1, <1>2, <1>3, ReplyStep DEF swap_off, TypeOK
  <1>4. CASE swap_size # -1
    <2>1. /\ job' = [op |-> "join", who |-> p, next |-> LOW_USER]
          /\ flags' = flags /\ in_queue' = in_queue
      BY <1>4 DEF swap_off
    <2>2. LOW_USER \in Proc
      BY AllocAssumption DEF Proc, LOW_USER, INIT
    <2>3. job' \in Job /\ job'.op = "join" /\ job'.who = p
      BY <2>1, <2>2 DEF Job
    <2>4. TypeOK'
      BY <1>1, <1>2, <2>1, <2>3 DEF TypeOK
    <2>5. Jobs'
      BY <1>2, <1>4, <2>1, <2>3 DEF Jobs, Has
    <2>6. Softens(flags, flags')
      BY <2>1 DEF Softens
    <2> QED BY <1>2, <2>3, <2>4, <2>5, <2>6, QuietStep
  <1> QED BY <1>3, <1>4

(* fork() or exec() finds no memory. *)
LEMMA CallFailsStep ==
    ASSUME IInv, CallFails
    PROVE  IInv' /\ [M!Next]_M!vars
  <1>1. /\ job.op \in {"fork", "exec"} /\ Turn(setreply(Now, job.who))
        /\ UNCHANGED <<hole, swap_base, swap_size, seg, prog, pending, blocked, outswap>>
    BY DEF CallFails
  <1>2. job.who \in Proc /\ "IN_USE" \in flags[job.who]
    BY <1>1, JobIs DEF IInv, Jobs, Has
  <1> QED BY <1>1, <1>2, ReplyStep DEF IInv, TypeOK

(* The entry of the queue that swap_in() has come to. *)
LEMMA EntryIs ==
    ASSUME IInv, Walks
    PROVE  /\ job.op \in {"in", "off"}
           /\ job.pos \in 1 .. Len(in_queue) /\ in_queue[job.pos] \in Proc
           /\ Unlinked \in Seq(Proc) /\ Len(Unlinked) = Len(in_queue) - 1
  <1>1. in_queue \in Seq(Proc) /\ Len(in_queue) \in Nat
    BY DEF IInv, TypeOK
  <1>2. job.pos \in 1 .. Len(in_queue) /\ job.op \in {"in", "off"}
    BY <1>1 DEF IInv, Jobs, Walks
  <1>3. in_queue[job.pos] \in Proc
    BY <1>1, <1>2
  <1>4. Unlinked \in Seq(Proc) /\ Len(Unlinked) = Len(in_queue) - 1
    BY <1>1, <1>2, DropIs DEF Unlinked
  <1> QED BY <1>2, <1>3, <1>4

(* A step of swap_in() goes on in the same call. *)
LEMMA WalkIs ==
    ASSUME IInv, Walks, swap_size' = swap_size, in_queue' \in Seq(Proc),
           \A p \in Proc : Has(p, "IN_USE") => Has(p, "IN_USE")',
           \/ job' = job /\ Len(in_queue') = Len(in_queue) - 1
           \/ job' = [job EXCEPT !.pos = @ + 1] /\ in_queue' = in_queue
    PROVE  job' \in Job /\ job'.op = job.op /\ job.op \in {"in", "off"} /\ Jobs'
  <1>1. job.op \in {"in", "off"} /\ job.pos \in 1 .. Len(in_queue)
    BY EntryIs
  <1>2. /\ job.op = "in" => job.pos \in Nat /\ job = [op |-> "in", pos |-> job.pos]
        /\ job.op = "off" => /\ job.who \in Proc /\ job.pos \in Nat
                             /\ job = [op |-> "off", who |-> job.who, pos |-> job.pos]
    BY <1>1, JobIs DEF IInv
  <1>3. /\ job' \in Job /\ job'.op = job.op
        /\ job.op = "off" => job'.who = job.who
        /\ job'.pos = job.pos \/ job'.pos = job.pos + 1
        /\ job'.pos = job.pos + 1 => in_queue' = in_queue
    <2>1. CASE job' = job
      BY <1>1, <1>2, <2>1 DEF IInv, TypeOK
    <2>2. CASE job' = [job EXCEPT !.pos = @ + 1] /\ in_queue' = in_queue
      <3>1. CASE job.op = "in"
        BY <1>2, <2>2, <3>1 DEF Job
      <3>2. CASE job.op = "off"
        BY <1>2, <2>2, <3>2 DEF Job
      <3> QED BY <1>1, <2>2, <3>1, <3>2
    <2> QED BY <2>1, <2>2
  <1>4. job'.pos \in 1 .. Len(in_queue') + 1
    <2>1. Len(in_queue) \in Nat /\ Len(in_queue') \in Nat
      BY DEF IInv, TypeOK
    <2>2. Len(in_queue') = Len(in_queue) \/ Len(in_queue') = Len(in_queue) - 1
      OBVIOUS
    <2> QED BY <1>1, <1>3, <2>1, <2>2
  <1>5. job.op = "off" => Has(job.who, "IN_USE")' /\ swap_size' # -1
    <2> SUFFICES ASSUME job.op = "off" PROVE Has(job.who, "IN_USE")' /\ swap_size' # -1
      OBVIOUS
    <2>1. Has(job.who, "IN_USE") /\ swap_size # -1
      BY DEF IInv, Jobs
    <2> QED BY <1>2, <1>3, <2>1 DEF Has
  <1> QED BY <1>1, <1>3, <1>4, <1>5 DEF Jobs

(* swap_in() drops a process that was killed. *)
LEMMA InKilledStep ==
    ASSUME IInv, InKilled
    PROVE  IInv' /\ [M!Next]_M!vars
  <1>1. /\ Walks /\ in_queue' = Unlinked
        /\ UNCHANGED <<hole, swap_base, swap_size, seg, prog, flags, pending, blocked, outswap, job>>
    BY DEF InKilled
  <1>2. in_queue' \in Seq(Proc) /\ Len(in_queue') = Len(in_queue) - 1
    BY <1>1, EntryIs
  <1>3. job'.op = job.op /\ job.op \in {"in", "off"} /\ Jobs'
    BY <1>1, <1>2, WalkIs DEF Has
  <1>4. TypeOK' /\ Softens(flags, flags')
    BY <1>1, <1>2 DEF IInv, TypeOK, Softens
  <1> QED BY <1>1, <1>3, <1>4, QuietStep

(* swap_in() leaves a process on the queue. *)
LEMMA InNoRoomStep ==
    ASSUME IInv, InNoRoom
    PROVE  IInv' /\ [M!Next]_M!vars
  <1>1. /\ Walks /\ job' = [job EXCEPT !.pos = @ + 1]
        /\ UNCHANGED <<hole, swap_base, swap_size, seg, prog, flags, pending, blocked, in_queue,
                       outswap>>
    BY DEF InNoRoom
  <1>2. in_queue' \in Seq(Proc) /\ in_queue' = in_queue
    BY <1>1 DEF IInv, TypeOK
  <1>3. job' \in Job /\ job'.op = job.op /\ job.op \in {"in", "off"} /\ Jobs'
    BY <1>1, <1>2, WalkIs DEF Has
  <1>4. TypeOK' /\ Softens(flags, flags')
    BY <1>1, <1>3 DEF IInv, TypeOK, Softens
  <1> QED BY <1>1, <1>3, <1>4, QuietStep

(* The replies go out. *)
LEMMA RepliesStep ==
    ASSUME IInv, Replies
    PROVE  IInv' /\ [M!Next]_M!vars
  <1> DEFINE to == {p \in Proc : flags[p] \cap {"REPLY", "ONSWAP"} = {"REPLY"}}
  <1>1. /\ job.op = "in"
        /\ flags' = [p \in Proc |-> IF p \in to THEN flags[p] \ {"REPLY"} ELSE flags[p]]
        /\ blocked' = [p \in Proc |-> blocked[p] /\ p \notin to]
        /\ job' \in {Idle, Lost}
        /\ UNCHANGED <<hole, swap_base, swap_size, seg, prog, pending, in_queue, outswap>>
    BY DEF Replies
  <1>2. \A p \in to : "REPLY" \in flags[p]
    OBVIOUS
  <1>3. flags' \in [Proc -> SUBSET Flag] /\ blocked' \in [Proc -> BOOLEAN]
    BY <1>1 DEF IInv, TypeOK
  <1>4. Softens(flags, flags')
    <2> SUFFICES ASSUME NEW p \in Proc
                 PROVE  flags'[p] \ Soft = flags[p] \ Soft /\ ("IN_USE" \in flags[p] \/ flags'[p] = flags[p])
      BY DEF Softens
    <2>1. "IN_USE" \in flags[p] \/ flags[p] = {}
      BY DEF IInv, Users, Slots, Has
    <2>2. flags'[p] = IF p \in to THEN flags[p] \ {"REPLY"} ELSE flags[p]
      BY <1>1
    <2> QED BY <1>2, <2>1, <2>2 DEF Soft
  <1>5. job' \in Job /\ job'.op \in {"idle", "lost"}
    BY <1>1 DEF Job, Idle, Lost
  <1>6. TypeOK' /\ Jobs'
    BY <1>1, <1>3, <1>5 DEF IInv, TypeOK, Jobs
  <1> QED BY <1>1, <1>4, <1>5, <1>6, QuietStep

(* swap_off() queues those on the swap file. *)
LEMMA JoinStep ==
    ASSUME IInv, Join
    PROVE  IInv' /\ [M!Next]_M!vars
  <1> DEFINE p == job.next
             m == IF Has(p, "ONSWAP") THEN swap_inqueue(Now, p) ELSE Now
  <1>1. /\ job.op = "join" /\ flags' = m.fl /\ in_queue' = m.q
        /\ job' = IF p + 1 \in Proc THEN [job EXCEPT !.next = p + 1]
                  ELSE [op |-> "off", who |-> job.who, pos |-> 1]
        /\ UNCHANGED <<hole, swap_base, swap_size, seg, prog, pending, blocked, outswap>>
    BY DEF Join
  <1>2. /\ job.who \in Proc /\ p \in Proc
        /\ job = [op |-> "join", who |-> job.who, next |-> job.next]
    BY <1>1, JobIs DEF IInv
  <1>3. Now \in MState /\ Now.fl = flags
    BY NowIs DEF IInv
  <1>4. m \in MState /\ Softens(flags, m.fl)
    <2>1. CASE Has(p, "ONSWAP")
      <3>1. "IN_USE" \in flags[p]
        BY <1>2, <2>1 DEF IInv, Users, Slots, Has
      <3> QED BY <1>2, <1>3, <2>1, <3>1, InqueueIs
    <2>2. CASE ~Has(p, "ONSWAP")
      BY <1>3, <2>2 DEF Softens
    <2> QED BY <2>1, <2>2
  <1> HIDE DEF m
  <1>5. flags' \in [Proc -> SUBSET Flag] /\ in_queue' \in Seq(Proc) /\ Softens(flags, flags')
    BY <1>1, <1>4 DEF MState
  <1>6. job' \in Job /\ job'.op \in {"join", "off"} /\ job'.who = job.who
        /\ (job'.op = "off" => job'.pos = 1)
    <2>1. CASE p + 1 \in Proc
      BY <1>1, <1>2, <2>1 DEF Job
    <2>2. CASE p + 1 \notin Proc
      BY <1>1, <1>2, <2>2 DEF Job
    <2> QED BY <2>1, <2>2
  <1>7. Has(job.who, "IN_USE")' /\ swap_size' # -1
    <2>1. Has(job.who, "IN_USE") /\ swap_size # -1
      BY <1>1 DEF IInv, Jobs
    <2> QED BY <1>1, <1>2, <1>5, <1>6, <2>1, SoftFlags DEF Has
  <1>8. Jobs'
    <2>1. 1 \in 1 .. Len(in_queue') + 1
      BY <1>5
    <2> QED BY <1>6, <1>7, <2>1 DEF Jobs
  <1>9. TypeOK'
    BY <1>1, <1>5, <1>6 DEF IInv, TypeOK
  <1> QED BY <1>1, <1>5, <1>6, <1>8, <1>9, QuietStep

-----------------------------------------------------------------------------
(* What a step does to Memory, in terms of this module. *)

(* Somebody has the click. *)
Held(x) == \/ \E p \in Proc : x \in DataOf(p)
           \/ \E f \in Progs : x \in TextOf(f)

Changed ==
    /\ \A p \in Proc : DataOf(p)' \in {DataOf(p), {}} \/ DataOf(p)' \subseteq Cover(hole)
    /\ \A f \in Progs : TextOf(f)' \in {TextOf(f), {}} \/ TextOf(f)' \subseteq Cover(hole)
    /\ Cover(hole)' \subseteq All /\ \A x \in All : x \in Cover(hole)' <=> ~Held(x)'
    /\ All' = All

OtherData(p) == \A q \in Proc \ {p} : DataOf(q)' = DataOf(q)
TextsStay(F) == \A f \in F : TextOf(f)' = IF \E p \in Proc : prog'[p] = f THEN TextOf(f) ELSE {}

(* These are the parts of the actions of Memory. *)
LEMMA ChangedIs ==
    /\ Changed => M!Change
    /\ \A p : OtherData(p) => M!Others(p)
    /\ \A F : F \subseteq Progs /\ TextsStay(F) => M!Texts(F)
    /\ \A p, q \in Proc : Cardinality(DataOf(q)') = Cardinality(DataOf(p)) => M!Moved(p, q)
  <1> DEFINE data == [p \in Proc |-> DataOf(p)]
             text == [f \in Progs |-> TextOf(f)]
             Own == (UNION {data[p] : p \in Proc}) \cup (UNION {text[f] : f \in Progs})
  <1>1. /\ \A p \in Proc : data[p] = DataOf(p) /\ data'[p] = DataOf(p)'
        /\ \A f \in Progs : text[f] = TextOf(f) /\ text'[f] = TextOf(f)'
    OBVIOUS
  <1>2. M!Change <=> /\ \A p \in Proc : data'[p] \in {data[p], {}} \/ data'[p] \subseteq Cover(hole)
                     /\ \A f \in Progs : text'[f] \in {text[f], {}} \/ text'[f] \subseteq Cover(hole)
                     /\ Cover(hole)' = All \ Own'
                     /\ All' = All
    BY DEF M!Change, Progs, DataOf, TextOf, All, SwapArea, InitClicks, Cover
  <1>3. \A p : M!Others(p) <=> \A q \in Proc \ {p} : data'[q] = data[q]
    BY DEF M!Others, DataOf
  <1>4. \A F : M!Texts(F) <=> \A f \in F : text'[f] = IF \E p \in Proc : prog'[p] = f THEN text[f] ELSE {}
    BY DEF M!Texts, TextOf, Progs
  <1>5. \A p, q : M!Moved(p, q) <=> Cardinality(data'[q]) = Cardinality(data[p])
    BY DEF M!Moved, DataOf, M!Cardinality, Cardinality
  <1> HIDE DEF data, text
  <1>6. \A x : x \in Own' <=> Held(x)'
    BY <1>1 DEF Held
  <1> HIDE DEF Own
  <1>7. Changed => M!Change
    BY <1>1, <1>2, <1>6 DEF Changed
  <1>8. \A p : OtherData(p) => M!Others(p)
    BY <1>1, <1>3 DEF OtherData
  <1>9. \A F : F \subseteq Progs /\ TextsStay(F) => M!Texts(F)
    BY <1>1, <1>4 DEF TextsStay
  <1>10. \A p, q \in Proc : Cardinality(DataOf(q)') = Cardinality(DataOf(p)) => M!Moved(p, q)
    BY <1>1, <1>5
  <1> QED BY <1>7, <1>8, <1>9, <1>10

(* The number of clicks of a block is its length. *)
LEMMA SizeIs ==
    ASSUME NEW b \in Block
    PROVE  Cardinality(Clicks(b)) = b.len
  <1>1. b.base \in Nat /\ b.len \in Nat
    BY DEF Block
  <1>2. \A lo, hi \in Int : Cardinality(lo .. hi) = IF lo > hi THEN 0 ELSE hi - lo + 1
    BY FS_Interval
  <1> DEFINE hi == b.base + b.len - 1
  <1>3. hi = b.base + b.len - 1 /\ hi \in Int /\ Clicks(b) = b.base .. hi
    BY <1>1 DEF Clicks
  <1> HIDE DEF hi
  <1>4. Cardinality(b.base .. hi) = IF b.base > hi THEN 0 ELSE hi - b.base + 1
    <2>1. b.base \in Int /\ hi \in Int
      BY <1>1, <1>3
    <2> QED BY <1>2, <2>1, Zenon
  <1> QED BY <1>1, <1>3, <1>4

(* What TypeOK says of a process. *)
LEMMA SegIs ==
    ASSUME TypeOK, NEW p \in Proc
    PROVE  /\ seg[p] \in [T : Block, D : Block] /\ seg[p] = [T |-> seg[p].T, D |-> seg[p].D]
           /\ seg[p].D \in Block /\ seg[p].D.base \in Nat /\ seg[p].D.len \in Nat
           /\ seg[p].T \in Block /\ seg[p].T.base \in Nat /\ seg[p].T.len \in Nat
           /\ seg[p].D = [base |-> seg[p].D.base, len |-> seg[p].D.len]
           /\ seg[p].T = [base |-> seg[p].T.base, len |-> seg[p].T.len]
  <1>1. seg[p] \in [T : Block, D : Block]
    BY DEF TypeOK
  <1>2. seg[p].D \in Block /\ seg[p].T \in Block /\ seg[p] = [T |-> seg[p].T, D |-> seg[p].D]
    BY <1>1
  <1> QED BY <1>1, <1>2 DEF Block

(* Nobody has a part of a hole. *)
LEMMA NotHeld ==
    ASSUME IInv
    PROVE  /\ Kept /\ Cover(hole) \subseteq All
           /\ \A x \in All : x \in Cover(hole) <=> ~Held(x)
           /\ \A p \in Proc : Has(p, "IN_USE") =>
                 DataOf(p) = Clicks(seg[p].D) /\ DataOf(p) \cap Cover(hole) = {}
           /\ \A p \in Proc : DataOf(p) \subseteq All
           /\ \A f \in Progs : TextOf(f) \cap Cover(hole) = {} /\ TextOf(f) \subseteq All
  <1>1. Kept
    BY KeptIs DEF IInv
  <1>2. \A x \in All : x \in Cover(hole) <=> ~Held(x)
    BY <1>1 DEF Kept, Held
  <1>3. \A p \in Proc : DataOf(p) \cap Cover(hole) = {} /\ DataOf(p) \subseteq All
    BY <1>1, <1>2 DEF Kept, Held
  <1>4. \A f \in Progs : TextOf(f) \cap Cover(hole) = {} /\ TextOf(f) \subseteq All
    BY <1>1, <1>2 DEF Kept, Held
  <1>5. \A p \in Proc : Has(p, "IN_USE") => DataOf(p) = Clicks(seg[p].D)
    BY DEF DataOf
  <1> QED BY <1>1, <1>2, <1>3, <1>4, <1>5 DEF Kept

(* A text that nobody executes any more is not there. *)
LEMMA NoText ==
    ASSUME IInv, NEW f \in Progs, \A p \in Proc : prog[p] # f
    PROVE  TextOf(f) = {}
  BY TextIs DEF IInv, Users, InUse

(* The data of p is moved to the front of a hole that is large enough.     *)
LEMMA MoveStep ==
    ASSUME IInv, job.op # "mem_init", NEW p \in Proc, Has(p, "IN_USE"), NEW onswap \in BOOLEAN,
           Fits(hole, seg[p].D.len, onswap) # {},
           NEW k, k = First(Fits(hole, seg[p].D.len, onswap)),
           hole' = free_mem(Bite(hole, k, seg[p].D.len), seg[p].D),
           MoveData(p, hole[k].base), UNCHANGED <<swap_base, swap_size, prog>>,
           flags' \in [Proc -> SUBSET Flag],
           \A q \in Proc : /\ flags'[q] \ (Soft \cup {"ONSWAP"}) = flags[q] \ (Soft \cup {"ONSWAP"})
                           /\ "IN_USE" \in flags[q] \/ flags'[q] = flags[q]
                           /\ q # p => ("ONSWAP" \in flags'[q] <=> "ONSWAP" \in flags[q]),
           "ONSWAP" \in flags'[p] <=> onswap,
           job'.op # "mem_init"
    PROVE  /\ hole' \in Seq(Block) /\ Apart(hole)' /\ seg' \in [Proc -> [T : Block, D : Block]]
           /\ Users' /\ M!Move(p) /\ M!NothingLost' /\ InUse' = InUse
           /\ \A q \in Proc : /\ "SEPARATE" \in flags'[q] <=> "SEPARATE" \in flags[q]
                             /\ seg'[q].D.len = seg[q].D.len
  <1> DEFINE n == seg[p].D.len
             b == [base |-> hole[k].base, len |-> n]
             l == Bite(hole, k, n)
  <1>0. /\ TypeOK /\ hole \in Seq(Block) /\ Apart(hole) /\ Slots /\ Shared /\ Border /\ SwapMarked
        /\ M!NothingLost
    BY DEF IInv, TypeOK, Users
  <1>1. k \in 1 .. Len(hole) /\ hole[k].len >= n /\ (hole[k].base >= swap_base <=> onswap)
    BY <1>0, FitsIs
  <1>2. /\ seg[p].D \in Block /\ n \in Nat /\ n > 0
    BY <1>0, SegIs DEF Slots
  <1>3. hole[k] \in Block /\ hole[k].base \in Nat /\ hole[k].len \in Nat
    BY <1>0, <1>1, BlocksAre
  <1>4. n <= hole[k].len
    BY <1>1, <1>2, <1>3, SMTT(30)
  <1>5. /\ l \in Seq(Block) /\ Apart(l) /\ b \in Block /\ Clicks(b) \subseteq Cover(hole)
        /\ Cover(l) = Cover(hole) \ Clicks(b)
    BY <1>0, <1>1, <1>2, <1>4, BiteIs
  <1>6. hole' = free_mem(l, seg[p].D) /\ b.base = hole[k].base /\ b.len = n
    OBVIOUS
  <1> HIDE DEF l, b
  <1>7. DataOf(p) = Clicks(seg[p].D) /\ Clicks(seg[p].D) \cap Cover(hole) = {}
    BY NotHeld
  <1>8. hole' \in Seq(Block) /\ Apart(hole') /\ Cover(hole') = Cover(l) \cup Clicks(seg[p].D)
    <2>1. Clicks(seg[p].D) \cap Cover(l) = {}
      BY <1>5, <1>7, SMTT(30)
    <2> QED BY <1>2, <1>5, <1>6, <2>1, FreeMemIs
  <1>9. Apart(hole)' /\ Cover(hole)' = (Cover(hole) \ Clicks(b)) \cup Clicks(seg[p].D)
    BY <1>5, <1>8, Zenon DEF Apart, Cover
  <1>10. /\ seg' \in [Proc -> [T : Block, D : Block]]
         /\ seg'[p].D = b /\ seg'[p].T = seg[p].T
         /\ \A q \in Proc : q # p => seg'[q] = seg[q]
    <2>1. /\ seg \in [Proc -> [T : Block, D : Block]]
          /\ seg[p] = [T |-> seg[p].T, D |-> seg[p].D] /\ seg[p].T \in Block
          /\ seg[p].D = [base |-> seg[p].D.base, len |-> seg[p].D.len]
      BY <1>0, SegIs DEF TypeOK
    <2>2. [seg[p] EXCEPT !.D.base = hole[k].base] =
              [T |-> seg[p].T, D |-> [base |-> hole[k].base, len |-> n]]
      <3>1. [seg[p].D EXCEPT !.base = hole[k].base] = [base |-> hole[k].base, len |-> n]
        BY <1>2, <2>1
      <3>2. [seg[p] EXCEPT !.D = [base |-> hole[k].base, len |-> n]] =
                [T |-> seg[p].T, D |-> [base |-> hole[k].base, len |-> n]]
        BY <2>1
      <3> QED BY <3>1, <3>2, Zenon
    <2>3. seg' = [seg EXCEPT ![p] = [T |-> seg[p].T, D |-> b]]
      BY <2>2 DEF b, MoveData
    <2>4. [T |-> seg[p].T, D |-> b] \in [T : Block, D : Block]
      BY <1>5, <2>1
    <2> QED BY <2>1, <2>3, <2>4
  <1>11. \A q \in Proc : /\ "IN_USE" \in flags'[q] <=> "IN_USE" \in flags[q]
                         /\ "SEPARATE" \in flags'[q] <=> "SEPARATE" \in flags[q]
                         /\ flags'[q] # {} => flags[q] # {}
    <2>1. "IN_USE" \notin Soft \cup {"ONSWAP"} /\ "SEPARATE" \notin Soft \cup {"ONSWAP"}
      BY DEF Soft
    <2> QED BY <2>1
  <1>12. InUse' = InUse
    BY <1>11 DEF InUse, Has
  <1>13. /\ \A q \in Proc \ {p} : DataOf(q)' = DataOf(q)
         /\ DataOf(p)' = Clicks(b)
    BY <1>10, <1>11 DEF DataOf, Has
  <1>14. \A f \in Progs : TextOf(f)' = TextOf(f)
    <2>1. \A q \in InUse : seg'[q].T = seg[q].T
      BY <1>10 DEF InUse
    <2> QED BY <1>12, <2>1 DEF TextOf
  <1>15. Given' = Given /\ All' = All
    BY DEF Given, All, SwapArea
  <1>16. Users'
    <2>1. Slots'
      BY <1>0, <1>2, <1>6, <1>10, <1>11 DEF Slots, Has
    <2>2. Shared'
      <3>1. \A q \in InUse : seg'[q].T = seg[q].T
        BY <1>10 DEF InUse
      <3> QED BY <1>0, <1>12, <3>1 DEF Shared
    <2>3. Border'
      BY <1>0, <1>10, <1>12, <1>15 DEF Border, InUse
    <2>4. SwapMarked'
      <3>1. ASSUME NEW q \in InUse' PROVE Has(q, "ONSWAP")' <=> (seg[q].D.base >= swap_base)'
        <4>1. CASE q = p
          BY <1>1, <1>6, <1>10, <4>1 DEF Has
        <4>2. CASE q # p
          BY <1>0, <1>10, <1>12, <3>1, <4>2 DEF Has, SwapMarked, InUse
        <4> QED BY <4>1, <4>2
      <3> QED BY <3>1 DEF SwapMarked
    <2> QED BY <2>1, <2>2, <2>3, <2>4 DEF Users
  <1>17. Changed
    <2>1. \A q \in Proc : DataOf(q)' \in {DataOf(q), {}} \/ DataOf(q)' \subseteq Cover(hole)
      BY <1>5, <1>13
    <2>2. \A x : Held(x)' <=> x \in Clicks(b) \/ (Held(x) /\ x \notin DataOf(p))
      <3>1. /\ \A q \in Proc \ {p} : DataOf(q) \cap DataOf(p) = {}
            /\ \A f \in Progs : TextOf(f) \cap DataOf(p) = {}
        BY NotHeld DEF Kept
      <3>2. \A x : Held(x)' <=> \/ x \in Clicks(b)
                                \/ \E q \in Proc \ {p} : x \in DataOf(q)
                                \/ \E f \in Progs : x \in TextOf(f)
        BY <1>13, <1>14 DEF Held
      <3> QED BY <3>1, <3>2 DEF Held
    <2>3. /\ \A x \in All : x \in Cover(hole) <=> ~Held(x)
          /\ Cover(hole) \subseteq All /\ DataOf(p) \subseteq All
          /\ DataOf(p) \cap Cover(hole) = {}
      BY NotHeld
    <2>4. Cover(hole)' \subseteq All /\ \A x \in All : x \in Cover(hole)' <=> ~Held(x)'
      BY <1>5, <1>7, <1>9, <2>2, <2>3
    <2> QED BY <1>14, <1>15, <2>1, <2>4 DEF Changed
  <1>18. M!Move(p)
    <2>1. prog[p] # None
      BY <1>0 DEF Slots
    <2>2. Cardinality(DataOf(p)') = Cardinality(DataOf(p))
      BY <1>2, <1>5, <1>6, <1>7, <1>13, SizeIs
    <2>3. TextsStay(Progs)
      BY <1>14, NoText DEF TextsStay
    <2>4. OtherData(p)
      BY <1>13 DEF OtherData
    <2>5. M!Change /\ M!Others(p) /\ M!Texts(Program \cup {InitProgram}) /\ M!Moved(p, p)
      BY <1>17, <2>2, <2>3, <2>4, ChangedIs DEF Progs
    <2>6. [q \in Proc |-> IF Has(q, "IN_USE") THEN Clicks(seg[q].D) ELSE {}]'[p] \subseteq Cover(hole)
      BY <1>5, <1>13 DEF DataOf
    <2> QED BY <2>1, <2>5, <2>6 DEF M!Move, Cover
  <1>19. M!NothingLost'
    BY <1>0, <1>18, StepLosesNothing DEF M!Next
  <1>20. \A q \in Proc : seg'[q].D.len = seg[q].D.len
    BY <1>6, <1>10
  <1> QED BY <1>8, <1>9, <1>10, <1>11, <1>12, <1>16, <1>18, <1>19, <1>20

(* What MM is in the middle of stays. *)
LEMMA JobsStay ==
    ASSUME IInv, job.op # "mem_init", UNCHANGED <<job, prog, swap_size, in_queue>>, InUse' = InUse,
           \A q \in Proc : /\ "SEPARATE" \in flags'[q] <=> "SEPARATE" \in flags[q]
                           /\ seg'[q].D.len = seg[q].D.len
    PROVE  Jobs'
  <1>1. Jobs /\ TypeOK
    BY DEF IInv
  <1>2. /\ job.op \in {"fork", "exec", "join", "off"} => job.who \in Proc
    BY <1>1, JobIs
  <1>3. \A q \in Proc : Has(q, "IN_USE")' <=> Has(q, "IN_USE")
    BY DEF InUse, Has
  <1>4. FreeSlots' = FreeSlots
    BY <1>3 DEF FreeSlots
  <1>5. \A ign, f : find_share(ign, f)' = find_share(ign, f)
    BY ShareStays
  <1>6. (job.op \in {"fork", "exec", "join", "off"} => Has(job.who, "IN_USE"))'
    BY <1>1, <1>2, <1>3 DEF Jobs, Has
  <1>7. (job.op = "fork" => job.n = seg[job.who].D.len /\ FreeSlots # {})'
    BY <1>1, <1>2, <1>4 DEF Jobs
  <1>8. (job.op = "exec" => job.share = find_share(job.who, job.prog))'
    <2>1. PICK w, f : w = job.who /\ f = job.prog
      OBVIOUS
    <2>2. find_share(w, f)' = find_share(w, f)
      BY <1>5
    <2>3. find_share(job.who, job.prog)' = find_share(w, f)'
      BY <2>1 DEF find_share
    <2> QED BY <1>1, <2>1, <2>2, <2>3 DEF Jobs
  <1>9. (job.op = "exec" => job.n = job.prog.tot + IF job.share = 0 THEN job.prog.text ELSE 0)'
    BY <1>1 DEF Jobs
  <1>10. (job.op \in {"join", "off"} => swap_size # -1)'
    BY <1>1 DEF Jobs
  <1>11. (job.op \in {"in", "off"} => job.pos \in 1 .. Len(in_queue) + 1)'
    BY <1>1 DEF Jobs
  <1> QED BY <1>6, <1>7, <1>8, <1>9, <1>10, <1>11 DEF Jobs

(* Who calls alloc_mem(). *)
LEMMA AllocatesIs ==
    ASSUME IInv, Allocates
    PROVE  job.op \in {"fork", "exec", "in", "off"} /\ Wanted \in Nat
  <1>1. TypeOK
    BY DEF IInv
  <1>2. CASE Walks
    <2>1. job.op \in {"in", "off"} /\ in_queue[job.pos] \in Proc
      BY <1>2, EntryIs
    <2> QED BY <1>1, <1>2, <2>1, SegIs DEF Wanted
  <1>3. CASE ~Walks
    <2>1. job.op \in {"fork", "exec"}
      BY <1>3 DEF Allocates
    <2> QED BY <1>1, <1>3, <2>1, JobIs DEF Wanted
  <1> QED BY <1>2, <1>3

(* swap_out() moves the data of a process to the swap area. *)
LEMMA SwapOutStep ==
    ASSUME IInv, swap_out
    PROVE  IInv' /\ [M!Next]_M!vars
  <1>1. PICK p \in Proc :
            /\ Candidate(p)
            /\ hole' = SwappedOut(p)
            /\ MoveData(p, hole[First(Fits(hole, seg[p].D.len, TRUE))].base)
            /\ flags' = [flags EXCEPT ![p] = @ \cup {"ONSWAP"}]
            /\ outswap' = p
    BY DEF swap_out
  <1>2. /\ Allocates
        /\ UNCHANGED <<swap_base, swap_size, prog, pending, blocked, in_queue, job>>
    BY DEF swap_out
  <1>3. TypeOK /\ Slots /\ Jobs
    BY DEF IInv, Users
  <1>4. job.op # "mem_init"
    BY <1>2, AllocatesIs
  <1>5. Has(p, "IN_USE") /\ Fits(hole, seg[p].D.len, TRUE) # {}
    BY <1>1, <1>3 DEF Candidate, Slots, Has
  <1>6. /\ flags' \in [Proc -> SUBSET Flag] /\ flags'[p] = flags[p] \cup {"ONSWAP"}
        /\ \A q \in Proc : q # p => flags'[q] = flags[q]
    BY <1>1, <1>3 DEF TypeOK, Flag
  <1>7. \A q \in Proc : /\ flags'[q] \ (Soft \cup {"ONSWAP"}) = flags[q] \ (Soft \cup {"ONSWAP"})
                        /\ "IN_USE" \in flags[q] \/ flags'[q] = flags[q]
                        /\ q # p => ("ONSWAP" \in flags'[q] <=> "ONSWAP" \in flags[q])
    BY <1>5, <1>6 DEF Has
  <1> DEFINE k == First(Fits(hole, seg[p].D.len, TRUE))
  <1>8. hole' = free_mem(Bite(hole, k, seg[p].D.len), seg[p].D) /\ MoveData(p, hole[k].base)
    BY <1>1 DEF SwappedOut
  <1>9. ("ONSWAP" \in flags'[p] <=> TRUE) /\ job'.op # "mem_init"
    BY <1>2, <1>4, <1>6
  <1> HIDE DEF k
  <1>10. /\ hole' \in Seq(Block) /\ Apart(hole)' /\ seg' \in [Proc -> [T : Block, D : Block]]
         /\ Users' /\ M!Move(p) /\ M!NothingLost' /\ InUse' = InUse
         /\ \A q \in Proc : /\ "SEPARATE" \in flags'[q] <=> "SEPARATE" \in flags[q]
                            /\ seg'[q].D.len = seg[q].D.len
    BY <1>2, <1>4, <1>5, <1>6, <1>7, <1>8, <1>9, MoveStep DEF k
  <1>11. TypeOK'
    BY <1>1, <1>2, <1>3, <1>6, <1>10 DEF TypeOK
  <1>12. Jobs'
    BY <1>2, <1>4, <1>10, JobsStay
  <1> QED BY <1>10, <1>11, <1>12 DEF IInv, M!Next

(* swap_in() brings a process back. *)
LEMMA InFoundStep ==
    ASSUME IInv, InFound
    PROVE  IInv' /\ [M!Next]_M!vars
  <1> DEFINE p == in_queue[job.pos]
             gl == [flags EXCEPT ![p] = @ \ {"ONSWAP", "SWAPIN"}]
             m == [fl |-> gl, q |-> Unlinked]
             n == IF pending[p] /\ Has(p, "WAITING") THEN Wake(m, p) ELSE m
             k == First(Fits(hole, seg[p].D.len, FALSE))
  <1>1. /\ Walks /\ Found
        /\ hole' = free_mem(Left, seg[p].D) /\ MoveData(p, Base)
        /\ flags' = n.fl /\ in_queue' = n.q
        /\ pending' = [pending EXCEPT ![p] = FALSE]
        /\ UNCHANGED <<swap_base, swap_size, prog, blocked, outswap, job>>
    BY DEF InFound
  <1>2. TypeOK /\ Slots
    BY DEF IInv, Users
  <1>3. /\ job.op \in {"in", "off"} /\ p \in Proc
        /\ Unlinked \in Seq(Proc) /\ Len(Unlinked) = Len(in_queue) - 1
    BY <1>1, EntryIs
  <1>4. Wanted = seg[p].D.len
    BY <1>1, SMTT(30) DEF Wanted
  <1>5. /\ Fits(hole, seg[p].D.len, FALSE) # {} /\ Has(p, "SWAPIN")
        /\ Base = hole[k].base /\ Left = Bite(hole, k, seg[p].D.len)
    BY <1>1, <1>3, <1>4, Zenon DEF Found, Allocates, Base, Left
  <1>6. Has(p, "IN_USE")
    BY <1>2, <1>3, <1>5 DEF Slots, Has
  <1>7. /\ gl \in [Proc -> SUBSET Flag] /\ gl[p] = flags[p] \ {"ONSWAP", "SWAPIN"}
        /\ \A q \in Proc : q # p => gl[q] = flags[q]
    BY <1>2, <1>3 DEF TypeOK
  <1> HIDE DEF p, gl, k
  <1>8. m \in MState /\ m.fl = gl /\ m.q = Unlinked
    BY <1>3, <1>7, MStateIs
  <1>9. n \in MState /\ Softens(gl, n.fl) /\ n.q = Unlinked
    <2>1. CASE pending[p] /\ Has(p, "WAITING")
      <3>1. "IN_USE" \in m.fl[p] /\ "ONSWAP" \notin m.fl[p] /\ n = Wake(m, p)
        BY <1>6, <1>7, <1>8, <2>1 DEF Has
      <3> HIDE DEF n
      <3> QED BY <1>3, <1>8, <3>1, WakeIs
    <2>2. CASE ~(pending[p] /\ Has(p, "WAITING"))
      BY <1>8, <2>2 DEF Softens
    <2> QED BY <2>1, <2>2
  <1> HIDE DEF m, n
  <1>10. flags' \in [Proc -> SUBSET Flag] /\ in_queue' = Unlinked /\ Softens(gl, flags')
    BY <1>1, <1>9 DEF MState
  <1>11. \A q \in Proc : /\ flags'[q] \ (Soft \cup {"ONSWAP"}) = flags[q] \ (Soft \cup {"ONSWAP"})
                         /\ "IN_USE" \in flags[q] \/ flags'[q] = flags[q]
                         /\ q # p => ("ONSWAP" \in flags'[q] <=> "ONSWAP" \in flags[q])
    <2> SUFFICES ASSUME NEW q \in Proc
                 PROVE  /\ flags'[q] \ (Soft \cup {"ONSWAP"}) = flags[q] \ (Soft \cup {"ONSWAP"})
                        /\ "IN_USE" \in flags[q] \/ flags'[q] = flags[q]
                        /\ q # p => ("ONSWAP" \in flags'[q] <=> "ONSWAP" \in flags[q])
      OBVIOUS
    <2>1. /\ flags'[q] \ Soft = gl[q] \ Soft /\ ("IN_USE" \in gl[q] \/ flags'[q] = gl[q])
      BY <1>10 DEF Softens
    <2>2. "ONSWAP" \notin Soft
      BY DEF Soft
    <2>3. CASE q = p
      BY <1>6, <1>7, <2>1, <2>3 DEF Has, Soft
    <2>4. CASE q # p
      BY <1>7, <2>1, <2>2, <2>4
    <2> QED BY <2>3, <2>4
  <1>12. ("ONSWAP" \in flags'[p] <=> FALSE)
    BY <1>3, <1>7, <1>10, SoftFlags
  <1>13. job.op # "mem_init" /\ job'.op # "mem_init"
    BY <1>1, <1>3
  <1>14. hole' = free_mem(Bite(hole, k, seg[p].D.len), seg[p].D) /\ MoveData(p, hole[k].base)
    BY <1>1, <1>5, SMTT(30)
  <1>15. /\ hole' \in Seq(Block) /\ Apart(hole)' /\ seg' \in [Proc -> [T : Block, D : Block]]
         /\ Users' /\ M!Move(p) /\ M!NothingLost' /\ InUse' = InUse
    BY <1>1, <1>3, <1>5, <1>6, <1>10, <1>11, <1>12, <1>13, <1>14, MoveStep DEF k
  <1>16. TypeOK'
    BY <1>1, <1>2, <1>3, <1>10, <1>15 DEF TypeOK
  <1>17. Jobs'
    <2>1. \A q \in Proc : Has(q, "IN_USE") => Has(q, "IN_USE")'
      BY <1>15 DEF InUse, Has
    <2>2. in_queue' \in Seq(Proc) /\ job' = job /\ Len(in_queue') = Len(in_queue) - 1
      BY <1>1, <1>3, <1>10
    <2> QED BY <1>1, <2>1, <2>2, WalkIs
  <1> QED BY <1>3, <1>15, <1>16, <1>17 DEF IInv, M!Next

(* One process gets newD in place of its data, the text of f is loaded to  *)
(* newT, and the text of g is given up if gone says so.                    *)
Hands(p, f, g, newD, newT, gone) ==
    /\ All' = All /\ OtherData(p)
    /\ newD \subseteq Cover(hole) /\ DataOf(p)' = newD
    /\ newT \subseteq Cover(hole) /\ (newT = {} \/ TextOf(f)' = newT)
    /\ gone \in {{}, TextOf(g)}
    /\ \A h \in Progs : TextOf(h)' = (TextOf(h) \ (IF h = g THEN gone ELSE {}))
                                      \cup (IF h = f THEN newT ELSE {})
    /\ Cover(hole)' = ((Cover(hole) \ (newD \cup newT)) \cup DataOf(p)) \cup gone

(* Such a step gives nobody what another one has.                          *)
LEMMA HandsIs ==
    ASSUME IInv, NEW p \in Proc, NEW f \in Progs, NEW g \in Progs,
           NEW newD, NEW newT, NEW gone, Hands(p, f, g, newD, newT, gone)
    PROVE  Changed
  <1>0. /\ All' = All /\ OtherData(p)
        /\ newD \subseteq Cover(hole) /\ DataOf(p)' = newD
        /\ newT \subseteq Cover(hole) /\ (newT = {} \/ TextOf(f)' = newT)
        /\ gone \in {{}, TextOf(g)}
        /\ Cover(hole)' = ((Cover(hole) \ (newD \cup newT)) \cup DataOf(p)) \cup gone
    BY DEF Hands
  <1>1. /\ \A x \in All : x \in Cover(hole) <=> ~Held(x)
        /\ Cover(hole) \subseteq All /\ DataOf(p) \subseteq All
        /\ \A h \in Progs : TextOf(h) \subseteq All
    BY NotHeld
  <1>2. /\ \A q \in Proc \ {p} : DataOf(q) \cap DataOf(p) = {}
        /\ \A h \in Progs : TextOf(h) \cap DataOf(p) = {}
        /\ \A h \in Progs : h # g => TextOf(h) \cap TextOf(g) = {}
        /\ \A q \in Proc : DataOf(q) \cap TextOf(g) = {}
    BY NotHeld DEF Kept
  <1>3. \A q \in Proc \ {p} : DataOf(q)' = DataOf(q)
    BY <1>0 DEF OtherData
  <1>4. \A q \in Proc : DataOf(q)' \in {DataOf(q), {}} \/ DataOf(q)' \subseteq Cover(hole)
    BY <1>0, <1>3
  <1>5. \A h \in Progs : TextOf(h)' \in {TextOf(h), {}} \/ TextOf(h)' \subseteq Cover(hole)
    <2> SUFFICES ASSUME NEW h \in Progs
                 PROVE  TextOf(h)' \in {TextOf(h), {}} \/ TextOf(h)' \subseteq Cover(hole)
      OBVIOUS
    <2>1. CASE h = f /\ newT # {}
      BY <1>0, <2>1
    <2>2. CASE h # f \/ newT = {}
      <3>1. TextOf(h)' = TextOf(h) \ (IF h = g THEN gone ELSE {})
        BY <2>2 DEF Hands
      <3> QED BY <1>0, <3>1
    <2> QED BY <2>1, <2>2
  <1>6. \A h \in Progs : \A x : x \in TextOf(h)' <=> \/ x \in TextOf(h) /\ (h # g \/ x \notin gone)
                                                     \/ h = f /\ x \in newT
    <2> SUFFICES ASSUME NEW h \in Progs, NEW x
                 PROVE  x \in TextOf(h)' <=> \/ x \in TextOf(h) /\ (h # g \/ x \notin gone)
                                             \/ h = f /\ x \in newT
      OBVIOUS
    <2>1. TextOf(h)' = (TextOf(h) \ (IF h = g THEN gone ELSE {}))
                       \cup (IF h = f THEN newT ELSE {})
      BY DEF Hands
    <2> QED BY <2>1
  <1>7. \A x : Held(x)' <=> \/ x \in newD \/ x \in newT
                            \/ \E q \in Proc \ {p} : x \in DataOf(q)
                            \/ \E h \in Progs : x \in TextOf(h) /\ (h # g \/ x \notin gone)
    BY <1>0, <1>3, <1>6 DEF Held
  <1>8. \A x : Held(x) <=> \/ x \in DataOf(p)
                           \/ \E q \in Proc \ {p} : x \in DataOf(q)
                           \/ \E h \in Progs : x \in TextOf(h)
    BY DEF Held
  <1>9. \A x : Held(x)' <=> \/ x \in newD \/ x \in newT
                            \/ Held(x) /\ x \notin DataOf(p) /\ x \notin gone
    BY <1>0, <1>2, <1>7, <1>8
  <1>10. gone \subseteq All /\ newD \subseteq All /\ newT \subseteq All
    BY <1>0, <1>1
  <1>11. \A x \in gone : Held(x)
    BY <1>0 DEF Held
  <1>12. \A x \in DataOf(p) : Held(x)
    BY DEF Held
  <1>13. Cover(hole)' \subseteq All /\ \A x \in All : x \in Cover(hole)' <=> ~Held(x)'
    BY <1>0, <1>1, <1>9, <1>10, <1>11, <1>12
  <1> QED BY <1>0, <1>4, <1>5, <1>13 DEF Changed

(* TextIs after a step. *)
LEMMA TextIsNext ==
    ASSUME (TypeOK /\ Slots /\ Shared)'
    PROVE  \A f \in Progs : /\ \A p \in InUse' : prog'[p] = f => TextOf(f)' = Clicks(seg'[p].T)
                            /\ (~\E p \in InUse' : prog'[p] = f) => TextOf(f)' = {}
  <1>1. (\A f \in Progs : /\ \A p \in InUse : prog[p] = f => TextOf(f) = Clicks(seg[p].T)
                          /\ (~\E p \in InUse : prog[p] = f) => TextOf(f) = {})'
    BY TextIs, PTL
  <1> QED BY <1>1

(* Texts stay as long as who executes them has them where somebody had.    *)
LEMMA TextsStayIs ==
    ASSUME IInv, (TypeOK /\ Slots /\ Shared)', NEW F \in SUBSET Progs,
           \A f \in F, q \in Proc : prog'[q] = f =>
               \E r \in InUse : prog[r] = f /\ Clicks(seg'[q].T) = Clicks(seg[r].T)
    PROVE  TextsStay(F)
  <1>1. \A f \in Progs : /\ \A p \in InUse' : prog'[p] = f => TextOf(f)' = Clicks(seg'[p].T)
                         /\ (~\E p \in InUse' : prog'[p] = f) => TextOf(f)' = {}
    BY TextIsNext
  <1>2. \A f \in Progs : \A p \in InUse : prog[p] = f => TextOf(f) = Clicks(seg[p].T)
    BY TextIs DEF IInv, Users
  <1>3. \A q \in Proc : prog'[q] # None => q \in InUse'
    BY DEF Slots, InUse
  <1>4. ASSUME NEW f \in F
        PROVE  TextOf(f)' = IF \E p \in Proc : prog'[p] = f THEN TextOf(f) ELSE {}
    <2>1. f \in Progs /\ f # None
      BY ProgramsAre
    <2>2. CASE \E p \in Proc : prog'[p] = f
      <3>1. PICK q \in Proc : prog'[q] = f
        BY <2>2
      <3>2. q \in InUse'
        BY <1>3, <2>1, <3>1
      <3>3. TextOf(f)' = Clicks(seg'[q].T)
        BY <1>1, <2>1, <3>1, <3>2
      <3>4. PICK r \in InUse : prog[r] = f /\ Clicks(seg'[q].T) = Clicks(seg[r].T)
        BY <3>1
      <3>5. TextOf(f) = Clicks(seg[r].T)
        BY <1>2, <2>1, <3>4
      <3> QED BY <2>2, <3>3, <3>4, <3>5
    <2>3. CASE ~\E p \in Proc : prog'[p] = f
      <3>1. ~\E p \in InUse' : prog'[p] = f
        BY <2>3 DEF InUse
      <3> QED BY <1>1, <2>1, <2>3, <3>1
    <2> QED BY <2>2, <2>3
  <1> QED BY <1>4 DEF TextsStay

(* The text that nobody but p executes. *)
LastText(p) == IF \E q \in Proc \ {p} : prog[q] = prog[p] THEN {} ELSE TextOf(prog[p])

(* What exit() and exec() give back. *)
LEMMA ReleaseIs ==
    ASSUME IInv, NEW p \in Proc, Has(p, "IN_USE"),
           NEW hs \in Seq(Block), Apart(hs), Cover(hs) \subseteq Cover(hole),
           NEW r, r = Released(hs, p)
    PROVE  /\ r \in Seq(Block) /\ Apart(r)
           /\ Cover(r) = (Cover(hs) \cup DataOf(p)) \cup LastText(p)
           /\ prog[p] \in Progs
  <1> DEFINE sh == find_share(p, prog[p])
             hs1 == IF sh = 0 THEN free_mem(hs, seg[p].T) ELSE hs
             gone == LastText(p)
  <1>0. gone = IF \E q \in Proc \ {p} : prog[q] = prog[p] THEN {} ELSE TextOf(prog[p])
    BY DEF LastText
  <1> HIDE DEF gone
  <1>1. TypeOK /\ Slots
    BY DEF IInv, Users
  <1>2. prog[p] \in Progs
    BY <1>1 DEF TypeOK, Slots, Progs
  <1>3. /\ seg[p].T \in Block /\ seg[p].D \in Block /\ seg[p].T.len \in Nat
        /\ seg[p].T.len > 0 <=> prog[p].sep
    BY <1>1, SegIs DEF Slots
  <1>4. TextOf(prog[p]) = Clicks(seg[p].T)
    BY <1>2, TextIs DEF IInv, Users, InUse
  <1>5. /\ DataOf(p) = Clicks(seg[p].D)
        /\ DataOf(p) \cap Cover(hs) = {} /\ TextOf(prog[p]) \cap Cover(hs) = {}
        /\ DataOf(p) \cap TextOf(prog[p]) = {}
    BY <1>2, NotHeld DEF Kept
  <1>6. /\ sh # 0 => sh \in Proc /\ sh # p /\ prog[sh] = prog[p]
        /\ sh = 0 => \A q \in Proc : q # p /\ Has(q, "SEPARATE") => prog[q] # prog[p]
    BY ShareIs
  <1> HIDE DEF sh
  <1>7. hs1 \in Seq(Block) /\ Apart(hs1) /\ Cover(hs1) = Cover(hs) \cup gone
    <2>1. CASE sh # 0
      <3>1. gone = {}
        BY <1>0, <1>6, <2>1
      <3> QED BY <2>1, <3>1
    <2>2. CASE sh = 0
      <3>1. /\ hs1 = free_mem(hs, seg[p].T) /\ Clicks(seg[p].T) \cap Cover(hs) = {}
        BY <1>4, <1>5, <2>2
      <3> HIDE DEF hs1
      <3>2. hs1 \in Seq(Block) /\ Apart(hs1) /\ Cover(hs1) = Cover(hs) \cup Clicks(seg[p].T)
        BY <1>3, <3>1, FreeMemIs
      <3>3. CASE prog[p].sep
        <4>1. ASSUME NEW q \in Proc \ {p} PROVE prog[q] # prog[p]
          <5>1. prog[q] = prog[p] => Has(q, "IN_USE")
            BY <1>2, <1>1, ProgramsAre DEF Slots
          <5>2. Has(q, "IN_USE") => (Has(q, "SEPARATE") <=> prog[q].sep)
            BY <1>1 DEF Slots
          <5> QED BY <1>6, <2>2, <3>3, <5>1, <5>2
        <4> QED BY <1>0, <1>4, <3>2, <4>1
      <3>4. CASE ~prog[p].sep
        <4>1. Clicks(seg[p].T) = {}
          BY <1>3, <3>4, ClicksAre
        <4> QED BY <1>0, <1>4, <3>2, <4>1
      <3> QED BY <3>3, <3>4
    <2> QED BY <2>1, <2>2
  <1>8. r = free_mem(hs1, seg[p].D)
    BY DEF Released, sh
  <1> HIDE DEF hs1
  <1>9. Clicks(seg[p].D) \cap Cover(hs1) = {}
    BY <1>0, <1>5, <1>7
  <1> QED BY <1>2, <1>3, <1>5, <1>7, <1>8, <1>9, FreeMemIs DEF gone

(* exit(), or a signal that ends a process. *)
LEMMA ExitStep ==
    ASSUME IInv, NEW p \in Proc, NEW w \in Proc \cup {0}, mm_exit(p, w)
    PROVE  IInv' /\ [M!Next]_M!vars
  <1> DEFINE gl == [flags EXCEPT ![p] = {}]
             m == [fl |-> gl, q |-> in_queue]
             n == IF w = 0 THEN m ELSE Wake(m, w)
             gone == LastText(p)
  <1>1. /\ job = Idle /\ Has(p, "IN_USE")
        /\ w # 0 => w \in Proc \ {p} /\ Has(w, "WAITING")
        /\ hole' = Released(hole, p)
        /\ seg' = [seg EXCEPT ![p] = NoSeg]
        /\ prog' = [prog EXCEPT ![p] = None]
        /\ pending' = [pending EXCEPT ![p] = FALSE]
        /\ blocked' = [blocked EXCEPT ![p] = FALSE]
        /\ UNCHANGED <<swap_base, swap_size, outswap>>
    BY ProcIs DEF mm_exit
  <1>2. TypeOK /\ Slots /\ Shared /\ Border /\ SwapMarked /\ job.op # "mem_init"
    BY <1>1 DEF IInv, Users, Idle
  <1>3. /\ gl \in [Proc -> SUBSET Flag] /\ gl[p] = {}
        /\ \A q \in Proc : q # p => gl[q] = flags[q]
        /\ in_queue \in Seq(Proc)
    BY <1>2 DEF TypeOK
  <1>4. Turn(n)
    <2>1. [Now EXCEPT !.fl[p] = {}] = m
      BY DEF Now
    <2> HIDE DEF m, gl
    <2> QED BY <2>1 DEF mm_exit
  <1> HIDE DEF gl
  <1>5. m \in MState /\ m.fl = gl /\ m.q = in_queue
    BY <1>3, MStateIs
  <1> HIDE DEF m
  <1>6. n \in MState /\ Softens(gl, n.fl)
    <2>1. CASE w = 0
      BY <1>5, <2>1 DEF Softens
    <2>2. CASE w # 0
      <3>1. w \in Proc /\ "IN_USE" \in m.fl[w]
        BY <1>1, <1>2, <1>3, <1>5, <2>2 DEF Slots, Has
      <3> QED BY <1>5, <2>2, <3>1, WakeIs
    <2> QED BY <2>1, <2>2
  <1> HIDE DEF n
  <1>7. /\ flags' = n.fl /\ flags' \in [Proc -> SUBSET Flag] /\ in_queue' \in Seq(Proc)
        /\ job' \in Job /\ job'.op = "in" /\ Jobs'
    BY <1>4, <1>6, TurnIs
  <1>8. /\ flags'[p] = {}
        /\ \A q \in Proc : q # p => /\ "IN_USE" \in flags'[q] <=> "IN_USE" \in flags[q]
                                    /\ "SEPARATE" \in flags'[q] <=> "SEPARATE" \in flags[q]
                                    /\ "ONSWAP" \in flags'[q] <=> "ONSWAP" \in flags[q]
                                    /\ flags'[q] # {} => flags[q] # {}
    <2>1. flags'[p] = {}
      BY <1>3, <1>6, <1>7 DEF Softens
    <2>2. \A q \in Proc : /\ "IN_USE" \in flags'[q] <=> "IN_USE" \in gl[q]
                          /\ "SEPARATE" \in flags'[q] <=> "SEPARATE" \in gl[q]
                          /\ "ONSWAP" \in flags'[q] <=> "ONSWAP" \in gl[q]
                          /\ flags'[q] # {} => gl[q] # {}
      BY <1>6, <1>7, SoftFlags
    <2> QED BY <1>3, <2>1, <2>2
  <1>9. /\ InUse' = InUse \ {p}
        /\ prog' \in [Proc -> Program \cup {InitProgram, None}]
        /\ prog'[p] = None /\ \A q \in Proc : q # p => prog'[q] = prog[q]
        /\ seg' \in [Proc -> [T : Block, D : Block]]
        /\ \A q \in Proc : q # p => seg'[q] = seg[q]
    <2>1. InUse' = InUse \ {p}
      BY <1>8 DEF InUse, Has
    <2>2. NoSeg \in [T : Block, D : Block]
      BY DEF NoSeg, Block
    <2> QED BY <1>1, <1>2, <2>1, <2>2 DEF TypeOK
  <1>10. /\ hole' \in Seq(Block) /\ Apart(hole)'
         /\ Cover(hole)' = (Cover(hole) \cup DataOf(p)) \cup gone
         /\ prog[p] \in Progs
    <2> DEFINE r == Released(hole, p)
    <2>1. /\ hole \in Seq(Block) /\ Apart(hole) /\ Cover(hole) \subseteq Cover(hole)
          /\ r = Released(hole, p) /\ Has(p, "IN_USE")
      BY <1>1 DEF IInv, TypeOK
    <2> HIDE DEF r
    <2>2. r \in Seq(Block) /\ Apart(r)
      BY <2>1, ReleaseIs
    <2>3. Cover(r) = (Cover(hole) \cup DataOf(p)) \cup gone
      BY <2>1, ReleaseIs
    <2>4. prog[p] \in Progs
      BY <2>1, ReleaseIs
    <2> QED BY <1>1, <2>1, <2>2, <2>3, <2>4, ZenonT(30) DEF Apart, Cover
  <1> HIDE DEF gone
  <1>11. TypeOK'
    BY <1>1, <1>2, <1>7, <1>9, <1>10 DEF TypeOK
  <1>12. Slots'
    BY <1>2, <1>8, <1>9 DEF Slots, Has
  <1>13. Shared'
    BY <1>2, <1>9 DEF Shared, InUse
  <1>14. Given' = Given /\ All' = All
    BY <1>1, <1>2, <1>7 DEF Given, All, SwapArea
  <1>15. Border'
    BY <1>1, <1>2, <1>7, <1>9, <1>14 DEF Border, InUse
  <1>16. SwapMarked'
    <2>1. ASSUME NEW q \in InUse' PROVE Has(q, "ONSWAP")' <=> (seg[q].D.base >= swap_base)'
      <3>1. q \in InUse /\ q # p /\ q \in Proc
        BY <1>9 DEF InUse
      <3> QED BY <1>1, <1>2, <1>8, <1>9, <3>1 DEF Has, SwapMarked
    <2> QED BY <2>1 DEF SwapMarked
  <1>17. OtherData(p) /\ DataOf(p)' = {}
    BY <1>8, <1>9 DEF OtherData, DataOf, Has
  <1>18. TextsStay(Progs)
    <2>1. \A f \in Progs, q \in Proc : prog'[q] = f =>
              \E r \in InUse : prog[r] = f /\ Clicks(seg'[q].T) = Clicks(seg[r].T)
      <3> SUFFICES ASSUME NEW f \in Progs, NEW q \in Proc, prog'[q] = f
                   PROVE  q \in InUse /\ prog[q] = f /\ Clicks(seg'[q].T) = Clicks(seg[q].T)
        OBVIOUS
      <3>1. q # p
        BY <1>9, ProgramsAre
      <3>2. q \in InUse
        BY <1>2, <1>9, <3>1, ProgramsAre DEF Slots, InUse
      <3> QED BY <1>9, <3>1, <3>2
    <2> QED BY <1>11, <1>12, <1>13, <2>1, TextsStayIs
  <1>19. Changed
    <2>0. PICK no : no = {}
      OBVIOUS
    <2>1. gone \in {{}, TextOf(prog[p])}
      BY DEF gone, LastText
    <2>2. \A h \in Progs : TextOf(h)' = (TextOf(h) \ (IF h = prog[p] THEN gone ELSE {}))
                                        \cup (IF h = prog[p] THEN no ELSE {})
      <3> SUFFICES ASSUME NEW h \in Progs
                   PROVE  TextOf(h)' = TextOf(h) \ (IF h = prog[p] THEN gone ELSE {})
        BY <2>0
      <3>1. TextOf(h)' = IF \E q \in Proc : prog'[q] = h THEN TextOf(h) ELSE {}
        BY <1>18 DEF TextsStay
      <3>2. CASE h = prog[p]
        <4>1. (\E q \in Proc : prog'[q] = h) <=> \E q \in Proc \ {p} : prog[q] = prog[p]
          BY <1>9, <3>2, ProgramsAre
        <4> QED BY <3>1, <3>2, <4>1 DEF gone, LastText
      <3>3. CASE h # prog[p]
        <4>1. (\E q \in Proc : prog'[q] = h) <=> \E q \in Proc : prog[q] = h
          BY <1>9, <3>3, ProgramsAre
        <4> QED BY <3>1, <3>3, <4>1, NoText
      <3> QED BY <3>2, <3>3
    <2>3. Cover(hole)' = ((Cover(hole) \ (no \cup no)) \cup DataOf(p)) \cup gone
      BY <1>10, <2>0
    <2>4. no \subseteq Cover(hole) /\ DataOf(p)' = no /\ All' = All /\ OtherData(p) /\ prog[p] \in Progs
      BY <1>10, <1>14, <1>17, <2>0
    <2>5. Hands(p, prog[p], prog[p], no, no, gone)
      BY <2>0, <2>1, <2>2, <2>3, <2>4 DEF Hands
    <2> QED BY <2>4, <2>5, HandsIs
  <1>20. M!Exit(p)
    <2>1. prog[p] # None
      BY <1>1, <1>2 DEF Slots
    <2>2. M!Change /\ M!Others(p) /\ M!Texts(Program \cup {InitProgram})
      BY <1>17, <1>18, <1>19, ChangedIs DEF Progs
    <2>3. [q \in Proc |-> IF Has(q, "IN_USE") THEN Clicks(seg[q].D) ELSE {}]'[p] = {}
      BY <1>17 DEF DataOf
    <2> QED BY <1>1, <2>1, <2>2, <2>3 DEF M!Exit
  <1>21. M!NothingLost'
    BY <1>20, StepLosesNothing DEF M!Next, IInv
  <1> QED BY <1>7, <1>10, <1>11, <1>12, <1>13, <1>15, <1>16, <1>20, <1>21 DEF IInv, Users, M!Next

(* What alloc_mem() found. *)
LEMMA FoundIs ==
    ASSUME IInv, Found, NEW b, b = [base |-> Base, len |-> Wanted]
    PROVE  /\ Left \in Seq(Block) /\ Apart(Left) /\ Cover(Left) = Cover(hole) \ Clicks(b)
           /\ b \in Block /\ Clicks(b) \subseteq Cover(hole)
           /\ Wanted \in Nat /\ Base \in Nat /\ Base < swap_base
           /\ b.base = Base /\ b.len = Wanted
  <1> DEFINE k == First(Fits(hole, Wanted, FALSE))
  <1>1. /\ TypeOK /\ hole \in Seq(Block) /\ Apart(hole) /\ swap_base \in Nat
    BY DEF IInv, TypeOK
  <1>2. Wanted \in Nat /\ Fits(hole, Wanted, FALSE) # {}
    BY AllocatesIs DEF Found
  <1>3. Left = Bite(hole, k, Wanted) /\ Base = hole[k].base
    BY DEF Left, Base
  <1> HIDE DEF k
  <1>4. k \in 1 .. Len(hole) /\ hole[k].len >= Wanted /\ ~(hole[k].base >= swap_base)
    BY <1>1, <1>2, FitsIs DEF k
  <1>5. hole[k].base \in Nat /\ hole[k].len \in Nat
    BY <1>1, <1>4, BlocksAre
  <1>6. Wanted <= hole[k].len /\ Base < swap_base
    BY <1>1, <1>2, <1>3, <1>4, <1>5
  <1>7. b = [base |-> hole[k].base, len |-> Wanted]
    BY <1>3
  <1>8. /\ Left \in Seq(Block) /\ Apart(Left)
        /\ b \in Block /\ Clicks(b) \subseteq Cover(hole)
        /\ Cover(Left) = Cover(hole) \ Clicks(b)
    BY <1>1, <1>2, <1>3, <1>4, <1>6, <1>7, BiteIs
  <1> QED BY <1>2, <1>3, <1>5, <1>6, <1>8

(* fork() has found memory for the child. *)
LEMMA ForkStep ==
    ASSUME IInv, ForkDone
    PROVE  IInv' /\ [M!Next]_M!vars
  <1>0. PICK p, c : p = job.who /\ c = First(FreeSlots)
    OBVIOUS
  <1> DEFINE fc == flags[p] \cap {"IN_USE", "SEPARATE"}
             gl == [flags EXCEPT ![c] = fc]
             m == [fl |-> gl, q |-> in_queue]
             m1 == setreply(m, c)
             n == setreply(m1, p)
             b == [base |-> Base, len |-> Wanted]
             t == IF Has(p, "SEPARATE") THEN seg[p].T ELSE [seg[p].T EXCEPT !.base = Base]
             d == [seg[p].D EXCEPT !.base = Base]
  <1>1. /\ job.op = "fork" /\ Found /\ hole' = Left
        /\ seg' = [seg EXCEPT ![c] = [T |-> t, D |-> d]]
        /\ prog' = [prog EXCEPT ![c] = prog[p]]
        /\ pending' = [pending EXCEPT ![c] = pending[p]]
        /\ blocked' = [blocked EXCEPT ![c] = TRUE]
        /\ UNCHANGED <<swap_base, swap_size, outswap>>
    BY <1>0 DEF ForkDone
  <1>2. TypeOK /\ Slots /\ Shared /\ Border /\ SwapMarked /\ Jobs /\ job.op # "mem_init"
    BY <1>1 DEF IInv, Users
  <1>3. p \in Proc /\ Has(p, "IN_USE") /\ FreeSlots # {} /\ job.n = seg[p].D.len
    BY <1>0, <1>1, <1>2, JobIs DEF Jobs
  <1>4. c \in Proc /\ ~Has(c, "IN_USE") /\ c # p
    <2>1. FreeSlots \in SUBSET Nat
      BY ProcIs DEF FreeSlots
    <2>2. c \in FreeSlots
      BY <1>0, <1>3, <2>1, FirstIs
    <2> QED BY <1>3, <2>2 DEF FreeSlots
  <1>5. Turn(n)
    <2>1. [Now EXCEPT !.fl[c] = flags[p] \cap {"IN_USE", "SEPARATE"}] = m
      BY DEF Now
    <2> HIDE DEF m
    <2> QED BY <1>0, <2>1 DEF ForkDone
  <1>6. Wanted = seg[p].D.len
    BY <1>1, <1>3 DEF Wanted, Walks
  <1>7. /\ b.base = Base /\ b.len = seg[p].D.len /\ b \in Block /\ Clicks(b) \subseteq Cover(hole)
        /\ Left \in Seq(Block) /\ Apart(Left) /\ Cover(Left) = Cover(hole) \ Clicks(b)
        /\ Base \in Nat /\ Base < swap_base
    BY <1>1, <1>6, FoundIs
  <1>8. seg[p].T \in Block /\ seg[p].T.len \in Nat /\ seg[p].D \in Block /\ seg[p].D.len > 0
    BY <1>2, <1>3, SegIs DEF Slots
  <1>9. d = b
    <2>1. seg[p].D = [base |-> seg[p].D.base, len |-> seg[p].D.len]
      BY <1>2, <1>3, SegIs
    <2> QED BY <1>6, <2>1
  <1>10. /\ t \in Block /\ t.len = seg[p].T.len /\ Clicks(t) = Clicks(seg[p].T)
         /\ Has(p, "SEPARATE") => t = seg[p].T
         /\ Has(p, "SEPARATE") <=> prog[p].sep
         /\ t.len > 0 => t = seg[p].T /\ prog[p].sep
    <2>1. /\ Has(p, "SEPARATE") <=> prog[p].sep
          /\ seg[p].T.len > 0 <=> prog[p].sep
      BY <1>2, <1>3 DEF Slots
    <2>2. CASE Has(p, "SEPARATE")
      BY <1>8, <2>1, <2>2
    <2>3. CASE ~Has(p, "SEPARATE")
      <3>1. t = [base |-> Base, len |-> seg[p].T.len]
        <4>1. seg[p].T = [base |-> seg[p].T.base, len |-> seg[p].T.len]
          BY <1>2, <1>3, SegIs
        <4> QED BY <2>3, <4>1
      <3>2. t \in Block /\ t.len = seg[p].T.len
        BY <1>7, <1>8, <3>1 DEF Block
      <3> HIDE DEF t
      <3>3. Clicks(t) = {} /\ Clicks(seg[p].T) = {}
        BY <1>8, <2>1, <2>3, <3>2, ClicksAre
      <3> QED BY <1>8, <2>1, <2>3, <3>2, <3>3
    <2> QED BY <2>2, <2>3
  <1> HIDE DEF b, t, d
  <1>11. /\ gl \in [Proc -> SUBSET Flag] /\ gl[c] = fc
         /\ \A q \in Proc : q # c => gl[q] = flags[q]
         /\ in_queue \in Seq(Proc)
    BY <1>2, <1>3, <1>4 DEF TypeOK
  <1> HIDE DEF gl
  <1>12. m \in MState /\ m.fl = gl
    BY <1>11, MStateIs
  <1> HIDE DEF m
  <1>13. "IN_USE" \in gl[c] /\ "IN_USE" \in gl[p]
    BY <1>3, <1>4, <1>11 DEF Has
  <1>14. m1 \in MState /\ Softens(gl, m1.fl)
    BY <1>4, <1>12, <1>13, SetreplyIs
  <1> HIDE DEF m1
  <1>15. n \in MState /\ Softens(m1.fl, n.fl)
    <2>1. "IN_USE" \in m1.fl[p]
      BY <1>3, <1>13, <1>14, SoftFlags
    <2> QED BY <1>3, <1>14, <2>1, SetreplyIs
  <1>16. Softens(gl, n.fl)
    BY <1>14, <1>15, SoftensTrans
  <1> HIDE DEF n
  <1>17. /\ flags' = n.fl /\ flags' \in [Proc -> SUBSET Flag] /\ in_queue' \in Seq(Proc)
         /\ job' \in Job /\ job'.op = "in" /\ Jobs'
    BY <1>5, <1>15, TurnIs
  <1>18. \A q \in Proc : /\ "IN_USE" \in flags'[q] <=> "IN_USE" \in gl[q]
                         /\ "SEPARATE" \in flags'[q] <=> "SEPARATE" \in gl[q]
                         /\ "ONSWAP" \in flags'[q] <=> "ONSWAP" \in gl[q]
                         /\ flags'[q] # {} => gl[q] # {}
    BY <1>16, <1>17, SoftFlags
  <1>19. /\ \A q \in Proc : q # c => /\ "IN_USE" \in flags'[q] <=> "IN_USE" \in flags[q]
                                     /\ "SEPARATE" \in flags'[q] <=> "SEPARATE" \in flags[q]
                                     /\ "ONSWAP" \in flags'[q] <=> "ONSWAP" \in flags[q]
                                     /\ flags'[q] # {} => flags[q] # {}
         /\ "IN_USE" \in flags'[c] /\ "ONSWAP" \notin flags'[c]
         /\ "SEPARATE" \in flags'[c] <=> Has(p, "SEPARATE")
    BY <1>3, <1>4, <1>11, <1>13, <1>18 DEF Has
  <1>20. /\ InUse' = InUse \cup {c} /\ p \in InUse /\ c \notin InUse
         /\ prog' \in [Proc -> Program \cup {InitProgram, None}]
         /\ prog'[c] = prog[p] /\ \A q \in Proc : q # c => prog'[q] = prog[q]
         /\ seg' \in [Proc -> [T : Block, D : Block]]
         /\ seg'[c].T = t /\ seg'[c].D = b /\ \A q \in Proc : q # c => seg'[q] = seg[q]
    <2>1. InUse' = InUse \cup {c} /\ p \in InUse /\ c \notin InUse
      BY <1>3, <1>4, <1>19 DEF InUse, Has
    <2>2. [T |-> t, D |-> d] \in [T : Block, D : Block]
      BY <1>7, <1>9, <1>10
    <2>3. /\ prog' \in [Proc -> Program \cup {InitProgram, None}]
          /\ prog'[c] = prog[p] /\ \A q \in Proc : q # c => prog'[q] = prog[q]
      BY <1>1, <1>2, <1>3, <1>4 DEF TypeOK
    <2>4. /\ seg' \in [Proc -> [T : Block, D : Block]] /\ seg'[c] = [T |-> t, D |-> d]
          /\ \A q \in Proc : q # c => seg'[q] = seg[q]
      BY <1>1, <1>2, <1>4, <2>2 DEF TypeOK
    <2> QED BY <1>9, <2>1, <2>3, <2>4
  <1>21. prog[p] \in Progs /\ prog[p] # None /\ prog[c] = None
    BY <1>2, <1>3, <1>4 DEF TypeOK, Slots, Progs
  <1>22. hole' \in Seq(Block) /\ Apart(hole)' /\ Cover(hole)' = Cover(hole) \ Clicks(b)
    BY <1>1, <1>7 DEF Apart, Cover
  <1>23. TypeOK'
    <2>1. pending' \in [Proc -> BOOLEAN] /\ blocked' \in [Proc -> BOOLEAN]
      BY <1>1, <1>2, <1>3 DEF TypeOK
    <2> QED BY <1>1, <1>2, <1>17, <1>20, <1>22, <2>1 DEF TypeOK
  <1>24. Slots'
    <2>1. ASSUME NEW q \in Proc, q # c
          PROVE  (/\ flags[q] # {} => Has(q, "IN_USE")
                  /\ prog[q] = None <=> ~Has(q, "IN_USE")
                  /\ Has(q, "IN_USE") => /\ Has(q, "SEPARATE") <=> prog[q].sep
                                         /\ seg[q].T.len > 0 <=> prog[q].sep
                                         /\ seg[q].D.len > 0)'
      BY <1>2, <1>19, <1>20, <2>1 DEF Slots, Has
    <2>2. (/\ flags[c] # {} => Has(c, "IN_USE")
           /\ prog[c] = None <=> ~Has(c, "IN_USE")
           /\ Has(c, "IN_USE") => /\ Has(c, "SEPARATE") <=> prog[c].sep
                                  /\ seg[c].T.len > 0 <=> prog[c].sep
                                  /\ seg[c].D.len > 0)'
      <3>1. seg[p].T.len > 0 <=> prog[p].sep
        BY <1>2, <1>3 DEF Slots
      <3> QED BY <1>7, <1>8, <1>10, <1>19, <1>20, <1>21, <3>1 DEF Has
    <2> QED BY <2>1, <2>2 DEF Slots
  <1>25. Shared'
    <2>1. ASSUME NEW q \in InUse, prog[q] = prog[p], prog[p].sep PROVE seg[q].T = t
      BY <1>2, <1>10, <1>20, <2>1 DEF Shared
    <2>2. \A q \in InUse : /\ q # c /\ q \in Proc
                           /\ prog'[q] = prog[q] /\ seg'[q] = seg[q]
      BY <1>20 DEF InUse
    <2>3. \A x, y \in InUse : prog'[x] = prog'[y] /\ prog'[x].sep => seg'[x].T = seg'[y].T
      BY <1>2, <2>2 DEF Shared
    <2>4. \A x \in InUse : prog'[x] = prog'[c] /\ prog'[c].sep => seg'[x].T = seg'[c].T
      BY <1>20, <2>1, <2>2
    <2> QED BY <1>20, <2>3, <2>4 DEF Shared
  <1>26. Given' = Given /\ All' = All
    BY <1>1, <1>2, <1>17 DEF Given, All, SwapArea
  <1>27. Border'
    <2>1. t.len > 0 => t.base < swap_base
      BY <1>2, <1>10, <1>20 DEF Border
    <2>2. \A q \in InUse' : seg'[q].T.len > 0 => seg'[q].T.base < swap_base
      BY <1>2, <1>20, <2>1 DEF Border, InUse
    <2>3. \A x \in Given \cup InitClicks : x + 1 < swap_base
      BY <1>2 DEF Border
    <2> QED BY <1>1, <1>17, <1>26, <2>2, <2>3 DEF Border
  <1>28. SwapMarked'
    <2>1. ASSUME NEW q \in InUse' PROVE Has(q, "ONSWAP")' <=> (seg[q].D.base >= swap_base)'
      <3>1. CASE q = c
        <4>1. ~(Base >= swap_base)
          BY <1>2, <1>7 DEF TypeOK
        <4> QED BY <1>1, <1>7, <1>19, <1>20, <3>1, <4>1 DEF Has
      <3>2. CASE q # c
        <4>1. q \in InUse /\ q \in Proc
          BY <1>20, <2>1, <3>2 DEF InUse
        <4> QED BY <1>1, <1>2, <1>19, <1>20, <3>2, <4>1 DEF Has, SwapMarked
      <3> QED BY <3>1, <3>2
    <2> QED BY <2>1 DEF SwapMarked
  <1>29. OtherData(c) /\ DataOf(c)' = Clicks(b) /\ DataOf(c) = {}
    BY <1>4, <1>19, <1>20 DEF OtherData, DataOf, Has
  <1>30. TextsStay(Progs)
    <2>1. \A f \in Progs, q \in Proc : prog'[q] = f =>
              \E r \in InUse : prog[r] = f /\ Clicks(seg'[q].T) = Clicks(seg[r].T)
      <3> SUFFICES ASSUME NEW f \in Progs, NEW q \in Proc, prog'[q] = f
                   PROVE  \E r \in InUse : prog[r] = f /\ Clicks(seg'[q].T) = Clicks(seg[r].T)
        OBVIOUS
      <3>1. CASE q = c
        BY <1>10, <1>20, <3>1
      <3>2. CASE q # c
        <4>1. q \in InUse
          BY <1>2, <1>20, <3>2, ProgramsAre DEF Slots, InUse
        <4> QED BY <1>20, <3>2, <4>1
      <3> QED BY <3>1, <3>2
    <2> QED BY <1>23, <1>24, <1>25, <2>1, TextsStayIs
  <1>31. Changed
    <2>0. PICK no, got : no = {} /\ got = Clicks(b)
      OBVIOUS
    <2>1. \A h \in Progs : TextOf(h)' = TextOf(h)
      <3> SUFFICES ASSUME NEW h \in Progs PROVE TextOf(h)' = TextOf(h)
        OBVIOUS
      <3>1. TextOf(h)' = IF \E q \in Proc : prog'[q] = h THEN TextOf(h) ELSE {}
        BY <1>30 DEF TextsStay
      <3>2. (\E q \in Proc : prog[q] = h) => \E q \in Proc : prog'[q] = h
        BY <1>20, <1>21, ProgramsAre
      <3> QED BY <3>1, <3>2, NoText
    <2>2. \A h \in Progs : TextOf(h)' = (TextOf(h) \ (IF h = prog[p] THEN no ELSE {}))
                                        \cup (IF h = prog[p] THEN no ELSE {})
      BY <2>0, <2>1
    <2>3. Cover(hole)' = ((Cover(hole) \ (got \cup no)) \cup DataOf(c)) \cup no
      BY <1>22, <1>29, <2>0
    <2>4. /\ no \subseteq Cover(hole) /\ no \in {{}, TextOf(prog[p])}
          /\ got \subseteq Cover(hole) /\ DataOf(c)' = got /\ All' = All /\ OtherData(c)
      BY <1>7, <1>26, <1>29, <2>0
    <2>5. Hands(c, prog[p], prog[p], got, no, no)
      BY <2>0, <2>2, <2>3, <2>4 DEF Hands
    <2> QED BY <1>4, <1>21, <2>5, HandsIs
  <1>32. M!Fork(p, c)
    <2>1. DataOf(p) = Clicks(seg[p].D)
      BY <1>3 DEF DataOf
    <2>2. Cardinality(DataOf(c)') = Cardinality(DataOf(p))
      BY <1>7, <1>8, <1>29, <2>1, SizeIs
    <2>3. M!Change /\ M!Others(c) /\ M!Texts(Program \cup {InitProgram})
      BY <1>29, <1>30, <1>31, ChangedIs DEF Progs
    <2>4. M!Moved(p, c)
      BY <1>3, <1>4, <2>2, ChangedIs
    <2> QED BY <1>1, <1>21, <2>3, <2>4 DEF M!Fork
  <1>33. M!NothingLost'
    BY <1>3, <1>4, <1>32, StepLosesNothing DEF M!Next, IInv
  <1> QED
    BY <1>3, <1>4, <1>17, <1>22, <1>23, <1>24, <1>25, <1>27, <1>28, <1>32, <1>33
    DEF IInv, Users, M!Next

(* The two parts of a block. *)
LEMMA SplitIs ==
    ASSUME NEW b \in Block, NEW n \in Nat, n <= b.len,
           NEW t, t = [base |-> b.base, len |-> n],
           NEW d, d = [base |-> b.base + n, len |-> b.len - n]
    PROVE  /\ t \in Block /\ d \in Block
           /\ Clicks(b) = Clicks(d) \cup Clicks(t) /\ Clicks(d) \cap Clicks(t) = {}
  <1>1. b.base \in Nat /\ b.len \in Nat
    BY DEF Block
  <1>2. /\ t \in Block /\ t.base = b.base /\ t.len = n
        /\ d \in Block /\ d.base = b.base + n /\ d.len = b.len - n
    BY <1>1 DEF Block
  <1>3. \A x : /\ x \in Clicks(b) <=> x \in Int /\ b.base <= x /\ x < b.base + b.len
               /\ x \in Clicks(t) <=> x \in Int /\ b.base <= x /\ x < b.base + n
               /\ x \in Clicks(d) <=> x \in Int /\ b.base + n <= x /\ x < b.base + b.len
    <2> SUFFICES ASSUME NEW x
                 PROVE  /\ x \in Clicks(b) <=> x \in Int /\ b.base <= x /\ x < b.base + b.len
                        /\ x \in Clicks(t) <=> x \in Int /\ b.base <= x /\ x < b.base + n
                        /\ x \in Clicks(d) <=> x \in Int /\ b.base + n <= x /\ x < b.base + b.len
      OBVIOUS
    <2>1. x \in Clicks(b) <=> x \in Int /\ b.base <= x /\ x < b.base + b.len
      BY ClicksAre
    <2>2. x \in Clicks(t) <=> x \in Int /\ b.base <= x /\ x < b.base + n
      BY <1>2, ClicksAre
    <2>3. x \in Clicks(d) <=> x \in Int /\ d.base <= x /\ x < d.base + d.len
      BY <1>2, ClicksAre
    <2>4. d.base + d.len = b.base + b.len
      BY <1>1, <1>2
    <2> QED BY <1>2, <2>1, <2>2, <2>3, <2>4
  <1>4. \A x : x \in Clicks(b) <=> x \in Clicks(d) \/ x \in Clicks(t)
    BY <1>1, <1>3
  <1>5. \A x : ~(x \in Clicks(d) /\ x \in Clicks(t))
    BY <1>1, <1>3
  <1> QED BY <1>2, <1>4, <1>5

(* A hole that begins in memory does not reach the swap area. *)
LEMMA BelowBorder ==
    ASSUME IInv, job.op # "mem_init", NEW b \in Block, b.base < swap_base, Clicks(b) \subseteq All,
           NEW x \in Clicks(b)
    PROVE  x < swap_base
  <1>1. swap_base \in Nat /\ b.base \in Nat /\ b.len \in Nat
    BY DEF IInv, TypeOK, Block
  <1>2. \A y : y \in Clicks(b) <=> y \in Int /\ b.base <= y /\ y < b.base + b.len
    BY ClicksAre
  <1>3. swap_base - 1 \notin All
    <2>1. \A y \in Given \cup InitClicks : y + 1 < swap_base
      BY DEF IInv, Users, Border
    <2>2. swap_base - 1 \notin Given \cup InitClicks
      BY <1>1, <2>1
    <2>3. \A y \in Clicks(SwapArea) : y >= swap_base
      BY <1>1 DEF SwapArea, Clicks
    <2>4. swap_base - 1 \notin Clicks(SwapArea)
      BY <1>1, <2>3
    <2> QED BY <2>2, <2>4 DEF All
  <1>4. swap_base - 1 \notin Clicks(b)
    BY <1>3
  <1> QED BY <1>1, <1>2, <1>4

(* exec() has found memory for the new program. *)
LEMMA ExecStep ==
    ASSUME IInv, ExecDone
    PROVE  IInv' /\ [M!Next]_M!vars
  <1>0. PICK p, f, s, b, t, d :
            /\ p = job.who /\ f = job.prog /\ s = job.share
            /\ b = [base |-> Base, len |-> Wanted]
            /\ t = [base |-> Base, len |-> job.n - f.tot]
            /\ d = [base |-> Base + (job.n - f.tot), len |-> f.tot]
    OBVIOUS
  <1> DEFINE tx == IF s # 0 THEN seg[s].T ELSE t
             m == Put(Now, p, ExecFlags)
             gone == LastText(p)
             newT == Clicks(t)
             newD == Clicks(d)
  <1>1. /\ job.op = "exec" /\ Found /\ hole' = Released(Left, p)
        /\ seg' = [seg EXCEPT ![p] = [T |-> tx, D |-> d]]
        /\ prog' = [prog EXCEPT ![p] = f]
        /\ blocked' = [blocked EXCEPT ![p] = FALSE]
        /\ UNCHANGED <<swap_base, swap_size, pending, outswap>>
    BY <1>0 DEF ExecDone
  <1>2. TypeOK /\ Slots /\ Shared /\ Border /\ SwapMarked /\ Jobs /\ job.op # "mem_init"
    BY <1>1 DEF IInv, Users
  <1>3. /\ p \in Proc /\ Has(p, "IN_USE") /\ f \in Program /\ job.n \in Nat
        /\ s = find_share(p, f) /\ job.n = f.tot + IF s = 0 THEN f.text ELSE 0
    BY <1>0, <1>1, <1>2, JobIs DEF Jobs
  <1>4. /\ f.sep \in BOOLEAN /\ f.text \in Nat /\ f.tot \in Nat /\ f.tot > 0
        /\ f.sep <=> f.text > 0
        /\ f \in Progs /\ f # None
    BY <1>3, ProgramsAre DEF Progs
  <1>5. /\ s # 0 => s \in Proc /\ s # p /\ Has(s, "SEPARATE") /\ prog[s] = f
        /\ s = 0 => \A q \in Proc : q # p /\ Has(q, "SEPARATE") => prog[q] # f
    BY <1>3, ShareIs
  <1>6. Wanted = job.n
    BY <1>1 DEF Wanted, Walks
  <1>7. /\ b \in Block /\ Clicks(b) \subseteq Cover(hole) /\ b.base = Base /\ b.len = job.n
        /\ Left \in Seq(Block) /\ Apart(Left) /\ Cover(Left) = Cover(hole) \ Clicks(b)
        /\ Base \in Nat /\ Base < swap_base
    BY <1>0, <1>1, <1>6, FoundIs
  <1>8. /\ t \in Block /\ t.base = Base /\ t.len = IF s = 0 THEN f.text ELSE 0
        /\ d \in Block /\ d.base = Base + t.len /\ d.len = f.tot
        /\ Clicks(b) = Clicks(d) \cup Clicks(t) /\ Clicks(d) \cap Clicks(t) = {}
    <2> DEFINE n == job.n - f.tot
    <2>1. n \in Nat /\ n <= b.len /\ b.len - n = f.tot /\ n = IF s = 0 THEN f.text ELSE 0
      <3>1. job.n = f.tot + (IF s = 0 THEN f.text ELSE 0) /\ b.len = job.n
        BY <1>3, <1>7
      <3>2. CASE s = 0
        BY <1>3, <1>4, <3>1, <3>2
      <3>3. CASE s # 0
        BY <1>3, <1>4, <3>1, <3>3
      <3> QED BY <3>2, <3>3
    <2>2. t = [base |-> Base, len |-> n] /\ d = [base |-> Base + n, len |-> f.tot]
      BY <1>0
    <2> HIDE DEF n
    <2>3. t = [base |-> b.base, len |-> n] /\ d = [base |-> b.base + n, len |-> b.len - n]
      BY <1>7, <2>1, <2>2
    <2>4. /\ t \in Block /\ d \in Block
          /\ Clicks(b) = Clicks(d) \cup Clicks(t) /\ Clicks(d) \cap Clicks(t) = {}
      BY <1>7, <2>1, <2>3, SplitIs
    <2> QED BY <2>1, <2>2, <2>4
  <1>9. newT \subseteq Cover(hole) /\ newD \subseteq Cover(hole) /\ newD \cap newT = {}
        /\ newD # {} /\ (s # 0 \/ ~f.sep => newT = {})
    <2>1. newT \subseteq Cover(hole) /\ newD \subseteq Cover(hole) /\ newD \cap newT = {}
      BY <1>7, <1>8
    <2>2. newD # {}
      <3>1. d.base \in Int /\ d.base <= d.base /\ d.base < d.base + d.len
        BY <1>4, <1>7, <1>8
      <3>2. d.base \in Clicks(d)
        BY <1>8, <3>1, ClicksAre
      <3> QED BY <3>2
    <2>3. ASSUME s # 0 \/ ~f.sep PROVE newT = {}
      <3>1. t.len = 0
        BY <1>4, <1>8, <2>3
      <3>2. \A x : x \notin Clicks(t)
        BY <1>7, <1>8, <3>1, ClicksAre
      <3> QED BY <3>2
    <2> QED BY <2>1, <2>2, <2>3
  <1>10. /\ tx \in Block /\ tx.len \in Nat
         /\ tx.len > 0 <=> f.sep
         /\ tx.len > 0 => tx.base < swap_base
    <2>1. CASE s # 0
      <3>1. seg[s].T \in Block /\ seg[s].T.len \in Nat
        BY <1>2, <1>5, <2>1, SegIs
      <3>2. Has(s, "IN_USE")
        BY <1>2, <1>5, <2>1 DEF Slots, Has
      <3>3. seg[s].T.len > 0 <=> f.sep
        BY <1>2, <1>5, <2>1, <3>2 DEF Slots
      <3>4. seg[s].T.len > 0 => seg[s].T.base < swap_base
        BY <1>2, <1>5, <2>1, <3>2 DEF Border, InUse
      <3> QED BY <2>1, <3>1, <3>3, <3>4
    <2>2. CASE s = 0
      BY <1>4, <1>7, <1>8, <2>2
    <2> QED BY <2>1, <2>2
  <1>11. d.base < swap_base
    <2>1. d.base \in Clicks(d)
      <3>1. d.base \in Int /\ d.base <= d.base /\ d.base < d.base + d.len
        BY <1>4, <1>7, <1>8
      <3> QED BY <1>8, <3>1, ClicksAre
    <2>2. Clicks(b) \subseteq All
      BY <1>7, NotHeld
    <2>3. d.base \in Clicks(b) /\ b.base < swap_base
      BY <1>7, <1>8, <2>1
    <2> QED BY <1>2, <1>7, <2>2, <2>3, BelowBorder
  <1> HIDE DEF tx, newT, newD
  <1>12. ExecFlags \in SUBSET Flag /\ "IN_USE" \in ExecFlags /\ "ONSWAP" \notin ExecFlags
         /\ ("SEPARATE" \in ExecFlags <=> f.sep)
    <2>1. flags[p] \in SUBSET Flag
      BY <1>2, <1>3 DEF TypeOK
    <2> QED BY <1>0, <1>3, <2>1 DEF ExecFlags, Flag, Has
  <1>13. Turn(m) /\ Now \in MState /\ Now.fl = flags /\ Now.q = in_queue
    <2>1. Now \in MState /\ Now.fl = flags /\ Now.q = in_queue
      BY <1>2, NowIs
    <2>2. [Now EXCEPT !.fl[p] = ExecFlags] = m
      <3>1. Now = [fl |-> Now.fl, q |-> Now.q]
        BY <2>1 DEF MState
      <3> QED BY <3>1 DEF Put
    <2> HIDE DEF m
    <2> QED BY <1>0, <2>1, <2>2 DEF ExecDone
  <1>14. m \in MState /\ m.fl = [flags EXCEPT ![p] = ExecFlags]
    <2>1. m = [fl |-> [flags EXCEPT ![p] = ExecFlags], q |-> in_queue]
      BY <1>13 DEF Put
    <2>2. [flags EXCEPT ![p] = ExecFlags] \in [Proc -> SUBSET Flag] /\ in_queue \in Seq(Proc)
      BY <1>2, <1>12 DEF TypeOK
    <2> HIDE DEF m
    <2> QED BY <2>1, <2>2, MStateIs
  <1> HIDE DEF m
  <1>15. /\ flags' = m.fl /\ flags' \in [Proc -> SUBSET Flag] /\ in_queue' \in Seq(Proc)
         /\ job' \in Job /\ job'.op = "in" /\ Jobs'
    BY <1>13, <1>14, TurnIs
  <1>16. /\ \A q \in Proc : q # p => flags'[q] = flags[q]
         /\ "IN_USE" \in flags'[p] /\ "ONSWAP" \notin flags'[p]
         /\ "SEPARATE" \in flags'[p] <=> f.sep
    <2>1. flags'[p] = ExecFlags /\ \A q \in Proc : q # p => flags'[q] = flags[q]
      BY <1>2, <1>3, <1>14, <1>15 DEF TypeOK
    <2> QED BY <1>12, <2>1
  <1>17. /\ InUse' = InUse /\ p \in InUse /\ InUse \subseteq Proc
         /\ prog' \in [Proc -> Program \cup {InitProgram, None}]
         /\ prog'[p] = f /\ \A q \in Proc : q # p => prog'[q] = prog[q]
         /\ seg' \in [Proc -> [T : Block, D : Block]]
         /\ seg'[p].T = tx /\ seg'[p].D = d /\ \A q \in Proc : q # p => seg'[q] = seg[q]
    <2>1. InUse' = InUse /\ p \in InUse /\ InUse \subseteq Proc
      BY <1>3, <1>16 DEF InUse, Has
    <2>2. [T |-> tx, D |-> d] \in [T : Block, D : Block]
      <3>1. tx \in Block /\ d \in Block
        BY <1>8, <1>10
      <3> QED BY <3>1
    <2>3. /\ prog' \in [Proc -> Program \cup {InitProgram, None}]
          /\ prog'[p] = f /\ \A q \in Proc : q # p => prog'[q] = prog[q]
      BY <1>1, <1>2, <1>3 DEF TypeOK
    <2>4. /\ seg' \in [Proc -> [T : Block, D : Block]] /\ seg'[p] = [T |-> tx, D |-> d]
          /\ \A q \in Proc : q # p => seg'[q] = seg[q]
      BY <1>1, <1>2, <1>3, <2>2 DEF TypeOK
    <2> QED BY <2>1, <2>3, <2>4
  <1>18. /\ hole' \in Seq(Block) /\ Apart(hole)' /\ prog[p] \in Progs
         /\ Cover(hole)' = ((Cover(hole) \ (newD \cup newT)) \cup DataOf(p)) \cup gone
    <2>1. Cover(Left) \subseteq Cover(hole)
      BY <1>7
    <2> DEFINE r == Released(Left, p)
    <2> HIDE DEF r, gone
    <2>2. r \in Seq(Block) /\ Apart(r)
      BY <1>3, <1>7, <2>1, ReleaseIs DEF r
    <2>3. Cover(r) = (Cover(Left) \cup DataOf(p)) \cup gone
      BY <1>3, <1>7, <2>1, ReleaseIs DEF r, gone
    <2>4. prog[p] \in Progs
      BY <1>3, <1>7, <2>1, ReleaseIs
    <2>5. hole' = r
      BY <1>1 DEF r
    <2>6. Cover(Left) = Cover(hole) \ (newD \cup newT)
      BY <1>7, <1>8 DEF newD, newT
    <2> QED BY <2>2, <2>3, <2>4, <2>5, <2>6, ZenonT(30) DEF Apart, Cover
  <1> HIDE DEF gone
  <1>19. TypeOK'
    <2>1. blocked' \in [Proc -> BOOLEAN]
      BY <1>1, <1>2, <1>3 DEF TypeOK
    <2> QED BY <1>1, <1>2, <1>15, <1>17, <1>18, <2>1 DEF TypeOK
  <1>20. Slots'
    <2>1. ASSUME NEW q \in Proc, q # p
          PROVE  (/\ flags[q] # {} => Has(q, "IN_USE")
                  /\ prog[q] = None <=> ~Has(q, "IN_USE")
                  /\ Has(q, "IN_USE") => /\ Has(q, "SEPARATE") <=> prog[q].sep
                                         /\ seg[q].T.len > 0 <=> prog[q].sep
                                         /\ seg[q].D.len > 0)'
      BY <1>2, <1>16, <1>17, <2>1 DEF Slots, Has
    <2>2. (/\ flags[p] # {} => Has(p, "IN_USE")
           /\ prog[p] = None <=> ~Has(p, "IN_USE")
           /\ Has(p, "IN_USE") => /\ Has(p, "SEPARATE") <=> prog[p].sep
                                  /\ seg[p].T.len > 0 <=> prog[p].sep
                                  /\ seg[p].D.len > 0)'
      <3>1. prog'[p] # None /\ Has(p, "IN_USE")' /\ (Has(p, "SEPARATE")' <=> prog'[p].sep)
        BY <1>4, <1>16, <1>17 DEF Has
      <3>2. seg'[p].T.len > 0 <=> prog'[p].sep
        BY <1>10, <1>17
      <3>3. seg'[p].D.len > 0
        BY <1>4, <1>8, <1>17
      <3> QED BY <3>1, <3>2, <3>3
    <2> QED BY <2>1, <2>2 DEF Slots
  <1>21. Shared'
    <2>1. ASSUME NEW q \in InUse, q # p, prog[q] = f, f.sep PROVE seg[q].T = tx
      <3>1. q \in Proc /\ Has(q, "SEPARATE")
        BY <1>2, <2>1 DEF InUse, Slots
      <3>2. s # 0
        BY <1>5, <2>1, <3>1
      <3>3. s \in InUse /\ prog[s] = f
        BY <1>2, <1>5, <3>2 DEF InUse, Slots, Has
      <3> QED BY <1>2, <2>1, <3>2, <3>3 DEF Shared, tx
    <2>2. \A q \in InUse : q # p => prog'[q] = prog[q] /\ seg'[q] = seg[q]
      BY <1>17
    <2>3. \A x, y \in InUse : x # p /\ y # p /\ prog'[x] = prog'[y] /\ prog'[x].sep
                                => seg'[x].T = seg'[y].T
      BY <1>2, <2>2 DEF Shared
    <2>4. \A x \in InUse : x # p /\ prog'[x] = f /\ f.sep => seg'[x].T = tx
      BY <2>1, <2>2
    <2> QED BY <1>17, <2>3, <2>4 DEF Shared
  <1>22. Given' = Given /\ All' = All
    BY <1>1, <1>2, <1>15 DEF Given, All, SwapArea
  <1>23. Border'
    <2>1. \A q \in InUse' : seg'[q].T.len > 0 => seg'[q].T.base < swap_base
      BY <1>2, <1>10, <1>17 DEF Border
    <2>2. \A x \in Given \cup InitClicks : x + 1 < swap_base
      BY <1>2 DEF Border
    <2> QED BY <1>1, <1>15, <1>22, <2>1, <2>2 DEF Border
  <1>24. SwapMarked'
    <2>1. ASSUME NEW q \in InUse' PROVE Has(q, "ONSWAP")' <=> (seg[q].D.base >= swap_base)'
      <3>1. CASE q = p
        <4>1. ~(d.base >= swap_base)
          BY <1>2, <1>4, <1>7, <1>8, <1>11 DEF TypeOK
        <4> QED BY <1>1, <1>16, <1>17, <3>1, <4>1 DEF Has
      <3>2. CASE q # p
        <4>1. q \in InUse /\ q \in Proc
          BY <1>17, <2>1
        <4> QED BY <1>1, <1>2, <1>16, <1>17, <3>2, <4>1 DEF Has, SwapMarked
      <3> QED BY <3>1, <3>2
    <2> QED BY <2>1 DEF SwapMarked
  <1>25. OtherData(p) /\ DataOf(p)' = newD
    BY <1>16, <1>17 DEF OtherData, DataOf, Has, newD
  <1>26. TextsStay(Progs \ {f})
    <2>1. ASSUME NEW h \in Progs \ {f}, NEW q \in Proc, prog'[q] = h
          PROVE  q \in InUse /\ prog[q] = h /\ Clicks(seg'[q].T) = Clicks(seg[q].T)
      <3>1. q # p
        BY <1>17, <2>1
      <3>2. q \in InUse
        BY <1>2, <1>17, <2>1, <3>1, ProgramsAre DEF Slots, InUse
      <3> QED BY <1>17, <2>1, <3>1, <3>2
    <2>2. \A h \in Progs \ {f}, q \in Proc : prog'[q] = h =>
              \E r \in InUse : prog[r] = h /\ Clicks(seg'[q].T) = Clicks(seg[r].T)
      BY <2>1
    <2>3. Progs \ {f} \in SUBSET Progs
      OBVIOUS
    <2> QED BY <1>19, <1>20, <1>21, <2>2, <2>3, TextsStayIs
  <1>27. TextOf(f)' = Clicks(tx)
    <2>1. (TypeOK /\ Slots /\ Shared)'
      BY <1>19, <1>20, <1>21
    <2>2. \A g \in Progs : \A q \in InUse' : prog'[q] = g => TextOf(g)' = Clicks(seg'[q].T)
      BY <2>1, TextIsNext
    <2> QED BY <1>4, <1>17, <2>2
  <1>28. /\ s # 0 => TextOf(f)' = TextOf(f)
         /\ s = 0 => TextOf(f)' = newT
         /\ s = 0 /\ (\E q \in Proc \ {p} : prog[q] = f) => TextOf(f) = {} /\ newT = {}
         /\ ~f.sep => TextOf(f) = {} /\ newT = {}
    <2>1. ASSUME s # 0 PROVE TextOf(f)' = TextOf(f)
      <3>1. s \in InUse /\ prog[s] = f
        BY <1>2, <1>5, <2>1 DEF InUse, Slots, Has
      <3>2. TextOf(f) = Clicks(seg[s].T)
        BY <1>4, <3>1, TextIs DEF IInv, Users
      <3> QED BY <1>27, <2>1, <3>2 DEF tx
    <2>2. ASSUME s = 0 PROVE TextOf(f)' = newT
      BY <1>27, <2>2 DEF tx, newT
    <2>3. ASSUME ~f.sep PROVE TextOf(f) = {} /\ newT = {}
      <3>1. newT = {}
        BY <1>9, <2>3
      <3>2. CASE \E q \in InUse : prog[q] = f
        <4>1. PICK q \in InUse : prog[q] = f
          BY <3>2
        <4>2. TextOf(f) = Clicks(seg[q].T) /\ q \in Proc /\ Has(q, "IN_USE")
          BY <1>4, <4>1, TextIs DEF IInv, Users, InUse
        <4>3. seg[q].T \in Block /\ seg[q].T.len = 0
          <5>1. seg[q].T \in Block /\ seg[q].T.len \in Nat
            BY <1>2, <4>2, SegIs
          <5>2. ~(seg[q].T.len > 0)
            BY <1>2, <2>3, <4>1, <4>2 DEF Slots
          <5> QED BY <5>1, <5>2
        <4>4. \A x : x \notin Clicks(seg[q].T)
          BY <4>3, ClicksAre DEF Block
        <4> QED BY <3>1, <4>2, <4>4
      <3>3. CASE ~\E q \in InUse : prog[q] = f
        BY <1>4, <3>1, <3>3, TextIs DEF IInv, Users
      <3> QED BY <3>2, <3>3
    <2>4. ASSUME s = 0, NEW q \in Proc \ {p}, prog[q] = f PROVE ~f.sep
      <3>1. Has(q, "IN_USE")
        BY <1>2, <1>4, <2>4 DEF Slots
      <3> QED BY <1>2, <1>5, <2>4, <3>1 DEF Slots
    <2> QED BY <2>1, <2>2, <2>3, <2>4
  <1>29. gone = IF \E q \in Proc \ {p} : prog[q] = prog[p] THEN {} ELSE TextOf(prog[p])
    BY DEF gone, LastText
  <1>30. \A h \in Progs : TextOf(h)' = (TextOf(h) \ (IF h = prog[p] THEN gone ELSE {}))
                                       \cup (IF h = f THEN newT ELSE {})
    <2>1. ASSUME NEW h \in Progs, h # f
          PROVE  TextOf(h)' = TextOf(h) \ (IF h = prog[p] THEN gone ELSE {})
      <3>1. TextOf(h)' = IF \E q \in Proc : prog'[q] = h THEN TextOf(h) ELSE {}
        BY <1>26, <2>1 DEF TextsStay
      <3>2. (\E q \in Proc : prog'[q] = h) <=> \E q \in Proc \ {p} : prog[q] = h
        BY <1>3, <1>17, <2>1
      <3>3. CASE h = prog[p]
        BY <1>29, <3>1, <3>2, <3>3
      <3>4. CASE h # prog[p]
        <4>1. (\E q \in Proc \ {p} : prog[q] = h) <=> \E q \in Proc : prog[q] = h
          BY <3>4
        <4> QED BY <3>1, <3>2, <3>4, <4>1, NoText
      <3> QED BY <3>3, <3>4
    <2>2. TextOf(f)' = (TextOf(f) \ (IF f = prog[p] THEN gone ELSE {})) \cup newT
      <3>1. CASE s # 0
        <4>1. f = prog[p] => gone = {}
          BY <1>5, <1>29, <3>1
        <4> QED BY <1>9, <1>28, <3>1, <4>1
      <3>2. CASE s = 0 /\ \E q \in Proc \ {p} : prog[q] = f
        BY <1>28, <3>2
      <3>3. CASE s = 0 /\ ~\E q \in Proc \ {p} : prog[q] = f
        <4>1. CASE f = prog[p]
          BY <1>28, <1>29, <3>3, <4>1
        <4>2. CASE f # prog[p]
          <5>1. TextOf(f) = {}
            BY <1>4, <3>3, <4>2, NoText
          <5> QED BY <1>28, <3>3, <5>1
        <4> QED BY <4>1, <4>2
      <3> QED BY <3>1, <3>2, <3>3
    <2> QED BY <2>1, <2>2
  <1>31. Changed
    <2>1. newT = {} \/ TextOf(f)' = newT
      BY <1>9, <1>28
    <2>2. gone \in {{}, TextOf(prog[p])}
      BY <1>29
    <2>3. Hands(p, f, prog[p], newD, newT, gone)
      BY <1>9, <1>18, <1>22, <1>25, <1>30, <2>1, <2>2 DEF Hands
    <2> QED BY <1>3, <1>4, <1>18, <2>3, HandsIs
  <1>32. M!Exec(p, f)
    <2> DEFINE data == [q \in Proc |-> IF Has(q, "IN_USE") THEN Clicks(seg[q].D) ELSE {}]
               text == [g \in Program \cup {InitProgram} |->
                           UNION {Clicks(seg[q].T) : q \in {r \in InUse : prog[r] = g}}]
               free == UNION {Clicks(hole[i]) : i \in 1 .. Len(hole)}
    <2>1. data'[p] = newD /\ text[f] = TextOf(f) /\ text'[f] = TextOf(f)' /\ free = Cover(hole)
      BY <1>3, <1>4, <1>25 DEF DataOf, TextOf, Progs, Cover
    <2>2. prog[p] # None
      BY <1>2, <1>3 DEF Slots
    <2>3. M!Change /\ M!Others(p)
      BY <1>25, <1>31, ChangedIs
    <2>4. M!Texts((Program \cup {InitProgram}) \ {f})
      <3>1. Progs \ {f} \subseteq Progs
        OBVIOUS
      <3> QED BY <1>26, <3>1, ChangedIs DEF Progs
    <2> HIDE DEF data, text, free
    <2>5. data'[p] # {} /\ data'[p] \subseteq free
      BY <1>9, <2>1
    <2>6. IF \E q \in Proc \ {p} : prog[q] = f THEN text'[f] = text[f]
          ELSE text'[f] \subseteq free \ data'[p]
      <3>1. CASE \E q \in Proc \ {p} : prog[q] = f
        BY <1>28, <2>1, <3>1
      <3>2. CASE ~\E q \in Proc \ {p} : prog[q] = f
        <4>1. s = 0
          BY <1>5, <3>2
        <4> QED BY <1>9, <1>28, <2>1, <3>2, <4>1
      <3> QED BY <3>1, <3>2
    <2> QED BY <1>1, <2>2, <2>3, <2>4, <2>5, <2>6 DEF M!Exec, data, text, free
  <1>33. M!NothingLost'
    BY <1>3, <1>4, <1>32, StepLosesNothing DEF M!Next, IInv, Progs
  <1> QED
    BY <1>3, <1>4, <1>15, <1>18, <1>19, <1>20, <1>21, <1>23, <1>24, <1>32, <1>33
    DEF IInv, Users, M!Next, Progs

(* Memory that is given or taken away, while everybody keeps what he has.  *)
LEMMA ProvideIs ==
    ASSUME prog' = prog, NEW new, new \cap All = {}, Cover(hole) \subseteq All,
           All' = All \cup new, Cover(hole)' = Cover(hole) \cup new,
           \A p \in Proc : DataOf(p)' = DataOf(p), \A f \in Progs : TextOf(f)' = TextOf(f)
    PROVE  M!Provide
  <1> DEFINE data == [p \in Proc |-> DataOf(p)]
             text == [f \in Progs |-> TextOf(f)]
  <1>1. data' = data
    OBVIOUS
  <1>2. text' = text
    OBVIOUS
  <1>3. /\ All' \ All = Cover(hole)' \ Cover(hole)
        /\ All \subseteq All' /\ Cover(hole) \subseteq Cover(hole)'
    OBVIOUS
  <1> QED
    BY <1>1, <1>2, <1>3
    DEF M!Provide, Progs, DataOf, TextOf, All, SwapArea, InitClicks, Cover

(* Taken away. *)
LEMMA WithdrawIs ==
    ASSUME prog' = prog, NEW old, old \subseteq Cover(hole), Cover(hole) \subseteq All,
           All' = All \ old, Cover(hole)' = Cover(hole) \ old,
           \A p \in Proc : DataOf(p)' = DataOf(p), \A f \in Progs : TextOf(f)' = TextOf(f)
    PROVE  M!Withdraw
  <1> DEFINE data == [p \in Proc |-> DataOf(p)]
             text == [f \in Progs |-> TextOf(f)]
  <1>1. data' = data
    OBVIOUS
  <1>2. text' = text
    OBVIOUS
  <1>3. /\ All \ All' = Cover(hole) \ Cover(hole)'
        /\ All' \subseteq All /\ Cover(hole)' \subseteq Cover(hole)
    OBVIOUS
  <1> QED
    BY <1>1, <1>2, <1>3
    DEF M!Withdraw, Progs, DataOf, TextOf, All, SwapArea, InitClicks, Cover

(* Between memory and the swap area there is a gap. *)
LEMMA GapIs ==
    ASSUME IInv, job.op # "mem_init"
    PROVE  /\ swap_base \in Nat /\ swap_base > 0 /\ swap_base - 1 \notin All
           /\ \A x \in Given \cup InitClicks : x \in Nat /\ x + 1 < swap_base
           /\ \A x \in Clicks(SwapArea) : x \in Nat /\ x >= swap_base
           /\ SwapArea \in Block
  <1>1. swap_base \in Nat /\ swap_size \in SwapSizes \cup {-1} /\ SwapSizes \subseteq Nat
    BY AllocAssumption DEF IInv, TypeOK
  <1>2. \A x \in Given \cup InitClicks : x \in Nat /\ x + 1 < swap_base
    <2>1. \A x \in Given \cup InitClicks : x + 1 < swap_base
      BY DEF IInv, Users, Border
    <2>2. \A b \in Block : \A x \in Clicks(b) : x \in Nat
      BY DEF Block, Clicks
    <2>3. Given \cup InitClicks \subseteq Nat
      <3>1. InitClicks \subseteq Nat
        BY <2>2, MemoryGiven DEF InitClicks
      <3>2. Given = UNION {Clicks(Chunks[i]) : i \in 1 .. Len(Chunks)}
        BY DEF Given, UpTo
      <3>3. \A i \in 1 .. Len(Chunks) : Clicks(Chunks[i]) \subseteq Nat
        BY <2>2, MemoryGiven
      <3> QED BY <3>1, <3>2, <3>3
    <2> QED BY <2>1, <2>3
  <1>3. SwapArea \in Block /\ SwapArea.base = swap_base
    BY <1>1 DEF SwapArea, Block
  <1>4. \A x \in Clicks(SwapArea) : x \in Nat /\ x >= swap_base
    <2> SUFFICES ASSUME NEW x \in Clicks(SwapArea) PROVE x \in Nat /\ x >= swap_base
      OBVIOUS
    <2>1. x \in Int /\ swap_base <= x
      BY <1>3, ClicksAre
    <2> QED BY <1>1, <2>1
  <1>5. swap_base - 1 \notin All
    <2>1. swap_base - 1 \notin Given \cup InitClicks
      BY <1>1, <1>2
    <2>2. swap_base - 1 \notin Clicks(SwapArea)
      BY <1>1, <1>4
    <2> QED BY <2>1, <2>2 DEF All
  <1>6. swap_base > 0
    <2>1. InitSeg.T \in Block /\ InitSeg.T.len > 0
      BY MemoryGiven
    <2>2. InitSeg.T.base \in Clicks(InitSeg.T)
      BY <2>1 DEF Block, Clicks
    <2>3. InitSeg.T.base \in InitClicks
      BY <2>2 DEF InitClicks
    <2> QED BY <1>1, <1>2, <2>3
  <1> QED BY <1>1, <1>2, <1>3, <1>4, <1>5, <1>6

(* swapon() *)
LEMMA SwapOnStep ==
    ASSUME IInv, NEW p \in Proc, NEW n \in SwapSizes, swap_on(p, n)
    PROVE  IInv' /\ [M!Next]_M!vars
  <1> DEFINE m == setreply(Now, p)
             b == [base |-> swap_base, len |-> n]
  <1>1. TypeOK /\ hole \in Seq(Block) /\ Apart(hole)
    BY DEF IInv, TypeOK
  <1>2. /\ job.op # "mem_init" /\ "IN_USE" \in flags[p]
        /\ blocked' \in [Proc -> BOOLEAN] /\ Turn(m)
        /\ UNCHANGED <<swap_base, seg, prog, pending, outswap>>
    BY <1>1, CallsIs DEF swap_on
  <1>3. CASE swap_size # -1
    BY <1>1, <1>2, <1>3, ReplyStep DEF swap_on, TypeOK
  <1>4. CASE swap_size = -1
    <2>1. swap_size' = n /\ hole' = free_mem(hole, b)
      BY <1>4 DEF swap_on
    <2>2. n \in Nat /\ swap_base \in Nat
      BY <1>1, AllocAssumption DEF TypeOK
    <2>3. b \in Block /\ Clicks(SwapArea) = {} /\ Clicks(SwapArea)' = Clicks(b)
      <3>1. b \in Block
        BY <2>2 DEF Block
      <3>2. SwapArea = [base |-> swap_base, len |-> 0]
        BY <1>4 DEF SwapArea
      <3>3. SwapArea' = b
        BY <1>2, <2>1, <2>2 DEF SwapArea
      <3>4. Clicks(SwapArea)' = Clicks(b)
        BY <3>3 DEF Clicks
      <3>5. Clicks(SwapArea) = {}
        BY <2>2, <3>2 DEF Clicks
      <3> QED BY <3>1, <3>4, <3>5
    <2>4. Now \in MState /\ Now.fl = flags
      BY <1>1, NowIs
    <2>5. m \in MState /\ Softens(Now.fl, m.fl)
      BY <1>2, <2>4, SetreplyIs
    <2> HIDE DEF m
    <2>6. /\ flags' = m.fl /\ flags' \in [Proc -> SUBSET Flag] /\ in_queue' \in Seq(Proc)
          /\ job' \in Job /\ job'.op = "in" /\ Jobs'
      BY <1>2, <2>5, TurnIs
    <2>7. /\ Users' /\ InUse' = InUse /\ Given' = Given
          /\ \A q \in Proc : DataOf(q)' = DataOf(q)
          /\ \A f \in Progs : TextOf(f)' = TextOf(f)
      BY <1>2, <2>4, <2>5, <2>6, QuietUsers
    <2>8. Clicks(b) \cap All = {}
      <3>1. \A x \in Clicks(b) : x \in Nat /\ x >= swap_base
        BY <2>2 DEF Clicks
      <3>2. All = Given \cup InitClicks
        BY <2>3 DEF All
      <3>3. \A x \in Given \cup InitClicks : x \in Nat /\ x + 1 < swap_base
        BY <1>2, GapIs
      <3> QED BY <2>2, <3>1, <3>2, <3>3
    <2>9. Cover(hole) \subseteq All
      BY NotHeld
    <2>10. hole' \in Seq(Block) /\ Apart(hole)' /\ Cover(hole)' = Cover(hole) \cup Clicks(b)
      <3>1. Clicks(b) \cap Cover(hole) = {}
        BY <2>8, <2>9
      <3> HIDE DEF b
      <3>2. hole' \in Seq(Block) /\ Apart(hole') /\ Cover(hole') = Cover(hole) \cup Clicks(b)
        BY <1>1, <2>1, <2>3, <3>1, FreeMemIs
      <3> QED BY <3>2 DEF Apart, Cover
    <2> HIDE DEF b
    <2>11. All' = All \cup Clicks(b)
      BY <2>3, <2>7 DEF All
    <2>12. TypeOK'
      BY <1>1, <1>2, <2>1, <2>6, <2>10 DEF TypeOK
    <2>13. M!Provide
      BY <1>2, <2>7, <2>8, <2>9, <2>10, <2>11, ProvideIs
    <2>14. M!NothingLost'
      BY <2>13, StepLosesNothing DEF M!Next, IInv
    <2> QED BY <2>6, <2>7, <2>10, <2>12, <2>13, <2>14 DEF IInv, M!Next
  <1> QED BY <1>3, <1>4

(* swap_off() takes the holes of the swap area away. *)
LEMMA SwapOffDoneStep ==
    ASSUME IInv, SwapOffDone
    PROVE  IInv' /\ [M!Next]_M!vars
  <1>0. PICK p : p = job.who
    OBVIOUS
  <1> DEFINE m == setreply(Now, p)
             rest == [i \in 1 .. Lower(hole, [base |-> swap_base]) |-> hole[i]]
  <1>1. TypeOK /\ hole \in Seq(Block) /\ Apart(hole) /\ Slots /\ Border /\ SwapMarked
    BY DEF IInv, TypeOK, Users
  <1>2. /\ job.op = "off" /\ job.op # "mem_init"
        /\ UNCHANGED <<swap_base, seg, prog, pending, blocked, outswap>>
    BY DEF SwapOffDone
  <1>3. p \in Proc /\ "IN_USE" \in flags[p] /\ swap_size # -1
    BY <1>0, <1>1, <1>2, JobIs DEF IInv, Jobs, Has
  <1>4. CASE \E q \in Proc : Has(q, "ONSWAP")
    <2>1. Turn(setreply(Now, p)) /\ UNCHANGED <<hole, swap_size>>
      BY <1>0, <1>4 DEF SwapOffDone
    <2> QED BY <1>1, <1>2, <1>3, <2>1, ReplyStep DEF TypeOK
  <1>5. CASE ~\E q \in Proc : Has(q, "ONSWAP")
    <2>1. /\ hole' = rest /\ swap_size' = -1
          /\ \/ Turn(m)
             \/ job' = Lost /\ flags' = flags /\ in_queue' = in_queue
      BY <1>0, <1>5 DEF SwapOffDone
    <2>2. Now \in MState /\ Now.fl = flags
      BY <1>1, NowIs
    <2>3. m \in MState /\ Softens(flags, m.fl)
      BY <1>3, <2>2, SetreplyIs
    <2> HIDE DEF m, rest
    <2>4. /\ flags' \in [Proc -> SUBSET Flag] /\ in_queue' \in Seq(Proc) /\ Softens(flags, flags')
          /\ job' \in Job /\ job'.op # "mem_init" /\ Jobs'
      <3>1. CASE Turn(m)
        BY <2>3, <3>1, TurnIs
      <3>2. CASE job' = Lost /\ flags' = flags /\ in_queue' = in_queue
        <4>1. job' \in Job /\ job'.op = "lost"
          BY <3>2 DEF Lost, Job
        <4>2. Jobs'
          BY <4>1 DEF Jobs
        <4> QED BY <1>1, <3>2, <4>1, <4>2 DEF TypeOK, Softens
      <3> QED BY <2>1, <3>1, <3>2
    <2>5. /\ Users' /\ InUse' = InUse /\ Given' = Given
          /\ \A q \in Proc : DataOf(q)' = DataOf(q)
          /\ \A f \in Progs : TextOf(f)' = TextOf(f)
      BY <1>2, <2>4, QuietUsers
    <2>6. /\ swap_base \in Nat /\ swap_base > 0 /\ swap_base - 1 \notin All
          /\ \A x \in Given \cup InitClicks : x \in Nat /\ x + 1 < swap_base
          /\ \A x \in Clicks(SwapArea) : x \in Nat /\ x >= swap_base
      BY <1>2, GapIs
    <2>7. Cover(hole) \subseteq All /\ \A x \in All : x \in Cover(hole) <=> ~Held(x)
      BY NotHeld
    <2>8. hole' \in Seq(Block) /\ Apart(hole)' /\ Cover(hole)' = {x \in Cover(hole) : x < swap_base}
      <3>1. swap_base - 1 \notin Cover(hole)
        BY <2>6, <2>7
      <3>2. /\ rest \in Seq(Block) /\ Apart(rest)
            /\ Cover(rest) = {x \in Cover(hole) : x < swap_base}
        BY <1>1, <2>6, <3>1, CutIs DEF rest
      <3> QED BY <2>1, <3>2 DEF Apart, Cover
    <2>9. \A x : Held(x) => x \in Int /\ x < swap_base
      <3>1. ASSUME NEW q \in Proc, NEW x \in DataOf(q) PROVE x \in Int /\ x < swap_base
        <4>1. Has(q, "IN_USE") /\ x \in Clicks(seg[q].D) /\ Clicks(seg[q].D) \subseteq All
          BY <3>1, NotHeld DEF DataOf
        <4>2. seg[q].D \in Block /\ seg[q].D.base < swap_base
          <5>1. seg[q].D \in Block /\ seg[q].D.base \in Nat
            BY <1>1, SegIs
          <5>2. ~(seg[q].D.base >= swap_base)
            BY <1>1, <1>2, <1>5, <4>1 DEF SwapMarked, InUse
          <5> QED BY <2>6, <5>1, <5>2
        <4> QED BY <1>2, <4>1, <4>2, BelowBorder, ClicksAre
      <3>2. ASSUME NEW f \in Progs, NEW x \in TextOf(f) PROVE x \in Int /\ x < swap_base
        <4>1. PICK q \in InUse : prog[q] = f /\ x \in Clicks(seg[q].T)
          BY DEF TextOf
        <4>2. q \in Proc /\ Clicks(seg[q].T) \subseteq All
          <5>1. TextOf(f) = Clicks(seg[q].T)
            BY <4>1, TextIs DEF IInv, Users
          <5> QED BY <5>1, NotHeld DEF InUse
        <4>3. seg[q].T \in Block /\ seg[q].T.base \in Nat /\ seg[q].T.len \in Nat
          BY <1>1, <4>2, SegIs
        <4>4. x \in Int /\ seg[q].T.base <= x /\ x < seg[q].T.base + seg[q].T.len
          BY <4>1, <4>3, ClicksAre
        <4>5. seg[q].T.len > 0
          BY <4>3, <4>4
        <4>6. seg[q].T.base < swap_base
          BY <1>1, <1>2, <4>5 DEF Border
        <4> QED BY <1>2, <4>1, <4>2, <4>3, <4>4, <4>6, BelowBorder
      <3> QED BY <3>1, <3>2 DEF Held
    <2>10. PICK old : old = Clicks(SwapArea)
      OBVIOUS
    <2>11. old \subseteq Cover(hole)
      <3>1. ASSUME NEW x \in old PROVE x \in Cover(hole)
        <4>1. x \in All /\ x \in Nat /\ x >= swap_base
          BY <2>6, <2>10 DEF All
        <4>2. ~Held(x)
          BY <2>6, <2>9, <4>1
        <4> QED BY <2>7, <4>1, <4>2
      <3> QED BY <3>1
    <2>12. Cover(hole)' = Cover(hole) \ old
      <3>1. ASSUME NEW x \in Cover(hole) PROVE x < swap_base <=> x \notin old
        <4>1. x \in Given \cup InitClicks \/ x \in old
          BY <2>7, <2>10 DEF All
        <4> QED BY <2>6, <2>10, <4>1
      <3> QED BY <2>8, <3>1
    <2>13. All' = All \ old
      <3>1. SwapArea' = [base |-> swap_base, len |-> 0]
        BY <1>2, <2>1 DEF SwapArea
      <3>2. Clicks(SwapArea)' = {}
        BY <2>6, <3>1 DEF Clicks
      <3>3. \A x \in Given \cup InitClicks : x \notin old
        BY <2>6, <2>10
      <3> QED BY <2>5, <2>10, <3>2, <3>3 DEF All
    <2>14. TypeOK'
      BY <1>1, <1>2, <2>1, <2>4, <2>8 DEF TypeOK
    <2>15. M!Withdraw
      BY <1>2, <2>5, <2>7, <2>11, <2>12, <2>13, WithdrawIs
    <2>16. M!NothingLost'
      BY <2>15, StepLosesNothing DEF M!Next, IInv
    <2> QED BY <2>4, <2>5, <2>8, <2>14, <2>15, <2>16 DEF IInv, M!Next
  <1> QED BY <1>4, <1>5

-----------------------------------------------------------------------------
(* The beginning. *)

(* What the kernel has told MM of while it asks for memory. *)
LEMMA BootIs ==
    ASSUME IInv, job.op = "mem_init"
    PROVE  /\ All = Given \cup InitClicks /\ swap_base \in Nat
           /\ job.next \in 1 .. Len(Chunks) + 1 /\ job.next \in Nat
           /\ job = [op |-> "mem_init", next |-> job.next]
           /\ Given = UNION {Clicks(Chunks[i]) : i \in 1 .. job.next - 1}
  <1>1. /\ TypeOK /\ swap_base \in Nat /\ swap_size = -1
        /\ job.next \in 1 .. Len(Chunks) + 1
    BY DEF IInv, TypeOK, Jobs
  <1>2. job.next \in Nat /\ job = [op |-> "mem_init", next |-> job.next]
    BY <1>1, JobIs
  <1>3. Given = UNION {Clicks(Chunks[i]) : i \in 1 .. job.next - 1}
    BY DEF Given
  <1>4. SwapArea = [base |-> swap_base, len |-> 0]
    BY <1>1 DEF SwapArea
  <1>5. Clicks(SwapArea) = {}
    BY <1>1, <1>4 DEF Clicks
  <1> QED BY <1>1, <1>2, <1>3, <1>5 DEF All

(* A chunk of memory becomes free. *)
LEMMA ChunkStep ==
    ASSUME IInv, mem_init, job.next <= Len(Chunks)
    PROVE  IInv' /\ [M!Next]_M!vars
  <1>0. PICK n, c : n = job.next /\ c = Chunks[n]
    OBVIOUS
  <1>1. /\ job.op = "mem_init" /\ hole' = free_mem(hole, c)
        /\ swap_base' = IF swap_base < c.base + c.len THEN c.base + c.len ELSE swap_base
        /\ job' = [job EXCEPT !.next = @ + 1]
        /\ UNCHANGED <<swap_size, seg, prog, flags, pending, blocked, in_queue, outswap>>
    BY <1>0 DEF mem_init
  <1>2. TypeOK /\ hole \in Seq(Block) /\ Apart(hole) /\ Slots /\ Shared /\ Border /\ Jobs
    BY DEF IInv, TypeOK, Users
  <1>3. /\ All = Given \cup InitClicks /\ swap_base \in Nat
        /\ n \in 1 .. Len(Chunks) /\ n \in Nat /\ job = [op |-> "mem_init", next |-> n]
        /\ Given = UNION {Clicks(Chunks[i]) : i \in 1 .. n - 1}
    <2>1. Len(Chunks) \in Nat
      BY MemoryGiven
    <2> QED BY <1>0, <1>1, <2>1, BootIs
  <1>4. c \in Block /\ c.base \in Nat /\ c.len \in Nat /\ c.len > 0 /\ Len(Chunks) \in Nat
    <2>1. c \in Block /\ c.len > 0 /\ Len(Chunks) \in Nat
      BY <1>0, <1>3, MemoryGiven
    <2> QED BY <2>1 DEF Block
  <1>5. job' = [op |-> "mem_init", next |-> n + 1] /\ job'.op = "mem_init" /\ job'.next = n + 1
    BY <1>1, <1>3
  <1>6. Given' = Given \cup Clicks(c)
    <2>1. Given' = UNION {Clicks(Chunks[i]) : i \in 1 .. n}
      <3>1. job'.next - 1 = n
        BY <1>3, <1>5
      <3> QED BY <1>5, <3>1 DEF Given
    <2>2. \A i : i \in 1 .. n <=> i \in 1 .. n - 1 \/ i = n
      BY <1>3
    <2> QED BY <1>0, <1>3, <2>1, <2>2
  <1>7. swap_base' \in Nat /\ swap_base <= swap_base' /\ c.base + c.len <= swap_base'
    BY <1>1, <1>3, <1>4
  <1>8. SwapArea' = [base |-> swap_base', len |-> 0] /\ Clicks(SwapArea)' = {}
    <2>1. swap_size' = -1
      BY <1>1, <1>2 DEF Jobs
    <2>2. SwapArea' = [base |-> swap_base', len |-> 0]
      BY <2>1 DEF SwapArea
    <2>3. swap_base' \in Nat
      BY <1>7
    <2>4. Clicks([base |-> swap_base', len |-> 0]) = {}
      BY <2>3, NoClicks
    <2> QED BY <2>2, <2>4
  <1>9. All' = All \cup Clicks(c)
    BY <1>3, <1>6, <1>8 DEF All, InitClicks
  <1>10. Clicks(c) \cap All = {}
    <2>1. \A i \in 1 .. n - 1 : i \in 1 .. Len(Chunks) /\ i # n
      BY <1>3, <1>4
    <2>2. \A i \in 1 .. n - 1 : Clicks(Chunks[i]) \cap Clicks(c) = {}
      BY <1>0, <1>3, <2>1, ChunksAssumption
    <2>3. Clicks(c) \cap InitClicks = {}
      BY <1>0, <1>3, ChunksAssumption DEF InitClicks
    <2> QED BY <1>3, <2>2, <2>3
  <1>11. Cover(hole) \subseteq All
    BY NotHeld
  <1>12. hole' \in Seq(Block) /\ Apart(hole)' /\ Cover(hole)' = Cover(hole) \cup Clicks(c)
    <2>1. Clicks(c) \cap Cover(hole) = {}
      BY <1>10, <1>11
    <2>2. hole' \in Seq(Block) /\ Apart(hole') /\ Cover(hole') = Cover(hole) \cup Clicks(c)
      BY <1>1, <1>2, <1>4, <2>1, FreeMemIs
    <2> QED BY <2>2 DEF Apart, Cover
  <1>13. InUse' = InUse /\ \A p, x : Has(p, x)' <=> Has(p, x)
    BY <1>1 DEF InUse, Has
  <1>14. /\ \A p \in Proc : DataOf(p)' = DataOf(p)
         /\ \A f \in Progs : TextOf(f)' = TextOf(f)
    BY <1>1, <1>13 DEF DataOf, TextOf
  <1>15. Slots' /\ Shared' /\ SwapMarked'
    <2>1. Slots'
      BY <1>1, <1>2 DEF Slots, Has
    <2>2. Shared'
      BY <1>1, <1>2, <1>13 DEF Shared
    <2>3. SwapMarked'
      BY <1>5 DEF SwapMarked
    <2> QED BY <2>1, <2>2, <2>3
  <1>16. Border'
    <2>1. \A x \in Given : x \in Int /\ x < swap_base
      <3>1. \A x \in Given : x < swap_base
        BY <1>1, <1>2 DEF Border
      <3>2. \A i \in 1 .. n - 1 : Chunks[i] \in Block
        BY <1>3, <1>4, MemoryGiven
      <3>3. \A i \in 1 .. n - 1 : Clicks(Chunks[i]) \subseteq Int
        BY <3>2 DEF Clicks, Block
      <3> QED BY <1>3, <3>1, <3>3
    <2>2. \A x \in Clicks(c) : x \in Int /\ x < c.base + c.len
      BY <1>4, ClicksAre
    <2>3. \A x \in Given' : x < swap_base'
      BY <1>3, <1>4, <1>6, <1>7, <2>1, <2>2, SMTT(30)
    <2> QED BY <1>5, <2>3 DEF Border
  <1>17. TypeOK'
    <2>1. job' \in Job
      BY <1>3, <1>5 DEF Job
    <2> QED BY <1>1, <1>2, <1>7, <1>12, <2>1 DEF TypeOK
  <1>18. Jobs'
    <2>1. job'.next \in 1 .. Len(Chunks) + 1
      BY <1>3, <1>4, <1>5
    <2>2. swap_size = -1 /\ InUse = {INIT} /\ seg[INIT] = InitSeg /\ flags[INIT] = {"IN_USE", "SEPARATE"}
      BY <1>1, <1>2 DEF Jobs
    <2> QED BY <1>1, <1>5, <1>13, <2>1, <2>2 DEF Jobs
  <1>19. M!Provide
    BY <1>1, <1>9, <1>10, <1>11, <1>12, <1>14, ProvideIs
  <1>20. M!NothingLost'
    BY <1>19, StepLosesNothing DEF M!Next, IInv
  <1> QED BY <1>12, <1>15, <1>16, <1>17, <1>18, <1>19, <1>20 DEF IInv, Users, M!Next

(* All chunks are known. *)
LEMMA BootedStep ==
    ASSUME IInv, mem_init, ~(job.next <= Len(Chunks))
    PROVE  IInv' /\ [M!Next]_M!vars
  <1>1. /\ job.op = "mem_init" /\ swap_base' = swap_base + 1 /\ job' = Idle /\ hole' = hole
        /\ UNCHANGED <<swap_size, seg, prog, flags, pending, blocked, in_queue, outswap>>
    BY DEF mem_init
  <1>2. TypeOK /\ Slots /\ Shared /\ Border /\ Jobs
    BY DEF IInv, Users
  <1>3. /\ All = Given \cup InitClicks /\ swap_base \in Nat
        /\ Given = UNION {Clicks(Chunks[i]) : i \in 1 .. Len(Chunks)}
    <2>1. job.next - 1 = Len(Chunks)
      BY <1>1, BootIs, MemoryGiven
    <2> QED BY <1>1, <2>1, BootIs
  <1>4. /\ swap_size = -1 /\ InUse = {INIT} /\ seg[INIT] = InitSeg
        /\ flags[INIT] = {"IN_USE", "SEPARATE"}
    BY <1>1, <1>2 DEF Jobs
  <1>5. job'.op = "idle" /\ job' \in Job
    BY <1>1 DEF Idle, Job
  <1>6. Given' = Given
    BY <1>3, <1>5 DEF Given, UpTo
  <1>7. Clicks(SwapArea)' = {}
    <2>1. SwapArea' = [base |-> swap_base + 1, len |-> 0]
      BY <1>1, <1>4 DEF SwapArea
    <2> QED BY <1>3, <2>1 DEF Clicks
  <1>8. All' = All
    BY <1>3, <1>6, <1>7 DEF All, InitClicks
  <1>9. \A x \in Given : x \in Int /\ x < swap_base
    <2>1. \A x \in Given : x < swap_base
      BY <1>1, <1>2 DEF Border
    <2>2. \A i \in 1 .. Len(Chunks) : Clicks(Chunks[i]) \subseteq Int
      BY MemoryGiven DEF Clicks, Block
    <2> QED BY <1>3, <2>1, <2>2
  <1>10. \A x \in InitClicks : x \in Int /\ x < swap_base
    <2>1. PICK i \in 1 .. Len(Chunks) : \A b \in {InitSeg.T, InitSeg.D} : b.base + b.len <= Chunks[i].base
      BY ChunksAssumption
    <2>2. Chunks[i] \in Block /\ Chunks[i].len > 0
      BY MemoryGiven
    <2>3. Chunks[i].base \in Nat /\ Chunks[i].base \in Clicks(Chunks[i])
      BY <2>2 DEF Block, Clicks
    <2>4. Chunks[i].base < swap_base
      BY <1>3, <1>9, <2>3
    <2>5. ASSUME NEW b \in {InitSeg.T, InitSeg.D}, NEW x \in Clicks(b) PROVE x \in Int /\ x < swap_base
      <3>1. b \in Block /\ b.base + b.len <= Chunks[i].base
        BY <2>1, MemoryGiven
      <3>2. x \in Int /\ x < b.base + b.len /\ b.base \in Nat /\ b.len \in Nat
        BY <3>1, ClicksAre DEF Block
      <3> QED BY <1>3, <2>3, <2>4, <3>1, <3>2
    <2> QED BY <2>5 DEF InitClicks
  <1>11. InUse' = InUse /\ \A p, x : Has(p, x)' <=> Has(p, x)
    BY <1>1 DEF InUse, Has
  <1>12. Slots' /\ Shared'
    <2>1. Slots'
      BY <1>1, <1>2 DEF Slots, Has
    <2>2. Shared'
      BY <1>1, <1>2, <1>11 DEF Shared
    <2> QED BY <2>1, <2>2
  <1>13. /\ InitSeg.T.base \in InitClicks /\ InitSeg.D.base \in InitClicks
         /\ InitSeg.T.base \in Nat /\ InitSeg.D.base \in Nat
    <2>1. /\ InitSeg.T.base \in Clicks(InitSeg.T) /\ InitSeg.D.base \in Clicks(InitSeg.D)
          /\ InitSeg.T.base \in Nat /\ InitSeg.D.base \in Nat
      BY MemoryGiven DEF Clicks, Block
    <2> QED BY <2>1 DEF InitClicks
  <1>14. Border'
    <2>1. \A x \in Given' \cup InitClicks : x + 1 < swap_base'
      BY <1>1, <1>3, <1>6, <1>9, <1>10
    <2>2. \A p \in InUse' : seg'[p].T.base < swap_base'
      BY <1>1, <1>3, <1>4, <1>10, <1>11, <1>13
    <2> QED BY <1>5, <2>1, <2>2 DEF Border, InitClicks
  <1>15. SwapMarked'
    <2>1. "ONSWAP" \notin flags'[INIT] /\ ~(seg'[INIT].D.base >= swap_base')
      BY <1>1, <1>3, <1>4, <1>10, <1>13
    <2> QED BY <1>4, <1>11, <2>1 DEF SwapMarked, Has
  <1>16. TypeOK'
    BY <1>1, <1>2, <1>3, <1>5 DEF TypeOK
  <1>17. Jobs'
    BY <1>5 DEF Jobs
  <1>18. UNCHANGED M!vars
    <2>1. /\ \A p \in Proc : DataOf(p)' = DataOf(p)
          /\ \A f \in Progs : TextOf(f)' = TextOf(f)
      BY <1>1, <1>11 DEF DataOf, TextOf
    <2>2. Cover(hole)' = Cover(hole)
      BY <1>1 DEF Cover
    <2> QED BY <1>1, <1>8, <2>1, <2>2, SameMemory
  <1>19. M!NothingLost'
    BY <1>18, StepLosesNothing DEF IInv
  <1>20. Apart(hole)'
    BY <1>1 DEF IInv, Apart
  <1> QED BY <1>12, <1>14, <1>15, <1>16, <1>17, <1>18, <1>19, <1>20 DEF IInv, Users

-----------------------------------------------------------------------------
(* The start: INIT in the boot image, and no holes yet. *)

(* The memory that MM starts with, seen as Memory does. *)
LEMMA StartIs ==
    ASSUME Init
    PROVE  /\ job.op = "mem_init" /\ job.next = 1 /\ job \in Job
           /\ InUse = {INIT} /\ seg[INIT] = InitSeg /\ prog[INIT] = InitProgram
           /\ \A p \in Proc \ {INIT} : prog[p] = None /\ flags[p] = {}
           /\ Given = {} /\ Cover(hole) = {} /\ Clicks(SwapArea) = {}
           /\ DataOf(INIT) = Clicks(InitSeg.D)
           /\ \A p \in Proc \ {INIT} : DataOf(p) = {}
           /\ TextOf(InitProgram) = Clicks(InitSeg.T)
           /\ \A f \in Progs : f = InitProgram \/ TextOf(f) = {}
  <1>0. INIT \in Proc
    BY ProcIs
  <1>1. job.op = "mem_init" /\ job.next = 1 /\ job \in Job
    BY DEF Init, Job
  <1>2. /\ flags[INIT] = {"IN_USE", "SEPARATE"} /\ seg[INIT] = InitSeg
        /\ prog[INIT] = InitProgram
        /\ \A p \in Proc \ {INIT} : prog[p] = None /\ flags[p] = {}
    BY <1>0 DEF Init
  <1>3. InUse = {INIT}
    BY <1>0, <1>2 DEF InUse, Has
  <1>4. Given = {}
    <2>1. Given = UNION {Clicks(Chunks[i]) : i \in 1 .. 1 - 1}
      BY <1>1 DEF Given
    <2> QED BY <2>1
  <1>5. Cover(hole) = {}
    <2>1. hole = <<>> /\ 1 .. Len(hole) = {}
      BY DEF Init
    <2> QED BY <2>1 DEF Cover
  <1>6. Clicks(SwapArea) = {}
    <2>1. SwapArea = [base |-> 0, len |-> 0]
      BY DEF Init, SwapArea
    <2> QED BY <2>1, NoClicks
  <1>7. DataOf(INIT) = Clicks(InitSeg.D) /\ \A p \in Proc \ {INIT} : DataOf(p) = {}
    BY <1>2 DEF DataOf, Has
  <1>8. /\ TextOf(InitProgram) = Clicks(InitSeg.T)
        /\ \A f \in Progs : f = InitProgram \/ TextOf(f) = {}
    BY <1>2, <1>3 DEF TextOf
  <1> QED BY <1>1, <1>2, <1>3, <1>4, <1>5, <1>6, <1>7, <1>8

(* Alloc starts where Memory does. *)
LEMMA StartIsMemory == Init => M!Init
  <1> SUFFICES ASSUME Init PROVE M!Init
    OBVIOUS
  <1> DEFINE data == [p \in Proc |-> DataOf(p)]
             text == [f \in Progs |-> TextOf(f)]
             mem  == Given \cup Clicks(InitSeg.T) \cup Clicks(InitSeg.D) \cup Clicks(SwapArea)
  <1>1. INIT \in Proc /\ InitProgram \in Progs /\ InitProgram # None
    BY ProcIs, ProgramsAre
  <1>2. \A b \in Block : Clicks(b) \subseteq Nat
    BY DEF Clicks, Block
  <1>3. Clicks(InitSeg.D) \subseteq Nat /\ Clicks(InitSeg.T) \subseteq Nat
    BY <1>2, MemoryGiven
  <1>4. /\ \A p \in Proc : DataOf(p) \subseteq Nat
        /\ \A f \in Progs : TextOf(f) \subseteq Nat
    BY <1>3, StartIs
  <1>5. data \in [Proc -> SUBSET Nat] /\ text \in [Progs -> SUBSET Nat]
    BY <1>4
  <1>6. /\ data[INIT] = Clicks(InitSeg.D) /\ text[InitProgram] = Clicks(InitSeg.T)
        /\ \A p \in Proc \ {INIT} : data[p] = {}
        /\ \A f \in Progs \ {InitProgram} : text[f] = {}
    BY <1>1, StartIs
  <1>7. prog \in [Proc -> Progs \cup {None}] /\ prog[INIT] = InitProgram
    BY <1>1, StartIs DEF Init
  <1>8. Clicks(InitSeg.D) \cap Clicks(InitSeg.T) = {}
    BY ChunksAssumption
  <1>9. mem = Clicks(InitSeg.D) \cup Clicks(InitSeg.T) /\ Cover(hole) = {}
    BY StartIs
  <1>10. /\ prog[INIT] # None
         /\ \A q \in Proc \ {INIT} : prog[q] = None /\ data[q] = {}
         /\ \A f \in Progs \ {prog[INIT]} : text[f] = {}
         /\ data[INIT] \cap text[prog[INIT]] = {}
         /\ mem = data[INIT] \cup text[prog[INIT]]
    <2>1. \A q \in Proc \ {INIT} : prog[q] = None
      BY StartIs
    <2> QED BY <1>1, <1>6, <1>7, <1>8, <1>9, <2>1
  <1>11. M!Alone(INIT) <=> /\ prog[INIT] # None
                           /\ \A q \in Proc \ {INIT} : prog[q] = None /\ data[q] = {}
                           /\ \A f \in Progs \ {prog[INIT]} : text[f] = {}
                           /\ data[INIT] \cap text[prog[INIT]] = {}
                           /\ mem = data[INIT] \cup text[prog[INIT]]
    BY DEF M!Alone, Progs, DataOf, TextOf, SwapArea
  <1>12. M!Init <=> /\ prog \in [Proc -> Progs \cup {None}]
                    /\ data \in [Proc -> SUBSET Nat]
                    /\ text \in [Progs -> SUBSET Nat]
                    /\ \E p \in Proc : M!Alone(p)
                    /\ Cover(hole) = {}
    BY DEF M!Init, Progs, DataOf, TextOf, Cover
  <1> QED BY <1>1, <1>5, <1>7, <1>9, <1>10, <1>11, <1>12

(* The invariant holds at the start. *)
LEMMA StartInv == Init => IInv
  <1> SUFFICES ASSUME Init PROVE IInv
    OBVIOUS
  <1>1. INIT \in Proc /\ InitProgram \in Progs /\ InitProgram # None /\ InitProgram.sep = TRUE
    BY ProcIs, ProgramsAre
  <1>2. /\ InitSeg \in [T : Block, D : Block] /\ InitSeg.T.len > 0 /\ InitSeg.D.len > 0
        /\ Len(Chunks) \in Nat
    BY MemoryGiven
  <1>3. TypeOK
    <2>1. NoSeg \in [T : Block, D : Block]
      BY DEF NoSeg, Block
    <2>2. hole \in Seq(Block) /\ in_queue \in Seq(Proc)
      BY DEF Init
    <2>3. flags \in [Proc -> SUBSET Flag] /\ outswap \in Proc
      BY <1>1 DEF Init, Flag, INIT, LOW_USER
    <2> QED BY <1>1, <1>2, <2>1, <2>2, <2>3, StartIs DEF Init, TypeOK, Progs
  <1>4. Apart(hole)
    BY DEF Init, Apart
  <1>5. Slots
    <2>1. flags[INIT] = {"IN_USE", "SEPARATE"}
      BY <1>1 DEF Init
    <2> QED BY <1>1, <1>2, <2>1, StartIs DEF Slots, Has
  <1>6. Shared /\ Border /\ SwapMarked
    BY StartIs DEF Shared, Border, SwapMarked
  <1>7. Jobs
    BY <1>1, <1>2, StartIs DEF Jobs, Init
  <1>8. M!NothingLost
    <2>1. None \notin Program \cup {InitProgram}
      BY ProgramsAre DEF Progs
    <2> QED BY <2>1, StartIsMemory, M!NothingLostInit
  <1> QED BY <1>3, <1>4, <1>5, <1>6, <1>7, <1>8 DEF IInv, Users

-----------------------------------------------------------------------------
(* All of it together. *)

(* Every step keeps the invariant and is one of Memory, or none. *)
LEMMA NextStep == IInv /\ [Next]_vars => IInv' /\ [M!Next]_M!vars
  <1> SUFFICES ASSUME IInv, [Next]_vars PROVE IInv' /\ [M!Next]_M!vars
    OBVIOUS
  <1>1. CASE UNCHANGED vars
    <2>1. IInv' = IInv
      BY <1>1 DEF vars, IInv, TypeOK, Apart, Users, Slots, Shared, Border, SwapMarked, Jobs, Has,
                  InUse, FreeSlots, find_share, Given, M!NothingLost, M!Owned
    <2>2. UNCHANGED M!vars
      BY <1>1 DEF vars, M!vars, InUse, Has, Given
    <2> QED BY <2>1, <2>2
  <1>2. CASE MMStep
    <2>1. CASE mem_init
      BY <2>1, ChunkStep, BootedStep
    <2>2. CASE swap_out
      BY <2>2, SwapOutStep
    <2>3. CASE ForkDone
      BY <2>3, ForkStep
    <2>4. CASE ExecDone
      BY <2>4, ExecStep
    <2>5. CASE CallFails
      BY <2>5, CallFailsStep
    <2>6. CASE InKilled
      BY <2>6, InKilledStep
    <2>7. CASE InNoRoom
      BY <2>7, InNoRoomStep
    <2>8. CASE InFound
      BY <2>8, InFoundStep
    <2>9. CASE Replies
      BY <2>9, RepliesStep
    <2>10. CASE Join
      BY <2>10, JoinStep
    <2>11. CASE SwapOffDone
      BY <2>11, SwapOffDoneStep
    <2> QED
      BY <1>2, <2>1, <2>2, <2>3, <2>4, <2>5, <2>6, <2>7, <2>8, <2>9, <2>10, <2>11 DEF MMStep
  <1>3. CASE UserCall
    <2> PICK p \in Proc : \/ do_fork(p) \/ Hang(p) \/ sig_proc(p)
                          \/ \E f \in Program : do_exec(p, f)
                          \/ \E w \in Proc \cup {0} : mm_exit(p, w)
                          \/ p \in Root /\ (swap_off(p) \/ \E n \in SwapSizes : swap_on(p, n))
      BY <1>3 DEF UserCall
    <2>1. CASE do_fork(p)
      BY <2>1, DoForkStep
    <2>2. CASE Hang(p)
      BY <2>2, HangStep
    <2>3. CASE sig_proc(p)
      BY <2>3, SigProcStep
    <2>4. ASSUME NEW f \in Program, do_exec(p, f) PROVE IInv' /\ [M!Next]_M!vars
      BY <2>4, DoExecStep
    <2>5. ASSUME NEW w \in Proc \cup {0}, mm_exit(p, w) PROVE IInv' /\ [M!Next]_M!vars
      BY <2>5, ExitStep
    <2>6. CASE swap_off(p)
      BY <2>6, SwapOffStep
    <2>7. ASSUME NEW n \in SwapSizes, swap_on(p, n) PROVE IInv' /\ [M!Next]_M!vars
      BY <2>7, SwapOnStep
    <2> QED BY <2>1, <2>2, <2>3, <2>4, <2>5, <2>6, <2>7
  <1>4. CASE Stuck
    BY <1>1, <1>4 DEF Stuck
  <1> QED BY <1>1, <1>2, <1>3, <1>4 DEF Next

(* The invariant holds always. *)
LEMMA InvHolds == Spec => []IInv
  <1>1. Init => IInv
    BY StartInv
  <1>2. IInv /\ [Next]_vars => IInv'
    BY NextStep
  <1> QED BY <1>1, <1>2, PTL DEF Spec

(* The holes of alloc.c stay in the order of addresses, are never empty    *)
(* and never touch, and whoever is marked as swapped out is in the swap    *)
(* area, through every way to swap, fork, exec and exit.                   *)
THEOREM HolesAlwaysSound == Spec => []HolesSound
  <1>1. IInv => HolesSound
    <2> SUFFICES ASSUME IInv PROVE HolesSound
      OBVIOUS
    <2>1. Len(hole) \in Nat
      BY DEF IInv, TypeOK
    <2>2. HolesApart
      BY <2>1 DEF IInv, Apart, HolesApart
    <2> QED BY <2>2 DEF IInv, Users, HolesSound
  <1> QED BY <1>1, InvHolds, PTL

(* First fit, shared texts and swapping together do what Memory promises:  *)
(* no click is given to two, and none is lost, until swapping is turned    *)
(* off or on.                                                              *)
THEOREM AllocKeepsMemory == Spec => MemoryKept
  <1>1. Init => M!Init
    BY StartIsMemory
  <1>2. IInv /\ [Next]_vars => [M!Next]_M!vars
    BY NextStep
  <1> QED BY <1>1, <1>2, InvHolds, PTL DEF Spec, MemoryKept, M!Spec

(* No memory belongs to two processes, two texts or the list of holes and  *)
(* a process at once, and none is forgotten.                               *)
THEOREM NoMemoryLost == Spec => []M!NothingLost
  <1>1. IInv => M!NothingLost
    BY DEF IInv
  <1> QED BY <1>1, InvHolds, PTL

-----------------------------------------------------------------------------
(***************************************************************************)
(* The queue of swap_in(): between calls it holds exactly the processes    *)
(* that are marked SWAPIN, each once.                                      *)
(*                                                                         *)
(* A process that exits while it is queued, or is given another program,   *)
(* leaves its entry behind, and somebody may be queued before swap_in()    *)
(* comes to it.  So the invariant says which entries swap_in() has seen.   *)
(***************************************************************************)
Walking == job.op \in {"in", "off"}

(* Those on the part of the queue that swap_in() has not come to yet. *)
Unseen == IF Walking THEN {p \in Proc : \E i \in job.pos .. Len(in_queue) : in_queue[i] = p}
          ELSE {}

QueueInv == Lined(Now, Unseen)

-----------------------------------------------------------------------------
(* What Lined() says of the state. *)
LEMMA LinedNow ==
    ASSUME NEW S
    PROVE  Lined(Now, S) <=>
              /\ Once(in_queue)
              /\ \A p \in Proc : "SWAPIN" \in flags[p] => OnQueue(in_queue, p)
              /\ \A p \in Proc \ S : OnQueue(in_queue, p) => "SWAPIN" \in flags[p]
  <1>1. Now.fl = flags /\ Now.q = in_queue
    BY DEF Now
  <1> QED BY <1>1 DEF Lined

(* The same of the state after a step. *)
LEMMA LinedNext ==
    ASSUME NEW S
    PROVE  Lined(Now', S) <=>
              /\ Once(in_queue')
              /\ \A p \in Proc : "SWAPIN" \in flags'[p] => OnQueue(in_queue', p)
              /\ \A p \in Proc \ S : OnQueue(in_queue', p) => "SWAPIN" \in flags'[p]
  <1>1. Now'.fl = flags' /\ Now'.q = in_queue'
    BY DEF Now
  <1> QED BY <1>1 DEF Lined

(* When swap_in() is not at work, or done, every entry is marked. *)
LEMMA AllSeen ==
    ASSUME TypeOK, ~Walks
    PROVE  Unseen = {}
  <1>1. CASE Walking
    <2>1. job.pos \in Nat /\ Len(in_queue) \in Nat /\ ~(job.pos <= Len(in_queue))
      BY <1>1, JobIs DEF Walking, Walks, TypeOK
    <2>2. job.pos .. Len(in_queue) = {}
      BY <2>1
    <2> QED BY <2>2 DEF Unseen
  <1>2. CASE ~Walking
    BY <1>2 DEF Unseen
  <1> QED BY <1>1, <1>2

(* A step that changes no mark SWAPIN and no entry, and is not in the      *)
(* middle of swap_in().                                                    *)
LEMMA SameQueue ==
    ASSUME TypeOK, QueueInv, ~Walks, in_queue' = in_queue,
           \A p \in Proc : "SWAPIN" \in flags'[p] <=> "SWAPIN" \in flags[p]
    PROVE  QueueInv'
  <1>1. Lined(Now, {})
    BY AllSeen DEF QueueInv
  <1>2. Lined(Now', {})
    BY <1>1, LinedNow, LinedNext
  <1>3. Lined(Now', Unseen')
    BY <1>2, LinedNext
  <1> QED BY <1>3 DEF QueueInv

(* At the start of swap_in() only those marked must be on the queue. *)
LEMMA TurnQueue ==
    ASSUME NEW m \in MState, NEW S, Lined(m, S), flags' = m.fl, in_queue' = m.q,
           job'.op \in {"in", "off"}, job'.pos = 1
    PROVE  QueueInv'
  <1>1. Lined(Now', S)
    BY LinedNext DEF Lined
  <1>2. Unseen' = {p \in Proc : OnQueue(in_queue', p)}
    BY DEF Unseen, Walking, OnQueue
  <1>3. Lined(Now', Unseen')
    BY <1>1, <1>2, LinedNext
  <1> QED BY <1>3 DEF QueueInv

(* A reply at the end of a call. *)
LEMMA ReplyQueue ==
    ASSUME IInv, QueueInv, ~Walks, NEW p \in Proc, "IN_USE" \in flags[p], Turn(setreply(Now, p))
    PROVE  QueueInv'
  <1> DEFINE m == setreply(Now, p)
  <1>1. Now \in MState /\ Now.fl = flags
    BY NowIs DEF IInv
  <1>2. m \in MState /\ KeepsLine(Now, p, m)
    BY <1>1, SetreplyIs
  <1>3. Turn(m)
    OBVIOUS
  <1> HIDE DEF m
  <1>4. Lined(m, {})
    <2>1. Lined(Now, {}) /\ p \notin {}
      BY AllSeen DEF QueueInv, IInv
    <2> QED BY <1>2, <2>1 DEF KeepsLine
  <1>5. flags' = m.fl /\ in_queue' = m.q /\ job'.op = "in" /\ job'.pos = 1
    BY <1>2, <1>3, TurnIs
  <1> QED BY <1>2, <1>4, <1>5, TurnQueue

(* MM is not at work when a call begins. *)
LEMMA NotWalking ==
    /\ job.op \notin {"in", "off"} => ~Walks
    /\ job = Idle => ~Walks /\ job.op = "idle"
  BY DEF Walks, Idle

-----------------------------------------------------------------------------
(* The steps. *)

(* do_fork(), swap_on(), swap_off(): a reply, or the call goes on. *)
LEMMA CallQueue ==
    ASSUME IInv, QueueInv, NEW p \in Proc,
           \/ do_fork(p) \/ swap_off(p)
           \/ \E n \in SwapSizes : swap_on(p, n)
    PROVE  QueueInv'
  <1>1. Calls(p)
    BY DEF do_fork, swap_off, swap_on
  <1>2. /\ job = Idle /\ "IN_USE" \in flags[p] /\ ~Walks
    BY <1>1, CallsIs, NotWalking DEF IInv
  <1>3. \/ Turn(setreply(Now, p))
        \/ flags' = flags /\ in_queue' = in_queue
    BY DEF do_fork, swap_off, swap_on
  <1>4. CASE Turn(setreply(Now, p))
    BY <1>2, <1>4, ReplyQueue
  <1>5. CASE flags' = flags /\ in_queue' = in_queue
    BY <1>2, <1>5, SameQueue DEF IInv
  <1> QED BY <1>3, <1>4, <1>5

(* exec() begins. *)
LEMMA DoExecQueue ==
    ASSUME IInv, QueueInv, NEW p \in Proc, NEW f \in Program, do_exec(p, f)
    PROVE  QueueInv'
  <1>1. ~Walks /\ in_queue' = in_queue
    BY NotWalking, CallsIs DEF do_exec, IInv
  <1>2. \A q \in Proc : "SWAPIN" \in flags'[q] <=> "SWAPIN" \in flags[q]
    <2>1. PICK marked \in {{}, {"WAITING"}} : flags' = [flags EXCEPT ![p] = @ \cup marked]
      BY DEF do_exec
    <2> QED BY <2>1 DEF IInv, TypeOK
  <1> QED BY <1>1, <1>2, SameQueue DEF IInv

(* A call that hangs. *)
LEMMA HangQueue ==
    ASSUME IInv, QueueInv, NEW p \in Proc, Hang(p)
    PROVE  QueueInv'
  <1> DEFINE f == flags[p] \cup {"WAITING"}
             m == Put(Now, p, f)
  <1>1. ~Walks /\ "IN_USE" \in flags[p]
    BY NotWalking, CallsIs DEF Hang, IInv
  <1>2. Now \in MState /\ Now.fl = flags /\ Now.q = in_queue
    BY NowIs DEF IInv
  <1>3. Turn(m)
    <2>1. Now = [fl |-> Now.fl, q |-> Now.q] /\ Now.fl \in [Proc -> SUBSET Flag]
      BY <1>2 DEF MState
    <2>2. [Now EXCEPT !.fl[p] = @ \cup {"WAITING"}] = m
      BY <1>2, <2>1 DEF Put
    <2> HIDE DEF m
    <2> QED BY <2>2 DEF Hang
  <1>4. Marked(f, flags[p])
    BY DEF IInv, TypeOK, Flag, Soft, Marked
  <1> HIDE DEF f
  <1>5. m \in MState
    BY <1>1, <1>2, <1>4, FlagIs
  <1>6. KeepsLine(Now, p, m)
    BY <1>1, <1>2, <1>4, FlagIs
  <1> HIDE DEF m
  <1>7. Lined(m, {})
    <2>1. Lined(Now, {}) /\ p \notin {}
      BY <1>1, AllSeen DEF QueueInv, IInv
    <2> QED BY <1>6, <2>1 DEF KeepsLine
  <1>8. flags' = m.fl /\ in_queue' = m.q /\ job'.op = "in" /\ job'.pos = 1
    BY <1>3, <1>5, TurnIs
  <1> QED BY <1>5, <1>7, <1>8, TurnQueue

(* A signal for a process that hangs. *)
LEMMA SigProcQueue ==
    ASSUME IInv, QueueInv, NEW p \in Proc, sig_proc(p)
    PROVE  QueueInv'
  <1> DEFINE m == IF Has(p, "ONSWAP") THEN swap_inqueue(Now, p) ELSE Wake(Now, p)
  <1>1. ~Walks /\ "IN_USE" \in flags[p]
    BY NotWalking DEF sig_proc, Has
  <1>2. Now \in MState /\ Now.fl = flags
    BY NowIs DEF IInv
  <1>3. Turn(m)
    BY DEF sig_proc
  <1>4. m \in MState /\ KeepsLine(Now, p, m)
    <2>1. CASE Has(p, "ONSWAP")
      BY <1>1, <1>2, <2>1, InqueueIs
    <2>2. CASE ~Has(p, "ONSWAP")
      BY <1>1, <1>2, <2>2, WakeIs
    <2> QED BY <2>1, <2>2
  <1> HIDE DEF m
  <1>5. Lined(m, {})
    <2>1. Lined(Now, {}) /\ p \notin {}
      BY <1>1, AllSeen DEF QueueInv, IInv
    <2> QED BY <1>4, <2>1 DEF KeepsLine
  <1>6. flags' = m.fl /\ in_queue' = m.q /\ job'.op = "in" /\ job'.pos = 1
    BY <1>3, <1>4, TurnIs
  <1> QED BY <1>4, <1>5, <1>6, TurnQueue

(* A process that exits may leave its entry behind; its parent is woken. *)
LEMMA ExitQueue ==
    ASSUME IInv, QueueInv, NEW p \in Proc, NEW w \in Proc \cup {0}, mm_exit(p, w)
    PROVE  QueueInv'
  <1> DEFINE gl == [flags EXCEPT ![p] = {}]
             m == [fl |-> gl, q |-> in_queue]
             n == IF w = 0 THEN m ELSE Wake(m, w)
  <1>1. /\ job = Idle /\ ~Walks
        /\ w # 0 => w \in Proc \ {p} /\ Has(w, "WAITING")
    BY ProcIs, NotWalking DEF mm_exit
  <1>2. TypeOK /\ Slots
    BY DEF IInv, Users
  <1>3. /\ gl \in [Proc -> SUBSET Flag] /\ gl[p] = {}
        /\ \A q \in Proc : q # p => gl[q] = flags[q]
        /\ in_queue \in Seq(Proc)
    BY <1>2 DEF TypeOK
  <1>4. Turn(n)
    <2>1. [Now EXCEPT !.fl[p] = {}] = m
      BY DEF Now
    <2> HIDE DEF m, gl
    <2> QED BY <2>1 DEF mm_exit
  <1> HIDE DEF gl
  <1>5. m \in MState /\ m.fl = gl /\ m.q = in_queue
    BY <1>3, MStateIs
  <1> HIDE DEF m
  <1>6. Lined(m, {p})
    <2>1. Lined(Now, {})
      BY <1>1, <1>2, AllSeen DEF QueueInv
    <2> QED BY <1>3, <1>5, <2>1, LinedNow DEF Lined
  <1>7. n \in MState /\ Lined(n, {p})
    <2>1. CASE w = 0
      BY <1>5, <1>6, <2>1
    <2>2. CASE w # 0
      <3>1. w \in Proc /\ "IN_USE" \in m.fl[w] /\ w \notin {p} /\ n = Wake(m, w)
        BY <1>1, <1>2, <1>3, <1>5, <2>2 DEF Slots, Has
      <3> HIDE DEF n
      <3>2. n \in MState /\ KeepsLine(m, w, n)
        BY <1>5, <3>1, WakeIs
      <3> QED BY <1>6, <3>1, <3>2 DEF KeepsLine
    <2> QED BY <2>1, <2>2
  <1> HIDE DEF n
  <1>8. flags' = n.fl /\ in_queue' = n.q /\ job'.op = "in" /\ job'.pos = 1
    BY <1>4, <1>7, TurnIs
  <1> QED BY <1>7, <1>8, TurnQueue

(* fork() or exec() finds no memory. *)
LEMMA CallFailsQueue ==
    ASSUME IInv, QueueInv, CallFails
    PROVE  QueueInv'
  <1>1. job.op \in {"fork", "exec"} /\ Turn(setreply(Now, job.who))
    BY DEF CallFails
  <1>2. job.who \in Proc /\ "IN_USE" \in flags[job.who] /\ ~Walks
    BY <1>1, JobIs, NotWalking DEF IInv, Jobs, Has
  <1> QED BY <1>1, <1>2, ReplyQueue

(* The child's slot was free, so that it is on no queue. *)
LEMMA ForkQueue ==
    ASSUME IInv, QueueInv, ForkDone
    PROVE  QueueInv'
  <1>0. PICK p, c : p = job.who /\ c = First(FreeSlots)
    OBVIOUS
  <1> DEFINE fc == flags[p] \cap {"IN_USE", "SEPARATE"}
             gl == [flags EXCEPT ![c] = fc]
             m == [fl |-> gl, q |-> in_queue]
             m1 == setreply(m, c)
             n == setreply(m1, p)
  <1>1. job.op = "fork" /\ ~Walks
    BY NotWalking DEF ForkDone
  <1>2. TypeOK /\ Slots /\ Jobs
    BY DEF IInv, Users
  <1>3. p \in Proc /\ Has(p, "IN_USE") /\ FreeSlots # {}
    BY <1>0, <1>1, <1>2, JobIs DEF Jobs
  <1>4. c \in Proc /\ ~Has(c, "IN_USE") /\ c # p
    <2>1. FreeSlots \in SUBSET Nat
      BY ProcIs DEF FreeSlots
    <2>2. c \in FreeSlots
      BY <1>0, <1>3, <2>1, FirstIs
    <2> QED BY <1>3, <2>2 DEF FreeSlots
  <1>5. Turn(n)
    <2>1. [Now EXCEPT !.fl[c] = flags[p] \cap {"IN_USE", "SEPARATE"}] = m
      BY DEF Now
    <2> HIDE DEF m
    <2> QED BY <1>0, <2>1 DEF ForkDone
  <1>6. /\ gl \in [Proc -> SUBSET Flag] /\ gl[c] = fc
        /\ \A q \in Proc : q # c => gl[q] = flags[q]
        /\ in_queue \in Seq(Proc)
    BY <1>2, <1>3, <1>4 DEF TypeOK
  <1> HIDE DEF gl
  <1>7. m \in MState /\ m.fl = gl /\ m.q = in_queue
    BY <1>6, MStateIs
  <1> HIDE DEF m
  <1>8. /\ "IN_USE" \in gl[c] /\ "IN_USE" \in gl[p]
        /\ "SWAPIN" \notin gl[c] /\ "SWAPIN" \notin flags[c]
    BY <1>2, <1>3, <1>4, <1>6 DEF Slots, Has
  <1>9. Lined(m, {})
    <2>1. Lined(Now, {})
      BY <1>1, <1>2, AllSeen DEF QueueInv
    <2>2. \A q \in Proc : "SWAPIN" \in gl[q] <=> "SWAPIN" \in flags[q]
      BY <1>6, <1>8
    <2> QED BY <1>7, <2>1, <2>2, LinedNow DEF Lined
  <1>10. m1 \in MState /\ Softens(gl, m1.fl) /\ KeepsLine(m, c, m1)
    BY <1>4, <1>7, <1>8, SetreplyIs
  <1> HIDE DEF m1
  <1>11. n \in MState /\ KeepsLine(m1, p, n)
    <2>1. "IN_USE" \in m1.fl[p]
      BY <1>3, <1>8, <1>10, SoftFlags
    <2> QED BY <1>3, <1>10, <2>1, SetreplyIs
  <1> HIDE DEF n
  <1>12. Lined(n, {})
    <2>1. Lined(m1, {})
      BY <1>9, <1>10 DEF KeepsLine
    <2> QED BY <1>11, <2>1 DEF KeepsLine
  <1>13. flags' = n.fl /\ in_queue' = n.q /\ job'.op = "in" /\ job'.pos = 1
    BY <1>5, <1>11, TurnIs
  <1> QED BY <1>11, <1>12, <1>13, TurnQueue

(* The new program is not marked, but may be on the queue still. *)
LEMMA ExecQueue ==
    ASSUME IInv, QueueInv, ExecDone
    PROVE  QueueInv'
  <1>0. PICK p : p = job.who
    OBVIOUS
  <1> DEFINE m == Put(Now, p, ExecFlags)
  <1>1. job.op = "exec" /\ ~Walks
    BY NotWalking DEF ExecDone
  <1>2. TypeOK
    BY DEF IInv
  <1>3. p \in Proc
    BY <1>0, <1>1, <1>2, JobIs
  <1>4. ExecFlags \in SUBSET Flag /\ "SWAPIN" \notin ExecFlags
    BY <1>0, <1>2, <1>3 DEF TypeOK, ExecFlags, Flag
  <1>5. Turn(m)
    <2>1. Now = [fl |-> Now.fl, q |-> Now.q] /\ Now.fl \in [Proc -> SUBSET Flag]
      BY <1>2, NowIs DEF MState
    <2>2. [Now EXCEPT !.fl[p] = ExecFlags] = m
      BY <2>1 DEF Put
    <2> HIDE DEF m
    <2> QED BY <1>0, <2>2 DEF ExecDone
  <1>6. m \in MState /\ Lined(m, {p})
    <2> DEFINE gl == [flags EXCEPT ![p] = ExecFlags]
    <2>1. m = [fl |-> gl, q |-> in_queue]
      BY DEF Put, Now
    <2>2. /\ gl \in [Proc -> SUBSET Flag] /\ gl[p] = ExecFlags
          /\ \A q \in Proc : q # p => gl[q] = flags[q]
          /\ in_queue \in Seq(Proc)
      BY <1>2, <1>3, <1>4 DEF TypeOK
    <2> HIDE DEF gl, m
    <2>3. m \in MState /\ m.fl = gl /\ m.q = in_queue
      BY <2>1, <2>2, MStateIs
    <2>4. Lined(Now, {})
      BY <1>1, <1>2, AllSeen DEF QueueInv
    <2> QED BY <1>4, <2>2, <2>3, <2>4, LinedNow DEF Lined
  <1> HIDE DEF m
  <1>7. flags' = m.fl /\ in_queue' = m.q /\ job'.op = "in" /\ job'.pos = 1
    BY <1>5, <1>6, TurnIs
  <1> QED BY <1>6, <1>7, TurnQueue

(* swap_off() queues those on the swap file. *)
LEMMA JoinQueue ==
    ASSUME IInv, QueueInv, Join
    PROVE  QueueInv'
  <1> DEFINE p == job.next
             m == IF Has(p, "ONSWAP") THEN swap_inqueue(Now, p) ELSE Now
  <1>1. /\ job.op = "join" /\ flags' = m.fl /\ in_queue' = m.q /\ ~Walks
        /\ job' = IF p + 1 \in Proc THEN [job EXCEPT !.next = p + 1]
                  ELSE [op |-> "off", who |-> job.who, pos |-> 1]
    BY NotWalking DEF Join
  <1>2. p \in Proc /\ job = [op |-> "join", who |-> job.who, next |-> job.next]
    BY <1>1, JobIs DEF IInv
  <1>3. Now \in MState /\ Now.fl = flags
    BY NowIs DEF IInv
  <1>4. Lined(Now, {}) /\ p \notin {}
    BY <1>1, AllSeen DEF QueueInv, IInv
  <1>5. m \in MState /\ Lined(m, {})
    <2>1. CASE Has(p, "ONSWAP")
      <3>1. "IN_USE" \in flags[p]
        BY <1>2, <2>1 DEF IInv, Users, Slots, Has
      <3>2. m \in MState /\ KeepsLine(Now, p, m)
        BY <1>2, <1>3, <2>1, <3>1, InqueueIs
      <3> QED BY <1>4, <3>2 DEF KeepsLine
    <2>2. CASE ~Has(p, "ONSWAP")
      BY <1>3, <1>4, <2>2
    <2> QED BY <2>1, <2>2
  <1> HIDE DEF m
  <1>6. CASE p + 1 \in Proc
    <2>1. job'.op = "join"
      BY <1>1, <1>2, <1>6
    <2>2. Lined(Now', {}) /\ Unseen' = {}
      BY <1>1, <1>5, <2>1, LinedNext DEF Lined, Unseen, Walking
    <2> QED BY <2>2 DEF QueueInv
  <1>7. CASE p + 1 \notin Proc
    <2>1. job'.op = "off" /\ job'.pos = 1
      BY <1>1, <1>7
    <2> QED BY <1>1, <1>5, <2>1, TurnQueue
  <1> QED BY <1>6, <1>7

(* The replies go out when swap_in() has come to the end. *)
LEMMA RepliesQueue ==
    ASSUME IInv, QueueInv, Replies
    PROVE  QueueInv'
  <1> DEFINE to == {p \in Proc : flags[p] \cap {"REPLY", "ONSWAP"} = {"REPLY"}}
  <1>1. /\ ~Walks /\ in_queue' = in_queue
        /\ flags' = [p \in Proc |-> IF p \in to THEN flags[p] \ {"REPLY"} ELSE flags[p]]
    BY DEF Replies
  <1> HIDE DEF to
  <1>2. \A p \in Proc : "SWAPIN" \in flags'[p] <=> "SWAPIN" \in flags[p]
    BY <1>1
  <1> QED BY <1>1, <1>2, SameQueue DEF IInv

(* swap_off() is over. *)
LEMMA SwapOffDoneQueue ==
    ASSUME IInv, QueueInv, SwapOffDone
    PROVE  QueueInv'
  <1>1. job.op = "off" /\ ~Walks
    BY DEF SwapOffDone
  <1>2. \/ Turn(setreply(Now, job.who))
        \/ flags' = flags /\ in_queue' = in_queue
    BY DEF SwapOffDone
  <1>3. job.who \in Proc /\ "IN_USE" \in flags[job.who]
    BY <1>1, JobIs DEF IInv, Jobs, Has
  <1>4. CASE Turn(setreply(Now, job.who))
    BY <1>1, <1>3, <1>4, ReplyQueue
  <1>5. CASE flags' = flags /\ in_queue' = in_queue
    BY <1>1, <1>5, SameQueue DEF IInv
  <1> QED BY <1>2, <1>4, <1>5

-----------------------------------------------------------------------------
(* swap_in() at work. *)

(* swap_in() goes on with the next entry, which moves up if this one goes. *)
LEMMA UnseenNext ==
    ASSUME IInv, Walks, QueueInv, job' = job, in_queue' = Unlinked
    PROVE  /\ Once(in_queue') /\ in_queue[job.pos] \in Proc
           /\ \A x : OnQueue(in_queue', x) <=> OnQueue(in_queue, x) /\ x # in_queue[job.pos]
           /\ Unseen' = Unseen \ {in_queue[job.pos]}
  <1>0. PICK k : k = job.pos
    OBVIOUS
  <1>1. /\ job.op \in {"in", "off"} /\ k \in 1 .. Len(in_queue) /\ in_queue[k] \in Proc
        /\ in_queue \in Seq(Proc)
    BY <1>0, EntryIs DEF IInv, TypeOK
  <1>2. Once(in_queue)
    BY LinedNow DEF QueueInv
  <1>3. in_queue' = [i \in 1 .. Len(in_queue) - 1 |-> IF i < k THEN in_queue[i] ELSE in_queue[i + 1]]
    BY <1>0 DEF Unlinked
  <1>4. /\ Len(in_queue') = Len(in_queue) - 1 /\ Len(in_queue) \in Nat /\ Once(in_queue')
        /\ \A x : OnQueue(in_queue', x) <=> OnQueue(in_queue, x) /\ x # in_queue[k]
    <2>1. PICK q, r : q = in_queue /\ r = in_queue'
      OBVIOUS
    <2>2. /\ q \in Seq(Proc) /\ k \in 1 .. Len(q) /\ Once(q)
          /\ r = [i \in 1 .. Len(q) - 1 |-> IF i < k THEN q[i] ELSE q[i + 1]]
      BY <1>1, <1>2, <1>3, <2>1
    <2>3. Len(r) = Len(q) - 1 /\ Len(q) \in Nat
      BY <2>2, DropIs
    <2>4. Once(r)
      BY <2>2, DropIs
    <2>5. \A x : OnQueue(r, x) <=> OnQueue(q, x) /\ x # q[k]
      BY <2>2, DropIs
    <2> QED BY <2>1, <2>3, <2>4, <2>5
  <1>5. Unseen' = Unseen \ {in_queue[k]}
    <2>1. /\ Unseen' = {p \in Proc : \E i \in k .. Len(in_queue') : in_queue'[i] = p}
          /\ Unseen = {p \in Proc : \E i \in k .. Len(in_queue) : in_queue[i] = p}
      BY <1>0, <1>1 DEF Unseen, Walking
    <2>2. \A i \in k .. Len(in_queue') : /\ i + 1 \in k .. Len(in_queue) /\ i + 1 # k
                                         /\ in_queue'[i] = in_queue[i + 1]
      BY <1>1, <1>3, <1>4
    <2>3. \A j \in k .. Len(in_queue) : j = k \/ /\ j - 1 \in k .. Len(in_queue')
                                                 /\ in_queue'[j - 1] = in_queue[j]
      BY <1>1, <1>3, <1>4
    <2>4. \A j \in k .. Len(in_queue) : in_queue[j] = in_queue[k] => j = k
      BY <1>1, <1>2 DEF Once
    <2>5. ASSUME NEW p \in Proc
          PROVE  p \in Unseen' <=> p \in Unseen /\ p # in_queue[k]
      BY <1>1, <2>1, <2>2, <2>3, <2>4, ZenonT(30)
    <2> QED BY <2>1, <2>5
  <1> QED BY <1>0, <1>1, <1>4, <1>5

(* swap_in() drops a process that was killed. *)
LEMMA InKilledQueue ==
    ASSUME IInv, QueueInv, InKilled
    PROVE  QueueInv'
  <1>1. /\ Walks /\ in_queue' = Unlinked /\ flags' = flags /\ job' = job
        /\ "SWAPIN" \notin flags[in_queue[job.pos]]
    BY DEF InKilled, Has
  <1>2. /\ Once(in_queue') /\ in_queue[job.pos] \in Proc
        /\ \A x : OnQueue(in_queue', x) <=> OnQueue(in_queue, x) /\ x # in_queue[job.pos]
        /\ Unseen' = Unseen \ {in_queue[job.pos]}
    BY <1>1, UnseenNext
  <1>3. Lined(Now', Unseen')
    BY <1>1, <1>2, LinedNow, LinedNext DEF QueueInv
  <1> QED BY <1>3 DEF QueueInv

(* swap_in() leaves a process on the queue. *)
LEMMA InNoRoomQueue ==
    ASSUME IInv, QueueInv, InNoRoom
    PROVE  QueueInv'
  <1>1. /\ Walks /\ Allocates /\ job' = [job EXCEPT !.pos = @ + 1]
        /\ in_queue' = in_queue /\ flags' = flags
    BY DEF InNoRoom, NoMem
  <1>0. PICK k : k = job.pos
    OBVIOUS
  <1>2. /\ job.op \in {"in", "off"} /\ k \in 1 .. Len(in_queue) /\ Len(in_queue) \in Nat
        /\ "SWAPIN" \in flags[in_queue[k]]
    BY <1>0, <1>1, EntryIs DEF IInv, TypeOK, Allocates, Has
  <1>3. job'.op = job.op /\ job'.pos = k + 1
    <2>1. \/ job = [op |-> "in", pos |-> job.pos]
          \/ job = [op |-> "off", who |-> job.who, pos |-> job.pos]
      BY <1>2, JobIs DEF IInv
    <2> QED BY <1>0, <1>1, <2>1
  <1>4. /\ Unseen' = {p \in Proc : \E i \in k + 1 .. Len(in_queue) : in_queue[i] = p}
        /\ Unseen = {p \in Proc : \E i \in k .. Len(in_queue) : in_queue[i] = p}
    BY <1>0, <1>1, <1>2, <1>3 DEF Unseen, Walking
  <1>5. \A i \in k .. Len(in_queue) : i = k \/ i \in k + 1 .. Len(in_queue)
    BY <1>2
  <1>6. \A p \in Unseen : p \in Unseen' \/ "SWAPIN" \in flags[p]
    BY <1>2, <1>4, <1>5
  <1>7. Lined(Now', Unseen')
    BY <1>1, <1>6, LinedNow, LinedNext DEF QueueInv
  <1> QED BY <1>7 DEF QueueInv

(* swap_in() brings a process back. *)
LEMMA InFoundQueue ==
    ASSUME IInv, QueueInv, InFound
    PROVE  QueueInv'
  <1>0. PICK p : p = in_queue[job.pos]
    OBVIOUS
  <1> DEFINE gl == [flags EXCEPT ![p] = @ \ {"ONSWAP", "SWAPIN"}]
             m == [fl |-> gl, q |-> Unlinked]
             n == IF pending[p] /\ Has(p, "WAITING") THEN Wake(m, p) ELSE m
  <1>1. /\ Walks /\ Allocates /\ flags' = n.fl /\ in_queue' = n.q /\ job' = job
    BY <1>0 DEF InFound, Found
  <1>2. /\ job.op \in {"in", "off"} /\ p \in Proc /\ Unlinked \in Seq(Proc) /\ Has(p, "SWAPIN")
    BY <1>0, <1>1, EntryIs DEF Allocates
  <1>3. Has(p, "IN_USE")
    BY <1>2 DEF IInv, Users, Slots, Has
  <1>4. /\ gl \in [Proc -> SUBSET Flag] /\ gl[p] = flags[p] \ {"ONSWAP", "SWAPIN"}
        /\ \A q \in Proc : q # p => gl[q] = flags[q]
    BY <1>2 DEF IInv, TypeOK
  <1> HIDE DEF gl
  <1>5. m \in MState /\ m.fl = gl /\ m.q = Unlinked
    BY <1>2, <1>4, MStateIs
  <1>6. n \in MState /\ n.q = Unlinked /\ KeepsLine(m, p, n)
    <2>1. CASE pending[p] /\ Has(p, "WAITING")
      <3>1. "IN_USE" \in m.fl[p] /\ "ONSWAP" \notin m.fl[p] /\ n = Wake(m, p)
        BY <1>3, <1>4, <1>5, <2>1 DEF Has
      <3> HIDE DEF n
      <3> QED BY <1>2, <1>5, <3>1, WakeIs
    <2>2. CASE ~(pending[p] /\ Has(p, "WAITING"))
      BY <1>5, <2>2 DEF KeepsLine
    <2> QED BY <2>1, <2>2
  <1> HIDE DEF m, n
  <1>7. /\ Once(in_queue')
        /\ \A x : OnQueue(in_queue', x) <=> OnQueue(in_queue, x) /\ x # p
        /\ Unseen' = Unseen \ {p}
    BY <1>0, <1>1, <1>6, UnseenNext
  <1>8. Lined(m, Unseen \ {p})
    <2>1. m.q = in_queue'
      BY <1>1, <1>5, <1>6
    <2>2. Lined(Now, Unseen)
      BY DEF QueueInv
    <2> QED BY <1>4, <1>5, <1>7, <2>1, <2>2, LinedNow DEF Lined
  <1>9. Lined(n, Unseen')
    BY <1>6, <1>7, <1>8 DEF KeepsLine
  <1>10. Lined(Now', Unseen')
    BY <1>1, <1>9, LinedNext DEF Lined
  <1> QED BY <1>10 DEF QueueInv

(* swap_out() marks nobody as SWAPIN. *)
LEMMA SwapOutQueue ==
    ASSUME IInv, QueueInv, swap_out
    PROVE  QueueInv'
  <1>1. /\ in_queue' = in_queue /\ job' = job
        /\ \E p \in Proc : flags' = [flags EXCEPT ![p] = @ \cup {"ONSWAP"}]
    BY DEF swap_out
  <1>2. \A q \in Proc : "SWAPIN" \in flags'[q] <=> "SWAPIN" \in flags[q]
    BY <1>1 DEF IInv, TypeOK
  <1>3. Unseen' = Unseen
    BY <1>1 DEF Unseen, Walking
  <1>4. Lined(Now', Unseen')
    BY <1>1, <1>2, <1>3, LinedNow, LinedNext DEF QueueInv
  <1> QED BY <1>4 DEF QueueInv

-----------------------------------------------------------------------------
(* All of it together. *)

(* Every step keeps the queue in order. *)
LEMMA NextQueue == IInv /\ QueueInv /\ [Next]_vars => QueueInv'
  <1> SUFFICES ASSUME IInv, QueueInv, [Next]_vars PROVE QueueInv'
    OBVIOUS
  <1>1. CASE UNCHANGED vars
    BY <1>1 DEF vars, QueueInv, Lined, Now, Unseen, Walking
  <1>2. CASE mem_init
    <2>1. ~Walks /\ flags' = flags /\ in_queue' = in_queue
      BY <1>2, NotWalking DEF mem_init
    <2> QED BY <2>1, SameQueue DEF IInv
  <1>3. CASE swap_out \/ ForkDone \/ ExecDone \/ CallFails
    BY <1>3, SwapOutQueue, ForkQueue, ExecQueue, CallFailsQueue
  <1>4. CASE InKilled \/ InNoRoom \/ InFound
    BY <1>4, InKilledQueue, InNoRoomQueue, InFoundQueue
  <1>5. CASE Replies \/ Join \/ SwapOffDone
    BY <1>5, RepliesQueue, JoinQueue, SwapOffDoneQueue
  <1>6. CASE UserCall
    <2> PICK p \in Proc : \/ do_fork(p) \/ Hang(p) \/ sig_proc(p)
                          \/ \E f \in Program : do_exec(p, f)
                          \/ \E w \in Proc \cup {0} : mm_exit(p, w)
                          \/ p \in Root /\ (swap_off(p) \/ \E n \in SwapSizes : swap_on(p, n))
      BY <1>6 DEF UserCall
    <2>1. CASE do_fork(p) \/ swap_off(p) \/ \E n \in SwapSizes : swap_on(p, n)
      BY <2>1, CallQueue
    <2>2. CASE Hang(p) \/ sig_proc(p)
      BY <2>2, HangQueue, SigProcQueue
    <2>3. ASSUME NEW f \in Program, do_exec(p, f) PROVE QueueInv'
      BY <2>3, DoExecQueue
    <2>4. ASSUME NEW w \in Proc \cup {0}, mm_exit(p, w) PROVE QueueInv'
      BY <2>4, ExitQueue
    <2> QED BY <2>1, <2>2, <2>3, <2>4
  <1>7. CASE Stuck
    BY <1>1, <1>7 DEF Stuck
  <1> QED BY <1>1, <1>2, <1>3, <1>4, <1>5, <1>6, <1>7 DEF Next, MMStep

(* Whenever MM turns to a new call, the queue of swap_in() has everybody   *)
(* who is marked SWAPIN, once, and nobody else: no slot that do_fork()     *)
(* could give away while it is linked.                                     *)
THEOREM QueueAlwaysCurrent == Spec => []QueueCurrent
  <1>1. Init => QueueInv
    <2> SUFFICES ASSUME Init PROVE Lined(Now, Unseen)
      BY DEF QueueInv
    <2>1. in_queue = <<>> /\ Len(in_queue) = 0
      BY DEF Init
    <2>2. \A p \in Proc : "SWAPIN" \notin flags[p]
      BY DEF Init
    <2> QED BY <2>1, <2>2, LinedNow DEF Once, OnQueue
  <1>2. IInv /\ QueueInv /\ [Next]_vars => QueueInv'
    BY NextQueue
  <1>3. IInv /\ QueueInv => QueueCurrent
    <2> SUFFICES ASSUME IInv, QueueInv, job.op \in {"idle", "fork", "exec"}
                 PROVE  /\ \A i \in 1 .. Len(in_queue) : Has(in_queue[i], "SWAPIN")
                        /\ \A p \in Proc : Has(p, "SWAPIN") =>
                              Cardinality({i \in 1 .. Len(in_queue) : in_queue[i] = p}) = 1
      BY DEF QueueCurrent
    <2>1. /\ Once(in_queue)
          /\ \A p \in Proc : "SWAPIN" \in flags[p] <=> OnQueue(in_queue, p)
      <3>1. Lined(Now, {})
        BY NotWalking, AllSeen DEF QueueInv, IInv
      <3> QED BY <3>1, LinedNow
    <2>2. \A i \in 1 .. Len(in_queue) : Has(in_queue[i], "SWAPIN")
      <3>1. \A i \in 1 .. Len(in_queue) : in_queue[i] \in Proc
        BY DEF IInv, TypeOK
      <3> QED BY <2>1, <3>1 DEF OnQueue, Has
    <2>3. ASSUME NEW p \in Proc, Has(p, "SWAPIN")
          PROVE  Cardinality({i \in 1 .. Len(in_queue) : in_queue[i] = p}) = 1
      <3>1. PICK k \in 1 .. Len(in_queue) : in_queue[k] = p
        BY <2>1, <2>3 DEF OnQueue, Has
      <3>2. {i \in 1 .. Len(in_queue) : in_queue[i] = p} = {k}
        BY <2>1, <3>1 DEF Once
      <3> QED BY <3>2, FS_Singleton
    <2> QED BY <2>2, <2>3
  <1> QED BY <1>1, <1>2, <1>3, InvHolds, PTL DEF Spec
=============================================================================
