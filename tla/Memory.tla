------------------------------- MODULE Memory -------------------------------
(***************************************************************************)
(* What mm/alloc.c and its callers promise about physical memory, without  *)
(* a list of holes: every process has data of its own, the text of a       *)
(* program with separate I and D space is in memory once while somebody    *)
(* executes it, and everything else is free.                               *)
(***************************************************************************)
EXTENDS Integers, FiniteSets, TLAPS

CONSTANTS Proc,     \* the process slots
          Program,  \* what can be executed
          Click,    \* the numbers of the clicks of memory and swap area
          None      \* the program of a slot not in use, not in Program

VARIABLES all,      \* the clicks managed
          free,     \* those in nobody's use
          prog,     \* the program each process executes
          data,     \* its data, gap and stack
          text      \* the text of a program in memory

vars == <<all, free, prog, data, text>>

(* Nobody gets anything but what was free, and what nobody has is free. *)
Change ==
    /\ \A p \in Proc : data'[p] \in {data[p], {}} \/ data'[p] \subseteq free
    /\ \A f \in Program : text'[f] \in {text[f], {}} \/ text'[f] \subseteq free
    /\ free' = all \ ((UNION {data'[p] : p \in Proc}) \cup (UNION {text'[f] : f \in Program}))
    /\ UNCHANGED all

Others(p) == \A q \in Proc \ {p} : data'[q] = data[q]
Moved(p, q) == Cardinality(data'[q]) = Cardinality(data[p])

(* The text of a program stays while somebody executes it, and only so long. *)
Texts(F) == \A f \in F : text'[f] = IF \E p \in Proc : prog'[p] = f THEN text[f] ELSE {}

(* The only process, which has all the memory there is. *)
Alone(p) == /\ prog[p] # None
            /\ \A q \in Proc \ {p} : prog[q] = None /\ data[q] = {}
            /\ \A f \in Program \ {prog[p]} : text[f] = {}
            /\ data[p] \cap text[prog[p]] = {}
            /\ all = data[p] \cup text[prog[p]]

Init == /\ prog \in [Proc -> Program \cup {None}]
        /\ data \in [Proc -> SUBSET Click]
        /\ text \in [Program -> SUBSET Click]
        /\ \E p \in Proc : Alone(p)
        /\ free = {}

Fork(p, c) ==
    /\ prog[p] # None /\ prog[c] = None
    /\ prog' = [prog EXCEPT ![c] = prog[p]]
    /\ Moved(p, c) /\ Others(c) /\ Texts(Program) /\ Change

(* A text that is already in memory is used, otherwise it is loaded. *)
Exec(p, f) ==
    /\ prog[p] # None
    /\ prog' = [prog EXCEPT ![p] = f]
    /\ data'[p] # {} /\ data'[p] \subseteq free
    /\ IF \E q \in Proc \ {p} : prog[q] = f THEN text'[f] = text[f]
       ELSE text'[f] \subseteq free \ data'[p]
    /\ Others(p) /\ Texts(Program \ {f}) /\ Change

Exit(p) ==
    /\ prog[p] # None
    /\ prog' = [prog EXCEPT ![p] = None]
    /\ data'[p] = {} /\ Others(p) /\ Texts(Program) /\ Change

(* The data of a process is copied elsewhere. *)
Move(p) ==
    /\ prog[p] # None
    /\ data'[p] \subseteq free /\ Moved(p, p) /\ Others(p) /\ Texts(Program) /\ Change
    /\ UNCHANGED prog

Provide == /\ all' \ all = free' \ free /\ all \subseteq all' /\ free \subseteq free'
           /\ UNCHANGED <<prog, data, text>>

Withdraw == /\ all \ all' = free \ free' /\ all' \subseteq all /\ free' \subseteq free
            /\ UNCHANGED <<prog, data, text>>

Next == \/ \E p, c \in Proc : Fork(p, c)
        \/ \E p \in Proc, f \in Program : Exec(p, f)
        \/ \E p \in Proc : Exit(p) \/ Move(p)
        \/ Provide \/ Withdraw

Spec == Init /\ [][Next]_vars

Owned == (UNION {data[p] : p \in Proc}) \cup (UNION {text[f] : f \in Program})

(* Nothing is in two hands, and what is in none is free: no click of       *)
(* memory is lost.  A text stays only as long as somebody executes it.     *)
NothingLost ==
    /\ prog \in [Proc -> Program \cup {None}]
    /\ Owned \subseteq all /\ free = all \ Owned
    /\ \A p, q \in Proc : p # q => data[p] \cap data[q] = {}
    /\ \A f, g \in Program : f # g => text[f] \cap text[g] = {}
    /\ \A p \in Proc, f \in Program : data[p] \cap text[f] = {}
    /\ \A p \in Proc : prog[p] = None => data[p] = {}
    /\ \A f \in Program : text[f] # {} => \E p \in Proc : prog[p] = f

(* A change that takes only free memory, for one process and one text,     *)
(* apart, puts nothing into two hands.                                     *)
LEMMA ChangeKeeps ==
    ASSUME NothingLost, NEW r \in Proc, NEW f,
           Others(r), Texts(Program \ {f}), Change,
           f \in Program => \/ text'[f] \in {text[f], {}}
                            \/ text'[f] \subseteq free \ data'[r]
    PROVE  /\ (Owned \subseteq all /\ free = all \ Owned)'
           /\ (\A p, q \in Proc : p # q => data[p] \cap data[q] = {})'
           /\ (\A g, h \in Program : g # h => text[g] \cap text[h] = {})'
           /\ (\A p \in Proc, g \in Program : data[p] \cap text[g] = {})'
  <1>1. /\ \A p \in Proc : data[p] \subseteq all /\ data[p] \cap free = {}
        /\ \A g \in Program : text[g] \subseteq all /\ text[g] \cap free = {}
        /\ free \subseteq all
    BY DEF NothingLost, Owned
  <1>2. \A p \in Proc \ {r} : data'[p] = data[p]
    BY DEF Others
  <1>3. \A g \in Program \ {f} : text'[g] \in {text[g], {}}
    BY DEF Texts
  <1>4. data'[r] \in {data[r], {}} \/ data'[r] \subseteq free
    BY DEF Change
  <1>5. /\ \A p \in Proc : data'[p] \subseteq all
        /\ \A g \in Program : text'[g] \subseteq all
    BY <1>1, <1>2, <1>3, <1>4
  <1>6. (Owned \subseteq all /\ free = all \ Owned)'
    BY <1>5 DEF Change, Owned
  <1>7. \A p, q \in Proc : p # q => data'[p] \cap data'[q] = {}
    BY <1>1, <1>2, <1>4 DEF NothingLost
  <1>8. \A g, h \in Program : g # h => text'[g] \cap text'[h] = {}
    BY <1>1, <1>3 DEF NothingLost
  <1>9. \A p \in Proc, g \in Program : data'[p] \cap text'[g] = {}
    BY <1>1, <1>2, <1>3, <1>4 DEF NothingLost
  <1> QED BY <1>6, <1>7, <1>8, <1>9

(* No step of any kind gives memory twice or forgets it.                   *)
LEMMA NothingLostStep ==
    ASSUME None \notin Program, NothingLost, [Next]_vars
    PROVE  NothingLost'
  <1>1. CASE UNCHANGED vars
    BY <1>1 DEF vars, NothingLost, Owned
  <1>2. ASSUME NEW p \in Proc, NEW c \in Proc, Fork(p, c) PROVE NothingLost'
    <2>1. \A f \in Program : text'[f] \in {text[f], {}}
      BY <1>2 DEF Fork, Texts
    <2>2. /\ (Owned \subseteq all /\ free = all \ Owned)'
          /\ (\A q, r \in Proc : q # r => data[q] \cap data[r] = {})'
          /\ (\A g, h \in Program : g # h => text[g] \cap text[h] = {})'
          /\ (\A q \in Proc, g \in Program : data[q] \cap text[g] = {})'
      BY <1>2, <2>1, ChangeKeeps DEF Fork, Texts
    <2>3. /\ prog' \in [Proc -> Program \cup {None}]
          /\ \A q \in Proc : prog'[q] = IF q = c THEN prog[p] ELSE prog[q]
      BY <1>2 DEF Fork, NothingLost
    <2>4. \A q \in Proc : prog'[q] = None => data'[q] = {}
      BY <1>2, <2>3 DEF Fork, Others, NothingLost
    <2>5. \A f \in Program : text'[f] # {} => \E q \in Proc : prog'[q] = f
      BY <1>2 DEF Fork, Texts
    <2> QED BY <2>2, <2>3, <2>4, <2>5 DEF NothingLost
  <1>3. ASSUME NEW p \in Proc, NEW f \in Program, Exec(p, f) PROVE NothingLost'
    <2>1. \/ text'[f] \in {text[f], {}}
          \/ text'[f] \subseteq free \ data'[p]
      BY <1>3 DEF Exec
    <2>2. /\ (Owned \subseteq all /\ free = all \ Owned)'
          /\ (\A q, r \in Proc : q # r => data[q] \cap data[r] = {})'
          /\ (\A g, h \in Program : g # h => text[g] \cap text[h] = {})'
          /\ (\A q \in Proc, g \in Program : data[q] \cap text[g] = {})'
      BY <1>3, <2>1, ChangeKeeps DEF Exec
    <2>3. /\ prog' \in [Proc -> Program \cup {None}]
          /\ \A q \in Proc : prog'[q] = IF q = p THEN f ELSE prog[q]
      BY <1>3 DEF Exec, NothingLost
    <2>4. \A q \in Proc : prog'[q] = None => data'[q] = {}
      BY <1>3, <2>3 DEF Exec, Others, NothingLost
    <2>5. \A g \in Program : text'[g] # {} => \E q \in Proc : prog'[q] = g
      BY <1>3, <2>3 DEF Exec, Texts
    <2> QED BY <2>2, <2>3, <2>4, <2>5 DEF NothingLost
  <1>4. ASSUME NEW p \in Proc, Exit(p) \/ Move(p) PROVE NothingLost'
    <2>1. /\ Others(p) /\ Texts(Program) /\ Change
      BY <1>4 DEF Exit, Move
    <2>2. \A f \in Program : text'[f] \in {text[f], {}}
      BY <2>1 DEF Texts
    <2>3. /\ (Owned \subseteq all /\ free = all \ Owned)'
          /\ (\A q, r \in Proc : q # r => data[q] \cap data[r] = {})'
          /\ (\A g, h \in Program : g # h => text[g] \cap text[h] = {})'
          /\ (\A q \in Proc, g \in Program : data[q] \cap text[g] = {})'
      BY <2>1, <2>2, ChangeKeeps DEF Texts
    <2>4. /\ prog' \in [Proc -> Program \cup {None}]
          /\ \A q \in Proc : prog'[q] = None => prog[q] = None \/ data'[q] = {}
          /\ \A q \in Proc \ {p} : prog'[q] = prog[q]
          /\ prog'[p] = None => data'[p] = {}
      BY <1>4 DEF Exit, Move, NothingLost
    <2>5. \A q \in Proc : prog'[q] = None => data'[q] = {}
      BY <2>1, <2>4 DEF Others, NothingLost
    <2>6. \A f \in Program : text'[f] # {} => \E q \in Proc : prog'[q] = f
      BY <2>1 DEF Texts
    <2> QED BY <2>3, <2>4, <2>5, <2>6 DEF NothingLost
  <1>5. CASE Provide \/ Withdraw
    <2>1. Owned' = Owned
      BY <1>5 DEF Provide, Withdraw, Owned
    <2>2. (Owned \subseteq all /\ free = all \ Owned)'
      BY <1>5, <2>1 DEF Provide, Withdraw, NothingLost
    <2> QED BY <1>5, <2>2 DEF Provide, Withdraw, NothingLost
  <1> QED BY <1>1, <1>2, <1>3, <1>4, <1>5 DEF Next

(* At the start one process owns all there is. *)
LEMMA NothingLostInit ==
    ASSUME None \notin Program, Init
    PROVE  NothingLost
  <1>1. PICK p \in Proc : Alone(p)
    BY DEF Init
  <1>2. prog[p] \in Program
    BY <1>1 DEF Init, Alone
  <1>3. Owned = all
    <2>1. /\ \A q \in Proc : q = p \/ data[q] = {}
          /\ \A f \in Program : f = prog[p] \/ text[f] = {}
      BY <1>1 DEF Alone
    <2>2. (UNION {data[q] : q \in Proc}) = data[p]
      BY <2>1
    <2>3. (UNION {text[f] : f \in Program}) = text[prog[p]]
      BY <1>2, <2>1
    <2> QED BY <1>1, <2>2, <2>3 DEF Owned, Alone
  <1> QED BY <1>1, <1>2, <1>3 DEF Init, Alone, NothingLost

(* An allocator that keeps to this never gives memory to two, and never    *)
(* loses any.                                                              *)
THEOREM MemoryIsNeverLost == None \notin Program => (Spec => []NothingLost)
  <1> SUFFICES ASSUME None \notin Program PROVE Spec => []NothingLost
    OBVIOUS
  <1>1. Init => NothingLost
    BY NothingLostInit
  <1>2. NothingLost /\ [Next]_vars => NothingLost'
    BY NothingLostStep
  <1> QED BY <1>1, <1>2, PTL DEF Spec
=============================================================================
