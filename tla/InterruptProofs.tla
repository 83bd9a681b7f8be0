-------------------------- MODULE InterruptProofs ---------------------------
(***************************************************************************)
(* Proofs about Interrupt.tla: the kernel's entries nest so that switching *)
(* code never runs inside switching code, and the held queue loses nothing.*)
(***************************************************************************)
EXTENDS Interrupt, FiniteSetTheorems, SequenceTheorems, FunctionTheorems, TLAPS

-----------------------------------------------------------------------------
(* Stacks: what a push, a pop and a change of the topmost frame do.        *)

(* Call: the old frames move down by one. *)
LEMMA Pushed ==
    ASSUME NEW S, NEW s \in Seq(S), NEW f \in S, NEW t, t = <<f>> \o s
    PROVE  /\ t \in Seq(S) /\ t # <<>> /\ Len(t) = Len(s) + 1
           /\ t[1] = f
           /\ \A i \in 1 .. Len(s) : t[i + 1] = s[i]
           /\ \A i \in 2 .. Len(t) : t[i] = s[i - 1]
  <1>1. /\ <<f>> \in Seq(S) /\ Len(<<f>>) = 1 /\ <<f>>[1] = f
        /\ Len(s) \in Nat
    OBVIOUS
  <1>2. /\ t \in Seq(S)
        /\ Len(t) = 1 + Len(s)
        /\ \A i \in 1 .. 1 + Len(s) : t[i] = IF i <= 1 THEN <<f>>[i] ELSE s[i - 1]
    BY <1>1, ConcatProperties
  <1>3. QED
    BY <1>1, <1>2

(* Return: the frames below move up by one. *)
LEMMA Popped ==
    ASSUME NEW S, NEW s \in Seq(S), s # <<>>, NEW t, t = Tail(s)
    PROVE  /\ t \in Seq(S) /\ Len(t) = Len(s) - 1
           /\ Head(s) = s[1] /\ Head(s) \in S
           /\ \A i \in 1 .. Len(t) : t[i] = s[i + 1]
           /\ \A i \in 2 .. Len(s) : t[i - 1] = s[i]
  <1>1. /\ t \in Seq(S) /\ Len(t) = Len(s) - 1 /\ Head(s) \in S
        /\ \A i \in 1 .. Len(t) : t[i] = s[i + 1]
    BY HeadTailProperties
  <1>2. Len(s) \in Nat /\ Head(s) = s[1]
    OBVIOUS
  <1>3. QED
    BY <1>1, <1>2

(* Goto: only the first frame changes. *)
LEMMA Replaced ==
    ASSUME NEW S, NEW s \in Seq(S), s # <<>>, NEW f \in S, NEW t, t = <<f>> \o Tail(s)
    PROVE  /\ t \in Seq(S) /\ t # <<>> /\ Len(t) = Len(s)
           /\ t[1] = f
           /\ \A i \in 2 .. Len(s) : t[i] = s[i]
  <1>1. /\ Tail(s) \in Seq(S) /\ Len(Tail(s)) = Len(s) - 1
        /\ \A i \in 1 .. Len(Tail(s)) : Tail(s)[i] = s[i + 1]
        /\ Len(s) \in Nat
    BY Popped
  <1>2. /\ t \in Seq(S) /\ t # <<>> /\ Len(t) = Len(Tail(s)) + 1
        /\ t[1] = f
        /\ \A i \in 2 .. Len(t) : t[i] = Tail(s)[i - 1]
    BY <1>1, Pushed
  <1>3. QED
    BY <1>1, <1>2

(* The positions of the frames of some functions. *)
Where(s, F) == {i \in 1 .. Len(s) : s[i].fn \in F}

(* A stack holds finitely many frames of any functions, so they can be counted. *)
LEMMA WhereFinite ==
    ASSUME NEW S, NEW s \in Seq(S), NEW F
    PROVE  IsFiniteSet(Where(s, F)) /\ Cardinality(Where(s, F)) \in Nat
  <1>1. IsFiniteSet(1 .. Len(s)) /\ Where(s, F) \in SUBSET (1 .. Len(s))
    BY FS_Interval DEF Where
  <1>2. QED
    BY <1>1, FS_Subset, FS_CardinalityType

(* One frame more counts for one, if it is of one of the functions. *)
LEMMA WherePushed ==
    ASSUME NEW S, NEW s \in Seq(S), NEW t \in Seq(S), NEW F, Len(t) = Len(s) + 1,
           \A i \in 1 .. Len(s) : t[i + 1].fn = s[i].fn
    PROVE  Cardinality(Where(t, F))
               = Cardinality(Where(s, F)) + (IF t[1].fn \in F THEN 1 ELSE 0)
  <1> DEFINE A == Where(s, F)
             B == Where(t, F) \ {1}
             g == [i \in A |-> i + 1]
  <1>1. IsFiniteSet(A) /\ Cardinality(A) \in Nat /\ Len(s) \in Nat
    BY WhereFinite
  <1>2. g \in Bijection(A, B)
    <2>1. \A i \in A : i + 1 \in B
      BY <1>1 DEF Where
    <2>2. \A j \in B : j - 1 \in A /\ j = (j - 1) + 1
      BY <1>1 DEF Where
    <2>3. \A i, j \in A : i + 1 = j + 1 => i = j
      BY DEF Where
    <2>4. g \in [A -> B] /\ \A i \in A : g[i] = i + 1
      BY <2>1
    <2>5. \A i, j \in A : g[i] = g[j] => i = j
      BY <2>3, <2>4
    <2>6. \A j \in B : \E i \in A : g[i] = j
      BY <2>2, <2>4
    <2>7. QED
      BY <2>4, <2>5, <2>6, Fun_IsBij
  <1>3. IsFiniteSet(B) /\ Cardinality(B) = Cardinality(A)
    BY <1>1, <1>2, FS_Bijection DEF ExistsBijection
  <1>4. CASE t[1].fn \in F
    <2>1. Where(t, F) = B \cup {1} /\ 1 \notin B
      BY <1>1, <1>4 DEF Where
    <2>2. QED
      BY <2>1, <1>3, <1>4, FS_AddElement
  <1>5. CASE t[1].fn \notin F
    <2>1. Where(t, F) = B
      BY <1>1, <1>5 DEF Where
    <2>2. (IF t[1].fn \in F THEN 1 ELSE 0) = 0
      BY <1>5
    <2>3. Cardinality(A) + 0 = Cardinality(A)
      BY <1>1
    <2>4. QED
      BY <2>1, <2>2, <2>3, <1>3
  <1>6. QED
    BY <1>4, <1>5

(* A jump inside the topmost activation leaves the frames of every function where they are. *)
LEMMA WhereReplaced ==
    ASSUME NEW S, NEW s \in Seq(S), NEW t \in Seq(S), NEW F, Len(t) = Len(s),
           \A i \in 1 .. Len(s) : t[i].fn = s[i].fn
    PROVE  Where(t, F) = Where(s, F)
  BY DEF Where

(* A call of interrupt() for i is being made. *)
Calling(s, i) == \E j \in 1 .. Len(s) : s[j].fn = "interrupt" /\ s[j].irq = i

(* A call is under way after a push if it was before or is the one pushed. *)
LEMMA CallingPushed ==
    ASSUME NEW S, NEW s \in Seq(S), NEW t \in Seq(S), NEW i, Len(t) = Len(s) + 1,
           \A j \in 1 .. Len(s) :
               t[j + 1].fn = s[j].fn /\ (s[j].fn = "interrupt" => t[j + 1].irq = s[j].irq)
    PROVE  Calling(t, i) <=> Calling(s, i) \/ (t[1].fn = "interrupt" /\ t[1].irq = i)
  <1>1. Len(s) \in Nat /\ Len(t) \in Nat
    OBVIOUS
  <1>2. \A j \in 1 .. Len(s) : j + 1 \in 1 .. Len(t)
    BY <1>1
  <1>3. \A l \in 1 .. Len(t) : l # 1 => l - 1 \in 1 .. Len(s) /\ (l - 1) + 1 = l
    BY <1>1
  <1>4. 1 \in 1 .. Len(t)
    BY <1>1
  <1>5. ASSUME Calling(t, i) PROVE Calling(s, i) \/ (t[1].fn = "interrupt" /\ t[1].irq = i)
    <2>1. PICK l \in 1 .. Len(t) : t[l].fn = "interrupt" /\ t[l].irq = i
      BY <1>5 DEF Calling
    <2>2. CASE l = 1
      BY <2>1, <2>2
    <2>3. CASE l # 1
      <3>1. l - 1 \in 1 .. Len(s) /\ (l - 1) + 1 = l
        BY <1>3, <2>3
      <3>2. s[l - 1].fn = "interrupt" /\ s[l - 1].irq = i
        BY <2>1, <3>1
      <3>3. QED
        BY <3>1, <3>2 DEF Calling
    <2>4. QED
      BY <2>2, <2>3
  <1>6. ASSUME Calling(s, i) PROVE Calling(t, i)
    BY <1>2, <1>6 DEF Calling
  <1>7. QED
    BY <1>4, <1>5, <1>6 DEF Calling

(* A jump inside the topmost activation changes no call of interrupt() under way. *)
LEMMA CallingReplaced ==
    ASSUME NEW S, NEW s \in Seq(S), NEW t \in Seq(S), NEW i, Len(t) = Len(s),
           \A j \in 1 .. Len(s) :
               t[j].fn = s[j].fn /\ (s[j].fn = "interrupt" => t[j].irq = s[j].irq)
    PROVE  Calling(t, i) <=> Calling(s, i)
  BY DEF Calling

-----------------------------------------------------------------------------
(* The inductive invariant. *)

Entry == {"sys_call", "handler"}
N == Len(stack)

(* The types, but for the range of k_reenter, which follows from Counts.   *)
Types ==
    /\ stack \in Seq(Frame) /\ stack # <<>>
    /\ switching \in BOOLEAN /\ enabled \in BOOLEAN
    /\ masked \subseteq Irq /\ p_int_held \subseteq Irq /\ raised \subseteq Irq
    /\ held \in Seq(Irq)
    /\ irqs \in 0 .. MaxIrq

(* What lies on what: the process at the bottom, sys_call() only directly  *)
(* on a process that runs, interrupt() only on who calls it.               *)
Nested ==
    /\ \A i \in 1 .. N : stack[i].fn = "proc" <=> i = N
    /\ \A i \in 1 .. N - 1 : stack[i].fn = "sys_call" => stack[i + 1] = Proc("run")
    /\ \A i \in 1 .. N - 1 : stack[i].fn = "interrupt" =>
           /\ stack[i + 1].fn # "interrupt"
           /\ stack[i + 1].pc \in {"run", "return", "flushed"}

(* The way an entry is left fits its place: by _restart exactly if no      *)
(* other entry is under it, although a task's call of interrupt() may be,  *)
(* and with a process under it that is in no gateway if it flushes.        *)
Base(i) == \A j \in i + 1 .. N : stack[j].fn \notin Entry
Leaves ==
    \A i \in 1 .. N :
        /\ stack[i].pc \in {"restart", "unhold", "flushed"} => Base(i)
        /\ stack[i].fn = "handler" => (stack[i].exit = "restart" <=> Base(i))
        /\ stack[i].pc \in {"unhold", "flushed"} => stack[N].pc = "run"

(* Interrupts are off just where an entry is being left or the held queue  *)
(* is in the hands of unhold(), so that nothing nests there.               *)
Leaving == Exits \cup {"unhold"}
Masking ==
    /\ \A i \in 1 .. N : stack[i].pc \in Leaving => i = 1 /\ ~enabled
    /\ ~enabled => stack[1].pc \in Leaving \cup {"flushed"}
    /\ stack[1].pc = "unhold" => held # <<>>

(* k_reenter counts the entries, and a handler takes an interrupt. *)
Counts ==
    /\ k_reenter = Cardinality(Where(stack, Entry)) - 1
    /\ Cardinality(Where(stack, {"handler"})) <= irqs

(* interrupt() gets past its test only in an outermost entry, with no      *)
(* gateway under it.                                                       *)
Admitted(i) == stack[i].fn = "interrupt" /\ stack[i].pc \in {"set", "switch"}
OverOneEntry(i) ==
    /\ stack[N].pc = "run"
    /\ \E j \in i + 1 .. N : stack[j].fn \in Entry
    /\ \A j, l \in i + 1 .. N : stack[j].fn \in Entry /\ stack[l].fn \in Entry => j = l
Outer == \A i \in 1 .. N : Admitted(i) => OverOneEntry(i)

Flag == switching <=> \E i \in 1 .. N : stack[i].pc = "switch" /\ stack[i].fn # "sys_call"

(* The held queue has no duplicates and agrees with the marks. *)
Queue ==
    /\ Elems(held) = p_int_held
    /\ \A i, j \in 1 .. Len(held) : held[i] = held[j] => i = j

IInv ==
    /\ Types
    /\ Nested
    /\ Leaves
    /\ Masking
    /\ Counts
    /\ Outer
    /\ Flag
    /\ Queue
    /\ NeverForgotten

-----------------------------------------------------------------------------
(* What the invariant says of one state. *)

(* The fields of a frame by its function. *)
LEMMA Frames ==
    \A f \in Frame :
        /\ f.fn \in {"proc", "sys_call", "handler", "interrupt"}
        /\ f.fn = "proc" => f.pc \in {"run", "switch"} /\ f = Proc(f.pc)
        /\ f.fn = "sys_call" =>
               /\ f.pc \in {"switch", "restart", "unhold", "flushed"}
               /\ f = SysCall(f.pc)
        /\ f.fn = "handler" =>
               /\ f.pc \in {"handle", "return", "unhold", "flushed"} \cup Exits
               /\ f.exit \in Exits /\ f.irq \in Irq /\ f = Handler(f.pc, f.exit, f.irq)
        /\ f.fn = "interrupt" =>
               /\ f.pc \in {"test", "hold", "set", "switch"}
               /\ f.irq \in Irq /\ f = Interrupt(f.pc, f.irq)
  BY DEF Frame, Proc, SysCall, Handler, Interrupt

(* Changing the place where a frame is does not change whose it is. *)
LEMMA Moved ==
    \A f \in Frame : \A pc :
        LET g == [f EXCEPT !.pc = pc]
        IN  /\ g.fn = f.fn /\ g.pc = pc
            /\ f.fn = "proc" => g = Proc(pc)
            /\ f.fn = "sys_call" => g = SysCall(pc)
            /\ f.fn = "handler" => g = Handler(pc, f.exit, f.irq)
            /\ f.fn = "interrupt" => g = Interrupt(pc, f.irq)
  BY Frames DEF Proc, SysCall, Handler, Interrupt

(* The frames that the entries, gateways and handlers push are frames. *)
LEMMA InFrame ==
    /\ \A pc \in {"run", "switch"} : Proc(pc) \in Frame
    /\ \A pc \in {"switch", "restart", "unhold", "flushed"} : SysCall(pc) \in Frame
    /\ \A i \in Irq, exit \in Exits,
          pc \in {"handle", "return", "unhold", "flushed"} \cup Exits : Handler(pc, exit, i) \in Frame
    /\ \A i \in Irq, pc \in {"test", "hold", "set", "switch"} : Interrupt(pc, i) \in Frame
  BY DEF Frame

(* There is one entry by sys_call() at most, so that k_reenter is bounded  *)
(* by the interrupts.                                                      *)
LEMMA EntryBound ==
    ASSUME NEW s \in Seq(Frame), s # <<>>,
           \A i \in 1 .. Len(s) : s[i].fn = "sys_call" => i = Len(s) - 1
    PROVE  Cardinality(Where(s, Entry)) <= Cardinality(Where(s, {"handler"})) + 1
  <1> DEFINE H == Where(s, {"handler"})
  <1>1. IsFiniteSet(H) /\ Cardinality(H) \in Nat
        /\ IsFiniteSet(Where(s, Entry)) /\ Cardinality(Where(s, Entry)) \in Nat
    BY WhereFinite
  <1>2. /\ IsFiniteSet(H \cup {Len(s) - 1})
        /\ Cardinality(H \cup {Len(s) - 1}) =
               IF Len(s) - 1 \in H THEN Cardinality(H) ELSE Cardinality(H) + 1
    BY <1>1, FS_AddElement
  <1>3. Where(s, Entry) \in SUBSET (H \cup {Len(s) - 1})
    BY DEF Where, Entry
  <1>4. Cardinality(Where(s, Entry)) <= Cardinality(H \cup {Len(s) - 1})
    BY <1>2, <1>3, FS_Subset
  <1>5. QED
    BY <1>1, <1>2, <1>4

(* k_reenter counts the nested entries, which the interrupts bound: it stays in its range. *)
LEMMA ReenterBound == Types /\ Nested /\ Counts => TypeOK
  <1> SUFFICES ASSUME Types, Nested, Counts PROVE k_reenter \in -1 .. MaxIrq
    BY DEF Types, TypeOK
  <1>1. stack \in Seq(Frame) /\ stack # <<>> /\ N \in Nat /\ N > 0
    BY DEF Types, N
  <1>2. \A i \in 1 .. N : stack[i].fn = "sys_call" => i = N - 1
    <2>1. SUFFICES ASSUME NEW i \in 1 .. N, stack[i].fn = "sys_call" PROVE i = N - 1
      OBVIOUS
    <2>2. i < N /\ stack[i + 1].fn = "proc" /\ i + 1 \in 1 .. N
      BY <1>1, <2>1 DEF Nested, Proc
    <2>3. QED
      BY <1>1, <2>1, <2>2 DEF Nested
  <1>3. Cardinality(Where(stack, Entry)) <= Cardinality(Where(stack, {"handler"})) + 1
    BY <1>1, <1>2, EntryBound DEF N
  <1>4. /\ Cardinality(Where(stack, Entry)) \in Nat
        /\ Cardinality(Where(stack, {"handler"})) \in Nat
    BY <1>1, WhereFinite
  <1>5. irqs \in 0 .. MaxIrq /\ MaxIrq \in Nat
    BY IrqAssumption DEF Types
  <1>6. QED
    BY <1>3, <1>4, <1>5 DEF Counts

(* A frame that moves to another point of its own function is a frame. *)
LEMMA StaysFrame ==
    \A f \in Frame : \A pc :
        \/ f.fn = "proc" /\ pc \in {"run", "switch"}
        \/ f.fn = "sys_call" /\ pc \in {"switch", "restart", "unhold", "flushed"}
        \/ f.fn = "handler" /\ pc \in {"handle", "return", "unhold", "flushed"} \cup Exits
        \/ f.fn = "interrupt" /\ pc \in {"test", "hold", "set", "switch"}
        => [f EXCEPT !.pc = pc] \in Frame
  <1> SUFFICES ASSUME NEW f \in Frame, NEW pc,
                      \/ f.fn = "proc" /\ pc \in {"run", "switch"}
                      \/ f.fn = "sys_call" /\ pc \in {"switch", "restart", "unhold", "flushed"}
                      \/ /\ f.fn = "handler"
                         /\ pc \in {"handle", "return", "unhold", "flushed"} \cup Exits
                      \/ f.fn = "interrupt" /\ pc \in {"test", "hold", "set", "switch"}
               PROVE  [f EXCEPT !.pc = pc] \in Frame
    OBVIOUS
  <1> DEFINE g == [f EXCEPT !.pc = pc]
  <1>1. /\ f.fn = "proc" => g = Proc(pc)
        /\ f.fn = "sys_call" => g = SysCall(pc)
        /\ f.fn = "handler" => g = Handler(pc, f.exit, f.irq) /\ f.irq \in Irq /\ f.exit \in Exits
        /\ f.fn = "interrupt" => g = Interrupt(pc, f.irq) /\ f.irq \in Irq
    BY Moved, Frames
  <1> HIDE DEF g
  <1>2. g \in Frame
    BY <1>1, InFrame
  <1>3. QED
    BY <1>2 DEF g

(* No two activations of interrupt() are past its test, and nothing else   *)
(* switches while one is.                                                  *)
LEMMA AdmittedAlone ==
    ASSUME Types, Nested, Outer
    PROVE  \A i, j \in 1 .. N :
               Admitted(i) /\ (Admitted(j) \/ stack[j].pc = "switch") => i = j
  <1>1. N \in Nat /\ N > 0 /\ \A i \in 1 .. N : stack[i] \in Frame
    BY DEF Types, N
  <1>2. ASSUME NEW i \in 1 .. N, NEW j \in 1 .. N, Admitted(i), Admitted(j), i < j
        PROVE  FALSE
    <2>1. PICK e \in j + 1 .. N : stack[e].fn \in Entry
      BY <1>2 DEF Outer, OverOneEntry
    <2>2. i + 1 < j
      BY <1>1, <1>2 DEF Nested, Admitted
    <2>3. stack[i + 1].fn \in Entry
      BY <1>1, <1>2, <2>2, Frames DEF Nested, Admitted, Entry
    <2>4. e \in i + 1 .. N /\ i + 1 \in i + 1 .. N /\ e # i + 1
      BY <1>1, <2>1, <2>2
    <2>5. QED
      BY <1>2, <2>1, <2>3, <2>4 DEF Outer, OverOneEntry
  <1>3. ASSUME NEW i \in 1 .. N, NEW j \in 1 .. N, Admitted(i), stack[j].pc = "switch",
               stack[j].fn # "interrupt"
        PROVE  FALSE
    <2>1. stack[N].pc = "run"
      BY <1>3 DEF Outer, OverOneEntry
    <2>2. stack[j].fn = "sys_call" /\ j + 1 = N
      BY <1>1, <1>3, <2>1, Frames DEF Nested, Exits
    <2>3. i < N - 1 /\ i + 1 # N
      BY <1>1, <1>3, <2>2 DEF Nested, Admitted, Proc
    <2>4. stack[i + 1].pc # "switch" /\ stack[i + 1].fn \in Entry
      BY <1>1, <1>3, <2>3, Frames DEF Nested, Admitted, Entry
    <2>5. i + 1 \in i + 1 .. N /\ j \in i + 1 .. N /\ i + 1 # j
      BY <1>1, <1>3, <2>2, <2>3, <2>4
    <2>6. QED
      BY <1>3, <2>2, <2>4, <2>5 DEF Outer, OverOneEntry, Entry
  <1>4. \A i, j \in 1 .. N : i = j \/ i < j \/ j < i
    BY <1>1
  <1>5. QED
    BY <1>2, <1>3, <1>4 DEF Admitted

(* A queue without duplicates is as long as its set of elements is large. *)
LEMMA ElemsCount ==
    ASSUME NEW S, NEW q \in Seq(S), \A i, j \in 1 .. Len(q) : q[i] = q[j] => i = j
    PROVE  Len(q) = Cardinality(Elems(q))
  <1> DEFINE g == [i \in 1 .. Len(q) |-> q[i]]
  <1>1. Len(q) \in Nat
    OBVIOUS
  <1>2. g \in [1 .. Len(q) -> Elems(q)] /\ \A i \in 1 .. Len(q) : g[i] = q[i]
    BY DEF Elems
  <1>3. \A e \in Elems(q) : \E i \in 1 .. Len(q) : g[i] = e
    BY <1>2 DEF Elems
  <1>4. g \in Bijection(1 .. Len(q), Elems(q))
    BY <1>2, <1>3, Fun_IsBij
  <1>5. QED
    BY <1>1, <1>4, FS_CountingElements DEF ExistsBijection

(* The inductive invariant implies what is promised of switching and of the held queue. *)
LEMMA InvSound == IInv => SwitchingSound /\ HeldSound
  <1> SUFFICES ASSUME IInv PROVE SwitchingSound /\ HeldSound
    OBVIOUS
  <1>1. N \in Nat /\ N > 0 /\ \A i \in 1 .. N : stack[i] \in Frame
    BY DEF IInv, Types, N
  <1>2. \A i, j \in Switching : i = j
    <2>1. SUFFICES ASSUME NEW i \in 1 .. N, NEW j \in 1 .. N,
                          stack[i].pc = "switch", stack[j].pc = "switch"
                   PROVE  i = j
      BY DEF Switching, N
    <2>2. CASE stack[i].fn = "interrupt" \/ stack[j].fn = "interrupt"
      BY <2>1, <2>2, AdmittedAlone DEF IInv, Admitted
    <2>3. CASE stack[i].fn # "interrupt" /\ stack[j].fn # "interrupt"
      <3>1. stack[i].fn \in {"proc", "sys_call"} /\ stack[j].fn \in {"proc", "sys_call"}
        BY <1>1, <2>1, <2>3, Frames DEF Exits
      <3>2. QED
        BY <1>1, <2>1, <3>1 DEF IInv, Nested, Proc
    <2>4. QED
      BY <2>2, <2>3
  <1>3. SwitchingAlone
    <2>1. CASE Switching = {}
      <3>1. Cardinality(Switching) = 0
        BY <2>1, FS_EmptySet
      <3>2. QED
        BY <3>1 DEF SwitchingAlone
    <2>2. CASE Switching # {}
      <3>1. PICK i : Switching = {i}
        BY <1>2, <2>2
      <3>2. Cardinality(Switching) = 1
        BY <3>1, FS_Singleton
      <3>3. QED
        BY <3>2 DEF SwitchingAlone
    <2>3. QED
      BY <2>1, <2>2
  <1>4. ReenterExact
    <2>1. k_reenter = Cardinality({i \in 1 .. Len(stack) : stack[i].fn \in {"sys_call", "handler"}}) - 1
      BY DEF IInv, Counts, Where, Entry
    <2>2. switching <=> \E i \in Switching : stack[i].fn # "sys_call"
      BY DEF IInv, Flag, Switching, N
    <2>3. QED
      BY <2>1, <2>2 DEF ReenterExact
  <1>5. HeldOnce
    <2>1. Len(held) = Cardinality(Elems(held))
      BY ElemsCount DEF IInv, Types, Queue
    <2>2. QED
      BY <2>1 DEF IInv, Queue, HeldOnce
  <1>6. TypeOK
    BY ReenterBound DEF IInv
  <1>7. UnholdReady
    <2>1. SUFFICES ASSUME stack[1].pc = "unhold"
                   PROVE  k_reenter = 0 /\ ~enabled /\ ~switching /\ held # <<>>
      BY <1>1 DEF UnholdReady, Top, IInv, Types
    <2>2. /\ 1 \in 1 .. N /\ stack[1].fn \in Entry /\ Base(1) /\ stack[N].pc = "run"
          /\ ~enabled /\ held # <<>>
      BY <1>1, <2>1, Frames DEF IInv, Leaves, Masking, Leaving, Entry
    <2>3. k_reenter = 0
      <3>1. \A j \in 1 .. N : j = 1 \/ j \in 1 + 1 .. N
        BY <1>1
      <3>2. Where(stack, Entry) = {1}
        BY <2>2, <3>1 DEF Where, Base, N
      <3>3. QED
        BY <3>2, FS_Singleton DEF IInv, Counts
    <2>4. ASSUME NEW j \in 1 .. N, stack[j].pc = "switch", stack[j].fn # "sys_call"
          PROVE  FALSE
      <3>1. stack[j].fn \in {"proc", "interrupt"}
        BY <1>1, <2>4, Frames DEF Exits
      <3>2. CASE stack[j].fn = "proc"
        BY <2>2, <2>4, <3>2 DEF IInv, Nested
      <3>3. CASE stack[j].fn = "interrupt"
        <4>1. PICK e \in j + 1 .. N : stack[e].fn \in Entry
          BY <2>4, <3>3 DEF IInv, Outer, Admitted, OverOneEntry
        <4>2. e \in 1 + 1 .. N
          BY <1>1
        <4>3. QED
          BY <2>2, <4>1, <4>2 DEF Base
      <3>4. QED
        BY <3>1, <3>2, <3>3
    <2>5. QED
      BY <2>2, <2>3, <2>4 DEF IInv, Flag
  <1>8. QED
    BY <1>3, <1>4, <1>5, <1>6, <1>7 DEF SwitchingSound, HeldSound, IInv

-----------------------------------------------------------------------------
(* Every step preserves it. *)

(* main() starts the first process with the kernel left and nothing held. *)
LEMMA InitInv == Init => IInv
  <1> SUFFICES ASSUME Init PROVE IInv
    OBVIOUS
  <1>1. Len(stack) = 1 /\ stack[1] = Proc("run") /\ Proc("run") \in Frame /\ stack \in Seq(Frame)
    BY InFrame DEF Init
  <1>2. Types
    <2>1. irqs \in 0 .. MaxIrq
      BY IrqAssumption DEF Init
    <2>2. stack \in Seq(Frame) /\ stack # <<>>
      BY <1>1
    <2>3. /\ switching = FALSE /\ enabled = TRUE /\ masked = {} /\ held = <<>>
          /\ p_int_held = {} /\ raised = {}
      BY DEF Init
    <2>4. held \in Seq(Irq)
      BY <2>3
    <2>5. QED
      BY <2>1, <2>2, <2>3, <2>4, Zenon DEF Types
  <1>3. Nested /\ Leaves /\ Masking /\ Outer /\ Flag /\ Queue /\ NeverForgotten
    BY <1>1 DEF Init, Nested, Leaves, Masking, Leaving, Exits, Outer, Admitted, Flag, Queue, NeverForgotten, Proc, N, Elems
  <1>4. Counts
    <2>1. Where(stack, Entry) = {} /\ Where(stack, {"handler"}) = {}
      BY <1>1 DEF Where, Entry, Proc
    <2>2. Cardinality(Where(stack, Entry)) = 0 /\ Cardinality(Where(stack, {"handler"})) = 0
      BY <2>1, FS_EmptySet
    <2>3. k_reenter = -1 /\ irqs = 0
      BY DEF Init
    <2>4. QED
      BY <2>2, <2>3 DEF Counts
  <1>5. QED
    BY <1>2, <1>3, <1>4 DEF IInv

(* The stack before a step. *)
LEMMA Before ==
    IInv => /\ stack \in Seq(Frame) /\ stack # <<>> /\ N \in Nat /\ N > 0
            /\ \A i \in 1 .. N : stack[i] \in Frame
            /\ Top = stack[1] /\ stack[1] \in Frame
  BY DEF IInv, Types, N, Top

(* A call pushes its frame on the others. *)
LEMMA AfterCall ==
    ASSUME IInv, NEW f \in Frame, Call(f)
    PROVE  /\ stack' \in Seq(Frame) /\ stack' # <<>> /\ N' = N + 1
           /\ stack'[1] = f
           /\ \A i \in 1 .. N : stack'[i + 1] = stack[i]
           /\ \A i \in 2 .. N' : stack'[i] = stack[i - 1]
           /\ \A F : Cardinality(Where(stack', F))
                        = Cardinality(Where(stack, F)) + (IF f.fn \in F THEN 1 ELSE 0)
           /\ \A i : Calling(stack', i) <=> Calling(stack, i) \/ (f.fn = "interrupt" /\ f.irq = i)
  <1>1. stack \in Seq(Frame) /\ N = Len(stack)
    BY Before DEF N
  <1>2. /\ stack' \in Seq(Frame) /\ stack' # <<>> /\ N' = N + 1
        /\ stack'[1] = f
        /\ \A i \in 1 .. N : stack'[i + 1] = stack[i]
        /\ \A i \in 2 .. N' : stack'[i] = stack[i - 1]
    BY <1>1, Pushed DEF Call, N
  <1>3. \A F : Cardinality(Where(stack', F))
                 = Cardinality(Where(stack, F)) + (IF f.fn \in F THEN 1 ELSE 0)
    <2>1. \A i \in 1 .. Len(stack) : stack'[i + 1].fn = stack[i].fn
      BY <1>1, <1>2
    <2>2. Len(stack') = Len(stack) + 1
      BY <1>2 DEF N
    <2>3. TAKE F
    <2>4. QED
      BY <1>1, <1>2, <2>1, <2>2, WherePushed
  <1>4. \A i : Calling(stack', i) <=> Calling(stack, i) \/ (f.fn = "interrupt" /\ f.irq = i)
    BY <1>1, <1>2, CallingPushed DEF N
  <1>5. QED
    BY <1>2, <1>3, <1>4

(* A return takes the topmost frame off the others. *)
LEMMA AfterReturn ==
    ASSUME IInv, N > 1, Return
    PROVE  /\ stack' \in Seq(Frame) /\ stack' # <<>> /\ N' = N - 1
           /\ \A i \in 1 .. N' : stack'[i] = stack[i + 1]
           /\ \A i \in 2 .. N : stack'[i - 1] = stack[i]
           /\ \A F : Cardinality(Where(stack, F))
                        = Cardinality(Where(stack', F)) + (IF stack[1].fn \in F THEN 1 ELSE 0)
           /\ \A i : Calling(stack, i)
                       <=> Calling(stack', i) \/ (stack[1].fn = "interrupt" /\ stack[1].irq = i)
  <1>1. stack \in Seq(Frame) /\ stack # <<>> /\ N = Len(stack) /\ N \in Nat
    BY Before DEF N
  <1>2. /\ stack' \in Seq(Frame) /\ N' = N - 1
        /\ \A i \in 1 .. N' : stack'[i] = stack[i + 1]
        /\ \A i \in 2 .. N : stack'[i - 1] = stack[i]
    BY <1>1, Popped DEF Return, Below, N
  <1>3. stack' # <<>> /\ Len(stack) = Len(stack') + 1
    BY <1>1, <1>2 DEF N
  <1>4. \A i \in 1 .. Len(stack') : stack[i + 1] = stack'[i]
    BY <1>2 DEF N
  <1>5. \A F : Cardinality(Where(stack, F))
                 = Cardinality(Where(stack', F)) + (IF stack[1].fn \in F THEN 1 ELSE 0)
    BY <1>1, <1>2, <1>3, <1>4, WherePushed
  <1>6. \A i : Calling(stack, i)
                <=> Calling(stack', i) \/ (stack[1].fn = "interrupt" /\ stack[1].irq = i)
    BY <1>1, <1>2, <1>3, <1>4, CallingPushed
  <1>7. QED
    BY <1>2, <1>3, <1>5, <1>6

(* A jump changes the topmost frame only. *)
LEMMA AfterGoto ==
    ASSUME IInv, NEW pc, [stack[1] EXCEPT !.pc = pc] \in Frame, Goto(pc)
    PROVE  /\ stack' \in Seq(Frame) /\ stack' # <<>> /\ N' = N
           /\ stack'[1] = [stack[1] EXCEPT !.pc = pc]
           /\ stack'[1].fn = stack[1].fn /\ stack'[1].pc = pc
           /\ stack'[1].fn = "interrupt" => stack'[1].irq = stack[1].irq
           /\ stack'[1].fn = "handler" => stack'[1].exit = stack[1].exit
           /\ \A i \in 2 .. N : stack'[i] = stack[i]
           /\ \A F : Where(stack', F) = Where(stack, F)
           /\ \A i : Calling(stack', i) <=> Calling(stack, i)
  <1>1. stack \in Seq(Frame) /\ stack # <<>> /\ N = Len(stack) /\ Top = stack[1] /\ stack[1] \in Frame
    BY Before DEF N
  <1>2. /\ stack' \in Seq(Frame) /\ stack' # <<>> /\ N' = N
        /\ stack'[1] = [stack[1] EXCEPT !.pc = pc]
        /\ \A i \in 2 .. N : stack'[i] = stack[i]
    BY <1>1, Replaced DEF Goto, Below, N
  <1>3. /\ stack'[1].fn = stack[1].fn /\ stack'[1].pc = pc
        /\ stack'[1].fn = "interrupt" => stack'[1].irq = stack[1].irq
    BY <1>1, <1>2, Moved, Frames DEF Interrupt
  <1>4. /\ \A i \in 1 .. Len(stack) : stack'[i].fn = stack[i].fn
        /\ \A i \in 1 .. Len(stack) : stack[i].fn = "interrupt" => stack'[i].irq = stack[i].irq
    <2>1. \A i \in 1 .. Len(stack) : i = 1 \/ i \in 2 .. N
      BY <1>1
    <2>2. QED
      BY <1>2, <1>3, <2>1
  <1>5. \A F : Where(stack', F) = Where(stack, F)
    BY <1>1, <1>2, <1>4, WhereReplaced DEF N
  <1>6. \A i : Calling(stack', i) <=> Calling(stack, i)
    BY <1>1, <1>2, <1>4, CallingReplaced DEF N
  <1>7. QED
    BY <1>2, <1>3, <1>5, <1>6

(* A call from the middle of a function moves the caller on and pushes the callee. *)
LEMMA AfterGotoAndCall ==
    ASSUME IInv, NEW pc, [stack[1] EXCEPT !.pc = pc] \in Frame,
           NEW f \in Frame, GotoAndCall(pc, f)
    PROVE  /\ stack' \in Seq(Frame) /\ stack' # <<>> /\ N' = N + 1
           /\ stack'[1] = f
           /\ stack'[2] = [stack[1] EXCEPT !.pc = pc]
           /\ stack'[2].fn = stack[1].fn /\ stack'[2].pc = pc
           /\ stack[1].fn = "handler" => stack'[2].exit = stack[1].exit
           /\ \A i \in 2 .. N : stack'[i + 1] = stack[i]
           /\ \A i \in 3 .. N' : stack'[i] = stack[i - 1]
           /\ \A F : Cardinality(Where(stack', F))
                        = Cardinality(Where(stack, F)) + (IF f.fn \in F THEN 1 ELSE 0)
           /\ \A i : Calling(stack', i) <=> Calling(stack, i) \/ (f.fn = "interrupt" /\ f.irq = i)
  <1> DEFINE g == [stack[1] EXCEPT !.pc = pc]
             u == <<g>> \o Tail(stack)
  <1>1. stack \in Seq(Frame) /\ stack # <<>> /\ N = Len(stack) /\ Top = stack[1] /\ stack[1] \in Frame
        /\ N \in Nat /\ N > 0
    BY Before DEF N
  <1>2. u \in Seq(Frame) /\ u # <<>> /\ Len(u) = N /\ u[1] = g /\ \A i \in 2 .. N : u[i] = stack[i]
    BY <1>1, Replaced
  <1>3. stack' = <<f>> \o u
    <2>1. Tail(stack) \in Seq(Frame) /\ <<f>> \in Seq(Frame) /\ <<g>> \in Seq(Frame)
      BY <1>1, Popped
    <2>2. <<f, g>> = <<f>> \o <<g>>
      OBVIOUS
    <2>3. stack' = (<<f>> \o <<g>>) \o Tail(stack)
      BY <1>1, <2>2 DEF GotoAndCall, Below
    <2>4. QED
      BY <2>1, <2>3, ConcatAssociative
  <1>4. g.fn = stack[1].fn /\ g.pc = pc /\ (stack[1].fn = "interrupt" => g.irq = stack[1].irq)
    BY <1>1, Moved, Frames DEF Interrupt
  <1> HIDE DEF g, u
  <1>5. /\ stack' \in Seq(Frame) /\ stack' # <<>> /\ N' = N + 1
        /\ stack'[1] = f
        /\ \A i \in 1 .. N : stack'[i + 1] = u[i]
        /\ \A i \in 2 .. N' : stack'[i] = u[i - 1]
    BY <1>2, <1>3, Pushed DEF N
  <1>6. Len(stack') = Len(stack) + 1 /\ stack' \in Seq(Frame) /\ stack'[1] = f
    BY <1>1, <1>5 DEF N
  <1>7. /\ \A i \in 1 .. Len(stack) : stack'[i + 1].fn = stack[i].fn
        /\ \A i \in 1 .. Len(stack) : stack[i].fn = "interrupt" => stack'[i + 1].irq = stack[i].irq
    <2>1. \A i \in 1 .. Len(stack) : i = 1 \/ i \in 2 .. N
      BY <1>1
    <2>2. QED
      BY <1>1, <1>2, <1>4, <1>5, <2>1
  <1>8. /\ \A F : Cardinality(Where(stack', F))
                   = Cardinality(Where(stack, F)) + (IF f.fn \in F THEN 1 ELSE 0)
        /\ \A i : Calling(stack', i) <=> Calling(stack, i) \/ (f.fn = "interrupt" /\ f.irq = i)
    <2>1. ASSUME NEW F
          PROVE  Cardinality(Where(stack', F))
                     = Cardinality(Where(stack, F)) + (IF stack'[1].fn \in F THEN 1 ELSE 0)
      <3>1. stack \in Seq(Frame) /\ stack' \in Seq(Frame) /\ Len(stack') = Len(stack) + 1
        BY <1>1, <1>6
      <3>2. \A i \in 1 .. Len(stack) : stack'[i + 1].fn = stack[i].fn
        BY <1>7
      <3>3. QED
        BY <3>1, <3>2, WherePushed
    <2>2. \A i : Calling(stack', i) <=> Calling(stack, i) \/ (f.fn = "interrupt" /\ f.irq = i)
      BY <1>1, <1>6, <1>7, CallingPushed
    <2>3. QED
      BY <1>6, <2>1, <2>2
  <1>9. stack'[2] = g /\ \A i \in 3 .. N' : stack'[i] = stack[i - 1]
    BY <1>1, <1>2, <1>5
  <1>10. \A i \in 2 .. N : stack'[i + 1] = stack[i]
    BY <1>1, <1>2, <1>5
  <1>11. QED
    BY <1>4, <1>5, <1>8, <1>9, <1>10 DEF g

(* A return keeps the nesting of what is left. *)
LEMMA ReturnNested ==
    ASSUME IInv, N > 1, Return
    PROVE  Nested' /\ Leaves' /\ Outer'
  <1>1. N \in Nat /\ N' = N - 1
    BY Before, AfterReturn
  <1>2. \A i \in 1 .. N' : stack'[i] = stack[i + 1] /\ i + 1 \in 1 .. N /\ (i + 1 = N <=> i = N')
    BY <1>1, AfterReturn
  <1>3. \A i \in 1 .. N' - 1 :
            /\ stack'[i] = stack[i + 1] /\ stack'[i + 1] = stack[(i + 1) + 1]
            /\ i + 1 \in 1 .. N - 1
    BY <1>1, <1>2
  <1>4. Nested'
    <2>1. \A i \in 1 .. N' : stack'[i].fn = "proc" <=> i = N'
      BY <1>2 DEF IInv, Nested
    <2>2. \A i \in 1 .. N' - 1 : stack'[i].fn = "sys_call" => stack'[i + 1] = Proc("run")
      BY <1>3 DEF IInv, Nested
    <2>3. \A i \in 1 .. N' - 1 : stack'[i].fn = "interrupt" =>
              /\ stack'[i + 1].fn # "interrupt"
              /\ stack'[i + 1].pc \in {"run", "return", "flushed"}
      BY <1>3 DEF IInv, Nested
    <2>4. QED
      BY <2>1, <2>2, <2>3 DEF Nested
  <1>5. Outer'
    <2>1. SUFFICES ASSUME NEW i \in 1 .. N', Admitted(i)' PROVE OverOneEntry(i)'
      BY DEF Outer
    <2>2. OverOneEntry(i + 1)
      BY <1>2, <2>1 DEF IInv, Outer, Admitted
    <2>3. stack'[N'] = stack[N]
      BY <1>1, <1>2, <2>1
    <2>4. \A j \in i + 1 .. N' : stack'[j] = stack[j + 1] /\ j + 1 \in (i + 1) + 1 .. N
      BY <1>1, <1>2
    <2>5. \A j \in (i + 1) + 1 .. N : j - 1 \in i + 1 .. N' /\ stack'[j - 1] = stack[j]
      BY <1>1, <2>1, AfterReturn
    <2>6. PICK e \in (i + 1) + 1 .. N : stack[e].fn \in Entry
      BY <2>2 DEF OverOneEntry
    <2>7. stack'[e - 1].fn \in Entry /\ e - 1 \in i + 1 .. N'
      BY <2>5, <2>6
    <2>8. ASSUME NEW j \in i + 1 .. N', NEW l \in i + 1 .. N',
                 stack'[j].fn \in Entry, stack'[l].fn \in Entry
          PROVE  j = l
      <3>1. j + 1 = l + 1
        BY <2>2, <2>4, <2>8 DEF OverOneEntry
      <3>2. QED
        BY <1>1, <2>1, <3>1
    <2>9. QED
      BY <2>2, <2>3, <2>7, <2>8 DEF OverOneEntry
  <1>6. Leaves'
    <2>1. SUFFICES ASSUME NEW i \in 1 .. N'
                   PROVE  /\ stack'[i].pc \in {"restart", "unhold", "flushed"} => Base(i)'
                          /\ stack'[i].fn = "handler" => (stack'[i].exit = "restart" <=> Base(i)')
                          /\ stack'[i].pc \in {"unhold", "flushed"} => stack'[N'].pc = "run"
      BY DEF Leaves
    <2>2. stack'[i] = stack[i + 1] /\ i + 1 \in 1 .. N /\ stack'[N'] = stack[N]
      BY <1>1, <1>2
    <2>3. Base(i)' <=> Base(i + 1)
      <3>1. \A j \in i + 1 .. N' : stack'[j] = stack[j + 1] /\ j + 1 \in (i + 1) + 1 .. N
        BY <1>1, <1>2
      <3>2. \A j \in (i + 1) + 1 .. N : j - 1 \in i + 1 .. N' /\ stack'[j - 1] = stack[j]
        BY <1>1, AfterReturn
      <3>3. QED
        BY <3>1, <3>2 DEF Base
    <2>4. QED
      BY <2>2, <2>3 DEF IInv, Leaves
  <1>7. QED
    BY <1>4, <1>5, <1>6

(* So does a change of the place where the topmost frame is. *)
LEMMA GotoNested ==
    ASSUME IInv, NEW pc, [stack[1] EXCEPT !.pc = pc] \in Frame, Goto(pc),
           pc \in {"restart", "unhold", "flushed"} => Base(1),
           pc \in {"unhold", "flushed"} => stack[N].pc = "run",
           stack[1].fn = "interrupt" /\ pc \in {"set", "switch"} => OverOneEntry(1)
    PROVE  Nested' /\ Leaves' /\ Outer'
  <1>1. N \in Nat /\ N > 0 /\ N' = N
    BY Before, AfterGoto
  <1>2. /\ stack'[1].fn = stack[1].fn /\ stack'[1].pc = pc
        /\ \A i \in 2 .. N : stack'[i] = stack[i]
    BY AfterGoto
  <1>3. \A i \in 1 .. N : stack'[i].fn = stack[i].fn
    <2>1. \A i \in 1 .. N : i = 1 \/ i \in 2 .. N
      BY <1>1
    <2>2. QED
      BY <1>2, <2>1
  <1>4. \A i \in 1 .. N - 1 : stack'[i + 1] = stack[i + 1]
    BY <1>1, <1>2
  <1>5. Nested'
    <2>1. \A i \in 1 .. N : stack'[i].fn = "proc" <=> i = N
      BY <1>3 DEF IInv, Nested
    <2>2. \A i \in 1 .. N - 1 : i \in 1 .. N
      BY <1>1
    <2>3. \A i \in 1 .. N - 1 : stack'[i].fn = "sys_call" => stack'[i + 1] = Proc("run")
      BY <1>3, <1>4, <2>2 DEF IInv, Nested
    <2>4. \A i \in 1 .. N - 1 : stack'[i].fn = "interrupt" =>
              /\ stack'[i + 1].fn # "interrupt"
              /\ stack'[i + 1].pc \in {"run", "return", "flushed"}
      BY <1>3, <1>4, <2>2 DEF IInv, Nested
    <2>5. QED
      BY <1>1, <2>1, <2>3, <2>4 DEF Nested
  <1>6. Outer'
    <2>1. SUFFICES ASSUME NEW i \in 1 .. N, Admitted(i)' PROVE OverOneEntry(i)'
      BY <1>1 DEF Outer
    <2>2. OverOneEntry(i)
      BY <1>1, <1>2, <2>1 DEF IInv, Outer, Admitted
    <2>3. \A j \in i + 1 .. N : stack'[j] = stack[j]
      BY <1>1, <1>2
    <2>4. N \in i + 1 .. N
      BY <1>1, <2>2 DEF OverOneEntry
    <2>5. QED
      BY <1>1, <2>2, <2>3, <2>4 DEF OverOneEntry
  <1>7. Leaves'
    <2>1. SUFFICES ASSUME NEW i \in 1 .. N
                   PROVE  /\ stack'[i].pc \in {"restart", "unhold", "flushed"} => Base(i)'
                          /\ stack'[i].fn = "handler" => (stack'[i].exit = "restart" <=> Base(i)')
                          /\ stack'[i].pc \in {"unhold", "flushed"} => stack'[N].pc = "run"
      BY <1>1 DEF Leaves
    <2>2. Base(i)' <=> Base(i)
      <3>1. \A j \in i + 1 .. N : j \in 1 .. N
        BY <1>1
      <3>2. QED
        BY <1>1, <1>3, <3>1 DEF Base
    <2>3. stack'[i].fn = "handler" => stack'[i].exit = stack[i].exit
      <3>1. i = 1 \/ i \in 2 .. N
        BY <1>1
      <3>2. QED
        BY <1>2, <3>1, AfterGoto
    <2>4. stack'[i].pc \in {"restart", "unhold", "flushed"} => Base(i)
      <3>1. i = 1 \/ (i \in 2 .. N /\ stack'[i] = stack[i])
        BY <1>1, <1>2
      <3>2. QED
        BY <1>2, <3>1 DEF IInv, Leaves
    <2>5. stack'[i].pc \in {"unhold", "flushed"} => stack'[N].pc = "run"
      <3>1. CASE N = 1
        <4>1. stack[1].fn = "proc" /\ stack'[1].fn = "proc" /\ stack'[1] \in Frame /\ i = 1
          BY <1>1, <1>2, <3>1, AfterGoto DEF IInv, Nested
        <4>2. QED
          BY <4>1, Frames
      <3>2. CASE N # 1
        <4>1. N \in 2 .. N /\ stack'[N] = stack[N]
          BY <1>1, <1>2, <3>2
        <4>2. i = 1 \/ (i \in 2 .. N /\ stack'[i] = stack[i])
          BY <1>1, <1>2
        <4>3. QED
          BY <1>2, <4>1, <4>2 DEF IInv, Leaves
      <3>3. QED
        BY <3>1, <3>2
    <2>6. stack[i].fn = "handler" => (stack[i].exit = "restart" <=> Base(i))
      BY DEF IInv, Leaves
    <2>7. QED
      BY <1>3, <2>2, <2>3, <2>4, <2>5, <2>6
  <1>8. QED
    BY <1>5, <1>6, <1>7

(* And a call, of something that may lie on the caller. *)
MayLie(f, g) ==
    /\ f.fn # "proc" /\ f.pc \notin {"restart", "unhold", "flushed"}
    /\ f.fn = "handler" => (f.exit = "restart" <=> Base(0))
    /\ f.fn = "sys_call" => g = Proc("run")
    /\ f.fn = "interrupt" =>
           /\ f.pc \notin {"set", "switch"}
           /\ g.fn # "interrupt" /\ g.pc \in {"run", "return", "flushed"}

(* A call keeps the nesting if the callee may lie on its caller. *)
LEMMA CallNested ==
    ASSUME IInv, NEW f \in Frame, Call(f), MayLie(f, stack[1])
    PROVE  Nested' /\ Leaves' /\ Outer'
  <1>1. N \in Nat /\ N > 0 /\ N' = N + 1
    BY Before, AfterCall
  <1>2. /\ stack'[1] = f
        /\ \A i \in 1 .. N : stack'[i + 1] = stack[i]
        /\ \A i \in 2 .. N' : stack'[i] = stack[i - 1]
    BY AfterCall
  <1>3. \A i \in 1 .. N' : i = 1 \/ (i - 1 \in 1 .. N /\ stack'[i] = stack[i - 1] /\ (i = N' <=> i - 1 = N))
    BY <1>1, <1>2
  <1>4. \A i \in 1 .. N' - 1 :
            \/ i = 1 /\ stack'[i + 1] = stack[1]
            \/ /\ i - 1 \in 1 .. N - 1 /\ stack'[i] = stack[i - 1]
               /\ stack'[i + 1] = stack[(i - 1) + 1]
    BY <1>1, <1>2
  <1>5. Nested'
    <2>1. \A i \in 1 .. N' : stack'[i].fn = "proc" <=> i = N'
      BY <1>1, <1>2, <1>3 DEF IInv, Nested, MayLie
    <2>2. \A i \in 1 .. N' - 1 : stack'[i].fn = "sys_call" => stack'[i + 1] = Proc("run")
      BY <1>2, <1>4 DEF IInv, Nested, MayLie
    <2>3. \A i \in 1 .. N' - 1 : stack'[i].fn = "interrupt" =>
              /\ stack'[i + 1].fn # "interrupt"
              /\ stack'[i + 1].pc \in {"run", "return", "flushed"}
      BY <1>2, <1>4 DEF IInv, Nested, MayLie
    <2>4. QED
      BY <2>1, <2>2, <2>3 DEF Nested
  <1>6. Outer'
    <2>1. SUFFICES ASSUME NEW i \in 1 .. N', Admitted(i)' PROVE OverOneEntry(i)'
      BY DEF Outer
    <2>2. i # 1 /\ i - 1 \in 1 .. N /\ Admitted(i - 1)
      BY <1>2, <1>3, <2>1 DEF Admitted, MayLie
    <2>3. OverOneEntry(i - 1)
      BY <2>2 DEF IInv, Outer
    <2>4. stack'[N'] = stack[N]
      BY <1>1, <1>2
    <2>5. \A j \in i + 1 .. N' : stack'[j] = stack[j - 1] /\ j - 1 \in (i - 1) + 1 .. N
      BY <1>1, <1>2, <2>1
    <2>6. PICK e \in (i - 1) + 1 .. N : stack[e].fn \in Entry
      BY <2>3 DEF OverOneEntry
    <2>7. stack'[e + 1].fn \in Entry /\ e + 1 \in i + 1 .. N'
      BY <1>1, <1>2, <2>1, <2>2, <2>6
    <2>8. ASSUME NEW j \in i + 1 .. N', NEW l \in i + 1 .. N',
                 stack'[j].fn \in Entry, stack'[l].fn \in Entry
          PROVE  j = l
      <3>1. j - 1 = l - 1
        BY <2>3, <2>5, <2>8 DEF OverOneEntry
      <3>2. QED
        BY <1>1, <2>1, <3>1
    <2>9. QED
      BY <2>3, <2>4, <2>7, <2>8 DEF OverOneEntry
  <1>7. Leaves'
    <2>1. SUFFICES ASSUME NEW i \in 1 .. N'
                   PROVE  /\ stack'[i].pc \in {"restart", "unhold", "flushed"} => Base(i)'
                          /\ stack'[i].fn = "handler" => (stack'[i].exit = "restart" <=> Base(i)')
                          /\ stack'[i].pc \in {"unhold", "flushed"} => stack'[N'].pc = "run"
      BY DEF Leaves
    <2>2. Base(i)' <=> Base(i - 1)
      <3>1. \A j \in i + 1 .. N' : stack'[j] = stack[j - 1] /\ j - 1 \in (i - 1) + 1 .. N
        BY <1>1, <1>2
      <3>2. \A j \in (i - 1) + 1 .. N : j + 1 \in i + 1 .. N' /\ stack'[j + 1] = stack[j]
        BY <1>1, <1>2
      <3>3. QED
        BY <3>1, <3>2 DEF Base
    <2>3. stack'[N'] = stack[N]
      BY <1>1, <1>2
    <2>4. CASE i = 1
      <3>1. Base(i)' <=> Base(0)
        BY <2>2, <2>4
      <3>2. QED
        BY <1>2, <2>4, <3>1 DEF MayLie
    <2>5. CASE i # 1
      <3>1. i - 1 \in 1 .. N /\ stack'[i] = stack[i - 1]
        BY <1>3, <2>5
      <3>2. QED
        BY <2>2, <2>3, <3>1 DEF IInv, Leaves
    <2>6. QED
      BY <2>4, <2>5
  <1>8. QED
    BY <1>5, <1>6, <1>7

(* interrupt(), called by a handler or by unhold(), keeps the nesting. *)
LEMMA GotoAndCallNested ==
    ASSUME IInv, NEW pc \in {"return", "flushed"}, NEW i \in Irq, stack[1].fn \in Entry,
           [stack[1] EXCEPT !.pc = pc] \in Frame, GotoAndCall(pc, Interrupt("test", i)),
           pc = "flushed" => Base(1) /\ stack[N].pc = "run"
    PROVE  Nested' /\ Leaves' /\ Outer'
  <1> DEFINE f == Interrupt("test", i)
  <1>1. f \in Frame /\ f.fn = "interrupt" /\ f.pc = "test"
    BY InFrame DEF Interrupt
  <1> HIDE DEF f
  <1>2. /\ N \in Nat /\ N > 0 /\ N' = N + 1 /\ stack'[1] = f
        /\ stack'[2].fn = stack[1].fn /\ stack'[2].pc = pc
        /\ \A j \in 2 .. N : stack'[j + 1] = stack[j]
        /\ \A j \in 3 .. N' : stack'[j] = stack[j - 1]
    BY <1>1, Before, AfterGotoAndCall DEF f
  <1>3. \A j \in 1 .. N : stack'[j + 1].fn = stack[j].fn
    <2>1. \A j \in 1 .. N : j = 1 \/ j \in 2 .. N
      BY <1>2
    <2>2. stack'[1 + 1].fn = stack[1].fn
      BY <1>2
    <2>3. QED
      BY <1>2, <2>1, <2>2
  <1>4. \A j \in 1 .. N' : \/ j = 1
                          \/ j = 2
                          \/ /\ j - 1 \in 2 .. N /\ stack'[j] = stack[j - 1]
                             /\ (j = N' <=> j - 1 = N)
    BY <1>2
  <1>5. \A j \in 1 .. N' - 1 :
            \/ j = 1 /\ stack'[j + 1] = stack'[2]
            \/ j = 2 /\ N > 1 /\ stack'[j + 1] = stack[2]
            \/ /\ j - 1 \in 2 .. N - 1 /\ stack'[j] = stack[j - 1]
               /\ stack'[j + 1] = stack[(j - 1) + 1]
    BY <1>2
  <1>6. N > 1
    BY <1>2 DEF IInv, Nested, Entry
  <1>7. stack[1 + 1] = stack[2] /\ 1 \in 1 .. N - 1
    BY <1>2, <1>6
  <1>8. Nested'
    <2>1. \A j \in 1 .. N' : stack'[j].fn = "proc" <=> j = N'
      BY <1>1, <1>2, <1>4, <1>6 DEF IInv, Nested, Entry
    <2>2. \A j \in 1 .. N' - 1 : stack'[j].fn = "sys_call" => stack'[j + 1] = Proc("run")
      BY <1>1, <1>2, <1>5, <1>7 DEF IInv, Nested
    <2>3. \A j \in 1 .. N' - 1 : stack'[j].fn = "interrupt" =>
              /\ stack'[j + 1].fn # "interrupt"
              /\ stack'[j + 1].pc \in {"run", "return", "flushed"}
      BY <1>1, <1>2, <1>5 DEF IInv, Nested, Entry
    <2>4. QED
      BY <2>1, <2>2, <2>3 DEF Nested
  <1>9. Outer'
    <2>1. SUFFICES ASSUME NEW j \in 1 .. N', Admitted(j)' PROVE OverOneEntry(j)'
      BY DEF Outer
    <2>2. j # 1 /\ j # 2
      BY <1>1, <1>2, <2>1 DEF Admitted, Entry
    <2>3. j - 1 \in 2 .. N /\ Admitted(j - 1)
      BY <1>4, <2>1, <2>2 DEF Admitted
    <2>4. OverOneEntry(j - 1)
      BY <1>2, <2>3 DEF IInv, Outer
    <2>5. stack'[N'] = stack[N]
      BY <1>2, <1>6
    <2>6. \A l \in j + 1 .. N' : stack'[l] = stack[l - 1] /\ l - 1 \in (j - 1) + 1 .. N
      BY <1>2, <2>2
    <2>7. PICK e \in (j - 1) + 1 .. N : stack[e].fn \in Entry
      BY <2>4 DEF OverOneEntry
    <2>8. stack'[e + 1].fn \in Entry /\ e + 1 \in j + 1 .. N'
      BY <1>2, <2>3, <2>7
    <2>9. ASSUME NEW l \in j + 1 .. N', NEW m \in j + 1 .. N',
                 stack'[l].fn \in Entry, stack'[m].fn \in Entry
          PROVE  l = m
      <3>1. l - 1 = m - 1
        BY <2>4, <2>6, <2>9 DEF OverOneEntry
      <3>2. QED
        BY <1>2, <2>2, <3>1
    <2>10. QED
      BY <2>4, <2>5, <2>8, <2>9 DEF OverOneEntry
  <1>10. Leaves'
    <2>1. SUFFICES ASSUME NEW j \in 1 .. N'
                   PROVE  /\ stack'[j].pc \in {"restart", "unhold", "flushed"} => Base(j)'
                          /\ stack'[j].fn = "handler" => (stack'[j].exit = "restart" <=> Base(j)')
                          /\ stack'[j].pc \in {"unhold", "flushed"} => stack'[N'].pc = "run"
      BY DEF Leaves
    <2>2. stack'[N'] = stack[N]
      BY <1>2, <1>6
    <2>3. CASE j = 1
      BY <1>1, <1>2, <2>3
    <2>4. CASE j # 1
      <3>1. j - 1 \in 1 .. N
        BY <1>2, <2>4
      <3>2. Base(j)' <=> Base(j - 1)
        <4>1. \A l \in j + 1 .. N' : stack'[l] = stack[l - 1] /\ l - 1 \in (j - 1) + 1 .. N
          BY <1>2, <2>4
        <4>2. \A l \in (j - 1) + 1 .. N : l + 1 \in j + 1 .. N' /\ stack'[l + 1] = stack[l]
          BY <1>2, <3>1
        <4>3. QED
          BY <4>1, <4>2 DEF Base
      <3>3. /\ stack[j - 1].pc \in {"restart", "unhold", "flushed"} => Base(j - 1)
            /\ stack[j - 1].fn = "handler" => (stack[j - 1].exit = "restart" <=> Base(j - 1))
            /\ stack[j - 1].pc \in {"unhold", "flushed"} => stack[N].pc = "run"
        BY <3>1 DEF IInv, Leaves
      <3>4. CASE j = 2
        <4>1. stack[1].fn = "handler" => stack'[2].exit = stack[1].exit
          BY <1>1, AfterGotoAndCall DEF f
        <4>2. j - 1 = 1
          BY <3>4
        <4>3. QED
          BY <1>2, <2>2, <3>2, <3>3, <3>4, <4>1, <4>2
      <3>5. CASE j # 2
        <4>1. stack'[j] = stack[j - 1]
          BY <1>4, <2>4, <3>5
        <4>2. QED
          BY <2>2, <3>2, <3>3, <4>1
      <3>6. QED
        BY <3>4, <3>5
    <2>5. QED
      BY <2>3, <2>4
  <1>11. QED
    BY <1>8, <1>9, <1>10

(* _s_call: the trap enters the kernel from a process that runs, so nothing was nested. *)
LEMMA EnterSysCallInv ==
    IInv /\ EnterSysCall => IInv'
  <1> SUFFICES ASSUME IInv, EnterSysCall PROVE IInv'
    OBVIOUS
  <1>1. /\ stack \in Seq(Frame) /\ stack # <<>> /\ N \in Nat /\ N > 0
        /\ stack[1] \in Frame /\ Top = stack[1]
    BY Before
  <1>2. stack[1] = Proc("run")
    BY <1>1, Frames DEF EnterSysCall, At
  <1>3. Call(SysCall("switch")) /\ SysCall("switch") \in Frame /\ MayLie(SysCall("switch"), stack[1])
        /\ SysCall("switch").fn = "sys_call" /\ SysCall("switch").pc = "switch"
    BY <1>1, <1>2, InFrame, Frames DEF EnterSysCall, MayLie, SysCall, Handler, Interrupt
  <1>4. /\ stack' \in Seq(Frame) /\ stack' # <<>> /\ N' = N + 1
        /\ stack'[1].fn = "sys_call" /\ stack'[1].pc = "switch"
        /\ \A j \in 1 .. N : stack'[j + 1] = stack[j]
        /\ \A j \in 2 .. N' : stack'[j] = stack[j - 1]
        /\ Cardinality(Where(stack', Entry)) = Cardinality(Where(stack, Entry)) + 1
        /\ Cardinality(Where(stack', {"handler"})) = Cardinality(Where(stack, {"handler"})) + 0
    BY <1>3, AfterCall DEF Entry
  <1>5. \A j : Calling(stack', j) <=> Calling(stack, j)
    BY <1>3, AfterCall DEF Interrupt
  <1>6. Types'
    BY <1>1, <1>4 DEF EnterSysCall, IInv, Types
  <1>7. Nested' /\ Leaves' /\ Outer'
    BY <1>3, CallNested
  <1>8. enabled = TRUE
    BY <1>1, <1>2 DEF EnterSysCall, IInv, Types, Masking, Leaving, Exits, Proc
  <1>9. \A j \in 1 .. N' : j = 1 \/ (j - 1 \in 1 .. N /\ stack'[j] = stack[j - 1])
    BY <1>1, <1>4
  <1>10. Masking'
    <2>1. \A j \in 1 .. N : stack[j].pc \notin Leaving
      BY <1>8 DEF IInv, Masking, Leaving, Exits
    <2>2. enabled' = TRUE
      BY <1>8 DEF EnterSysCall
    <2>3. QED
      BY <1>4, <1>9, <2>1, <2>2 DEF Masking, Leaving, Exits
  <1>11. Counts'
    <2>1. /\ Cardinality(Where(stack, Entry)) \in Nat
          /\ Cardinality(Where(stack, {"handler"})) \in Nat
      BY <1>1, WhereFinite
    <2>2. irqs \in Nat
      BY IrqAssumption DEF IInv, Types
    <2>3. /\ k_reenter = Cardinality(Where(stack, Entry)) - 1
          /\ Cardinality(Where(stack, {"handler"})) <= irqs
      BY DEF IInv, Counts
    <2>4. k_reenter' = k_reenter + 1 /\ irqs' = irqs
      BY DEF EnterSysCall
    <2>5. /\ Cardinality(Where(stack', Entry)) = Cardinality(Where(stack, Entry)) + 1
          /\ Cardinality(Where(stack', {"handler"})) = Cardinality(Where(stack, {"handler"})) + 0
      BY <1>4
    <2>6. QED
      BY <2>1, <2>2, <2>3, <2>4, <2>5 DEF Counts
  <1>12. Flag'
    <2>1. \A j \in 1 .. N : j + 1 \in 1 .. N' /\ stack'[j + 1] = stack[j]
      BY <1>1, <1>4
    <2>2. (\E j \in 1 .. N' : stack'[j].pc = "switch" /\ stack'[j].fn # "sys_call")
          <=> \E j \in 1 .. N : stack[j].pc = "switch" /\ stack[j].fn # "sys_call"
      <3> DEFINE P(g) == g.pc = "switch" /\ g.fn # "sys_call"
      <3>1. ~P(stack'[1])
        BY <1>4
      <3> HIDE DEF P
      <3>2. \A j \in 1 .. N' : P(stack'[j]) => \E i \in 1 .. N : P(stack[i])
        BY <1>9, <3>1
      <3>3. \A i \in 1 .. N : P(stack[i]) => \E j \in 1 .. N' : P(stack'[j])
        BY <2>1
      <3> QED BY <3>2, <3>3, Zenon DEF P
    <2>3. QED
      BY <2>2 DEF EnterSysCall, IInv, Flag
  <1>13. Queue'
    BY DEF EnterSysCall, IInv, Queue, Elems
  <1>14. NeverForgotten'
    <2>1. \A j \in raised : j \in Elems(held) \/ Calling(stack, j)
      BY DEF IInv, NeverForgotten, Calling
    <2>2. \A j \in raised' : j \in Elems(held') \/ Calling(stack', j)
      BY <1>5, <2>1 DEF EnterSysCall
    <2>3. QED
      BY <2>2 DEF NeverForgotten, Calling
  <1>15. QED
    BY <1>6, <1>7, <1>10, <1>11, <1>12, <1>13, <1>14 DEF IInv

(* A task may call interrupt() itself: it enters no kernel level. *)
LEMMA TaskInterruptInv ==
    ASSUME IInv, NEW i \in Irq, TaskInterrupt(i)
    PROVE  IInv'
  <1>1. /\ stack \in Seq(Frame) /\ stack # <<>> /\ N \in Nat /\ N > 0
        /\ stack[1] \in Frame /\ Top = stack[1]
    BY Before
  <1>2. stack[1] = Proc("run") /\ stack[1].fn = "proc" /\ stack[1].pc = "run"
    BY <1>1, Frames DEF TaskInterrupt, At, Proc
  <1>3. Call(Interrupt("test", i)) /\ Interrupt("test", i) \in Frame /\ MayLie(Interrupt("test", i), stack[1])
        /\ Interrupt("test", i).fn = "interrupt" /\ Interrupt("test", i).pc = "test"
    BY <1>1, <1>2, InFrame, Frames DEF TaskInterrupt, MayLie, SysCall, Handler, Interrupt
  <1>4. /\ stack' \in Seq(Frame) /\ stack' # <<>> /\ N' = N + 1
        /\ stack'[1].fn = "interrupt" /\ stack'[1].pc = "test"
        /\ \A j \in 1 .. N : stack'[j + 1] = stack[j]
        /\ \A j \in 2 .. N' : stack'[j] = stack[j - 1]
        /\ Cardinality(Where(stack', Entry)) = Cardinality(Where(stack, Entry)) + 0
        /\ Cardinality(Where(stack', {"handler"})) = Cardinality(Where(stack, {"handler"})) + 0
    BY <1>3, AfterCall DEF Entry
  <1>5. \A j : Calling(stack', j) <=> Calling(stack, j) \/ j = i
    BY <1>3, AfterCall DEF Interrupt
  <1>6. Types'
    BY <1>1, <1>4, IrqAssumption DEF TaskInterrupt, IInv, Types
  <1>7. Nested' /\ Leaves' /\ Outer'
    BY <1>3, CallNested
  <1>8. enabled = TRUE
    BY <1>1, <1>2 DEF TaskInterrupt, IInv, Types, Masking, Leaving, Exits, Proc
  <1>9. \A j \in 1 .. N' : j = 1 \/ (j - 1 \in 1 .. N /\ stack'[j] = stack[j - 1])
    BY <1>1, <1>4
  <1>10. Masking'
    <2>1. \A j \in 1 .. N : stack[j].pc \notin Leaving
      BY <1>8 DEF IInv, Masking, Leaving, Exits
    <2>2. enabled' = TRUE
      BY <1>8 DEF TaskInterrupt
    <2>3. QED
      BY <1>4, <1>9, <2>1, <2>2 DEF Masking, Leaving, Exits
  <1>11. Counts'
    <2>1. /\ Cardinality(Where(stack, Entry)) \in Nat
          /\ Cardinality(Where(stack, {"handler"})) \in Nat
      BY <1>1, WhereFinite
    <2>2. irqs \in Nat
      BY IrqAssumption DEF IInv, Types
    <2>3. /\ k_reenter = Cardinality(Where(stack, Entry)) - 1
          /\ Cardinality(Where(stack, {"handler"})) <= irqs
      BY DEF IInv, Counts
    <2>4. k_reenter' = k_reenter /\ irqs' = irqs + 1
      BY DEF TaskInterrupt
    <2>5. /\ Cardinality(Where(stack', Entry)) = Cardinality(Where(stack, Entry)) + 0
          /\ Cardinality(Where(stack', {"handler"})) = Cardinality(Where(stack, {"handler"})) + 0
      BY <1>4
    <2>6. QED
      BY <2>1, <2>2, <2>3, <2>4, <2>5 DEF Counts
  <1>12. Flag'
    <2>1. \A j \in 1 .. N : j + 1 \in 1 .. N' /\ stack'[j + 1] = stack[j]
      BY <1>1, <1>4
    <2>2. (\E j \in 1 .. N' : stack'[j].pc = "switch" /\ stack'[j].fn # "sys_call")
          <=> \E j \in 1 .. N : stack[j].pc = "switch" /\ stack[j].fn # "sys_call"
      <3> DEFINE P(g) == g.pc = "switch" /\ g.fn # "sys_call"
      <3>1. ~P(stack'[1])
        BY <1>4
      <3> HIDE DEF P
      <3>2. \A j \in 1 .. N' : P(stack'[j]) => \E k \in 1 .. N : P(stack[k])
        BY <1>9, <3>1
      <3>3. \A k \in 1 .. N : P(stack[k]) => \E j \in 1 .. N' : P(stack'[j])
        BY <2>1
      <3> QED BY <3>2, <3>3, Zenon DEF P
    <2>3. QED
      BY <2>2 DEF TaskInterrupt, IInv, Flag
  <1>13. Queue'
    BY DEF TaskInterrupt, IInv, Queue, Elems
  <1>14. NeverForgotten'
    <2>1. \A j \in raised : j \in Elems(held) \/ Calling(stack, j)
      BY DEF IInv, NeverForgotten, Calling
    <2>2. \A j \in raised' : j \in Elems(held') \/ Calling(stack', j)
      BY <1>5, <2>1 DEF TaskInterrupt
    <2>3. QED
      BY <2>2 DEF NeverForgotten, Calling
  <1>15. QED
    BY <1>6, <1>7, <1>10, <1>11, <1>12, <1>13, <1>14 DEF IInv

(* hwint: an enabled, unmasked line enters the kernel one level deeper. *)
LEMMA HwIntInv ==
    ASSUME IInv, NEW i \in Irq, HwInt(i)
    PROVE  IInv'
  <1>1. /\ stack \in Seq(Frame) /\ stack # <<>> /\ N \in Nat /\ N > 0
        /\ stack[1] \in Frame /\ Top = stack[1]
    BY Before
  <1>2. enabled = TRUE
    BY DEF HwInt, IInv, Types
  <1> DEFINE exit == IF k_reenter + 1 = 0 THEN "restart" ELSE "restart1"
             f == Handler("handle", exit, i)
  <1>3. /\ Call(f) /\ f \in Frame /\ MayLie(f, stack[1])
        /\ f.fn = "handler" /\ f.pc = "handle"
    <2>1. exit \in Exits /\ f.exit = exit /\ f.fn = "handler" /\ f.pc = "handle" /\ f \in Frame
      BY InFrame DEF Exits, Handler
    <2>2. exit = "restart" <=> Base(0)
      <3>1. k_reenter = Cardinality(Where(stack, Entry)) - 1 /\ IsFiniteSet(Where(stack, Entry))
            /\ Cardinality(Where(stack, Entry)) \in Nat
        BY <1>1, WhereFinite DEF IInv, Counts
      <3>2. Where(stack, Entry) = {} <=> Base(0)
        BY <1>1 DEF Where, Base, N
      <3>3. exit = "restart" <=> Cardinality(Where(stack, Entry)) = 0
        BY <3>1
      <3>4. QED
        BY <3>1, <3>2, <3>3, FS_EmptySet
    <2>3. Call(f)
      BY DEF HwInt
    <2>4. QED
      BY <2>1, <2>2, <2>3 DEF MayLie
  <1> HIDE DEF f
  <1>4. /\ stack' \in Seq(Frame) /\ stack' # <<>> /\ N' = N + 1
        /\ stack'[1].fn = "handler" /\ stack'[1].pc = "handle"
        /\ \A j \in 1 .. N : stack'[j + 1] = stack[j]
        /\ \A j \in 2 .. N' : stack'[j] = stack[j - 1]
        /\ Cardinality(Where(stack', Entry)) = Cardinality(Where(stack, Entry)) + 1
        /\ Cardinality(Where(stack', {"handler"})) = Cardinality(Where(stack, {"handler"})) + 1
    BY <1>3, AfterCall DEF Entry
  <1>5. \A j : Calling(stack', j) <=> Calling(stack, j)
    BY <1>3, AfterCall DEF Interrupt
  <1>6. Types'
    BY <1>1, <1>4, IrqAssumption DEF HwInt, IInv, Types
  <1>7. Nested' /\ Leaves' /\ Outer'
    BY <1>3, CallNested
  <1>8. enabled = TRUE
    BY <1>1, <1>2 DEF HwInt, IInv, Types, Masking, Leaving, Exits
  <1>9. \A j \in 1 .. N' : j = 1 \/ (j - 1 \in 1 .. N /\ stack'[j] = stack[j - 1])
    BY <1>1, <1>4
  <1>10. Masking'
    <2>1. \A j \in 1 .. N : stack[j].pc \notin Leaving
      BY <1>8 DEF IInv, Masking, Leaving, Exits
    <2>2. enabled' = TRUE
      BY <1>8 DEF HwInt
    <2>3. QED
      BY <1>4, <1>9, <2>1, <2>2 DEF Masking, Leaving, Exits
  <1>11. Counts'
    <2>1. /\ Cardinality(Where(stack, Entry)) \in Nat
          /\ Cardinality(Where(stack, {"handler"})) \in Nat
      BY <1>1, WhereFinite
    <2>2. irqs \in Nat
      BY IrqAssumption DEF IInv, Types
    <2>3. /\ k_reenter = Cardinality(Where(stack, Entry)) - 1
          /\ Cardinality(Where(stack, {"handler"})) <= irqs
      BY DEF IInv, Counts
    <2>4. k_reenter' = k_reenter + 1 /\ irqs' = irqs + 1
      BY DEF HwInt
    <2>5. /\ Cardinality(Where(stack', Entry)) = Cardinality(Where(stack, Entry)) + 1
          /\ Cardinality(Where(stack', {"handler"})) = Cardinality(Where(stack, {"handler"})) + 1
      BY <1>4
    <2>6. QED
      BY <2>1, <2>2, <2>3, <2>4, <2>5 DEF Counts
  <1>12. Flag'
    <2>1. \A j \in 1 .. N : j + 1 \in 1 .. N' /\ stack'[j + 1] = stack[j]
      BY <1>1, <1>4
    <2>2. (\E j \in 1 .. N' : stack'[j].pc = "switch" /\ stack'[j].fn # "sys_call")
          <=> \E j \in 1 .. N : stack[j].pc = "switch" /\ stack[j].fn # "sys_call"
      <3> DEFINE P(g) == g.pc = "switch" /\ g.fn # "sys_call"
      <3>1. ~P(stack'[1])
        BY <1>4
      <3> HIDE DEF P
      <3>2. \A j \in 1 .. N' : P(stack'[j]) => \E k \in 1 .. N : P(stack[k])
        BY <1>9, <3>1
      <3>3. \A k \in 1 .. N : P(stack[k]) => \E j \in 1 .. N' : P(stack'[j])
        BY <2>1
      <3> QED BY <3>2, <3>3, Zenon DEF P
    <2>3. QED
      BY <2>2 DEF HwInt, IInv, Flag
  <1>13. Queue'
    BY DEF HwInt, IInv, Queue, Elems
  <1>14. NeverForgotten'
    <2>1. \A j \in raised : j \in Elems(held) \/ Calling(stack, j)
      BY DEF IInv, NeverForgotten, Calling
    <2>2. \A j \in raised' : j \in Elems(held') \/ Calling(stack', j)
      BY <1>5, <2>1 DEF HwInt
    <2>3. QED
      BY <2>2 DEF NeverForgotten, Calling
  <1>15. QED
    BY <1>6, <1>7, <1>10, <1>11, <1>12, <1>13, <1>14 DEF IInv

(* A task that reenables its line disturbs no frame and no flag. *)
LEMMA EnableIrqInv ==
    ASSUME IInv, NEW i \in Irq, EnableIrq(i)
    PROVE  IInv'
  BY DEF IInv, EnableIrq, Types, Nested, Leaves, Base, Masking, Leaving, Exits, Counts, Outer, Admitted, OverOneEntry, Flag,
         Queue, NeverForgotten, N

(* unhold() locks again before it looks at the queue once more. *)
LEMMA RelockInv == IInv /\ Relock => IInv'
  <1> SUFFICES ASSUME IInv, Relock PROVE IInv'
    OBVIOUS
  <1>1. stack[1].pc = "flushed" /\ enabled = TRUE
    BY Before DEF Relock, IInv, Types
  <1>2. Masking'
    BY <1>1 DEF Relock, IInv, Masking, Leaving, Exits, N
  <1>3. Types' /\ Nested' /\ Leaves' /\ Counts' /\ Flag'
    BY DEF IInv, Relock, Types, Nested, Leaves, Base, Counts, Flag, N
  <1>4. Outer'
    BY DEF IInv, Relock, Outer, Admitted, OverOneEntry, N
  <1>5. Queue' /\ NeverForgotten'
    BY DEF IInv, Relock, Queue, NeverForgotten
  <1>6. QED
    BY <1>2, <1>3, <1>4, <1>5 DEF IInv

(* sys_call() that is done disables interrupts and goes to the restart of its own entry. *)
LEMMA LeaveSysCallInv == IInv /\ LeaveSysCall => IInv'
  <1> SUFFICES ASSUME IInv, LeaveSysCall PROVE IInv'
    OBVIOUS
  <1>1. /\ stack \in Seq(Frame) /\ stack # <<>> /\ N \in Nat /\ N > 0
        /\ stack[1] \in Frame /\ Top = stack[1]
    BY Before
  <1>2. stack[1].fn = "sys_call" /\ stack[1].pc = "switch"
    BY <1>1 DEF LeaveSysCall, At
  <1>3. Goto("restart") /\ [stack[1] EXCEPT !.pc = "restart"] \in Frame
    BY <1>1, <1>2, StaysFrame DEF LeaveSysCall
  <1>4. /\ stack' \in Seq(Frame) /\ stack' # <<>> /\ N' = N
        /\ stack'[1].fn = "sys_call" /\ stack'[1].pc = "restart"
        /\ \A i \in 2 .. N : stack'[i] = stack[i]
        /\ \A F : Where(stack', F) = Where(stack, F)
        /\ \A i : Calling(stack', i) <=> Calling(stack, i)
    BY <1>2, <1>3, AfterGoto
  <1>5. Types'
    BY <1>4 DEF LeaveSysCall, IInv, Types
  <1>6. Nested' /\ Leaves' /\ Outer'
    <2>1. N > 1 /\ stack[1 + 1] = Proc("run") /\ 1 \in 1 .. N - 1 /\ 1 + 1 \in 1 .. N
      BY <1>1, <1>2 DEF IInv, Nested
    <2>2. N = 1 + 1
      BY <2>1 DEF IInv, Nested, Proc
    <2>3. Base(1)
      BY <2>1, <2>2 DEF Base, Proc, Entry
    <2>4. QED
      BY <1>1, <1>2, <1>3, <2>3, GotoNested
  <1>7. Masking'
    BY <1>1, <1>2, <1>4 DEF LeaveSysCall, IInv, Masking, Leaving, Exits
  <1>8. Counts'
    BY <1>4 DEF LeaveSysCall, IInv, Counts
  <1>9. Flag'
    BY <1>1, <1>2, <1>4 DEF LeaveSysCall, IInv, Flag
  <1>10. NeverForgotten'
    BY <1>4 DEF LeaveSysCall, IInv, NeverForgotten, Calling
  <1>11. QED
    BY <1>5, <1>6, <1>7, <1>8, <1>9, <1>10 DEF IInv, Queue, LeaveSysCall, Elems

(* lock_ready() and the other gateways set switching only while a process runs. *)
LEMMA EnterGatewayInv == IInv /\ EnterGateway => IInv'
  <1> SUFFICES ASSUME IInv, EnterGateway PROVE IInv'
    OBVIOUS
  <1>1. /\ stack \in Seq(Frame) /\ stack # <<>> /\ N \in Nat /\ N > 0
        /\ stack[1] \in Frame /\ Top = stack[1]
    BY Before
  <1>2. stack[1].fn = "proc" /\ stack[1].pc = "run"
    BY <1>1 DEF EnterGateway, At
  <1>3. Goto("switch") /\ [stack[1] EXCEPT !.pc = "switch"] \in Frame
    BY <1>1, <1>2, StaysFrame DEF EnterGateway
  <1>4. /\ stack' \in Seq(Frame) /\ stack' # <<>> /\ N' = N
        /\ stack'[1].fn = "proc" /\ stack'[1].pc = "switch"
        /\ \A i \in 2 .. N : stack'[i] = stack[i]
        /\ \A F : Where(stack', F) = Where(stack, F)
        /\ \A i : Calling(stack', i) <=> Calling(stack, i)
    BY <1>2, <1>3, AfterGoto
  <1>5. Types'
    BY <1>4 DEF EnterGateway, IInv, Types
  <1>6. Nested' /\ Leaves' /\ Outer'
    BY <1>1, <1>2, <1>3, GotoNested DEF IInv, Outer, Admitted
  <1>7. Masking'
    BY <1>1, <1>2, <1>4 DEF EnterGateway, IInv, Masking, Leaving, Exits
  <1>8. Counts'
    BY <1>4 DEF EnterGateway, IInv, Counts
  <1>9. Flag'
    BY <1>1, <1>2, <1>4 DEF EnterGateway, IInv, Flag
  <1>10. NeverForgotten'
    BY <1>4 DEF EnterGateway, IInv, NeverForgotten, Calling
  <1>11. QED
    BY <1>5, <1>6, <1>7, <1>8, <1>9, <1>10 DEF IInv, Queue, EnterGateway, Elems

(* The gateway that set switching is the one that clears it. *)
LEMMA LeaveGatewayInv == IInv /\ LeaveGateway => IInv'
  <1> SUFFICES ASSUME IInv, LeaveGateway PROVE IInv'
    OBVIOUS
  <1>1. /\ stack \in Seq(Frame) /\ stack # <<>> /\ N \in Nat /\ N > 0
        /\ stack[1] \in Frame /\ Top = stack[1]
    BY Before
  <1>2. stack[1].fn = "proc" /\ stack[1].pc = "switch"
    BY <1>1 DEF LeaveGateway, At
  <1>3. Goto("run") /\ [stack[1] EXCEPT !.pc = "run"] \in Frame
    BY <1>1, <1>2, StaysFrame DEF LeaveGateway
  <1>4. /\ stack' \in Seq(Frame) /\ stack' # <<>> /\ N' = N
        /\ stack'[1].fn = "proc" /\ stack'[1].pc = "run"
        /\ \A i \in 2 .. N : stack'[i] = stack[i]
        /\ \A F : Where(stack', F) = Where(stack, F)
        /\ \A i : Calling(stack', i) <=> Calling(stack, i)
    BY <1>2, <1>3, AfterGoto
  <1>5. Types'
    BY <1>4 DEF LeaveGateway, IInv, Types
  <1>6. Nested' /\ Leaves' /\ Outer'
    BY <1>1, <1>2, <1>3, GotoNested DEF IInv, Outer, Admitted
  <1>7. Masking'
    BY <1>1, <1>2, <1>4 DEF LeaveGateway, IInv, Masking, Leaving, Exits
  <1>8. Counts'
    BY <1>4 DEF LeaveGateway, IInv, Counts
  <1>9. Flag'
    <2>1. N = 1
      BY <1>1, <1>2 DEF IInv, Nested
    <2>2. QED
      BY <1>4, <2>1 DEF LeaveGateway, Flag
  <1>10. NeverForgotten'
    BY <1>4 DEF LeaveGateway, IInv, NeverForgotten, Calling
  <1>11. QED
    BY <1>5, <1>6, <1>7, <1>8, <1>9, <1>10 DEF IInv, Queue, LeaveGateway, Elems

(* A handler that is done locks and goes to restart. *)
LEMMA LeaveHandlerInv == IInv /\ LeaveHandler => IInv'
  <1> SUFFICES ASSUME IInv, LeaveHandler PROVE IInv'
    OBVIOUS
  <1>1. /\ stack \in Seq(Frame) /\ stack # <<>> /\ N \in Nat /\ N > 0
        /\ stack[1] \in Frame /\ Top = stack[1]
    BY Before
  <1>2. stack[1].fn = "handler" /\ stack[1].pc = "return"
    BY <1>1 DEF LeaveHandler, At
  <1>3. Goto(stack[1].exit) /\ [stack[1] EXCEPT !.pc = stack[1].exit] \in Frame
        /\ stack[1].exit \in Exits
    BY <1>1, <1>2, Frames, StaysFrame DEF LeaveHandler
  <1>4. /\ stack' \in Seq(Frame) /\ stack' # <<>> /\ N' = N
        /\ stack'[1].fn = "handler" /\ stack'[1].pc = stack[1].exit
        /\ \A i \in 2 .. N : stack'[i] = stack[i]
        /\ \A F : Where(stack', F) = Where(stack, F)
        /\ \A i : Calling(stack', i) <=> Calling(stack, i)
    BY <1>2, <1>3, AfterGoto
  <1>5. Types'
    BY <1>4 DEF LeaveHandler, IInv, Types
  <1>6. Nested' /\ Leaves' /\ Outer'
    <2>1. stack[1].exit \in {"restart", "unhold", "flushed"} => Base(1)
      BY <1>1, <1>2, <1>3 DEF IInv, Leaves, Exits
    <2>2. QED
      BY <1>1, <1>2, <1>3, <2>1, GotoNested DEF Exits
  <1>7. Masking'
    BY <1>1, <1>2, <1>3, <1>4 DEF LeaveHandler, IInv, Masking, Leaving, Exits
  <1>8. Counts'
    BY <1>4 DEF LeaveHandler, IInv, Counts
  <1>9. Flag'
    BY <1>1, <1>2, <1>3, <1>4 DEF LeaveHandler, IInv, Flag, Exits
  <1>10. NeverForgotten'
    BY <1>4 DEF LeaveHandler, IInv, NeverForgotten, Calling
  <1>11. QED
    BY <1>5, <1>6, <1>7, <1>8, <1>9, <1>10 DEF IInv, Queue, LeaveHandler, Elems

(* interrupt() sets switching only when it found it clear at the outermost level. *)
LEMMA SetSwitchingInv == IInv /\ SetSwitching => IInv'
  <1> SUFFICES ASSUME IInv, SetSwitching PROVE IInv'
    OBVIOUS
  <1>1. /\ stack \in Seq(Frame) /\ stack # <<>> /\ N \in Nat /\ N > 0
        /\ stack[1] \in Frame /\ Top = stack[1]
    BY Before
  <1>2. stack[1].fn = "interrupt" /\ stack[1].pc = "set"
    BY <1>1 DEF SetSwitching, At
  <1>3. Goto("switch") /\ [stack[1] EXCEPT !.pc = "switch"] \in Frame
    BY <1>1, <1>2, StaysFrame DEF SetSwitching
  <1>4. /\ stack' \in Seq(Frame) /\ stack' # <<>> /\ N' = N
        /\ stack'[1].fn = "interrupt" /\ stack'[1].pc = "switch"
        /\ \A i \in 2 .. N : stack'[i] = stack[i]
        /\ \A F : Where(stack', F) = Where(stack, F)
        /\ \A i : Calling(stack', i) <=> Calling(stack, i)
    BY <1>2, <1>3, AfterGoto
  <1>5. Types'
    BY <1>4 DEF SetSwitching, IInv, Types
  <1>6. Nested' /\ Leaves' /\ Outer'
    BY <1>1, <1>2, <1>3, GotoNested DEF IInv, Outer, Admitted
  <1>7. Masking'
    BY <1>1, <1>2, <1>4 DEF SetSwitching, IInv, Masking, Leaving, Exits
  <1>8. Counts'
    BY <1>4 DEF SetSwitching, IInv, Counts
  <1>9. Flag'
    BY <1>1, <1>2, <1>4 DEF SetSwitching, IInv, Flag
  <1>10. NeverForgotten'
    BY <1>4 DEF SetSwitching, IInv, NeverForgotten, Calling
  <1>11. QED
    BY <1>5, <1>6, <1>7, <1>8, <1>9, <1>10 DEF IInv, Queue, SetSwitching, Elems

(* interrupt() that finds switching code underneath queues the task, once. *)
LEMMA HoldInv == IInv /\ Hold => IInv'
  <1> SUFFICES ASSUME IInv, Hold PROVE IInv'
    OBVIOUS
  <1>1. /\ stack \in Seq(Frame) /\ stack # <<>> /\ N \in Nat /\ N > 0
        /\ stack[1] \in Frame /\ Top = stack[1]
    BY Before
  <1>2. stack[1].fn = "interrupt" /\ stack[1].pc = "hold"
    BY <1>1, Frames DEF Hold, At, Entry
  <1>3. N > 1 /\ Return
    BY <1>1, <1>2 DEF Hold, IInv, Nested, Entry
  <1>4. /\ stack' \in Seq(Frame) /\ stack' # <<>> /\ N' = N - 1
        /\ \A i \in 1 .. N' : stack'[i] = stack[i + 1]
        /\ \A i \in 2 .. N : stack'[i - 1] = stack[i]
        /\ \A F : Cardinality(Where(stack, F))
                     = Cardinality(Where(stack', F)) + (IF stack[1].fn \in F THEN 1 ELSE 0)
        /\ \A i : Calling(stack, i)
                    <=> Calling(stack', i) \/ (stack[1].fn = "interrupt" /\ stack[1].irq = i)
    BY <1>3, AfterReturn
  <1>5. Types'
    <2>1. stack[1].irq \in Irq
      BY <1>1, <1>2, Frames
    <2>2. held' \in Seq(Irq) /\ p_int_held' \subseteq Irq
      BY <1>1, <2>1, AppendProperties DEF Hold, IInv, Types
    <2>3. QED
      BY <1>4, <2>2 DEF Hold, IInv, Types
  <1>6. Nested' /\ Leaves' /\ Outer'
    BY <1>3, ReturnNested
  <1>7. Masking'
    <2>1. \A i \in 1 .. N' : i + 1 \in 1 .. N /\ i + 1 # 1
      BY <1>1, <1>4
    <2>2. \A i \in 1 .. N' : stack'[i].pc \notin Leaving
      BY <1>4, <2>1 DEF IInv, Masking, Leaving, Exits
    <2>3. enabled' = TRUE
      BY <1>2 DEF Hold, IInv, Types, Masking, Leaving, Exits
    <2>4. 1 \in 1 .. N'
      BY <1>1, <1>3, <1>4
    <2>5. QED
      BY <2>2, <2>3, <2>4 DEF Masking, Leaving, Exits
  <1>8. Counts'
    <2>1. /\ Cardinality(Where(stack, Entry)) = Cardinality(Where(stack', Entry)) + 0
          /\ Cardinality(Where(stack', {"handler"})) <= Cardinality(Where(stack, {"handler"}))
      <3>1. Cardinality(Where(stack', {"handler"})) \in Nat
        BY <1>4, WhereFinite
      <3>2. QED
        BY <1>2, <1>4, <3>1 DEF Entry
    <2>2. /\ Cardinality(Where(stack', Entry)) \in Nat
          /\ Cardinality(Where(stack, {"handler"})) \in Nat
          /\ Cardinality(Where(stack', {"handler"})) \in Nat
      BY <1>1, <1>4, WhereFinite
    <2>3. irqs \in Nat
      BY IrqAssumption DEF IInv, Types
    <2>4. QED
      BY <2>1, <2>2, <2>3 DEF Hold, IInv, Counts
  <1>9. Flag'
    <2>1. \A i \in 1 .. N' : i + 1 \in 1 .. N /\ i + 1 # 1
      BY <1>1, <1>4
    <2>2. \A i \in 1 .. N : i # 1 => i - 1 \in 1 .. N' /\ stack'[i - 1] = stack[i]
      BY <1>1, <1>4
    <2>3. (\E i \in 1 .. N' : stack'[i].pc = "switch" /\ stack'[i].fn # "sys_call")
          <=> \E i \in 1 .. N : i # 1 /\ stack[i].pc = "switch" /\ stack[i].fn # "sys_call"
      BY <1>4, <2>1, <2>2
    <2>4. QED
      BY <1>2, <2>3 DEF Hold, IInv, Flag, Entry
  <1>10. Queue'
    <2>1. CASE stack[1].irq \in p_int_held
      <3>1. held' = held /\ p_int_held' = p_int_held
        BY <1>1, <2>1 DEF Hold
      <3>2. QED
        BY <3>1 DEF IInv, Queue, Elems
    <2>2. CASE stack[1].irq \notin p_int_held
      <3>1. /\ held' = Append(held, stack[1].irq)
            /\ p_int_held' = p_int_held \cup {stack[1].irq}
        BY <1>1, <2>2 DEF Hold
      <3>2. stack[1].irq \in Irq /\ held \in Seq(Irq)
        BY <1>1, <1>2, Frames DEF IInv, Types
      <3>3. /\ Len(held) \in Nat /\ Len(held') = Len(held) + 1
            /\ \A i \in 1 .. Len(held) : held'[i] = held[i]
            /\ held'[Len(held) + 1] = stack[1].irq
        BY <3>1, <3>2, AppendProperties
      <3>4. \A i \in 1 .. Len(held') : i \in 1 .. Len(held) \/ i = Len(held) + 1
        BY <3>3
      <3>5. Elems(held') = p_int_held'
        BY <3>1, <3>3, <3>4 DEF IInv, Queue, Elems
      <3>6. \A i \in 1 .. Len(held) : held[i] # stack[1].irq
        BY <2>2 DEF IInv, Queue, Elems
      <3>7. QED
        BY <3>3, <3>4, <3>5, <3>6 DEF IInv, Queue
    <2>3. QED
      BY <2>1, <2>2
  <1>11. NeverForgotten'
    <2>1. \A i \in raised : i \in p_int_held \/ Calling(stack, i)
      BY DEF IInv, Queue, NeverForgotten, Calling
    <2>2. \A i \in raised' : i \in p_int_held' \/ Calling(stack', i)
      BY <1>1, <1>4, <2>1 DEF Hold
    <2>3. QED
      BY <1>10, <2>2 DEF Queue, NeverForgotten, Calling
  <1>12. QED
    BY <1>5, <1>6, <1>7, <1>8, <1>9, <1>10, <1>11 DEF IInv

(* interrupt() that switches clears the flag it set and has delivered its interrupt. *)
LEMMA InformInv == IInv /\ Inform => IInv'
  <1> SUFFICES ASSUME IInv, Inform PROVE IInv'
    OBVIOUS
  <1>1. /\ stack \in Seq(Frame) /\ stack # <<>> /\ N \in Nat /\ N > 0
        /\ stack[1] \in Frame /\ Top = stack[1]
    BY Before
  <1>2. stack[1].fn = "interrupt" /\ stack[1].pc = "switch"
    BY <1>1, Frames DEF Inform, At, Entry
  <1>3. N > 1 /\ Return
    BY <1>1, <1>2 DEF Inform, IInv, Nested, Entry
  <1>4. /\ stack' \in Seq(Frame) /\ stack' # <<>> /\ N' = N - 1
        /\ \A i \in 1 .. N' : stack'[i] = stack[i + 1]
        /\ \A i \in 2 .. N : stack'[i - 1] = stack[i]
        /\ \A F : Cardinality(Where(stack, F))
                     = Cardinality(Where(stack', F)) + (IF stack[1].fn \in F THEN 1 ELSE 0)
        /\ \A i : Calling(stack, i)
                    <=> Calling(stack', i) \/ (stack[1].fn = "interrupt" /\ stack[1].irq = i)
    BY <1>3, AfterReturn
  <1>5. Types'
    BY <1>1, <1>2, <1>4 DEF Inform, IInv, Types
  <1>6. Nested' /\ Leaves' /\ Outer'
    BY <1>3, ReturnNested
  <1>7. Masking'
    <2>1. \A i \in 1 .. N' : i + 1 \in 1 .. N /\ i + 1 # 1
      BY <1>1, <1>4
    <2>2. \A i \in 1 .. N' : stack'[i].pc \notin Leaving
      BY <1>4, <2>1 DEF IInv, Masking, Leaving, Exits
    <2>3. enabled' = TRUE
      BY <1>2 DEF Inform, IInv, Types, Masking, Leaving, Exits
    <2>4. 1 \in 1 .. N'
      BY <1>1, <1>3, <1>4
    <2>5. QED
      BY <2>2, <2>3, <2>4 DEF Masking, Leaving, Exits
  <1>8. Counts'
    <2>1. /\ Cardinality(Where(stack, Entry)) = Cardinality(Where(stack', Entry)) + 0
          /\ Cardinality(Where(stack', {"handler"})) <= Cardinality(Where(stack, {"handler"}))
      <3>1. Cardinality(Where(stack', {"handler"})) \in Nat
        BY <1>4, WhereFinite
      <3>2. QED
        BY <1>2, <1>4, <3>1 DEF Entry
    <2>2. /\ Cardinality(Where(stack', Entry)) \in Nat
          /\ Cardinality(Where(stack, {"handler"})) \in Nat
          /\ Cardinality(Where(stack', {"handler"})) \in Nat
      BY <1>1, <1>4, WhereFinite
    <2>3. irqs \in Nat
      BY IrqAssumption DEF IInv, Types
    <2>4. QED
      BY <2>1, <2>2, <2>3 DEF Inform, IInv, Counts
  <1>9. Flag'
    <2>1. \A i \in 1 .. N' : i + 1 \in 1 .. N /\ i + 1 # 1
      BY <1>1, <1>4
    <2>2. \A i \in 1 .. N : i # 1 => i - 1 \in 1 .. N' /\ stack'[i - 1] = stack[i]
      BY <1>1, <1>4
    <2>3. (\E i \in 1 .. N' : stack'[i].pc = "switch" /\ stack'[i].fn # "sys_call")
          <=> \E i \in 1 .. N : i # 1 /\ stack[i].pc = "switch" /\ stack[i].fn # "sys_call"
      BY <1>4, <2>1, <2>2
    <2>4. 1 \in 1 .. N /\ Admitted(1)
      BY <1>1, <1>2 DEF Admitted
    <2>5. \A i \in 1 .. N : stack[i].pc = "switch" => 1 = i
      BY <2>4, AdmittedAlone DEF IInv
    <2>6. QED
      BY <2>3, <2>5 DEF Inform, Flag
  <1>10. Queue'
    BY DEF Inform, IInv, Queue, Elems
  <1>11. NeverForgotten'
    <2>1. \A i \in raised : i \in Elems(held) \/ Calling(stack, i)
      BY DEF IInv, NeverForgotten, Calling
    <2>2. \A i \in raised' : i \in Elems(held') \/ Calling(stack', i)
      BY <1>1, <1>2, <1>4, <2>1 DEF Inform, Entry
    <2>3. QED
      BY <2>2 DEF NeverForgotten, Calling
  <1>12. QED
    BY <1>5, <1>6, <1>7, <1>8, <1>9, <1>10, <1>11 DEF IInv

(* restart1: a nested entry returns to the one it interrupted. *)
LEMMA Restart1Inv == IInv /\ Restart1 => IInv'
  <1> SUFFICES ASSUME IInv, Restart1 PROVE IInv'
    OBVIOUS
  <1>1. /\ stack \in Seq(Frame) /\ stack # <<>> /\ N \in Nat /\ N > 0
        /\ stack[1] \in Frame /\ Top = stack[1]
    BY Before
  <1>2. stack[1].fn \in Entry /\ stack[1].pc = "restart1"
    BY <1>1, Frames DEF Restart1, At, Entry
  <1>3. N > 1 /\ Return
    BY <1>1, <1>2 DEF Restart1, IInv, Nested, Entry
  <1>4. /\ stack' \in Seq(Frame) /\ stack' # <<>> /\ N' = N - 1
        /\ \A i \in 1 .. N' : stack'[i] = stack[i + 1]
        /\ \A i \in 2 .. N : stack'[i - 1] = stack[i]
        /\ \A F : Cardinality(Where(stack, F))
                     = Cardinality(Where(stack', F)) + (IF stack[1].fn \in F THEN 1 ELSE 0)
        /\ \A i : Calling(stack, i)
                    <=> Calling(stack', i) \/ (stack[1].fn = "interrupt" /\ stack[1].irq = i)
    BY <1>3, AfterReturn
  <1>5. Types'
    BY <1>1, <1>2, <1>4 DEF Restart1, IInv, Types
  <1>6. Nested' /\ Leaves' /\ Outer'
    BY <1>3, ReturnNested
  <1>7. Masking'
    <2>1. \A i \in 1 .. N' : i + 1 \in 1 .. N /\ i + 1 # 1
      BY <1>1, <1>4
    <2>2. \A i \in 1 .. N' : stack'[i].pc \notin Leaving
      BY <1>4, <2>1 DEF IInv, Masking, Leaving, Exits
    <2>3. enabled' = TRUE
      BY <1>2 DEF Restart1, IInv, Types, Masking, Leaving, Exits
    <2>4. 1 \in 1 .. N'
      BY <1>1, <1>3, <1>4
    <2>5. QED
      BY <2>2, <2>3, <2>4 DEF Masking, Leaving, Exits
  <1>8. Counts'
    <2>1. /\ Cardinality(Where(stack, Entry)) = Cardinality(Where(stack', Entry)) + 1
          /\ Cardinality(Where(stack', {"handler"})) <= Cardinality(Where(stack, {"handler"}))
      <3>1. Cardinality(Where(stack', {"handler"})) \in Nat
        BY <1>4, WhereFinite
      <3>2. QED
        BY <1>2, <1>4, <3>1 DEF Entry
    <2>2. /\ Cardinality(Where(stack', Entry)) \in Nat
          /\ Cardinality(Where(stack, {"handler"})) \in Nat
          /\ Cardinality(Where(stack', {"handler"})) \in Nat
      BY <1>1, <1>4, WhereFinite
    <2>3. irqs \in Nat
      BY IrqAssumption DEF IInv, Types
    <2>4. QED
      BY <2>1, <2>2, <2>3 DEF Restart1, IInv, Counts
  <1>9. Flag'
    <2>1. \A i \in 1 .. N' : i + 1 \in 1 .. N /\ i + 1 # 1
      BY <1>1, <1>4
    <2>2. \A i \in 1 .. N : i # 1 => i - 1 \in 1 .. N' /\ stack'[i - 1] = stack[i]
      BY <1>1, <1>4
    <2>3. (\E i \in 1 .. N' : stack'[i].pc = "switch" /\ stack'[i].fn # "sys_call")
          <=> \E i \in 1 .. N : i # 1 /\ stack[i].pc = "switch" /\ stack[i].fn # "sys_call"
      BY <1>4, <2>1, <2>2
    <2>4. QED
      BY <1>2, <2>3 DEF Restart1, IInv, Flag, Entry
  <1>10. Queue'
    BY DEF Restart1, IInv, Queue, Elems
  <1>11. NeverForgotten'
    <2>1. \A i \in raised : i \in Elems(held) \/ Calling(stack, i)
      BY DEF IInv, NeverForgotten, Calling
    <2>2. \A i \in raised' : i \in Elems(held') \/ Calling(stack', i)
      BY <1>1, <1>2, <1>4, <2>1 DEF Restart1, Entry
    <2>3. QED
      BY <2>2 DEF NeverForgotten, Calling
  <1>12. QED
    BY <1>5, <1>6, <1>7, <1>8, <1>9, <1>10, <1>11 DEF IInv

(* restart: the outermost entry leaves with no interrupt held that it could flush. *)
LEMMA DispatchInv == IInv /\ Dispatch => IInv'
  <1> SUFFICES ASSUME IInv, Dispatch PROVE IInv'
    OBVIOUS
  <1>1. /\ stack \in Seq(Frame) /\ stack # <<>> /\ N \in Nat /\ N > 0
        /\ stack[1] \in Frame /\ Top = stack[1]
    BY Before
  <1>2. stack[1].fn \in Entry /\ stack[1].pc \in {"restart", "flushed"}
    BY <1>1, Frames DEF Dispatch, At, Entry
  <1>3. N > 1 /\ Return
    BY <1>1, <1>2 DEF Dispatch, IInv, Nested, Entry
  <1>4. /\ stack' \in Seq(Frame) /\ stack' # <<>> /\ N' = N - 1
        /\ \A i \in 1 .. N' : stack'[i] = stack[i + 1]
        /\ \A i \in 2 .. N : stack'[i - 1] = stack[i]
        /\ \A F : Cardinality(Where(stack, F))
                     = Cardinality(Where(stack', F)) + (IF stack[1].fn \in F THEN 1 ELSE 0)
        /\ \A i : Calling(stack, i)
                    <=> Calling(stack', i) \/ (stack[1].fn = "interrupt" /\ stack[1].irq = i)
    BY <1>3, AfterReturn
  <1>5. Types'
    BY <1>1, <1>2, <1>4 DEF Dispatch, IInv, Types
  <1>6. Nested' /\ Leaves' /\ Outer'
    BY <1>3, ReturnNested
  <1>7. Masking'
    <2>1. \A i \in 1 .. N' : i + 1 \in 1 .. N /\ i + 1 # 1
      BY <1>1, <1>4
    <2>2. \A i \in 1 .. N' : stack'[i].pc \notin Leaving
      BY <1>4, <2>1 DEF IInv, Masking, Leaving, Exits
    <2>3. enabled' = TRUE
      BY <1>2 DEF Dispatch, IInv, Types, Masking, Leaving, Exits
    <2>4. 1 \in 1 .. N'
      BY <1>1, <1>3, <1>4
    <2>5. QED
      BY <2>2, <2>3, <2>4 DEF Masking, Leaving, Exits
  <1>8. Counts'
    <2>1. /\ Cardinality(Where(stack, Entry)) = Cardinality(Where(stack', Entry)) + 1
          /\ Cardinality(Where(stack', {"handler"})) <= Cardinality(Where(stack, {"handler"}))
      <3>1. Cardinality(Where(stack', {"handler"})) \in Nat
        BY <1>4, WhereFinite
      <3>2. QED
        BY <1>2, <1>4, <3>1 DEF Entry
    <2>2. /\ Cardinality(Where(stack', Entry)) \in Nat
          /\ Cardinality(Where(stack, {"handler"})) \in Nat
          /\ Cardinality(Where(stack', {"handler"})) \in Nat
      BY <1>1, <1>4, WhereFinite
    <2>3. irqs \in Nat
      BY IrqAssumption DEF IInv, Types
    <2>4. QED
      BY <2>1, <2>2, <2>3 DEF Dispatch, IInv, Counts
  <1>9. Flag'
    <2>1. \A i \in 1 .. N' : i + 1 \in 1 .. N /\ i + 1 # 1
      BY <1>1, <1>4
    <2>2. \A i \in 1 .. N : i # 1 => i - 1 \in 1 .. N' /\ stack'[i - 1] = stack[i]
      BY <1>1, <1>4
    <2>3. (\E i \in 1 .. N' : stack'[i].pc = "switch" /\ stack'[i].fn # "sys_call")
          <=> \E i \in 1 .. N : i # 1 /\ stack[i].pc = "switch" /\ stack[i].fn # "sys_call"
      BY <1>4, <2>1, <2>2
    <2>4. QED
      BY <1>2, <2>3 DEF Dispatch, IInv, Flag, Entry
  <1>10. Queue'
    BY DEF Dispatch, IInv, Queue, Elems
  <1>11. NeverForgotten'
    <2>1. \A i \in raised : i \in Elems(held) \/ Calling(stack, i)
      BY DEF IInv, NeverForgotten, Calling
    <2>2. \A i \in raised' : i \in Elems(held') \/ Calling(stack', i)
      BY <1>1, <1>2, <1>4, <2>1 DEF Dispatch, Entry
    <2>3. QED
      BY <2>2 DEF NeverForgotten, Calling
  <1>12. QED
    BY <1>5, <1>6, <1>7, <1>8, <1>9, <1>10, <1>11 DEF IInv

(* A handler wakes its task ... *)
LEMMA HandleWakesInv ==
    ASSUME IInv, Handle, GotoAndCall("return", Interrupt("test", Top.irq)),
           raised' = raised \cup {Top.irq}
    PROVE  IInv'
  <1>1. /\ stack \in Seq(Frame) /\ stack # <<>> /\ N \in Nat /\ N > 0
        /\ stack[1] \in Frame /\ Top = stack[1]
    BY Before
  <1>2. /\ stack[1].fn = "handler" /\ stack[1].pc = "handle" /\ stack[1].irq \in Irq
        /\ enabled = TRUE
    BY <1>1, Frames DEF Handle, At, IInv, Types, Masking, Leaving, Exits
  <1> DEFINE f == Interrupt("test", stack[1].irq)
  <1>3. /\ GotoAndCall("return", f) /\ f \in Frame
        /\ f.fn = "interrupt" /\ f.pc = "test" /\ f.irq = stack[1].irq
        /\ [stack[1] EXCEPT !.pc = "return"] \in Frame
    BY <1>1, <1>2, StaysFrame, InFrame DEF Interrupt
  <1> HIDE DEF f
  <1>4. /\ stack' \in Seq(Frame) /\ stack' # <<>> /\ N' = N + 1
        /\ stack'[1].fn = "interrupt" /\ stack'[1].pc = "test"
        /\ stack'[2].fn = stack[1].fn /\ stack'[2].pc = "return"
        /\ \A j \in 2 .. N : stack'[j + 1] = stack[j]
        /\ \A j \in 3 .. N' : stack'[j] = stack[j - 1]
        /\ Cardinality(Where(stack', Entry)) = Cardinality(Where(stack, Entry)) + 0
        /\ Cardinality(Where(stack', {"handler"})) = Cardinality(Where(stack, {"handler"})) + 0
    <2>1. /\ stack' \in Seq(Frame) /\ stack' # <<>> /\ N' = N + 1 /\ stack'[1] = f
          /\ stack'[2].fn = stack[1].fn /\ stack'[2].pc = "return"
      BY <1>3, AfterGotoAndCall
    <2>2. /\ \A j \in 2 .. N : stack'[j + 1] = stack[j]
          /\ \A j \in 3 .. N' : stack'[j] = stack[j - 1]
      BY <1>3, AfterGotoAndCall
    <2>3. \A F : Cardinality(Where(stack', F))
                   = Cardinality(Where(stack, F)) + (IF f.fn \in F THEN 1 ELSE 0)
      BY <1>3, AfterGotoAndCall
    <2>4. f.fn \notin Entry /\ f.fn \notin {"handler"}
      BY <1>3 DEF Entry
    <2>5. /\ Cardinality(Where(stack', Entry)) = Cardinality(Where(stack, Entry)) + 0
          /\ Cardinality(Where(stack', {"handler"})) = Cardinality(Where(stack, {"handler"})) + 0
      BY <2>3, <2>4
    <2>6. QED
      BY <1>3, <2>1, <2>2, <2>5
  <1>5. \A j : Calling(stack', j) <=> Calling(stack, j) \/ j = stack[1].irq
    <2>1. \A j : Calling(stack', j) <=> Calling(stack, j) \/ (f.fn = "interrupt" /\ f.irq = j)
      BY <1>3, AfterGotoAndCall
    <2>2. QED
      BY <1>3, <2>1
  <1>6. Types'
    BY <1>1, <1>2, <1>4 DEF Handle, IInv, Types
  <1>7. Nested' /\ Leaves' /\ Outer'
    BY <1>2, <1>3, GotoAndCallNested DEF f, Entry
  <1>8. \A j \in 1 .. N' :
            j = 1 \/ j = 2 \/ (j - 1 \in 2 .. N /\ stack'[j] = stack[j - 1])
    <2>1. N \in Nat /\ N' = N + 1 /\ \A j \in 3 .. N' : stack'[j] = stack[j - 1]
      BY <1>1, <1>4
    <2>2. \A j \in 1 .. N' : j = 1 \/ j = 2 \/ (j \in 3 .. N' /\ j - 1 \in 2 .. N)
      BY <2>1
    <2>3. TAKE j \in 1 .. N'
    <2>4. j = 1 \/ j = 2 \/ (j \in 3 .. N' /\ j - 1 \in 2 .. N)
      BY <2>2
    <2>5. j \in 3 .. N' => stack'[j] = stack[j - 1]
      BY <2>1
    <2>6. QED
      BY <2>4, <2>5
  <1>9. \A j \in 1 .. N : j = 1 \/ (j \in 2 .. N /\ j + 1 \in 1 .. N' /\ stack'[j + 1] = stack[j])
    BY <1>1, <1>4
  <1>10. Masking'
    <2>1. \A j \in 2 .. N : stack[j].pc \notin Leaving
      BY <1>1 DEF IInv, Masking, Leaving, Exits
    <2>2. enabled' = TRUE
      BY <1>2 DEF Handle
    <2>3. \A j \in 1 .. N' : stack'[j].pc \notin Leaving
      BY <1>4, <1>8, <2>1 DEF Leaving, Exits
    <2>4. QED
      BY <1>4, <2>2, <2>3 DEF Masking, Leaving, Exits
  <1>11. Counts'
    <2>1. /\ Cardinality(Where(stack, Entry)) \in Nat
          /\ Cardinality(Where(stack, {"handler"})) \in Nat
      BY <1>1, WhereFinite
    <2>2. /\ k_reenter = Cardinality(Where(stack, Entry)) - 1
          /\ Cardinality(Where(stack, {"handler"})) <= irqs
      BY DEF IInv, Counts
    <2>3. k_reenter' = k_reenter /\ irqs' = irqs
      BY DEF Handle
    <2>4. /\ Cardinality(Where(stack', Entry)) = Cardinality(Where(stack, Entry)) + 0
          /\ Cardinality(Where(stack', {"handler"})) = Cardinality(Where(stack, {"handler"})) + 0
      BY <1>4
    <2>5. QED
      BY <2>1, <2>2, <2>3, <2>4 DEF Counts
  <1>12. Flag'
    <2>1. (\E j \in 1 .. N' : stack'[j].pc = "switch" /\ stack'[j].fn # "sys_call")
          <=> \E j \in 2 .. N : stack[j].pc = "switch" /\ stack[j].fn # "sys_call"
      <3> DEFINE P(g) == g.pc = "switch" /\ g.fn # "sys_call"
      <3>1. ~P(stack'[1]) /\ ~P(stack'[2])
        BY <1>4
      <3> HIDE DEF P
      <3>2. \A j \in 1 .. N' : P(stack'[j]) => \E i \in 2 .. N : P(stack[i])
        BY <1>8, <3>1
      <3>3. \A i \in 2 .. N : P(stack[i]) => \E j \in 1 .. N' : P(stack'[j])
        <4>1. \A i \in 2 .. N : i \in 1 .. N /\ i # 1
          BY <1>1
        <4> QED BY <1>9, <4>1
      <3> QED BY <3>2, <3>3, Zenon DEF P
    <2>2. (\E j \in 1 .. N : stack[j].pc = "switch" /\ stack[j].fn # "sys_call")
          <=> \E j \in 2 .. N : stack[j].pc = "switch" /\ stack[j].fn # "sys_call"
      BY <1>1, <1>2, <1>9
    <2>3. QED
      BY <2>1, <2>2 DEF Handle, IInv, Flag
  <1>13. Queue'
    BY DEF Handle, IInv, Queue, Elems
  <1>14. NeverForgotten'
    <2>1. \A j \in raised : j \in Elems(held) \/ Calling(stack, j)
      BY DEF IInv, NeverForgotten, Calling
    <2>2. \A j \in raised' : j \in Elems(held') \/ Calling(stack', j)
      BY <1>1, <1>5, <2>1 DEF Handle
    <2>3. QED
      BY <2>2 DEF NeverForgotten, Calling
  <1>15. QED
    BY <1>6, <1>7, <1>10, <1>11, <1>12, <1>13, <1>14 DEF IInv

(* ... or not. *)
LEMMA HandleIgnoresInv ==
    ASSUME IInv, Handle, Goto("return"), raised' = raised
    PROVE  IInv'
  <1>1. /\ stack \in Seq(Frame) /\ stack # <<>> /\ N \in Nat /\ N > 0
        /\ stack[1] \in Frame /\ Top = stack[1]
    BY Before
  <1>2. stack[1].fn = "handler" /\ stack[1].pc = "handle"
    BY <1>1 DEF Handle, At
  <1>3. Goto("return") /\ [stack[1] EXCEPT !.pc = "return"] \in Frame
    BY <1>1, <1>2, StaysFrame
  <1>4. /\ stack' \in Seq(Frame) /\ stack' # <<>> /\ N' = N
        /\ stack'[1].fn = stack[1].fn /\ stack'[1].pc = "return"
        /\ \A i \in 2 .. N : stack'[i] = stack[i]
        /\ \A F : Where(stack', F) = Where(stack, F)
        /\ \A i : Calling(stack', i) <=> Calling(stack, i)
    BY <1>3, AfterGoto
  <1>5. Types'
    BY <1>4 DEF Handle, IInv, Types
  <1>6. Nested' /\ Leaves' /\ Outer'
    BY <1>1, <1>2, <1>3, GotoNested DEF IInv, Outer, Admitted
  <1>7. Masking'
    BY <1>1, <1>2, <1>4 DEF Handle, IInv, Masking, Leaving, Exits
  <1>8. Counts'
    BY <1>4 DEF Handle, IInv, Counts
  <1>9. Flag'
    BY <1>1, <1>2, <1>4 DEF Handle, IInv, Flag
  <1>10. NeverForgotten'
    BY <1>4 DEF Handle, IInv, NeverForgotten, Calling
  <1>11. QED
    BY <1>5, <1>6, <1>7, <1>8, <1>9, <1>10 DEF IInv, Queue, Handle, Elems

(* A handler calls interrupt() for its own task, from any level. *)
LEMMA HandleInv == IInv /\ Handle => IInv'
  BY HandleWakesInv, HandleIgnoresInv DEF Handle

(* interrupt() decides between holding and switching from k_reenter and switching. *)
LEMMA TestInv == IInv /\ Test => IInv'
  <1> SUFFICES ASSUME IInv, Test PROVE IInv'
    OBVIOUS
  <1>1. /\ stack \in Seq(Frame) /\ stack # <<>> /\ N \in Nat /\ N > 0
        /\ stack[1] \in Frame /\ Top = stack[1]
    BY Before
  <1> DEFINE pc == IF k_reenter # 0 \/ switching THEN "hold" ELSE "set"
  <1>2. stack[1].fn = "interrupt" /\ stack[1].pc = "test"
    BY <1>1 DEF Test, At
  <1>3. pc = "hold" \/ (pc = "set" /\ k_reenter = 0 /\ switching = FALSE)
    BY DEF IInv, Types
  <1>4. Goto(pc) /\ [stack[1] EXCEPT !.pc = pc] \in Frame
    BY <1>1, <1>2, <1>3, StaysFrame DEF Test
  <1>5. pc = "set" => OverOneEntry(1)
    <2>1. SUFFICES ASSUME pc = "set" PROVE OverOneEntry(1)
      OBVIOUS
    <2>2. k_reenter = 0 /\ switching = FALSE
      BY <1>3, <2>1
    <2>3. stack[N].fn = "proc" /\ stack[N] \in Frame /\ stack[N].pc # "switch"
      BY <1>1, <2>2 DEF IInv, Nested, Flag, N
    <2>4. stack[N].pc = "run"
      BY <2>3, Frames
    <2>5. Cardinality(Where(stack, Entry)) = 1 /\ IsFiniteSet(Where(stack, Entry))
      BY <1>1, <2>2, WhereFinite DEF IInv, Counts
    <2>6. PICK e : Where(stack, Entry) = {e}
      BY <2>5, FS_Singleton
    <2>7. 1 \notin Where(stack, Entry)
      BY <1>2 DEF Where, Entry
    <2>8. \A j \in 1 + 1 .. N : j \in 1 .. N /\ (stack[j].fn \in Entry <=> j = e)
      BY <1>1, <2>6 DEF Where, N
    <2>9. e \in 1 + 1 .. N
      BY <1>1, <2>6, <2>7 DEF Where, N
    <2>10. QED
      BY <2>4, <2>8, <2>9 DEF OverOneEntry
  <1>6. pc \in {"hold", "set"}
    BY <1>3
  <1> HIDE DEF pc
  <1>7. /\ stack' \in Seq(Frame) /\ stack' # <<>> /\ N' = N
        /\ stack'[1].fn = stack[1].fn /\ stack'[1].pc = pc
        /\ \A i \in 2 .. N : stack'[i] = stack[i]
        /\ \A F : Where(stack', F) = Where(stack, F)
        /\ \A i : Calling(stack', i) <=> Calling(stack, i)
    BY <1>4, AfterGoto
  <1>8. Types'
    BY <1>7 DEF Test, IInv, Types
  <1>9. Nested' /\ Leaves' /\ Outer'
    BY <1>1, <1>2, <1>4, <1>5, <1>6, GotoNested
  <1>10. Masking'
    BY <1>1, <1>2, <1>7, <1>6 DEF Test, IInv, Masking, Leaving, Exits
  <1>11. Counts'
    BY <1>7 DEF Test, IInv, Counts
  <1>12. Flag'
    BY <1>1, <1>2, <1>7, <1>6 DEF Test, IInv, Flag
  <1>13. NeverForgotten'
    BY <1>7 DEF Test, IInv, NeverForgotten, Calling
  <1>14. QED
    BY <1>8, <1>9, <1>10, <1>11, <1>12, <1>13 DEF IInv, Queue, Test, Elems

(* restart calls unhold() only at the outermost level and out of switching code. *)
LEMMA StartUnholdInv == IInv /\ StartUnhold => IInv'
  <1> SUFFICES ASSUME IInv, StartUnhold PROVE IInv'
    OBVIOUS
  <1>1. /\ stack \in Seq(Frame) /\ stack # <<>> /\ N \in Nat /\ N > 0
        /\ stack[1] \in Frame /\ Top = stack[1]
    BY Before
  <1>2. /\ stack[1].pc \in {"restart", "flushed"} /\ enabled = FALSE
        /\ held # <<>> /\ stack[1].fn \in Entry
    BY <1>1, Frames DEF StartUnhold, IInv, Types, Masking, Leaving, Exits, N, Entry
  <1>3. Goto("unhold") /\ [stack[1] EXCEPT !.pc = "unhold"] \in Frame
    BY <1>1, <1>2, StaysFrame DEF StartUnhold, Entry
  <1>4. /\ stack' \in Seq(Frame) /\ stack' # <<>> /\ N' = N
        /\ stack'[1].fn = stack[1].fn /\ stack'[1].pc = "unhold"
        /\ \A i \in 2 .. N : stack'[i] = stack[i]
        /\ \A F : Where(stack', F) = Where(stack, F)
        /\ \A i : Calling(stack', i) <=> Calling(stack, i)
    BY <1>3, AfterGoto
  <1>5. Types'
    BY <1>4 DEF StartUnhold, IInv, Types
  <1>6. Nested' /\ Leaves' /\ Outer'
    <2>1. Base(1)
      BY <1>1, <1>2 DEF IInv, Leaves
    <2>2. stack[N].pc = "run"
      <3>1. CASE stack[1].pc = "flushed"
        BY <1>1, <3>1 DEF IInv, Leaves
      <3>2. CASE stack[1].pc = "restart"
        <4>1. ~switching
          BY <1>1, <3>2 DEF StartUnhold
        <4>2. stack[N].fn = "proc" /\ stack[N] \in Frame /\ stack[N].pc # "switch"
          BY <1>1, <4>1 DEF IInv, Nested, Flag, N
        <4>3. QED
          BY <4>2, Frames
      <3>3. QED
        BY <1>2, <3>1, <3>2
    <2>3. QED
      BY <1>1, <1>2, <1>3, <2>1, <2>2, GotoNested DEF Entry
  <1>7. Masking'
    BY <1>1, <1>2, <1>4 DEF StartUnhold, IInv, Masking, Leaving, Exits
  <1>8. Counts'
    BY <1>4 DEF StartUnhold, IInv, Counts
  <1>9. Flag'
    BY <1>1, <1>2, <1>4 DEF StartUnhold, IInv, Flag
  <1>10. NeverForgotten'
    BY <1>4 DEF StartUnhold, IInv, NeverForgotten, Calling
  <1>11. QED
    BY <1>5, <1>6, <1>7, <1>8, <1>9, <1>10 DEF IInv, Queue, StartUnhold, Elems

(* unhold() takes the head off the queue and repeats its interrupt(), which is under way now. *)
LEMMA UnholdInv == IInv /\ Unhold => IInv'
  <1> SUFFICES ASSUME IInv, Unhold PROVE IInv'
    OBVIOUS
  <1>1. /\ stack \in Seq(Frame) /\ stack # <<>> /\ N \in Nat /\ N > 0
        /\ stack[1] \in Frame /\ Top = stack[1]
    BY Before
  <1> DEFINE h == held[1]
  <1>2. /\ stack[1].pc = "unhold" /\ stack[1].fn \in Entry
        /\ held # <<>> /\ Base(1) /\ stack[N].pc = "run"
    <2>1. stack[1].pc = "unhold" /\ 1 \in 1 .. N
      BY <1>1 DEF Unhold
    <2>2. QED
      BY <1>1, <2>1, Frames DEF IInv, Leaves, Masking, Entry
  <1>3. /\ Tail(held) \in Seq(Irq) /\ Len(Tail(held)) = Len(held) - 1
        /\ Head(held) = h /\ h \in Irq
        /\ \A j \in 1 .. Len(Tail(held)) : Tail(held)[j] = held[j + 1]
        /\ \A j \in 2 .. Len(held) : Tail(held)[j - 1] = held[j]
        /\ Len(held) \in Nat /\ Len(held) > 0
    <2>1. held \in Seq(Irq)
      BY DEF IInv, Types
    <2>2. QED
      BY <1>2, <2>1, Popped
  <1> HIDE DEF h
  <1> DEFINE f == Interrupt("test", h)
  <1>4. /\ GotoAndCall("flushed", f) /\ f \in Frame
        /\ f.fn = "interrupt" /\ f.pc = "test" /\ f.irq = h /\ h \in Irq
        /\ [stack[1] EXCEPT !.pc = "flushed"] \in Frame
    BY <1>1, <1>2, <1>3, StaysFrame, InFrame DEF Unhold, Entry, Interrupt
  <1> HIDE DEF f
  <1>5. /\ stack' \in Seq(Frame) /\ stack' # <<>> /\ N' = N + 1
        /\ stack'[1].fn = "interrupt" /\ stack'[1].pc = "test"
        /\ stack'[2].fn = stack[1].fn /\ stack'[2].pc = "flushed"
        /\ \A j \in 2 .. N : stack'[j + 1] = stack[j]
        /\ \A j \in 3 .. N' : stack'[j] = stack[j - 1]
        /\ Cardinality(Where(stack', Entry)) = Cardinality(Where(stack, Entry)) + 0
        /\ Cardinality(Where(stack', {"handler"})) = Cardinality(Where(stack, {"handler"})) + 0
    BY <1>4, AfterGotoAndCall DEF Entry
  <1>6. \A j : Calling(stack', j) <=> Calling(stack, j) \/ j = h
    BY <1>4, AfterGotoAndCall
  <1>7. Types'
    <2>1. held' \in Seq(Irq) /\ p_int_held' \subseteq Irq /\ enabled' \in BOOLEAN
      BY <1>3 DEF Unhold, IInv, Types
    <2>2. QED
      BY <1>5, <2>1 DEF Unhold, IInv, Types
  <1>8. Nested' /\ Leaves' /\ Outer'
    BY <1>2, <1>4, GotoAndCallNested DEF f
  <1>9. \A j \in 1 .. N' :
            j = 1 \/ j = 2 \/ (j - 1 \in 2 .. N /\ stack'[j] = stack[j - 1])
    <2>1. N \in Nat /\ N' = N + 1 /\ \A j \in 3 .. N' : stack'[j] = stack[j - 1]
      BY <1>1, <1>5
    <2>2. \A j \in 1 .. N' : j = 1 \/ j = 2 \/ (j \in 3 .. N' /\ j - 1 \in 2 .. N)
      BY <2>1
    <2>3. TAKE j \in 1 .. N'
    <2>4. j = 1 \/ j = 2 \/ (j \in 3 .. N' /\ j - 1 \in 2 .. N)
      BY <2>2
    <2>5. j \in 3 .. N' => stack'[j] = stack[j - 1]
      BY <2>1
    <2>6. QED
      BY <2>4, <2>5
  <1>10. \A j \in 1 .. N : j = 1 \/ (j \in 2 .. N /\ j + 1 \in 1 .. N' /\ stack'[j + 1] = stack[j])
    BY <1>1, <1>5
  <1>11. Masking'
    <2>1. \A j \in 2 .. N : stack[j].pc \notin Leaving
      BY <1>1 DEF IInv, Masking, Leaving, Exits
    <2>2. enabled' = TRUE
      BY DEF Unhold
    <2>3. \A j \in 1 .. N' : stack'[j].pc \notin Leaving
      BY <1>5, <1>9, <2>1 DEF Leaving, Exits
    <2>4. QED
      BY <1>5, <2>2, <2>3 DEF Masking, Leaving, Exits
  <1>12. Counts'
    <2>1. /\ Cardinality(Where(stack, Entry)) \in Nat
          /\ Cardinality(Where(stack, {"handler"})) \in Nat
      BY <1>1, WhereFinite
    <2>2. /\ k_reenter = Cardinality(Where(stack, Entry)) - 1
          /\ Cardinality(Where(stack, {"handler"})) <= irqs
      BY DEF IInv, Counts
    <2>3. k_reenter' = k_reenter /\ irqs' = irqs
      BY DEF Unhold
    <2>4. /\ Cardinality(Where(stack', Entry)) = Cardinality(Where(stack, Entry)) + 0
          /\ Cardinality(Where(stack', {"handler"})) = Cardinality(Where(stack, {"handler"})) + 0
      BY <1>5
    <2>5. QED
      BY <2>1, <2>2, <2>3, <2>4 DEF Counts
  <1>13. Flag'
    <2>1. (\E j \in 1 .. N' : stack'[j].pc = "switch" /\ stack'[j].fn # "sys_call")
          <=> \E j \in 2 .. N : stack[j].pc = "switch" /\ stack[j].fn # "sys_call"
      <3> DEFINE P(g) == g.pc = "switch" /\ g.fn # "sys_call"
      <3>1. ~P(stack'[1]) /\ ~P(stack'[2])
        BY <1>5
      <3> HIDE DEF P
      <3>2. \A j \in 1 .. N' : P(stack'[j]) => \E i \in 2 .. N : P(stack[i])
        BY <1>9, <3>1
      <3>3. \A i \in 2 .. N : P(stack[i]) => \E j \in 1 .. N' : P(stack'[j])
        <4>1. \A i \in 2 .. N : i \in 1 .. N /\ i # 1
          BY <1>1
        <4> QED BY <1>10, <4>1
      <3> QED BY <3>2, <3>3, Zenon DEF P
    <2>2. (\E j \in 1 .. N : stack[j].pc = "switch" /\ stack[j].fn # "sys_call")
          <=> \E j \in 2 .. N : stack[j].pc = "switch" /\ stack[j].fn # "sys_call"
      BY <1>1, <1>2, <1>10
    <2>3. QED
      BY <2>1, <2>2 DEF Unhold, IInv, Flag
  <1>14. Queue' /\ \A j \in Elems(held) : j = h \/ j \in Elems(held')
    <2>1. held' = Tail(held) /\ p_int_held' = p_int_held \ {h}
      BY <1>3 DEF Unhold
    <2>2. \A i, j \in 1 .. Len(held) : held[i] = held[j] => i = j
      BY DEF IInv, Queue
    <2>3. \A i \in 1 .. Len(held') : i + 1 \in 1 .. Len(held) /\ i + 1 # 1 /\ held'[i] = held[i + 1]
      BY <1>3, <2>1
    <2>4. \A i \in 1 .. Len(held) : i # 1 => i - 1 \in 1 .. Len(held') /\ held'[i - 1] = held[i]
      BY <1>3, <2>1
    <2>5. \A i, j \in 1 .. Len(held') : held'[i] = held'[j] => i = j
      <3>1. \A i, j \in 1 .. Len(held') : held'[i] = held'[j] => i + 1 = j + 1
        BY <2>2, <2>3
      <3>2. QED
        BY <1>3, <2>1, <3>1
    <2>6. 1 \in 1 .. Len(held) /\ held[1] = h
      BY <1>3 DEF h
    <2>7. \A e : e \in Elems(held') <=> e \in Elems(held) /\ e # h
      <3>1. ASSUME NEW e \in Elems(held') PROVE e \in Elems(held) /\ e # h
        <4>1. PICK i \in 1 .. Len(held') : e = held'[i]
          BY DEF Elems
        <4>2. QED
          BY <2>2, <2>3, <2>6, <4>1 DEF Elems
      <3>2. ASSUME NEW e \in Elems(held), e # h PROVE e \in Elems(held')
        <4>1. PICK i \in 1 .. Len(held) : e = held[i]
          BY DEF Elems
        <4>2. QED
          BY <2>4, <2>6, <3>2, <4>1 DEF Elems
      <3>3. QED
        BY <3>1, <3>2
    <2>8. Elems(held') = p_int_held'
      BY <2>1, <2>7 DEF IInv, Queue
    <2>9. QED
      BY <2>5, <2>7, <2>8 DEF Queue
  <1>15. NeverForgotten'
    <2>1. \A j \in raised : j \in Elems(held) \/ Calling(stack, j)
      BY DEF IInv, NeverForgotten, Calling
    <2>2. \A j \in raised' : j \in Elems(held') \/ Calling(stack', j)
      BY <1>6, <1>14, <2>1 DEF Unhold
    <2>3. QED
      BY <2>2 DEF NeverForgotten, Calling
  <1>16. QED
    BY <1>7, <1>8, <1>11, <1>12, <1>13, <1>14, <1>15 DEF IInv

(* One step per action of Next. *)
LEMMA NextInv == IInv /\ [Next]_vars => IInv'
  <1> SUFFICES ASSUME IInv, [Next]_vars PROVE IInv'
    OBVIOUS
  <1>1. CASE Advance
    BY <1>1, LeaveSysCallInv, LeaveGatewayInv, HandleInv, LeaveHandlerInv, TestInv, HoldInv,
       SetSwitchingInv, InformInv, Restart1Inv, DispatchInv, StartUnholdInv, UnholdInv, RelockInv
       DEF Advance
  <1>2. CASE EnterSysCall \/ EnterGateway
    BY <1>2, EnterSysCallInv, EnterGatewayInv
  <1>3. ASSUME NEW i \in Irq, HwInt(i) \/ TaskInterrupt(i) \/ EnableIrq(i) PROVE IInv'
    BY <1>3, HwIntInv, TaskInterruptInv, EnableIrqInv
  <1>4. CASE UNCHANGED vars
    <2>1. Types' /\ Nested' /\ Leaves' /\ Counts' /\ Flag' /\ Masking'
      BY <1>4 DEF IInv, vars, Types, Nested, Leaves, Base, Counts, Flag, Masking, Leaving, Exits, N
    <2>2. Outer'
      BY <1>4 DEF IInv, vars, Outer, Admitted, OverOneEntry, N
    <2>3. Queue' /\ NeverForgotten'
      BY <1>4 DEF IInv, vars, Queue, NeverForgotten
    <2>4. QED
      BY <2>1, <2>2, <2>3 DEF IInv
  <1>5. QED
    BY <1>1, <1>2, <1>3, <1>4 DEF Next

-----------------------------------------------------------------------------
(* Code that switches processes never runs inside code that switches       *)
(* processes, for any number of interrupt lines and any depth of nesting:  *)
(* the tests of k_reenter and switching that interrupt() makes keep two    *)
(* pieces of it apart, and both variables are exact.                       *)
THEOREM SwitchingNeverNests == Spec => []SwitchingSound
  <1>1. Init => IInv
    BY InitInv
  <1>2. IInv /\ [Next]_vars => IInv'
    BY NextInv
  <1>3. IInv => SwitchingSound
    BY InvSound
  <1>4. QED
    BY <1>1, <1>2, <1>3, PTL DEF Spec

(* No interrupt is forgotten on its way to its task, and the held queue    *)
(* and the marks p_int_held that chain it agree at every step.             *)
THEOREM HeldQueueLosesNothing == Spec => []HeldSound
  <1>1. Init => IInv
    BY InitInv
  <1>2. IInv /\ [Next]_vars => IInv'
    BY NextInv
  <1>3. IInv => HeldSound
    BY InvSound
  <1>4. QED
    BY <1>1, <1>2, <1>3, PTL DEF Spec
=============================================================================
