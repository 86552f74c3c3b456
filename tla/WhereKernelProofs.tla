--------------------------- MODULE WhereKernelProofs ---------------------------
(***************************************************************************)
(* Theorems about the Where kernels, for every launch of every size.  The *)
(* broadcast backward kernel races when two threads below size meet in    *)
(* one element of a gradient smaller than output_grad; every other launch *)
(* is free of write-write races and of stores outside the buffers.        *)
(***************************************************************************)
EXTENDS WhereKernel, FiniteSetTheorems, TLAPS

CondKernels == {"CondBcastFwd", "CondBcastBwd"}
Loops == {"fwdloop", "inloop", "otherloop"}
PCs == {"start", "fwdloop", "inloop", "otherloop", "other", "done"}

\* The threads of launch l that pass the early return of a gid-indexed
\* kernel: those below both the grid size and size.
Reach(l) == IF l.threads < l.size THEN l.threads ELSE l.size

\* A broadcast backward launch whose gradients, where given, have at
\* least one element per thread that passes the early return.
GradsCoverGrid(l) ==
  l.kernel = "BcastBwd" =>
    /\ l.input_grad => Reach(l) <= l.input_size
    /\ l.other_grad => Reach(l) <= l.other_size

\* The only thread that may store element i of buffer b: the condition
\* broadcast kernels give element i to thread i % condition_size, the
\* others to thread i.
Owner(b, i) == IF Kernel \in CondKernels THEN i % CondSize ELSE i

\* What the threads' control state says about the elements they store:
\* a looping thread g is below condition_size and its counter is
\* g + k * condition_size; a thread between the two stores of a gid
\* kernel is below size.
ThreadInv ==
  /\ \A g \in Threads :
       pc[g] \in Loops =>
         /\ Kernel \in CondKernels /\ g < CondSize
         /\ \E k \in Nat : idx[g] = g + k * CondSize
  /\ \A g \in Threads :
       pc[g] = "other" => Kernel \in {"BcastBwd", "ContigBwd"} /\ g < Size

\* No stray store, and every thread that stored an element its owner.
WritesInv ==
  /\ ~stray
  /\ \A b \in Bufs : \A i \in 0 .. BufSize(b) - 1 : writers[b][i] \subseteq {Owner(b, i)}

\* TypeOK, with the buffers indexed by Bufs.
TypeInv == TypeOK /\ DOMAIN mem = Bufs /\ DOMAIN writers = Bufs

IInv == TypeInv /\ ThreadInv /\ WritesInv

-----------------------------------------------------------------------------
\* A thread below the stride is the residue of every element of its loop.
LEMMA ResidueOfStride ==
  ASSUME NEW g \in Nat, NEW n \in Nat \ {0}, NEW k \in Nat, g < n
  PROVE  (g + k * n) % n = g
BY Z3

LEMMA StrideStep ==
  ASSUME NEW g \in Nat, NEW n \in Nat \ {0}, NEW k \in Nat
  PROVE  g + k * n + n = g + (k + 1) * n
BY Z3

\* A number below the modulus is its own residue.
LEMMA ModSmall ==
  ASSUME NEW a \in Nat, NEW n \in Nat \ {0}, a < n
  PROVE  a % n = a
BY Z3

LEMMA ModRange ==
  ASSUME NEW a \in Nat, NEW n \in Nat \ {0}
  PROVE  a % n \in 0 .. n - 1
BY Z3

\* A residue modulo a buffer size indexes the data.
LEMMA ModInData ==
  ASSUME NEW a \in Nat, NEW n \in Nat \ {0}, NEW D \in Nat, n <= D
  PROVE  a % n \in 0 .. D - 1
BY Z3

\* The arguments of a launch, as LaunchAssumption gives them.
LEMMA LaunchFacts ==
  ASSUME launch \in Launches
  PROVE  /\ Size \in Nat \ {0} /\ CondSize \in Nat \ {0}
         /\ InputSize \in Nat \ {0} /\ OtherSize \in Nat \ {0}
         /\ Size <= DataLen /\ CondSize <= DataLen
         /\ InputSize <= DataLen /\ OtherSize <= DataLen
         /\ launch.threads \in Nat
         /\ HasInputGrad \in BOOLEAN /\ HasOtherGrad \in BOOLEAN
         /\ Kernel \in Kernels
         /\ Kernel = "ContigBwd" => CondSize = Size /\ InputSize = Size /\ OtherSize = Size
         /\ BufSize("output") = Size /\ BufSize("input_grad") = InputSize
         /\ BufSize("other_grad") = OtherSize
<1>1. launch \in LaunchRecord
  BY LaunchAssumption
<1> QED BY <1>1, LaunchAssumption DEF LaunchRecord, Size, CondSize, InputSize, OtherSize,
   HasInputGrad, HasOtherGrad, Kernel, BufSize, BufLen

\* A step leaves the launch, and so every argument of it, alone.
LEMMA LaunchUnchanged ==
  ASSUME launch' = launch
  PROVE  /\ Threads' = Threads /\ Kernel' = Kernel /\ Size' = Size
         /\ CondSize' = CondSize /\ InputSize' = InputSize /\ OtherSize' = OtherSize
         /\ HasInputGrad' = HasInputGrad /\ HasOtherGrad' = HasOtherGrad
         /\ AfterInput' = AfterInput /\ Limit' = Limit
         /\ \A b : BufSize(b)' = BufSize(b)
         /\ \A b, i : Owner(b, i)' = Owner(b, i)
BY DEF Threads, Kernel, Size, CondSize, InputSize, OtherSize, HasInputGrad,
       HasOtherGrad, AfterInput, Limit, BufSize, BufLen, Owner

\* Every value a kernel stores is an Int, and every condition it reads a bit.
LEMMA ValuesInt ==
  ASSUME launch \in Launches, NEW c, NEW i \in Nat, NEW d \in {0, 1}, NEW g \in Nat
  PROVE  /\ Select(c, i) \in Int
         /\ OutputGrad[i % Size] * d \in Int
         /\ OutputGrad[i % Size] * (1 - d) \in Int
         /\ Condition[i % CondSize] \in {0, 1}
         /\ g < Size => /\ OutputGrad[g] * CondOf(g) \in Int
                        /\ OutputGrad[g] * (1 - CondOf(g)) \in Int
<1>1. /\ i % InputSize \in 0 .. DataLen - 1 /\ i % OtherSize \in 0 .. DataLen - 1
      /\ i % Size \in 0 .. DataLen - 1 /\ i % CondSize \in 0 .. DataLen - 1
  BY LaunchFacts, LaunchAssumption, ModInData
<1>2. g < Size => CondOf(g) \in {0, 1}
  <2>1. g % CondSize \in 0 .. DataLen - 1
    BY LaunchFacts, LaunchAssumption, ModInData
  <2>2. g < Size => g \in 0 .. DataLen - 1
    BY LaunchFacts, LaunchAssumption
  <2> QED BY <2>1, <2>2, DataAssumption DEF CondOf
<1>3. g < Size => OutputGrad[g] \in Int
  BY LaunchFacts, LaunchAssumption, DataAssumption
<1>4. Select(c, i) \in Int
  BY <1>1, DataAssumption DEF Select
<1>5. /\ OutputGrad[i % Size] \in Int
      /\ Condition[i % CondSize] \in {0, 1}
  BY <1>1, DataAssumption
<1> QED BY <1>2, <1>3, <1>4, <1>5

\* A store keeps the buffers typed: an index outside a buffer leaves it as
\* it is.
LEMMA WriteType ==
  ASSUME TypeInv, launch' = launch, NEW g \in Threads, NEW b \in Bufs, NEW i,
         NEW v \in Int, Write(g, b, i, v)
  PROVE  /\ DOMAIN mem' = Bufs /\ DOMAIN writers' = Bufs
         /\ \A c \in Bufs : mem'[c] \in [0 .. BufSize(c)' - 1 -> Int]
         /\ \A c \in Bufs : writers'[c] \in [0 .. BufSize(c)' - 1 -> SUBSET Threads']
         /\ stray' \in BOOLEAN
<1>1. /\ Threads' = Threads /\ \A c : BufSize(c)' = BufSize(c)
  BY LaunchUnchanged
<1>2. /\ mem' = [mem EXCEPT ![b] = [mem[b] EXCEPT ![i] = v]]
      /\ writers' = [writers EXCEPT ![b] = [writers[b] EXCEPT ![i] = @ \cup {g}]]
      /\ stray' \in BOOLEAN
  BY DEF Write
<1>3. ASSUME NEW c \in Bufs
      PROVE  /\ mem'[c] \in [0 .. BufSize(c) - 1 -> Int]
             /\ writers'[c] \in [0 .. BufSize(c) - 1 -> SUBSET Threads]
  <2>1. /\ mem[c] \in [0 .. BufSize(c) - 1 -> Int]
        /\ writers[c] \in [0 .. BufSize(c) - 1 -> SUBSET Threads]
        /\ DOMAIN mem = Bufs /\ DOMAIN writers = Bufs
    BY DEF TypeInv, TypeOK
  <2>2. CASE c = b
    BY <1>2, <2>1, <2>2
  <2>3. CASE c # b
    BY <1>2, <2>1, <2>3
  <2> QED BY <2>2, <2>3
<1>4. DOMAIN mem' = Bufs /\ DOMAIN writers' = Bufs
  BY <1>2 DEF TypeInv
<1> QED BY <1>1, <1>2, <1>3, <1>4

(***************************************************************************)
(* TypeOK is inductive: every step moves one thread to a point of its     *)
(* body, advances its counter by a positive stride or resets it to gid,   *)
(* and stores an Int, by a thread of the launch.                          *)
(***************************************************************************)
LEMMA TypeStep ==
  ASSUME TypeInv, ThreadInv, [Next]_vars
  PROVE  TypeInv'
<1>1. CASE UNCHANGED vars
  BY <1>1, LaunchUnchanged DEF TypeInv, TypeOK, vars
<1>2. CASE Next
  <2>1. PICK g \in Threads : Step(g)
    BY <1>2 DEF Next
  <2>2. /\ launch' = launch /\ launch \in Launches /\ launch' \in Launches
        /\ g \in Nat /\ idx[g] \in Nat /\ cnd[g] \in {0, 1}
    BY <2>1 DEF Step, TypeInv, TypeOK, Threads
  <2>3. /\ Size \in Nat \ {0} /\ CondSize \in Nat \ {0}
        /\ InputSize \in Nat \ {0} /\ OtherSize \in Nat \ {0}
    BY <2>2, LaunchFacts
  <2>4. /\ Threads' = Threads
        /\ \A b : BufSize(b)' = BufSize(b)
    BY <2>2, LaunchUnchanged
  <2>5. AfterInput \in {"otherloop", "done"}
    BY DEF AfterInput
  <2>6. /\ pc \in [Threads -> PCs] /\ idx \in [Threads -> Nat]
        /\ cnd \in [Threads -> {0, 1}]
    BY DEF TypeInv, TypeOK, PCs
  \* The steps that store nothing.
  <2>7. CASE Return(g) \/ CondStart(g) \/ LoopExit(g) \/ BwdSkipInput(g) \/ BwdSkipOther(g)
    <3>1. UNCHANGED <<mem, writers, stray>>
      BY <2>7 DEF Return, CondStart, LoopExit, BwdSkipInput, BwdSkipOther
    <3>2. Condition[g % CondSize] \in {0, 1}
      BY <2>2, ValuesInt
    <3>3. cnd' \in [Threads -> {0, 1}]
      BY <2>6, <2>7, <3>2 DEF Return, CondStart, LoopExit, BwdSkipInput, BwdSkipOther
    <3>4. pc' \in [Threads -> PCs] /\ idx' \in [Threads -> Nat]
      BY <2>2, <2>5, <2>6, <2>7 DEF Return, CondStart, LoopExit, BwdSkipInput,
         BwdSkipOther, PCs
    <3> QED BY <2>2, <2>4, <3>1, <3>3, <3>4 DEF TypeInv, TypeOK, PCs
  \* The steps that store one element.
  <2>8. CASE BcastFwdStore(g) \/ FwdLoop(g) \/ InLoop(g) \/ OtherLoop(g)
             \/ BwdInput(g) \/ BwdOther(g)
    <3>1. PICK b \in Bufs, i, v \in Int : Write(g, b, i, v)
      <4>1. CASE BcastFwdStore(g)
        BY <2>2, <4>1, ValuesInt DEF BcastFwdStore, Bufs
      <4>2. CASE FwdLoop(g)
        BY <2>2, <4>2, ValuesInt DEF FwdLoop, Bufs
      <4>3. CASE InLoop(g)
        <5>1. OutputGrad[idx[g] % Size] * cnd[g] \in Int
          BY <2>2, ValuesInt
        <5>2. Write(g, "input_grad", idx[g], OutputGrad[idx[g] % Size] * cnd[g])
          BY <4>3 DEF InLoop
        <5> QED BY <2>2, <5>1, <5>2 DEF Bufs
      <4>4. CASE OtherLoop(g)
        BY <2>2, <4>4, ValuesInt DEF OtherLoop, Bufs
      <4>5. CASE BwdInput(g)
        <5>1. g < Size
          BY <4>5 DEF BwdInput
        <5>2. OutputGrad[g] * CondOf(g) \in Int
          BY <2>2, <5>1, ValuesInt
        <5>3. Write(g, "input_grad", Slot(g, InputSize), OutputGrad[g] * CondOf(g))
          BY <4>5 DEF BwdInput
        <5>4. Slot(g, InputSize) \in Int /\ Slot(g, OtherSize) \in Int
          BY <2>2, <2>3 DEF Slot
        <5> QED BY <5>2, <5>3, <5>4 DEF Bufs
      <4>6. CASE BwdOther(g)
        <5>1. g < Size
          BY <2>2, <4>6 DEF BwdOther, ThreadInv
        <5>2. OutputGrad[g] * (1 - CondOf(g)) \in Int
          BY <2>2, <5>1, ValuesInt
        <5>3. Write(g, "other_grad", Slot(g, OtherSize), OutputGrad[g] * (1 - CondOf(g)))
          BY <4>6 DEF BwdOther
        <5>4. Slot(g, InputSize) \in Int /\ Slot(g, OtherSize) \in Int
          BY <2>2, <2>3 DEF Slot
        <5> QED BY <5>2, <5>3, <5>4 DEF Bufs
      <4> QED BY <2>8, <4>1, <4>2, <4>3, <4>4, <4>5, <4>6
    <3>2. UNCHANGED cnd /\ pc' \in [Threads -> PCs] /\ idx' \in [Threads -> Nat]
      BY <2>2, <2>3, <2>6, <2>8 DEF BcastFwdStore, FwdLoop, InLoop, OtherLoop,
         BwdInput, BwdOther, PCs
    <3>3. /\ DOMAIN mem' = Bufs /\ DOMAIN writers' = Bufs
          /\ \A c \in Bufs : mem'[c] \in [0 .. BufSize(c)' - 1 -> Int]
          /\ \A c \in Bufs : writers'[c] \in [0 .. BufSize(c)' - 1 -> SUBSET Threads']
          /\ stray' \in BOOLEAN
      BY <2>2, <3>1, WriteType DEF TypeInv
    <3>4. /\ pc' \in [Threads' -> PCs] /\ idx' \in [Threads' -> Nat]
          /\ cnd' \in [Threads' -> {0, 1}]
      BY <2>4, <2>6, <3>2
    <3> QED BY <2>2, <3>3, <3>4 DEF TypeInv, TypeOK, PCs
  <2> QED BY <2>1, <2>7, <2>8 DEF Step
<1> QED BY <1>1, <1>2

(***************************************************************************)
(* ThreadInv is inductive: a condition-broadcast thread enters its loops  *)
(* at gid below condition_size and adds condition_size to its counter; a  *)
(* backward gid thread reaches "other" past the guard gid < size.         *)
(***************************************************************************)
LEMMA ThreadStep ==
  ASSUME TypeInv, ThreadInv, [Next]_vars
  PROVE  ThreadInv'
<1>1. CASE UNCHANGED vars
  BY <1>1, LaunchUnchanged DEF ThreadInv, vars
<1>2. CASE Next
  <2>1. PICK g \in Threads : Step(g)
    BY <1>2 DEF Next
  <2>2. /\ launch' = launch /\ launch \in Launches
        /\ g \in Nat /\ idx[g] \in Nat
        /\ pc \in [Threads -> PCs] /\ idx \in [Threads -> Nat]
    BY <2>1 DEF Step, TypeInv, TypeOK, Threads, PCs
  <2>3. /\ Threads' = Threads /\ Kernel' = Kernel /\ Size' = Size
        /\ CondSize' = CondSize /\ CondSize \in Nat \ {0}
    BY <2>2, LaunchUnchanged, LaunchFacts
  <2>4. \A h \in Threads : h # g => pc'[h] = pc[h] /\ idx'[h] = idx[h]
    BY <2>1, <2>2 DEF Step, Return, BcastFwdStore, CondStart, FwdLoop, InLoop,
       OtherLoop, LoopExit, BwdInput, BwdSkipInput, BwdOther, BwdSkipOther
  <2>5. SUFFICES ASSUME NEW h \in Threads
                 PROVE  /\ pc'[h] \in Loops =>
                             /\ Kernel \in CondKernels /\ h < CondSize
                             /\ \E k \in Nat : idx'[h] = h + k * CondSize
                        /\ pc'[h] = "other" => Kernel \in {"BcastBwd", "ContigBwd"} /\ h < Size
    BY <2>3 DEF ThreadInv
  <2>6. CASE h # g
    BY <2>4, <2>6 DEF ThreadInv
  \* The thread that steps.
  <2>7. CASE h = g
    <3>1. CASE Return(g) \/ BcastFwdStore(g) \/ BwdOther(g) \/ BwdSkipOther(g)
      BY <2>2, <2>7, <3>1 DEF Return, BcastFwdStore, BwdOther, BwdSkipOther, Loops
    <3>2. CASE CondStart(g)
      <4>1. idx'[g] = g + 0 * CondSize
        BY <2>2, <2>3, <3>2 DEF CondStart
      <4> QED BY <2>2, <2>7, <3>2, <4>1 DEF CondStart, CondKernels, AfterInput, Loops
    <3>3. CASE LoopExit(g)
      <4>1. pc[g] \in Loops
        BY <3>3 DEF LoopExit, Loops
      <4>2. Kernel \in CondKernels /\ g < CondSize
        BY <4>1 DEF ThreadInv
      <4>3. idx'[g] = g + 0 * CondSize
        BY <2>2, <2>3, <3>3 DEF LoopExit
      <4> QED BY <2>2, <2>7, <3>3, <4>2, <4>3 DEF LoopExit, AfterInput, Loops
    <3>4. CASE FwdLoop(g) \/ InLoop(g) \/ OtherLoop(g)
      <4>1. pc[g] \in Loops /\ pc'[g] = pc[g] /\ idx'[g] = idx[g] + CondSize
        BY <2>2, <3>4 DEF FwdLoop, InLoop, OtherLoop, Loops
      <4>2. Kernel \in CondKernels /\ g < CondSize
        BY <4>1 DEF ThreadInv
      <4>3. PICK k \in Nat : idx[g] = g + k * CondSize
        BY <4>1 DEF ThreadInv
      <4>4. idx'[g] = g + (k + 1) * CondSize
        BY <2>2, <2>3, <4>1, <4>3, StrideStep
      <4>5. k + 1 \in Nat
        OBVIOUS
      <4> QED BY <2>7, <4>1, <4>2, <4>4, <4>5 DEF Loops
    <3>5. CASE BwdInput(g) \/ BwdSkipInput(g)
      BY <2>2, <2>7, <3>5 DEF BwdInput, BwdSkipInput, Loops
    <3> QED BY <2>1, <3>1, <3>2, <3>3, <3>4, <3>5 DEF Step
  <2> QED BY <2>6, <2>7
<1> QED BY <1>1, <1>2

\* A store by the owner of an element inside its buffer keeps WritesInv.
LEMMA OwnerWrite ==
  ASSUME TypeInv, WritesInv, launch' = launch, NEW g, NEW b \in Bufs,
         NEW i \in 0 .. BufSize(b) - 1, Owner(b, i) = g, NEW v, Write(g, b, i, v)
  PROVE  WritesInv'
<1>1. /\ \A c : BufSize(c)' = BufSize(c)
      /\ \A c, j : Owner(c, j)' = Owner(c, j)
  BY LaunchUnchanged
<1>2. ~stray'
  BY DEF Write, WritesInv
<1>3. ASSUME NEW c \in Bufs, NEW j \in 0 .. BufSize(c) - 1
      PROVE  writers'[c][j] \subseteq {Owner(c, j)}
  <2>1. /\ writers[c][j] \subseteq {Owner(c, j)}
        /\ writers[b] \in [0 .. BufSize(b) - 1 -> SUBSET Threads]
        /\ DOMAIN writers = Bufs
    BY DEF WritesInv, TypeInv, TypeOK
  <2>2. writers' = [writers EXCEPT ![b] = [writers[b] EXCEPT ![i] = @ \cup {g}]]
    BY DEF Write
  <2>3. CASE c = b /\ j = i
    BY <2>1, <2>2, <2>3
  <2>4. CASE ~(c = b /\ j = i)
    BY <2>1, <2>2, <2>4
  <2> QED BY <2>3, <2>4
<1> QED BY <1>1, <1>2, <1>3 DEF WritesInv

(***************************************************************************)
(* WritesInv is inductive for launches whose gradients cover the grid: a  *)
(* gid kernel stores element gid (gid % input_size is gid below both the  *)
(* grid and input_size), and a looping thread stores g + k * condition_    *)
(* size, whose residue is g.                                              *)
(***************************************************************************)
LEMMA WritesStep ==
  ASSUME IInv, [Next]_vars, \A l \in Launches : GradsCoverGrid(l)
  PROVE  WritesInv'
<1>1. CASE UNCHANGED vars
  <2>1. launch' = launch /\ UNCHANGED <<writers, stray>>
    BY <1>1 DEF vars
  <2>2. /\ \A c : BufSize(c)' = BufSize(c)
        /\ \A c, j : Owner(c, j)' = Owner(c, j)
    BY <2>1, LaunchUnchanged
  <2> QED BY <2>1, <2>2 DEF WritesInv, IInv
<1>2. CASE Next
  <2>1. PICK g \in Threads : Step(g)
    BY <1>2 DEF Next
  <2>2. /\ launch' = launch /\ launch \in Launches
        /\ g \in Nat /\ g < launch.threads /\ idx[g] \in Nat
        /\ TypeInv /\ WritesInv /\ ThreadInv
    <3>1. /\ launch' = launch /\ launch \in Launches /\ idx[g] \in Nat
          /\ TypeInv /\ WritesInv /\ ThreadInv
      BY <2>1 DEF Step, IInv, TypeInv, TypeOK
    <3>2. launch.threads \in Nat
      BY <3>1, LaunchFacts
    <3> QED BY <3>1, <3>2 DEF Threads
  <2>3. /\ Size \in Nat \ {0} /\ CondSize \in Nat \ {0}
        /\ InputSize \in Nat \ {0} /\ OtherSize \in Nat \ {0}
        /\ Kernel = "ContigBwd" => InputSize = Size /\ OtherSize = Size
        /\ BufSize("output") = Size /\ BufSize("input_grad") = InputSize
        /\ BufSize("other_grad") = OtherSize
        /\ GradsCoverGrid(launch)
    BY <2>2, LaunchFacts
  <2>4. CASE Return(g) \/ CondStart(g) \/ LoopExit(g) \/ BwdSkipInput(g) \/ BwdSkipOther(g)
    <3>1. UNCHANGED <<mem, writers, stray>>
      BY <2>4 DEF Return, CondStart, LoopExit, BwdSkipInput, BwdSkipOther
    <3>2. /\ \A c : BufSize(c)' = BufSize(c)
          /\ \A c, j : Owner(c, j)' = Owner(c, j)
      BY <2>2, LaunchUnchanged
    <3> QED BY <2>2, <3>1, <3>2 DEF WritesInv
  <2>5. CASE BcastFwdStore(g)
    <3>1. g \in 0 .. BufSize("output") - 1 /\ Owner("output", g) = g
      BY <2>2, <2>3, <2>5 DEF BcastFwdStore, Owner, CondKernels
    <3> QED BY <2>2, <2>5, <3>1, OwnerWrite DEF BcastFwdStore, Bufs
  \* The three loops of the condition-broadcast kernels.
  <2>6. CASE FwdLoop(g) \/ InLoop(g) \/ OtherLoop(g)
    <3>1. pc[g] \in Loops
      BY <2>6 DEF FwdLoop, InLoop, OtherLoop, Loops
    <3>2. Kernel \in CondKernels /\ g < CondSize
      BY <2>2, <3>1 DEF ThreadInv
    <3>3. PICK k \in Nat : idx[g] = g + k * CondSize
      BY <2>2, <3>1 DEF ThreadInv
    <3>4. idx[g] % CondSize = g
      BY <2>2, <2>3, <3>2, <3>3, ResidueOfStride
    <3>5. \A b \in Bufs : Owner(b, idx[g]) = g
      BY <3>2, <3>4 DEF Owner
    <3>6. CASE FwdLoop(g)
      BY <2>2, <2>3, <3>5, <3>6, OwnerWrite DEF FwdLoop, Bufs
    <3>7. CASE InLoop(g)
      <4>1. idx[g] \in 0 .. BufSize("input_grad") - 1
        BY <2>2, <2>3, <3>7 DEF InLoop
      <4>2. Write(g, "input_grad", idx[g], OutputGrad[idx[g] % Size] * cnd[g])
        BY <3>7 DEF InLoop
      <4> QED BY <2>2, <3>5, <4>1, <4>2, OwnerWrite DEF Bufs
    <3>8. CASE OtherLoop(g)
      <4>1. idx[g] \in 0 .. BufSize("other_grad") - 1
        BY <2>2, <2>3, <3>8 DEF OtherLoop
      <4>2. Write(g, "other_grad", idx[g], OutputGrad[idx[g] % Size] * (1 - cnd[g]))
        BY <3>8 DEF OtherLoop
      <4> QED BY <2>2, <3>5, <4>1, <4>2, OwnerWrite DEF Bufs
    <3> QED BY <2>6, <3>6, <3>7, <3>8
  \* The two stores of the gid backward kernels.
  <2>7. CASE BwdInput(g) \/ BwdOther(g)
    <3>1. Kernel \in {"BcastBwd", "ContigBwd"} /\ g < Size
      BY <2>2, <2>7 DEF BwdInput, BwdOther, ThreadInv
    <3>2. \A b \in Bufs : Owner(b, g) = g
      BY <3>1 DEF Owner, CondKernels
    <3>3. CASE BwdInput(g)
      <4>1. g < InputSize
        <5>1. CASE Kernel = "ContigBwd"
          BY <2>3, <3>1, <5>1
        <5>2. CASE Kernel = "BcastBwd"
          <6>1. Reach(launch) <= InputSize
            BY <2>3, <3>3, <5>2 DEF BwdInput, GradsCoverGrid, Kernel, InputSize, HasInputGrad
          <6>2. g < Reach(launch)
            BY <2>2, <3>1 DEF Reach, Size
          <6>3. Reach(launch) \in Int
            BY <2>2, <2>3, LaunchFacts DEF Reach, Size
          <6> QED BY <2>2, <2>3, <6>1, <6>2, <6>3
        <5> QED BY <3>1, <5>1, <5>2
      <4>2. Slot(g, InputSize) = g
        BY <2>2, <2>3, <4>1, ModSmall DEF Slot
      <4>3. Write(g, "input_grad", g, OutputGrad[g] * CondOf(g))
        BY <3>3, <4>2 DEF BwdInput
      <4>4. g \in 0 .. BufSize("input_grad") - 1
        BY <2>2, <2>3, <4>1
      <4> QED BY <2>2, <3>2, <4>3, <4>4, OwnerWrite DEF Bufs
    <3>4. CASE BwdOther(g)
      <4>1. g < OtherSize
        <5>1. CASE Kernel = "ContigBwd"
          BY <2>3, <3>1, <5>1
        <5>2. CASE Kernel = "BcastBwd"
          <6>1. Reach(launch) <= OtherSize
            BY <2>3, <3>4, <5>2 DEF BwdOther, GradsCoverGrid, Kernel, OtherSize, HasOtherGrad
          <6>2. g < Reach(launch)
            BY <2>2, <3>1 DEF Reach, Size
          <6>3. Reach(launch) \in Int
            BY <2>2, <2>3, LaunchFacts DEF Reach, Size
          <6> QED BY <2>2, <2>3, <6>1, <6>2, <6>3
        <5> QED BY <3>1, <5>1, <5>2
      <4>2. Slot(g, OtherSize) = g
        BY <2>2, <2>3, <4>1, ModSmall DEF Slot
      <4>3. Write(g, "other_grad", g, OutputGrad[g] * (1 - CondOf(g)))
        BY <3>4, <4>2 DEF BwdOther
      <4>4. g \in 0 .. BufSize("other_grad") - 1
        BY <2>2, <2>3, <4>1
      <4> QED BY <2>2, <3>2, <4>3, <4>4, OwnerWrite DEF Bufs
    <3> QED BY <2>7, <3>3, <3>4
  <2> QED BY <2>1, <2>4, <2>5, <2>6, <2>7 DEF Step
<1> QED BY <1>1, <1>2

\* Every thread starts at the top of its body with its counter at gid, and
\* the buffers start zero-filled and unwritten.
LEMMA InitInv ==
  ASSUME Init
  PROVE  IInv
<1>1. /\ launch \in Launches /\ launch.threads \in Nat
      /\ \A b \in Bufs : BufSize(b) = BufLen(launch, b)
  BY LaunchFacts DEF Init, BufSize
<1>2. TypeInv
  <2>1. \A b \in Bufs : mem[b] \in [0 .. BufSize(b) - 1 -> Int]
    BY <1>1 DEF Init, Zeros
  <2>2. \A b \in Bufs : writers[b] \in [0 .. BufSize(b) - 1 -> SUBSET Threads]
    BY DEF Init
  <2>3. /\ pc \in [Threads -> PCs] /\ idx \in [Threads -> Nat]
        /\ cnd \in [Threads -> {0, 1}]
    BY <1>1 DEF Init, Threads, PCs
  <2>4. DOMAIN mem = Bufs /\ DOMAIN writers = Bufs /\ stray \in BOOLEAN
    BY DEF Init
  <2> QED BY <1>1, <2>1, <2>2, <2>3, <2>4 DEF TypeInv, TypeOK, PCs
<1>3. ThreadInv
  BY DEF Init, ThreadInv, Loops
<1>4. WritesInv
  BY <1>1 DEF Init, WritesInv
<1> QED BY <1>2, <1>3, <1>4 DEF IInv

\* At most the owner in a writers set: at most one writer.
LEMMA OneWriter ==
  ASSUME NEW S, NEW o, S \subseteq {o}
  PROVE  Cardinality(S) <= 1
<1>1. IsFiniteSet({o}) /\ Cardinality({o}) = 1
  BY FS_Singleton
<1>2. Cardinality(S) <= Cardinality({o})
  BY <1>1, FS_Subset
<1> QED BY <1>1, <1>2

(***************************************************************************)
(* Type correctness of every launch of the five Where kernels: in every   *)
(* interleaving of the threads, each stores an Int into a buffer that     *)
(* keeps its length, and its loop counter stays a natural number.  It     *)
(* rests on ThreadInv: the value a backward thread stores in "other" is   *)
(* output_grad[gid], defined because gid < size.                          *)
(***************************************************************************)
THEOREM TypeCorrect == Spec => []TypeOK
<1>1. Init => TypeInv /\ ThreadInv
  BY InitInv DEF IInv
<1>2. TypeInv /\ ThreadInv /\ [Next]_vars => (TypeInv /\ ThreadInv)'
  BY TypeStep, ThreadStep
<1>3. TypeInv => TypeOK
  BY DEF TypeInv
<1> QED BY <1>1, <1>2, <1>3, PTL DEF Spec

(***************************************************************************)
(* The Where kernels have no write-write race and no store outside a      *)
(* buffer, in every interleaving of every launch whose gradients hold at  *)
(* least one element per thread of a broadcast backward kernel that       *)
(* passes its early return (GradsCoverGrid): the condition-broadcast      *)
(* loops of thread g store only elements congruent to g modulo condition_ *)
(* size, and the gid kernels only element gid.  The hypothesis is what    *)
(* the broadcast backward launches of the racing run lack.                *)
(***************************************************************************)
THEOREM RaceFree ==
  ASSUME \A l \in Launches : GradsCoverGrid(l)
  PROVE  Spec => []NoRacingStores
<1>1. Init => IInv
  BY InitInv
<1>2. IInv /\ [Next]_vars => IInv'
  BY TypeStep, ThreadStep, WritesStep DEF IInv
<1>3. IInv => NoRacingStores
  BY OneWriter DEF IInv, WritesInv, NoRacingStores
<1> QED BY <1>1, <1>2, <1>3, PTL DEF Spec
=============================================================================
