------------------------ MODULE WhereRefinementProofs ------------------------
(***************************************************************************)
(* The Where kernels implement the forward part of their promise          *)
(* (KernelOutput over the output buffer), for every launch: a forward     *)
(* thread stores each output element once, with the value                 *)
(* mloWhereForwardRunHost computes for it, and a backward launch leaves   *)
(* output alone.  The backward promises are about what the host's loop,   *)
(* a recursive function, leaves in a gradient; that needs induction over  *)
(* the loop and stays with TLC.                                            *)
(***************************************************************************)
EXTENDS WhereKernelProofs

\* A thread of a condition-broadcast forward launch holds its condition
\* bit in cnd while it loops.
CndInv ==
  \A g \in Threads : pc[g] = "fwdloop" => cnd[g] = Condition[g % CondSize]

\* Every writer of an output element is its owner, and has passed it: it
\* has finished, or loops at a counter beyond it.
OutWriters ==
  \A i \in 0 .. Size - 1 : \A h \in writers["output"][i] :
    /\ h = Owner("output", i)
    /\ pc[h] = "done" \/ (pc[h] = "fwdloop" /\ i < idx[h])

\* A written output element holds the host's value for it.
OutValues ==
  \A i \in 0 .. Size - 1 :
    writers["output"][i] # {} => mem["output"][i] = HostResultOf(launch, "output")[i]

FwdInv == CndInv /\ OutWriters /\ OutValues

RefInvW == TypeInv /\ ThreadInv /\ FwdInv

\* The grid of a forward launch gives every output element's owner a
\* thread: one per output element for WhereBroadcastedContiguousForward,
\* one per condition element for WhereConditionBroadcastedContiguousForward.
ForwardGridCovers(l) ==
  l.kernel \in {"BcastFwd", "CondBcastFwd"} =>
    l.threads >= (IF l.kernel = "CondBcastFwd" THEN l.condition_size ELSE l.size)

\* Thread g is past output element j: it has finished, or loops beyond j.
Passed(g, j) == pc[g] = "done" \/ (pc[g] = "fwdloop" /\ j < idx[g])

\* An output element whose owner is past it has been stored.
OutCovered ==
  \A j \in 0 .. Size - 1 :
    /\ Kernel = "BcastFwd" /\ j \in Threads /\ pc[j] = "done"
         => writers["output"][j] # {}
    /\ Kernel = "CondBcastFwd" /\ j % CondSize \in Threads /\ Passed(j % CondSize, j)
         => writers["output"][j] # {}

\* A forward launch's threads are only at the points of its own body.
FwdPcs ==
  /\ Kernel = "BcastFwd" => \A g \in Threads : pc[g] \in {"start", "done"}
  /\ Kernel = "CondBcastFwd" => \A g \in Threads : pc[g] \in {"start", "fwdloop", "done"}

CovInv == FwdPcs /\ OutCovered

-----------------------------------------------------------------------------
\* A thread never goes back: once done it takes no step, and in the
\* forward loop its counter only grows until it is done.
LEMMA Progress ==
  ASSUME TypeInv, NEW g \in Threads, Step(g), NEW h \in Threads, NEW i \in Nat,
         pc[h] = "done" \/ (pc[h] = "fwdloop" /\ i < idx[h])
  PROVE  pc'[h] = "done" \/ (pc'[h] = "fwdloop" /\ i < idx'[h])
<1>1. /\ launch' = launch /\ launch \in Launches
      /\ pc \in [Threads -> PCs] /\ idx \in [Threads -> Nat]
  BY DEF Step, TypeInv, TypeOK, PCs
<1>2. /\ Threads' = Threads /\ CondSize \in Nat \ {0}
  BY <1>1, LaunchUnchanged, LaunchFacts
<1>3. CASE h # g
  <2>1. pc'[h] = pc[h] /\ idx'[h] = idx[h]
    BY <1>1, <1>3 DEF Step, Return, BcastFwdStore, CondStart, FwdLoop, InLoop, OtherLoop,
       LoopExit, BwdInput, BwdSkipInput, BwdOther, BwdSkipOther
  <2> QED BY <2>1
<1>4. CASE h = g
  <2>1. pc[g] = "fwdloop" /\ i < idx[g]
    BY <1>4 DEF Step, Return, BcastFwdStore, CondStart, FwdLoop, InLoop, OtherLoop,
       LoopExit, BwdInput, BwdSkipInput, BwdOther, BwdSkipOther
  <2>2. FwdLoop(g) \/ LoopExit(g)
    BY <2>1 DEF Step, Return, BcastFwdStore, CondStart, InLoop, OtherLoop,
       BwdInput, BwdSkipInput, BwdOther, BwdSkipOther
  <2>3. CASE FwdLoop(g)
    BY <1>1, <1>2, <1>4, <2>1, <2>3 DEF FwdLoop
  <2>4. CASE LoopExit(g)
    BY <1>1, <1>4, <2>1, <2>4 DEF LoopExit
  <2> QED BY <2>2, <2>3, <2>4
<1> QED BY <1>3, <1>4

\* The steps that do not store into output leave it, and its writers, alone.
LEMMA OutputFrame ==
  ASSUME TypeInv, NEW g \in Threads,
         \/ Return(g) \/ CondStart(g) \/ LoopExit(g) \/ BwdSkipInput(g) \/ BwdSkipOther(g)
         \/ InLoop(g) \/ OtherLoop(g) \/ BwdInput(g) \/ BwdOther(g)
  PROVE  mem'["output"] = mem["output"] /\ writers'["output"] = writers["output"]
<1>1. DOMAIN mem = Bufs /\ DOMAIN writers = Bufs
  BY DEF TypeInv
<1>2. CASE Return(g) \/ CondStart(g) \/ LoopExit(g) \/ BwdSkipInput(g) \/ BwdSkipOther(g)
  BY <1>2 DEF Return, CondStart, LoopExit, BwdSkipInput, BwdSkipOther
<1>3. CASE InLoop(g) \/ BwdInput(g)
  <2>1. PICK i, v : Write(g, "input_grad", i, v)
    BY <1>3 DEF InLoop, BwdInput
  <2> QED BY <1>1, <2>1 DEF Write, Bufs
<1>4. CASE OtherLoop(g) \/ BwdOther(g)
  <2>1. PICK i, v : Write(g, "other_grad", i, v)
    BY <1>4 DEF OtherLoop, BwdOther
  <2> QED BY <1>1, <2>1 DEF Write, Bufs
<1> QED BY <1>2, <1>3, <1>4

\* The two stores into output: element gid of the broadcast forward
\* kernel, and element idx of the condition-broadcast forward loop, which
\* its thread owns and which is in the buffer; both store the host's value.
LEMMA OutputStore ==
  ASSUME TypeInv, ThreadInv, CndInv, NEW g \in Threads, BcastFwdStore(g) \/ FwdLoop(g)
  PROVE  \E j \in 0 .. Size - 1 :
           /\ Owner("output", j) = g
           /\ Write(g, "output", j, HostResultOf(launch, "output")[j])
           /\ BcastFwdStore(g) => j = g /\ pc[g] = "start" /\ pc'[g] = "done"
           /\ FwdLoop(g) => j = idx[g] /\ pc[g] = "fwdloop" /\ pc'[g] = "fwdloop"
                            /\ idx'[g] = idx[g] + CondSize
<1>1. /\ launch \in Launches /\ g \in Nat
      /\ idx \in [Threads -> Nat] /\ cnd \in [Threads -> {0, 1}]
  BY LaunchFacts DEF TypeInv, TypeOK, Threads
<1>2. /\ Size \in Nat \ {0} /\ CondSize \in Nat \ {0}
      /\ InputSize \in Nat \ {0} /\ OtherSize \in Nat \ {0}
  BY <1>1, LaunchFacts
<1>3. \A j \in 0 .. Size - 1 :
        HostResultOf(launch, "output")[j]
          = IF Condition[j % CondSize] # 0 THEN Input[j % InputSize] ELSE Other[j % OtherSize]
  BY DEF HostResultOf, HostForward, Size, CondSize, InputSize, OtherSize
<1>4. CASE BcastFwdStore(g)
  <2>1. /\ Kernel = "BcastFwd" /\ g < Size /\ pc[g] = "start" /\ pc'[g] = "done"
        /\ Write(g, "output", g, Select(Condition[g % CondSize], g))
    BY <1>1, <1>4 DEF BcastFwdStore, TypeInv, TypeOK
  <2>2. Owner("output", g) = g /\ ~FwdLoop(g)
    BY <2>1 DEF Owner, CondKernels, FwdLoop
  <2>3. Select(Condition[g % CondSize], g) = HostResultOf(launch, "output")[g]
    BY <1>1, <1>2, <1>3, <2>1 DEF Select
  <2>4. g \in 0 .. Size - 1
    BY <1>1, <1>2, <2>1
  <2>5. Write(g, "output", g, HostResultOf(launch, "output")[g])
    BY <2>1, <2>3 DEF Write
  <2> QED BY <2>1, <2>2, <2>4, <2>5
<1>5. CASE FwdLoop(g)
  <2>1. /\ pc[g] = "fwdloop" /\ idx[g] < Size
        /\ Write(g, "output", idx[g], Select(cnd[g], idx[g]))
        /\ pc'[g] = "fwdloop" /\ idx'[g] = idx[g] + CondSize
    BY <1>1, <1>5 DEF FwdLoop, TypeInv, TypeOK
  <2>2. /\ Kernel \in CondKernels /\ g < CondSize
        /\ \E k \in Nat : idx[g] = g + k * CondSize
    BY <2>1 DEF ThreadInv, Loops
  <2>3. idx[g] % CondSize = g /\ g % CondSize = g
    BY <1>1, <1>2, <2>2, ResidueOfStride, ModSmall
  <2>4. Owner("output", idx[g]) = g /\ ~BcastFwdStore(g)
    BY <2>1, <2>2, <2>3 DEF Owner, BcastFwdStore
  <2>5. cnd[g] = Condition[idx[g] % CondSize]
    BY <2>1, <2>3 DEF CndInv
  <2>6. Select(cnd[g], idx[g]) = HostResultOf(launch, "output")[idx[g]]
    BY <1>1, <1>2, <1>3, <2>1, <2>5 DEF Select
  <2>7. idx[g] \in 0 .. Size - 1
    BY <1>1, <1>2, <2>1
  <2>8. Write(g, "output", idx[g], HostResultOf(launch, "output")[idx[g]])
    BY <2>1, <2>6 DEF Write
  <2> QED BY <2>1, <2>4, <2>7, <2>8
<1> QED BY <1>4, <1>5

(***************************************************************************)
(* FwdInv is inductive, for every launch: the condition bit is read where *)
(* the forward loop starts; a store into output is by the element's owner *)
(* and moves it past the element; and it stores the host's value.        *)
(***************************************************************************)
LEMMA FwdStep ==
  ASSUME TypeInv, ThreadInv, FwdInv, [Next]_vars
  PROVE  FwdInv'
<1>1. CASE UNCHANGED vars
  <2>1. launch' = launch
    BY <1>1 DEF vars
  <2>2. /\ Threads' = Threads /\ Size' = Size /\ CondSize' = CondSize
        /\ \A b, i : Owner(b, i)' = Owner(b, i)
    BY <2>1, LaunchUnchanged
  <2> QED BY <1>1, <2>1, <2>2 DEF FwdInv, CndInv, OutWriters, OutValues, vars
<1>2. CASE Next
  <2>1. PICK g \in Threads : Step(g)
    BY <1>2 DEF Next
  <2>2. /\ launch' = launch /\ launch \in Launches
        /\ pc \in [Threads -> PCs] /\ idx \in [Threads -> Nat]
        /\ cnd \in [Threads -> {0, 1}]
    BY <2>1 DEF Step, TypeInv, TypeOK, PCs
  <2>3. /\ Threads' = Threads /\ Size' = Size /\ CondSize' = CondSize
        /\ \A b, i : Owner(b, i)' = Owner(b, i)
        /\ Size \in Nat \ {0}
    BY <2>2, LaunchUnchanged, LaunchFacts
  <2>4. CndInv'
    <3>1. SUFFICES ASSUME NEW h \in Threads, pc'[h] = "fwdloop"
                   PROVE  cnd'[h] = Condition[h % CondSize]
      BY <2>3 DEF CndInv
    <3>2. CASE h # g
      <4>1. pc'[h] = pc[h] /\ cnd'[h] = cnd[h]
        BY <2>1, <2>2, <3>2 DEF Step, Return, BcastFwdStore, CondStart, FwdLoop, InLoop,
           OtherLoop, LoopExit, BwdInput, BwdSkipInput, BwdOther, BwdSkipOther
      <4> QED BY <3>1, <4>1 DEF FwdInv, CndInv
    <3>3. CASE h = g
      <4>1. CASE CondStart(g)
        BY <2>2, <3>3, <4>1 DEF CondStart
      <4>2. CASE FwdLoop(g)
        BY <2>2, <3>3, <4>2 DEF FwdLoop, FwdInv, CndInv
      <4>3. CASE ~CondStart(g) /\ ~FwdLoop(g)
        <5>1. pc'[g] # "fwdloop"
          BY <2>1, <2>2, <4>3 DEF Step, Return, BcastFwdStore, InLoop, OtherLoop, LoopExit,
             BwdInput, BwdSkipInput, BwdOther, BwdSkipOther, AfterInput
        <5> QED BY <3>1, <3>3, <5>1
      <4> QED BY <4>1, <4>2, <4>3
    <3> QED BY <3>2, <3>3
  <2>5. OutWriters' /\ OutValues'
    <3>1. CASE BcastFwdStore(g) \/ FwdLoop(g)
      <4>1. PICK j \in 0 .. Size - 1 :
              /\ Owner("output", j) = g
              /\ Write(g, "output", j, HostResultOf(launch, "output")[j])
              /\ BcastFwdStore(g) => j = g /\ pc[g] = "start" /\ pc'[g] = "done"
              /\ FwdLoop(g) => j = idx[g] /\ pc[g] = "fwdloop" /\ pc'[g] = "fwdloop"
                               /\ idx'[g] = idx[g] + CondSize
        BY <3>1, OutputStore DEF FwdInv
      <4>2. \A i \in 0 .. Size - 1 :
              /\ writers'["output"][i] = IF i = j THEN writers["output"][i] \cup {g}
                                                   ELSE writers["output"][i]
              /\ mem'["output"][i] = IF i = j THEN HostResultOf(launch, "output")[j]
                                              ELSE mem["output"][i]
        <5>1. /\ mem["output"] \in [0 .. Size - 1 -> Int]
              /\ writers["output"] \in [0 .. Size - 1 -> SUBSET Threads]
              /\ DOMAIN mem = Bufs /\ DOMAIN writers = Bufs
          BY LaunchFacts DEF TypeInv, TypeOK, Bufs
        <5> QED BY <4>1, <5>1 DEF Write, Bufs
      <4>3. pc'[g] = "done" \/ (pc'[g] = "fwdloop" /\ j < idx'[g])
        <5>1. CASE BcastFwdStore(g)
          BY <4>1, <5>1
        <5>2. CASE FwdLoop(g)
          BY <2>2, <2>3, <4>1, <5>2, LaunchFacts
        <5> QED BY <3>1, <5>1, <5>2
      <4>4. OutWriters'
        <5>1. SUFFICES ASSUME NEW i \in 0 .. Size - 1, NEW h \in writers'["output"][i]
                       PROVE  /\ h = Owner("output", i)
                              /\ pc'[h] = "done" \/ (pc'[h] = "fwdloop" /\ i < idx'[h])
          BY <2>3 DEF OutWriters
        <5>2. CASE h \in writers["output"][i]
          <6>1. /\ h = Owner("output", i)
                /\ pc[h] = "done" \/ (pc[h] = "fwdloop" /\ i < idx[h])
            BY <5>2 DEF FwdInv, OutWriters
          <6>2. h \in Threads
            BY <5>2, LaunchFacts DEF TypeInv, TypeOK, Bufs
          <6> QED BY <2>1, <6>1, <6>2, Progress
        <5>3. CASE h \notin writers["output"][i]
          <6>1. i = j /\ h = g
            BY <4>2, <5>1, <5>3
          <6> QED BY <4>1, <4>3, <6>1
        <5> QED BY <5>2, <5>3
      <4>5. OutValues'
        <5>1. SUFFICES ASSUME NEW i \in 0 .. Size - 1, writers'["output"][i] # {}
                       PROVE  mem'["output"][i] = HostResultOf(launch, "output")[i]
          BY <2>2, <2>3 DEF OutValues
        <5>2. CASE i = j
          BY <4>2, <5>2
        <5>3. CASE i # j
          BY <4>2, <5>1, <5>3 DEF FwdInv, OutValues
        <5> QED BY <5>2, <5>3
      <4> QED BY <4>4, <4>5
    <3>2. CASE ~BcastFwdStore(g) /\ ~FwdLoop(g)
      <4>1. mem'["output"] = mem["output"] /\ writers'["output"] = writers["output"]
        BY <2>1, <3>2, OutputFrame DEF Step
      <4>2. OutWriters'
        <5>1. SUFFICES ASSUME NEW i \in 0 .. Size - 1, NEW h \in writers'["output"][i]
                       PROVE  /\ h = Owner("output", i)
                              /\ pc'[h] = "done" \/ (pc'[h] = "fwdloop" /\ i < idx'[h])
          BY <2>3 DEF OutWriters
        <5>2. /\ h = Owner("output", i)
              /\ pc[h] = "done" \/ (pc[h] = "fwdloop" /\ i < idx[h])
          BY <4>1 DEF FwdInv, OutWriters
        <5>3. h \in Threads
          BY <4>1, LaunchFacts DEF TypeInv, TypeOK, Bufs
        <5> QED BY <2>1, <5>2, <5>3, Progress
      <4>3. OutValues'
        BY <2>2, <2>3, <4>1 DEF FwdInv, OutValues
      <4> QED BY <4>2, <4>3
    <3> QED BY <3>1, <3>2
  <2> QED BY <2>4, <2>5 DEF FwdInv
<1> QED BY <1>1, <1>2

\* The output buffer as the promise sees it is left alone by every step
\* but a store into output, and a store into element j moves it by the
\* promise's Store(j).
LEMMA RefineStepW ==
  ASSUME RefInvW, [Next]_vars
  PROVE  [PromiseOutput!Next]_(PromiseOutput!vars)
<1>1. /\ launch \in Launches /\ Size \in Nat \ {0}
      /\ BufSize("output") = Size /\ BufLen(launch, "output") = Size
      /\ mem["output"] \in [0 .. Size - 1 -> Int]
      /\ writers["output"] \in [0 .. Size - 1 -> SUBSET Threads]
  BY LaunchFacts DEF RefInvW, TypeInv, TypeOK, Bufs, BufSize
<1>2. CASE UNCHANGED vars
  BY <1>2 DEF vars, PromiseOutput!vars, Shown, BufSize
<1>3. CASE Next
  <2>1. PICK g \in Threads : Step(g)
    BY <1>3 DEF Next
  <2>2. launch' = launch /\ Size' = Size /\ BufSize("output")' = Size
    BY <2>1, <1>1, LaunchUnchanged DEF Step, TypeInv, TypeOK, BufSize
  <2>3. CASE BcastFwdStore(g) \/ FwdLoop(g)
    <3>1. PICK j \in 0 .. Size - 1 :
            /\ Owner("output", j) = g
            /\ Write(g, "output", j, HostResultOf(launch, "output")[j])
            /\ BcastFwdStore(g) => j = g /\ pc[g] = "start" /\ pc'[g] = "done"
            /\ FwdLoop(g) => j = idx[g] /\ pc[g] = "fwdloop" /\ pc'[g] = "fwdloop"
                             /\ idx'[g] = idx[g] + CondSize
      BY <2>3, OutputStore DEF RefInvW, FwdInv
    <3>2. \A i \in 0 .. Size - 1 :
            /\ writers'["output"][i] = IF i = j THEN writers["output"][i] \cup {g}
                                                 ELSE writers["output"][i]
            /\ mem'["output"][i] = IF i = j THEN HostResultOf(launch, "output")[j]
                                            ELSE mem["output"][i]
      <4>1. DOMAIN mem = Bufs /\ DOMAIN writers = Bufs
        BY DEF RefInvW, TypeInv
      <4> QED BY <1>1, <3>1, <4>1 DEF Write, Bufs
    \* The owner has not passed element j yet, so nobody stored it.
    <3>3. writers["output"][j] = {}
      <4>1. SUFFICES ASSUME NEW h \in writers["output"][j] PROVE FALSE
        OBVIOUS
      <4>2. h = g /\ (pc[g] = "done" \/ (pc[g] = "fwdloop" /\ j < idx[g]))
        BY <3>1 DEF RefInvW, FwdInv, OutWriters
      <4>3. idx[g] \in Nat
        BY DEF RefInvW, TypeInv, TypeOK
      <4> QED BY <2>3, <3>1, <4>2, <4>3
    <3>4. Shown("output")[j] = << >>
      BY <1>1, <3>3 DEF Shown
    <3>5. Shown("output")' = [Shown("output") EXCEPT ![j] = Expected(launch, "output")[j]]
      BY <1>1, <2>2, <3>2 DEF Shown, Expected
    <3>6. PromiseOutput!Store(j)
      BY <2>2, <3>4, <3>5 DEF PromiseOutput!Store
    <3> QED BY <1>1, <3>6 DEF PromiseOutput!Next
  <2>4. CASE ~BcastFwdStore(g) /\ ~FwdLoop(g)
    <3>1. mem'["output"] = mem["output"] /\ writers'["output"] = writers["output"]
      BY <2>1, <2>4, OutputFrame DEF Step, RefInvW
    <3> QED BY <2>2, <3>1, <1>1 DEF PromiseOutput!vars, Shown
  <2> QED BY <2>3, <2>4
<1> QED BY <1>2, <1>3

\* The initial state is an unwritten output buffer of a launch of the set.
LEMMA InitW ==
  ASSUME Init
  PROVE  RefInvW /\ PromiseOutput!Init
<1>1. TypeInv /\ ThreadInv
  BY InitInv DEF IInv
<1>2. /\ launch \in Launches /\ pc = [g \in Threads |-> "start"]
      /\ writers["output"] = [i \in 0 .. BufSize("output") - 1 |-> {}]
  BY DEF Init, Bufs
<1>3. FwdInv
  BY <1>2, LaunchFacts DEF FwdInv, CndInv, OutWriters, OutValues
<1>4. PromiseOutput!Init
  BY <1>2 DEF PromiseOutput!Init, Shown, BufSize
<1> QED BY <1>1, <1>3, <1>4 DEF RefInvW

(***************************************************************************)
(* The Where kernels implement what they promise about the output buffer, *)
(* for every launch of every kernel: seen through Shown, the buffer goes  *)
(* from unwritten to the host's result (mloWhereForwardRunHost) by stores *)
(* of final values, one element at a time, with no store overwriting one *)
(* already made.  No hypothesis on the launch is needed: a backward      *)
(* kernel never writes output, and a forward thread owns its elements.    *)
(***************************************************************************)
THEOREM ForwardRefinement == Spec => PromiseOutput!SafetySpec
<1>1. Init => RefInvW /\ PromiseOutput!Init
  BY InitW
<1>2. RefInvW /\ [Next]_vars => RefInvW'
  BY TypeStep, ThreadStep, FwdStep DEF RefInvW
<1>3. RefInvW /\ [Next]_vars => [PromiseOutput!Next]_(PromiseOutput!vars)
  BY RefineStepW
<1> QED BY <1>1, <1>2, <1>3, PTL DEF Spec, PromiseOutput!SafetySpec

-----------------------------------------------------------------------------
\* A residue is at most the number it is the residue of.
LEMMA ResidueBelow ==
  ASSUME NEW j \in Nat, NEW n \in Nat \ {0}
  PROVE  j % n <= j
BY Z3

\* The only number of residue g in the stride window [g + k n, g + k n + n)
\* is g + k n itself: the forward loop stores every element of its residue.
LEMMA SameResidue ==
  ASSUME NEW n \in Nat \ {0}, NEW j \in Nat, NEW k \in Nat, NEW g \in 0 .. n - 1,
         j % n = g, g + k * n <= j, j < g + k * n + n
  PROVE  j = g + k * n
<1> DEFINE q == j \div n
<1>1. q \in Nat /\ j = q * n + g
  BY Z3
<1> HIDE DEF q
<1>2. k * n <= q * n /\ q * n < k * n + n
  BY <1>1
<1>3. k <= q /\ q < k + 1
  <2>1. (q - k) * n >= 0 /\ (q - k) * n < n
    BY <1>1, <1>2, Z3
  <2> QED BY <1>1, <2>1, Z3
<1> QED BY <1>1, <1>3

\* A stored output element stays stored, and a store into output marks
\* the element it writes.
LEMMA OutputGrows ==
  ASSUME RefInvW, NEW g \in Threads, Step(g)
  PROVE  /\ \A j \in 0 .. Size - 1 : writers["output"][j] # {} => writers'["output"][j] # {}
         /\ BcastFwdStore(g) => writers'["output"][g] # {}
         /\ FwdLoop(g) => writers'["output"][idx[g]] # {}
<1>1. /\ launch \in Launches /\ Size \in Nat \ {0}
      /\ writers["output"] \in [0 .. Size - 1 -> SUBSET Threads]
      /\ DOMAIN mem = Bufs /\ DOMAIN writers = Bufs
  BY LaunchFacts DEF RefInvW, TypeInv, TypeOK, Bufs
<1>2. CASE BcastFwdStore(g) \/ FwdLoop(g)
  <2>1. PICK j0 \in 0 .. Size - 1 :
          /\ Write(g, "output", j0, HostResultOf(launch, "output")[j0])
          /\ BcastFwdStore(g) => j0 = g
          /\ FwdLoop(g) => j0 = idx[g]
    BY <1>2, OutputStore DEF RefInvW, FwdInv
  <2>2. \A j \in 0 .. Size - 1 :
          writers'["output"][j] = IF j = j0 THEN writers["output"][j] \cup {g}
                                  ELSE writers["output"][j]
    BY <1>1, <2>1 DEF Write, Bufs
  <2> QED BY <2>1, <2>2
<1>3. CASE ~BcastFwdStore(g) /\ ~FwdLoop(g)
  <2>1. writers'["output"] = writers["output"]
    BY <1>3, OutputFrame DEF Step, RefInvW
  <2> QED BY <1>3, <2>1
<1> QED BY <1>2, <1>3

\* The threads of a forward launch stay in their own body, and an output
\* element is stored by the time its owner has passed it.
LEMMA CovStep ==
  ASSUME RefInvW, CovInv, [Next]_vars
  PROVE  CovInv'
<1>1. CASE UNCHANGED vars
  <2>1. launch' = launch
    BY <1>1 DEF vars
  <2> QED BY <1>1, <2>1, LaunchUnchanged DEF vars, CovInv, FwdPcs, OutCovered, Passed
<1>2. CASE Next
  <2>1. PICK g \in Threads : Step(g)
    BY <1>2 DEF Next
  <2>2. /\ launch' = launch /\ launch \in Launches
        /\ pc \in [Threads -> PCs] /\ idx \in [Threads -> Nat]
    BY <2>1 DEF Step, RefInvW, TypeInv, TypeOK, PCs
  <2>3. /\ Threads' = Threads /\ Kernel' = Kernel /\ Size' = Size
        /\ CondSize' = CondSize /\ Limit' = Limit
        /\ Size \in Nat \ {0} /\ CondSize \in Nat \ {0}
    BY <2>2, LaunchUnchanged, LaunchFacts
  \* Every thread other than g keeps its point and its counter.
  <2>4. \A h \in Threads : h # g => pc'[h] = pc[h] /\ idx'[h] = idx[h]
    BY <2>1, <2>2 DEF Step, Return, BcastFwdStore, CondStart, FwdLoop, InLoop,
       OtherLoop, LoopExit, BwdInput, BwdSkipInput, BwdOther, BwdSkipOther
  <2>5. FwdPcs'
    <3>1. SUFFICES ASSUME NEW h \in Threads
                   PROVE  /\ Kernel = "BcastFwd" => pc'[h] \in {"start", "done"}
                          /\ Kernel = "CondBcastFwd" => pc'[h] \in {"start", "fwdloop", "done"}
      BY <2>3 DEF FwdPcs
    <3>2. CASE h # g
      BY <2>4, <3>2 DEF CovInv, FwdPcs
    <3>3. CASE h = g /\ Kernel = "BcastFwd"
      <4>1. pc[g] \in {"start", "done"}
        BY <3>3 DEF CovInv, FwdPcs
      <4> QED BY <2>1, <2>2, <3>3, <4>1 DEF Step, Return, BcastFwdStore, CondStart,
                 FwdLoop, InLoop, OtherLoop, LoopExit, BwdInput, BwdSkipInput, BwdOther,
                 BwdSkipOther
    <3>4. CASE h = g /\ Kernel = "CondBcastFwd"
      <4>1. pc[g] \in {"start", "fwdloop", "done"}
        BY <3>4 DEF CovInv, FwdPcs
      <4> QED BY <2>1, <2>2, <3>4, <4>1 DEF Step, Return, BcastFwdStore, CondStart,
                 FwdLoop, InLoop, OtherLoop, LoopExit, BwdInput, BwdSkipInput, BwdOther,
                 BwdSkipOther
    <3> QED BY <3>2, <3>3, <3>4
  <2>6. \A j \in 0 .. Size - 1 : writers["output"][j] # {} => writers'["output"][j] # {}
    BY <2>1, OutputGrows
  <2>7. OutCovered'
    <3>1. SUFFICES ASSUME NEW j \in 0 .. Size - 1
                   PROVE  /\ Kernel = "BcastFwd" /\ j \in Threads /\ pc'[j] = "done"
                               => writers'["output"][j] # {}
                          /\ Kernel = "CondBcastFwd" /\ j % CondSize \in Threads
                             /\ (pc'[j % CondSize] = "done"
                                 \/ (pc'[j % CondSize] = "fwdloop" /\ j < idx'[j % CondSize]))
                               => writers'["output"][j] # {}
      BY <2>3 DEF OutCovered, Passed
    <3>2. ASSUME Kernel = "BcastFwd", j \in Threads, pc'[j] = "done"
          PROVE  writers'["output"][j] # {}
      <4>1. CASE pc[j] = "done"
        BY <3>2, <4>1, <2>6 DEF CovInv, OutCovered
      <4>2. CASE pc[j] # "done"
        <5>1. j = g /\ pc[g] = "start"
          BY <2>4, <3>2, <4>2 DEF CovInv, FwdPcs
        <5>2. BcastFwdStore(g) \/ Return(g)
          BY <2>1, <3>2, <5>1 DEF Step, CondStart, FwdLoop, InLoop, OtherLoop, LoopExit,
             BwdInput, BwdSkipInput, BwdOther, BwdSkipOther
        <5>3. ~Return(g)
          BY <2>3, <3>2, <5>1 DEF Return, Limit
        <5> QED BY <2>1, <5>1, <5>2, <5>3, OutputGrows
      <4> QED BY <4>1, <4>2
    <3>3. ASSUME Kernel = "CondBcastFwd", j % CondSize \in Threads,
                 pc'[j % CondSize] = "done"
                 \/ (pc'[j % CondSize] = "fwdloop" /\ j < idx'[j % CondSize])
          PROVE  writers'["output"][j] # {}
      <4> DEFINE h == j % CondSize
      <4> USE DEF h
      <4>1. h \in 0 .. CondSize - 1 /\ h <= j
        <5>1. j \in Nat /\ CondSize \in Nat \ {0}
          BY <2>3
        <5>2. j % CondSize \in 0 .. CondSize - 1 /\ j % CondSize <= j
          BY <5>1, ModRange, ResidueBelow
        <5> QED BY <5>2
      <4>2. CASE Passed(h, j)
        BY <3>3, <4>2, <2>6 DEF CovInv, OutCovered
      <4>3. CASE ~Passed(h, j)
        <5>1. h = g /\ pc[g] \in {"start", "fwdloop"}
          BY <2>4, <3>3, <4>3 DEF Passed, CovInv, FwdPcs
        <5>2. CondStart(g) \/ FwdLoop(g) \/ LoopExit(g) \/ Return(g)
          BY <2>1, <3>3, <5>1 DEF Step, BcastFwdStore, InLoop, OtherLoop,
             BwdInput, BwdSkipInput, BwdOther, BwdSkipOther
        <5>3. ~Return(g)
          BY <2>3, <3>3, <4>1, <5>1 DEF Return, Limit
        <5>4. ~CondStart(g)
          BY <2>2, <3>3, <4>1, <5>1 DEF CondStart
        <5>5. ~LoopExit(g)
          BY <2>2, <2>3, <4>3, <5>1 DEF LoopExit, Passed
        <5>6. ASSUME FwdLoop(g) PROVE writers'["output"][j] # {}
          <6>1. pc[g] = "fwdloop" /\ pc'[g] = "fwdloop" /\ idx'[g] = idx[g] + CondSize
            BY <2>2, <5>6 DEF FwdLoop
          <6>2. PICK k \in Nat : idx[g] = g + k * CondSize
            BY <6>1 DEF RefInvW, ThreadInv, Loops
          <6>3. idx[g] <= j /\ j < idx[g] + CondSize
            BY <2>2, <2>3, <3>3, <4>3, <5>1, <6>1 DEF Passed
          <6>4. j = idx[g]
            BY <2>3, <4>1, <5>1, <6>2, <6>3, SameResidue
          <6> QED BY <2>1, <5>6, <6>4, OutputGrows
        <5> QED BY <5>2, <5>3, <5>4, <5>5, <5>6
      <4> QED BY <4>2, <4>3
    <3> QED BY <3>2, <3>3
  <2> QED BY <2>5, <2>7 DEF CovInv
<1> QED BY <1>1, <1>2

\* Once every thread of a forward launch whose grid covers its owners is
\* done, every output element has been stored.
LEMMA AllStored ==
  ASSUME RefInvW, CovInv, IsForward, Done, ForwardGridCovers(launch)
  PROVE  \A i \in 0 .. Size - 1 : writers["output"][i] # {}
<1>1. /\ launch \in Launches /\ launch.threads \in Nat
      /\ Size \in Nat \ {0} /\ CondSize \in Nat \ {0}
  BY LaunchFacts DEF RefInvW, TypeInv, TypeOK
<1> SUFFICES ASSUME NEW i \in 0 .. Size - 1 PROVE writers["output"][i] # {}
  OBVIOUS
<1>2. CASE Kernel = "BcastFwd"
  <2>1. i \in Threads
    BY <1>1, <1>2 DEF ForwardGridCovers, Threads, Kernel, Size
  <2>2. pc[i] = "done"
    BY <2>1 DEF Done
  <2> QED BY <1>2, <2>1, <2>2 DEF CovInv, OutCovered
<1>3. CASE Kernel = "CondBcastFwd"
  <2>1. i % CondSize \in 0 .. CondSize - 1
    BY <1>1, ModRange
  <2>2. i % CondSize \in Threads
    BY <1>1, <1>3, <2>1 DEF ForwardGridCovers, Threads, Kernel, CondSize
  <2>3. Passed(i % CondSize, i)
    BY <2>2 DEF Done, Passed
  <2> QED BY <1>3, <2>2, <2>3 DEF CovInv, OutCovered
<1> QED BY <1>2, <1>3 DEF IsForward

(***************************************************************************)
(* A forward launch leaves in output exactly what mloWhereForwardRunHost  *)
(* computes, once all its threads are done (the forward half of           *)
(* ResultMatchesHost), for every launch whose grid gives each output      *)
(* element's owner a thread.  Without that hypothesis the property fails: *)
(* an element whose owner has no thread keeps its initial contents.       *)
(***************************************************************************)
THEOREM ForwardResult ==
  ASSUME \A l \in Launches : ForwardGridCovers(l)
  PROVE  Spec => [](IsForward => ResultMatchesHost)
<1>1. Init => RefInvW /\ CovInv
  <2> SUFFICES ASSUME Init PROVE RefInvW /\ CovInv
    OBVIOUS
  <2>1. RefInvW
    BY InitW
  <2>2. pc = [g \in Threads |-> "start"]
    BY DEF Init
  <2> QED BY <2>1, <2>2 DEF CovInv, FwdPcs, OutCovered, Passed
<1>2. RefInvW /\ CovInv /\ [Next]_vars => (RefInvW /\ CovInv)'
  BY TypeStep, ThreadStep, FwdStep, CovStep DEF RefInvW
<1>3. RefInvW /\ CovInv => (IsForward => ResultMatchesHost)
  <2> SUFFICES ASSUME RefInvW, CovInv, IsForward, Done
               PROVE  mem["output"] = HostResult("output")
    BY DEF ResultMatchesHost, Outputs
  <2>1. /\ launch \in Launches /\ ForwardGridCovers(launch)
        /\ mem["output"] \in [0 .. Size - 1 -> Int]
    BY LaunchFacts DEF RefInvW, TypeInv, TypeOK, Bufs, BufSize
  <2>2. \A i \in 0 .. Size - 1 : writers["output"][i] # {}
    BY <2>1, AllStored
  <2>3. \A i \in 0 .. Size - 1 : mem["output"][i] = HostResultOf(launch, "output")[i]
    BY <2>2 DEF RefInvW, FwdInv, OutValues
  <2>4. HostResultOf(launch, "output")
          = [o \in 0 .. Size - 1 |-> HostResultOf(launch, "output")[o]]
    BY DEF HostResultOf, HostForward, Size
  <2>5. mem["output"] = [o \in 0 .. Size - 1 |-> mem["output"][o]]
    BY <2>1
  <2> HIDE DEF Size
  <2> QED BY <2>3, <2>4, <2>5 DEF HostResult
<1> QED BY <1>1, <1>2, <1>3, PTL DEF Spec
=============================================================================
