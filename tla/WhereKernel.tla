----------------------------- MODULE WhereKernel -----------------------------
(***************************************************************************)
(* The Where kernels of src/src/kernels/MIOpenWhere.cpp.  One launch of   *)
(* one of the five kernels: every GPU thread gid of the launch grid is a   *)
(* process that returns early past its bound, or stores its elements of   *)
(* the output (forward) or of the input and other gradients (backward).   *)
(* The tensors are seen as the kernels see them: flat buffers, indexed    *)
(* modulo the contiguous-broadcast sizes the launcher passes.  The        *)
(* buffer offsets (the _off arguments) shift every access of one buffer  *)
(* alike and are 0.                                                       *)
(***************************************************************************)
EXTENDS Integers, FiniteSets, WhereHost

CONSTANTS
  Launches,      \* the launches to consider (LaunchRecord below)
  DataLen,       \* the data are given on 0 .. DataLen - 1
  Condition,     \* condition, into {0, 1}
  Input,         \* input
  Other,         \* other
  OutputGrad     \* output_grad

Kernels == {"BcastFwd", "CondBcastFwd", "BcastBwd", "CondBcastBwd", "ContigBwd"}

(***************************************************************************)
(* A launch: the kernel, size (elements of output, or of output_grad),    *)
(* condition_size, input_size (of input or input_grad), other_size (of    *)
(* other or other_grad), threads = gridDim.x * blockDim.x, and whether    *)
(* input_grad and other_grad are non-null pointers.                        *)
(***************************************************************************)
LaunchRecord ==
  [kernel : Kernels, size : Nat \ {0}, condition_size : Nat \ {0},
   input_size : Nat \ {0}, other_size : Nat \ {0}, threads : Nat,
   input_grad : BOOLEAN, other_grad : BOOLEAN]

ASSUME LaunchAssumption ==
  /\ DataLen \in Nat
  /\ Launches \subseteq LaunchRecord
  /\ \A l \in Launches :
       /\ \A n \in {l.size, l.condition_size, l.input_size, l.other_size} : n <= DataLen
       /\ l.kernel = "ContigBwd" =>
            l.condition_size = l.size /\ l.input_size = l.size /\ l.other_size = l.size

ASSUME DataAssumption ==
  /\ Condition \in [0 .. DataLen - 1 -> {0, 1}]
  /\ Input \in [0 .. DataLen - 1 -> Int]
  /\ Other \in [0 .. DataLen - 1 -> Int]
  /\ OutputGrad \in [0 .. DataLen - 1 -> Int]

Bufs == {"output", "input_grad", "other_grad"}

\* The elements of buffer b in launch l.
BufLen(l, b) == CASE b = "output" -> l.size [] b = "input_grad" -> l.input_size
                  [] b = "other_grad" -> l.other_size

\* The driver zero-fills every buffer and copies it to the device.
Zeros(l, b) == [i \in 0 .. BufLen(l, b) - 1 |-> 0]

\* The largest grid of the launches.
MaxThreads == CHOOSE m \in {l.threads : l \in Launches} : \A l \in Launches : l.threads <= m

VARIABLES
  launch,   \* the launch: chosen by the caller, fixed for the run
  pc,       \* pc[g]: where thread g is in its kernel body
  idx,      \* idx[g]: the loop counter of the condition-broadcast kernels
  cnd,      \* cnd[g]: char cond, read once by those kernels
  mem,      \* mem[b]: the contents of output buffer b
  writers,  \* writers[b][i]: the threads that have stored to element i of b
  stray     \* some thread has stored outside its buffer

vars == <<launch, pc, idx, cnd, mem, writers, stray>>

\* The kernel arguments of the launch.
Kernel == launch.kernel
Size == launch.size
CondSize == launch.condition_size
InputSize == launch.input_size
OtherSize == launch.other_size
HasInputGrad == launch.input_grad
HasOtherGrad == launch.other_grad

IsForward == Kernel \in {"BcastFwd", "CondBcastFwd"}

\* size_t gid = blockIdx.x * blockDim.x + threadIdx.x
Threads == 0 .. launch.threads - 1

\* The bound of the early return: condition_size in the two kernels whose
\* threads loop over a broadcast condition, size in the others.
Limit == IF Kernel \in {"CondBcastFwd", "CondBcastBwd"} THEN CondSize ELSE Size

BufSize(b) == BufLen(launch, b)

\* The buffers the launch writes and the driver reads back.
Outputs ==
  IF IsForward THEN {"output"}
  ELSE {b \in {"input_grad", "other_grad"} :
          IF b = "input_grad" THEN HasInputGrad ELSE HasOtherGrad}

SelectOtherSize(c, i) == IF c # 0 THEN Input[i % OtherSize] ELSE Other[i % OtherSize]

\* The forward select of element i: input or other, by a condition bit.
Select(c, i) == IF c # 0 THEN Input[i % InputSize] ELSE Other[i % OtherSize]

\* The element a backward thread stores into, and the condition bit it
\* reads: WhereContiguousBackward indexes with gid itself.
Slot(g, s) == IF Kernel = "ContigBwd" THEN g ELSE g % s
CondOf(g) == IF Kernel = "ContigBwd" THEN Condition[g] ELSE Condition[g % CondSize]

\* Every thread of the launch is at the top of its kernel body.
Init ==
  /\ launch \in Launches
  /\ pc = [g \in Threads |-> "start"]
  /\ idx = [g \in Threads |-> g]
  /\ cnd = [g \in Threads |-> 0]
  /\ mem = [b \in Bufs |-> Zeros(launch, b)]
  /\ writers = [b \in Bufs |-> [i \in 0 .. BufSize(b) - 1 |-> {}]]
  /\ stray = FALSE

\* Thread g stores v into element i of buffer b (a store past the end of
\* the buffer lands in other memory, and is recorded as stray).
Write(g, b, i, v) ==
  /\ mem' = [mem EXCEPT ![b][i] = v]
  /\ writers' = [writers EXCEPT ![b][i] = @ \cup {g}]
  /\ stray' = (stray \/ i \notin 0 .. BufSize(b) - 1)

\* if(gid >= size) return;  (condition_size for the loop kernels)
Return(g) ==
  /\ pc[g] = "start" /\ g >= Limit
  /\ pc' = [pc EXCEPT ![g] = "done"]
  /\ UNCHANGED <<idx, cnd, mem, writers, stray>>

BcastFwdStoreInputIndex(g) ==
  /\ Kernel = "BcastFwd" /\ pc[g] = "start" /\ g < Size
  /\ Write(g, "output", g % InputSize, Select(Condition[g % CondSize], g))
  /\ pc' = [pc EXCEPT ![g] = "done"]
  /\ UNCHANGED <<idx, cnd>>

\* WhereBroadcastedContiguousForward: one store per thread.
BcastFwdStore(g) ==
  /\ Kernel = "BcastFwd" /\ pc[g] = "start" /\ g < Size
  /\ Write(g, "output", g, Select(Condition[g % CondSize], g))
  /\ pc' = [pc EXCEPT ![g] = "done"]
  /\ UNCHANGED <<idx, cnd>>

\* The stage a condition-broadcast backward thread takes after its
\* input_grad loop: the other_grad loop, if other_grad is given.
AfterInput == IF HasOtherGrad THEN "otherloop" ELSE "done"

\* The condition-broadcast kernels read char cond = condition[gid] and
\* start their first loop at idx = gid.
CondStart(g) ==
  /\ Kernel \in {"CondBcastFwd", "CondBcastBwd"}
  /\ pc[g] = "start" /\ g < CondSize
  /\ cnd' = [cnd EXCEPT ![g] = Condition[g % CondSize]]
  /\ idx' = [idx EXCEPT ![g] = g]
  /\ pc' = [pc EXCEPT ![g] = IF Kernel = "CondBcastFwd" THEN "fwdloop"
                               ELSE IF HasInputGrad THEN "inloop" ELSE AfterInput]
  /\ UNCHANGED <<mem, writers, stray>>

FwdLoopNoIncrement(g) ==
  /\ pc[g] = "fwdloop" /\ idx[g] < Size
  /\ Write(g, "output", idx[g], Select(cnd[g], idx[g]))
  /\ idx' = [idx EXCEPT ![g] = idx[g]]
  /\ UNCHANGED <<pc, cnd>>

\* for(idx = gid; idx < size; idx += condition_size) output[idx] = ...
FwdLoop(g) ==
  /\ pc[g] = "fwdloop" /\ idx[g] < Size
  /\ Write(g, "output", idx[g], Select(cnd[g], idx[g]))
  /\ idx' = [idx EXCEPT ![g] = idx[g] + CondSize]
  /\ UNCHANGED <<pc, cnd>>

InLoopDown(g) ==
  /\ pc[g] = "inloop" /\ idx[g] < InputSize
  /\ Write(g, "input_grad", idx[g], OutputGrad[idx[g] % Size] * cnd[g])
  /\ idx' = [idx EXCEPT ![g] = idx[g] - CondSize]
  /\ UNCHANGED <<pc, cnd>>

\* for(idx = gid; idx < input_size; idx += condition_size)
\*   input_grad[idx] = output_grad[idx % size] * cond
InLoop(g) ==
  /\ pc[g] = "inloop" /\ idx[g] < InputSize
  /\ Write(g, "input_grad", idx[g], OutputGrad[idx[g] % Size] * cnd[g])
  /\ idx' = [idx EXCEPT ![g] = idx[g] + CondSize]
  /\ UNCHANGED <<pc, cnd>>

OtherLoopCondNotNegated(g) ==
  /\ pc[g] = "otherloop" /\ idx[g] < OtherSize
  /\ Write(g, "other_grad", idx[g], OutputGrad[idx[g] % Size] * cnd[g])
  /\ idx' = [idx EXCEPT ![g] = idx[g] + CondSize]
  /\ UNCHANGED <<pc, cnd>>

\* for(idx = gid; idx < other_size; idx += condition_size)
\*   other_grad[idx] = output_grad[idx % size] * (1 - cond)
OtherLoop(g) ==
  /\ pc[g] = "otherloop" /\ idx[g] < OtherSize
  /\ Write(g, "other_grad", idx[g], OutputGrad[idx[g] % Size] * (1 - cnd[g]))
  /\ idx' = [idx EXCEPT ![g] = idx[g] + CondSize]
  /\ UNCHANGED <<pc, cnd>>

\* A loop test fails: the thread goes on to its next loop (from gid) or ends.
LoopExit(g) ==
  /\ \/ pc[g] = "fwdloop" /\ idx[g] >= Size /\ pc' = [pc EXCEPT ![g] = "done"]
     \/ pc[g] = "inloop" /\ idx[g] >= InputSize /\ pc' = [pc EXCEPT ![g] = AfterInput]
     \/ pc[g] = "otherloop" /\ idx[g] >= OtherSize /\ pc' = [pc EXCEPT ![g] = "done"]
  /\ idx' = [idx EXCEPT ![g] = g]
  /\ UNCHANGED <<cnd, mem, writers, stray>>

\* WhereBroadcastedContiguousBackward / WhereContiguousBackward:
\* if(input_grad) input_grad[gid % input_size] = output_grad[gid] * cond
BwdInput(g) ==
  /\ Kernel \in {"BcastBwd", "ContigBwd"} /\ pc[g] = "start" /\ g < Size
  /\ HasInputGrad
  /\ Write(g, "input_grad", Slot(g, InputSize), OutputGrad[g] * CondOf(g))
  /\ pc' = [pc EXCEPT ![g] = "other"]
  /\ UNCHANGED <<idx, cnd>>

BwdSkipInput(g) ==
  /\ Kernel \in {"BcastBwd", "ContigBwd"} /\ pc[g] = "start" /\ g < Size
  /\ ~HasInputGrad
  /\ pc' = [pc EXCEPT ![g] = "other"]
  /\ UNCHANGED <<idx, cnd, mem, writers, stray>>

\* if(other_grad) other_grad[gid % other_size] = output_grad[gid] * (1 - cond)
BwdOther(g) ==
  /\ pc[g] = "other" /\ HasOtherGrad
  /\ Write(g, "other_grad", Slot(g, OtherSize), OutputGrad[g] * (1 - CondOf(g)))
  /\ pc' = [pc EXCEPT ![g] = "done"]
  /\ UNCHANGED <<idx, cnd>>

BwdSkipOther(g) ==
  /\ pc[g] = "other" /\ ~HasOtherGrad
  /\ pc' = [pc EXCEPT ![g] = "done"]
  /\ UNCHANGED <<idx, cnd, mem, writers, stray>>

Step(g) ==
  /\ g \in Threads
  /\ UNCHANGED launch
  /\ \/ Return(g) \/ BcastFwdStore(g) \/ CondStart(g)
     \/ FwdLoop(g) \/ InLoop(g) \/ OtherLoop(g) \/ LoopExit(g)
     \/ BwdInput(g) \/ BwdSkipInput(g) \/ BwdOther(g) \/ BwdSkipOther(g)

Next == \E g \in Threads : Step(g)

\* Every launched thread runs its body to the end.
Fairness == \A g \in 0 .. MaxThreads - 1 : WF_vars(Step(g))

Spec == Init /\ [][Next]_vars /\ Fairness

(***************************************************************************)
(* The CPU reference the driver compares the device buffers with          *)
(* (VerifyForward, VerifyBackward), on the same flat buffers and sizes.   *)
(***************************************************************************)
HostResultOf(l, b) ==
  CASE b = "output" ->
         HostForward(Condition, Input, Other, l.condition_size, l.input_size,
                     l.other_size, l.size)
    [] b = "input_grad" ->
         HostBackwardInput(OutputGrad, Condition, l.input_size, l.condition_size,
                           l.size, Zeros(l, b))
    [] b = "other_grad" ->
         HostBackwardOther(OutputGrad, Condition, l.other_size, l.condition_size,
                           l.size, Zeros(l, b))

HostResult(b) == HostResultOf(launch, b)

\* Buffer b as the abstract output sees it: a stored element i is <<v>>,
\* an element no thread stored yet is << >>.
Shown(b) == [i \in 0 .. BufSize(b) - 1 |-> IF writers[b][i] = {} THEN << >> ELSE <<mem[b][i]>>]

Expected(l, b) == [i \in 0 .. BufLen(l, b) - 1 |-> <<HostResultOf(l, b)[i]>>]

PromiseOutput == INSTANCE KernelOutput WITH
  Launches <- Launches, Cells <- LAMBDA l : 0 .. BufLen(l, "output") - 1,
  Target <- LAMBDA l : Expected(l, "output"), Unwritten <- << >>,
  launch <- launch, out <- Shown("output")

PromiseInputGrad == INSTANCE KernelOutput WITH
  Launches <- Launches, Cells <- LAMBDA l : 0 .. BufLen(l, "input_grad") - 1,
  Target <- LAMBDA l : Expected(l, "input_grad"), Unwritten <- << >>,
  launch <- launch, out <- Shown("input_grad")

PromiseOtherGrad == INSTANCE KernelOutput WITH
  Launches <- Launches, Cells <- LAMBDA l : 0 .. BufLen(l, "other_grad") - 1,
  Target <- LAMBDA l : Expected(l, "other_grad"), Unwritten <- << >>,
  launch <- launch, out <- Shown("other_grad")

Done == \A g \in Threads : pc[g] = "done"

(***************************************************************************)
(* Properties.                                                            *)
(***************************************************************************)
\* Every thread is at a point of its kernel body and its loop counter
\* never passes the end of the buffer it walks by more than one stride.
TypeOK ==
  /\ launch \in Launches
  /\ pc \in [Threads -> {"start", "fwdloop", "inloop", "otherloop", "other", "done"}]
  /\ idx \in [Threads -> Nat]
  /\ cnd \in [Threads -> {0, 1}]
  /\ \A b \in Bufs : mem[b] \in [0 .. BufSize(b) - 1 -> Int]
  /\ \A b \in Bufs : writers[b] \in [0 .. BufSize(b) - 1 -> SUBSET Threads]
  /\ stray \in BOOLEAN

\* Every store of the launch lands inside its buffer, and no two threads
\* store to the same element of a buffer: the kernel has no write-write
\* race, so its result does not depend on the order the threads run in.
NoRacingStores == ~stray /\ \A b \in Bufs : \A i \in 0 .. BufSize(b) - 1 : Cardinality(writers[b][i]) <= 1

\* The launch implements the host reference: in every interleaving, each
\* element of each buffer the driver reads back is only ever stored with
\* the value mloWhere{Forward,Backward}RunHost computes for it.  (A
\* buffer the kernel does not write stays unwritten and meets its promise
\* by stuttering.)
ImplementsHostWhere ==
  /\ PromiseOutput!SafetySpec
  /\ PromiseInputGrad!SafetySpec
  /\ PromiseOtherGrad!SafetySpec

\* When every thread has finished, the buffers the driver reads back
\* equal the CPU reference element for element (what VerifyForward and
\* VerifyBackward compare).
ResultMatchesHost == Done => \A b \in Outputs : mem[b] = HostResult(b)

\* Every thread leaves its kernel body: the loops of the
\* condition-broadcast kernels end.
KernelTerminates == <>Done
=============================================================================
