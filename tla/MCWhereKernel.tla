---------------------------- MODULE MCWhereKernel ----------------------------
(***************************************************************************)
(* Small launches of the Where kernels for TLC.  The data are distinct    *)
(* small integers, so that an element read from the wrong index shows in  *)
(* the result; the condition alternates.                                   *)
(***************************************************************************)
EXTENDS WhereKernel

MCDataLen == 6
MCCondition == [i \in 0 .. MCDataLen - 1 |-> (i + 1) % 2]
MCInput == [i \in 0 .. MCDataLen - 1 |-> 10 + i]
MCOther == [i \in 0 .. MCDataLen - 1 |-> 20 + i]
MCOutputGrad == [i \in 0 .. MCDataLen - 1 |-> i + 1]

MCLaunch(k, s, cs, is, os, t, ig, og) ==
  [kernel |-> k, size |-> s, condition_size |-> cs, input_size |-> is,
   other_size |-> os, threads |-> t, input_grad |-> ig, other_grad |-> og]

(***************************************************************************)
(* One launch of each kernel, with the shapes the launcher passes them:   *)
(*  - broadcast forward: 6 outputs, input over 3, other over 2,           *)
(*    condition over 3, and one thread more than outputs;                 *)
(*  - condition-broadcast forward: 3 threads, one per condition element,  *)
(*    each looping over the 6 outputs, and a surplus thread;              *)
(*  - condition-broadcast backward: both gradients of full size;         *)
(*  - contiguous backward with a null other_grad;                        *)
(*  - broadcast backward with a null input_grad and full-size other_grad. *)
(***************************************************************************)
MCLaunches ==
  { MCLaunch("BcastFwd", 6, 3, 3, 2, 7, TRUE, TRUE),
    MCLaunch("CondBcastFwd", 6, 3, 6, 2, 4, TRUE, TRUE),
    MCLaunch("CondBcastBwd", 6, 3, 6, 6, 4, TRUE, TRUE),
    MCLaunch("ContigBwd", 4, 4, 4, 4, 5, TRUE, FALSE),
    MCLaunch("BcastBwd", 4, 2, 2, 4, 5, FALSE, TRUE) }

\* Broadcast backward with input_grad broadcast over half of output_grad.
MCRaceLaunches == { MCLaunch("BcastBwd", 4, 2, 2, 4, 4, TRUE, TRUE) }
=============================================================================
