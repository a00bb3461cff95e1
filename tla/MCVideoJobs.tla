----------------------------- MODULE MCVideoJobs -----------------------------
(***************************************************************************)
(* Two replicas of two ranks with two components each.  One checkpoint     *)
(* has everything, one only the VAE.  Behaviours have control calls and    *)
(* faults, or jobs beside fewer of them.                                   *)
(***************************************************************************)
EXTENDS VideoJobs, TLC

CONSTANTS vae, dit, base, tuned, part

MCComponents == <<vae, dit>>
MCFiles == (base :> {vae, dit}) @@ (tuned :> {vae, dit}) @@ (part :> {vae})
Disk(p, names) == [kind |-> "disk", path |-> p, names |-> names]
DiskOperations ==
    {Disk(tuned, <<vae, dit>>), Disk(base, <<vae>>), Disk(tuned, <<dit>>),
     Disk(part, <<vae>>), Disk(part, <<vae, dit>>)}
MCOperations == DiskOperations \cup
    {[kind |-> "tensor", names |-> <<vae>>], [kind |-> "tensor", names |-> <<dit>>],
     [kind |-> "sleep"], [kind |-> "wake"]}
Budget(f, c, j) == [faults |-> f, calls |-> c, creates |-> j]
MCBudgets == {Budget(2, 1, 0), Budget(1, 2, 0), Budget(0, 3, 0), Budget(1, 1, 1), Budget(1, 0, 2)}
FewCalls  == {Budget(1, 3, 0)}
=============================================================================
