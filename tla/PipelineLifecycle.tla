------------------------- MODULE PipelineLifecycle --------------------------
(***************************************************************************)
(* What the operator promises about the life of a DataPrepperPipeline, as  *)
(* seen through the API server: no pipeline that may be part of a cluster  *)
(* configuration disappears without going through the deletion protocol.   *)
(*                                                                         *)
(*   absent -> unguarded -> guarded <-> applied                            *)
(*                             \            /                              *)
(*                              -> deleting -> absent                      *)
(***************************************************************************)
CONSTANT Pipelines

VARIABLE life   \* by pipeline: how far it has come

States == {"absent",      \* no such object
           "unguarded",   \* without the finalizer
           "guarded",     \* with the finalizer, not applied to a cluster
           "applied",     \* with the finalizer, reported as merged
           "deleting"}    \* deletion requested, finalizer still there

Init == life = [p \in Pipelines |-> "absent"]

\* Pipeline p goes from one of the states in "from" to the state "to".
Go(p, from, to) == life[p] \in from /\ life' = [life EXCEPT ![p] = to]

Create(p)   == Go(p, {"absent"}, "unguarded")
Withdraw(p) == Go(p, {"unguarded"}, "absent")
Guard(p)    == Go(p, {"unguarded"}, "guarded")
Apply(p)    == Go(p, {"guarded"}, "applied")
Detach(p)   == Go(p, {"applied"}, "guarded")
Delete(p)   == Go(p, {"guarded", "applied"}, "deleting")
Release(p)  == Go(p, {"deleting"}, "absent")

Next == \E p \in Pipelines :
    \/ Create(p) \/ Withdraw(p) \/ Guard(p) \/ Apply(p) \/ Detach(p)
    \/ Delete(p) \/ Release(p)

Spec == Init /\ [][Next]_life

=============================================================================
