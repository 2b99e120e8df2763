------------------------- MODULE ClusterConvergence -------------------------
(***************************************************************************)
(* What the cluster controller promises about the way a spec takes effect. *)
(* Users write a sequence of specs.  The children follow it, each at its   *)
(* own pace and possibly leaving some out, but none ever goes back; and    *)
(* status.observedGeneration is a promise that all of them have come that  *)
(* far.                                                                    *)
(***************************************************************************)
EXTENDS Naturals

CONSTANT Children

VARIABLES wanted,    \* number of specs written so far
          applied,   \* by child: the number of the spec it follows
          observed   \* the number that the status reports, 0 without a status

Init == wanted = 0 /\ applied = [k \in Children |-> 0] /\ observed = 0

\* A user writes a spec.
Write == wanted' = wanted + 1 /\ UNCHANGED <<applied, observed>>

\* A user deletes the cluster, and its status with it.
Forget == observed' = 0 /\ UNCHANGED <<wanted, applied>>

\* A child is brought into line.
Apply(k) ==
    /\ \E n \in applied[k] .. wanted : applied' = [applied EXCEPT ![k] = n]
    /\ UNCHANGED <<wanted, observed>>

\* The status says how far all children have come.
Report ==
    /\ observed' \in observed .. wanted
    /\ \A k \in Children : observed' <= applied[k]
    /\ UNCHANGED <<wanted, applied>>

Next == Write \/ Forget \/ (\E k \in Children : Apply(k)) \/ Report

Spec == Init /\ [][Next]_<<wanted, applied, observed>>

=============================================================================
