--------------------------- MODULE PipelineQueue ---------------------------
(***************************************************************************)
(* PipelineOperator keeps the requests of a controller in a set and takes  *)
(* any of them: whatever holds then holds for every order.  A trace that   *)
(* shows a flaw must be one that the program can go through, so here the   *)
(* requests of the pipeline controller are taken in order of arrival.      *)
(*                                                                         *)
(* The queue is the one of controller-runtime, which is not part of the    *)
(* repository: this module is external, and modelled from the way          *)
(* SetupWithManager uses it (no rate limiter, no priority, one worker).    *)
(***************************************************************************)
EXTENDS MCPipelineOperator
LOCAL INSTANCE SequencesExt

VARIABLE order      \* the requests that wait, the oldest first

fifoVars == <<vars, order>>

\* A request that arrives while its pipeline is being worked on is set aside,
\* and put into the queue when the worker is done.
Waiting == pq \ {pw.name}

FifoInit == Init /\ order = <<>>

\* The worker takes the oldest request, and what arrives goes to the end.  The
\* requests of one event arrive in any order.
Arrivals ==
    LET kept == SelectSeq(order, LAMBDA p : p \in Waiting')
    IN  \E new \in SetToSeqs(Waiting' \ ToSet(kept)) : order' = kept \o new

FifoNext ==
    /\ Next
    /\ \A p \in Pipelines : PipelineReconcile(p) => p = Head(order)
    /\ Arrivals

FifoSpec == FifoInit /\ [][FifoNext]_fifoVars

=============================================================================
