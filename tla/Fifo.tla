-------------------------------- MODULE Fifo --------------------------------
(***************************************************************************)
(* What the outbox promises (internal/x/outbox/outbox.go, engine.go): a    *)
(* durable queue, strictly first in first out, whose head leaves only once *)
(* an attempt to deliver it has been judged, and which a crash can at most *)
(* make forget that judgement, so that the head is delivered again.        *)
(***************************************************************************)
EXTENDS Sequences

CONSTANT Payloads

VARIABLES
  queue,     \* accepted and not finished, oldest first
  judged     \* an attempt on the head was delivered or given up

FifoInit == queue = <<>> /\ judged = FALSE

Accept(m) == queue' = Append(queue, m) /\ UNCHANGED judged

Judge == queue # <<>> /\ judged' = TRUE /\ UNCHANGED queue

Finish == judged /\ queue' = Tail(queue) /\ judged' = FALSE

Forget == judged' = FALSE /\ UNCHANGED queue

FifoNext == (\E m \in Payloads : Accept(m)) \/ Judge \/ Finish \/ Forget

FifoSpec == FifoInit /\ [][FifoNext]_<<queue, judged>>
=============================================================================
