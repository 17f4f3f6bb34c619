------------------------------ MODULE MCOutbox ------------------------------
(* Outbox for TLC, and the queue it implements.  Two producers and three    *)
(* sequence numbers let an Append fall between any two steps of a Drop, and *)
(* a reboot meet live and dead records at once.                             *)
EXTENDS Outbox, FiniteSets

(* The payloads of the files in the order of their names: file i is the one *)
(* with i - 1 lower numbers.                                                *)
InOrder(files) ==
  [i \in 1..Cardinality(files) |->
     (CHOOSE r \in files :
        Cardinality({q \in files : q.seq < r.seq}) = i - 1).payload]

(* The queue is what is on disk, in that order.                             *)
OnDisk == InOrder(disk)

Queue == INSTANCE Fifo WITH queue <- OnDisk, judged <- (eng.at = "drop")

(* The files are a first-in first-out queue: messages join at the end and   *)
(* leave from the front, only after an attempt on them was judged, and no   *)
(* crash or interleaving loses or reorders one.                             *)
RefinesFifo == Queue!FifoSpec
=============================================================================
