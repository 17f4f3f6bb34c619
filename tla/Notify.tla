------------------------------- MODULE Notify -------------------------------
(***************************************************************************)
(* How a change of a task reaches the runner's poll loop: the handler      *)
(* commits, then publishes to the in-process pub/sub; each connection of   *)
(* the event stream has a bounded subscription; the runner's client reads  *)
(* the stream, reconnects when it is lost, and wakes the loop.             *)
(*                                                                         *)
(* Connections are numbered in the order the client opens them.  The       *)
(* server notices that a client has gone some time after the fact, so the  *)
(* subscription of a lost connection can outlive it.  unseen and missed    *)
(* are history variables.                                                  *)
(***************************************************************************)
EXTENDS Integers, SequencesExt

CONSTANTS
  BufSize,      \* subscriberBufSize
  MaxChanges,   \* bound on the changes committed
  MaxDrops      \* bound on the connections lost

ASSUME NotifyAssumption ==
  BufSize \in Nat \ {0} /\ MaxChanges \in Nat /\ MaxDrops \in Nat

VARIABLES
  changes,      \* changes committed so far
  pub,          \* committed changes whose publish is still to come, by kind
  conn,         \* the server's side of every connection
  client,       \* the connection the client reads, 0 when it has none
  wake,         \* the wakeup.Chan of the runner
  loop,         \* where the poll loop is
  unseen,       \* work for this runner committed since its last listing
  missed        \* a wake-up for it was lost since: a full buffer, a failed list

notifyVars == <<changes, pub, conn, client, wake, loop, unseen, missed>>

(* Notification.Runner: this runner, or another one or none.                *)
Audience == {"mine", "other"}
Streams  == 1..(MaxDrops + 1)
NoConn   == [st |-> "none", buf |-> <<>>, wire |-> <<>>]

NotifyTypeOK ==
  /\ changes \in 0..MaxChanges
  /\ pub \in [Audience -> 0..MaxChanges]
  /\ DOMAIN conn = Streams
  /\ \A i \in Streams :
       /\ conn[i].st \in {"none", "request", "subscribed", "ready", "closed"}
       /\ conn[i].buf \in Seq(Audience) /\ Len(conn[i].buf) <= BufSize
       /\ conn[i].wire \in Seq({"ready", "change"})
       /\ conn[i].st \in {"none", "request", "closed"} => conn[i].buf = <<>>
  /\ client \in 0..(MaxDrops + 1)
  /\ loop \in {"wait", "list"}
  /\ wake \in BOOLEAN /\ unseen \in BOOLEAN /\ missed \in BOOLEAN

(* The loop polls once before it first waits.                               *)
NotifyInit ==
  /\ changes = 0 /\ pub = [a \in Audience |-> 0]
  /\ conn = [i \in Streams |-> NoConn] /\ client = 0
  /\ wake = FALSE /\ loop = "list"
  /\ unseen = FALSE /\ missed = FALSE

Registered(i) == conn[i].st \in {"subscribed", "ready"}

-----------------------------------------------------------------------------
(* The server.                                                              *)

(* A handler's transaction; Runner is set when the row has pending work.    *)
Commit(a) ==
  /\ changes < MaxChanges
  /\ changes' = changes + 1
  /\ pub' = [pub EXCEPT ![a] = @ + 1]
  /\ unseen' = (unseen \/ a = "mine")
  /\ UNCHANGED <<conn, client, wake, loop, missed>>

(* Publish never blocks: a full buffer loses the notification.              *)
Publish(a) ==
  /\ pub[a] > 0
  /\ pub' = [pub EXCEPT ![a] = @ - 1]
  /\ conn' = [i \in Streams |->
                IF Registered(i) /\ Len(conn[i].buf) < BufSize
                THEN [conn[i] EXCEPT !.buf = Append(@, a)]
                ELSE conn[i]]
  /\ missed' = (missed \/ (a = "mine" /\ \E i \in Streams :
                  i = client /\ Registered(i) /\ Len(conn[i].buf) = BufSize))
  /\ UNCHANGED <<changes, client, wake, loop, unseen>>

(* handleSSE subscribes ...                                                 *)
Subscribe(i) ==
  /\ conn[i].st = "request"
  /\ conn' = [conn EXCEPT ![i].st = "subscribed"]
  /\ UNCHANGED <<changes, pub, client, wake, loop, unseen, missed>>

(* ... and then tells the client that the subscription is live.             *)
SendReady(i) ==
  /\ conn[i].st = "subscribed"
  /\ conn' = [conn EXCEPT ![i].st = "ready", ![i].wire = Append(@, "ready")]
  /\ UNCHANGED <<changes, pub, client, wake, loop, unseen, missed>>

(* The loop of handleSSE: the runner filter sits behind the buffer.         *)
SendChange(i) ==
  /\ conn[i].st = "ready" /\ conn[i].buf # <<>>
  /\ conn' = [conn EXCEPT
       ![i].buf  = Tail(@),
       ![i].wire = IF Head(conn[i].buf) = "mine" THEN Append(@, "change") ELSE @]
  /\ UNCHANGED <<changes, pub, client, wake, loop, unseen, missed>>

(* The request's context ends: cancel removes and closes the subscription.  *)
Unsubscribe(i) ==
  /\ Registered(i) /\ client # i
  /\ conn' = [conn EXCEPT ![i] = [st |-> "closed", buf |-> <<>>, wire |-> <<>>]]
  /\ UNCHANGED <<changes, pub, client, wake, loop, unseen, missed>>

-----------------------------------------------------------------------------
(* The runner.                                                              *)

Connect ==
  /\ client = 0
  /\ \E i \in Streams :
       /\ conn[i].st = "none" /\ \A j \in Streams : j < i => conn[j].st # "none"
       /\ client' = i
       /\ conn' = [conn EXCEPT ![i].st = "request"]
  /\ UNCHANGED <<changes, pub, wake, loop, unseen, missed>>

(* The connection is lost with whatever was on it.                          *)
Disconnect ==
  /\ client \in 1..MaxDrops
  /\ client' = 0
  /\ conn' = [conn EXCEPT ![client].wire = <<>>]
  /\ UNCHANGED <<changes, pub, wake, loop, unseen, missed>>

(* Mutant: the client treats the ready event like a keepalive.              *)
ReadSkipsReady ==
  /\ client # 0
  /\ conn[client].wire # <<>>
  /\ wake' = (wake \/ Head(conn[client].wire) # "ready")
  /\ conn' = [conn EXCEPT ![client].wire = Tail(@)]
  /\ UNCHANGED <<changes, pub, client, loop, unseen, missed>>

(* Every event but a keepalive reaches the handler, which wakes the loop:   *)
(* the ready event too, which stands for all that happened while there was  *)
(* no subscription.                                                         *)
Read ==
  /\ client # 0
  /\ conn[client].wire # <<>>
  /\ wake' = TRUE
  /\ conn' = [conn EXCEPT ![client].wire = Tail(@)]
  /\ UNCHANGED <<changes, pub, client, loop, unseen, missed>>

TakeWake ==
  /\ loop = "wait" /\ wake
  /\ wake' = FALSE /\ loop' = "list"
  /\ UNCHANGED <<changes, pub, conn, client, unseen, missed>>

(* Mutant: the interval is a fallback for a lost stream only.               *)
IntervalWhenDown ==
  /\ loop = "wait" /\ client = 0
  /\ loop' = "list"
  /\ UNCHANGED <<changes, pub, conn, client, wake, unseen, missed>>

(* The fallback interval.                                                   *)
Interval ==
  /\ loop = "wait"
  /\ loop' = "list"
  /\ UNCHANGED <<changes, pub, conn, client, wake, unseen, missed>>

(* Poll lists the rows with pending work ...                                *)
ListRunnerTasks ==
  /\ loop = "list"
  /\ loop' = "wait" /\ unseen' = FALSE /\ missed' = FALSE
  /\ UNCHANGED <<changes, pub, conn, client, wake>>

(* ... or fails to, which is logged: the wake-up is used up all the same.   *)
ListFails ==
  /\ loop = "list"
  /\ loop' = "wait" /\ missed' = (missed \/ unseen)
  /\ UNCHANGED <<changes, pub, conn, client, wake, unseen>>

-----------------------------------------------------------------------------
ServeStream(i) == Subscribe(i) \/ SendReady(i) \/ SendChange(i)

NotifyNext ==
  \/ \E a \in Audience : Commit(a) \/ Publish(a)
  \/ \E i \in Streams : ServeStream(i) \/ Unsubscribe(i)
  \/ Connect \/ Disconnect \/ Read
  \/ TakeWake \/ Interval \/ ListRunnerTasks \/ ListFails

(* Every goroutine keeps running and the fallback interval comes round.  A  *)
(* listing may fail again and again, but not every time.                    *)
NotifyFairness ==
  /\ \A a \in Audience : WF_notifyVars(Publish(a))
  /\ \A i \in Streams : WF_notifyVars(ServeStream(i))
  /\ WF_notifyVars(Connect) /\ WF_notifyVars(Read)
  /\ WF_notifyVars(TakeWake) /\ WF_notifyVars(Interval)
  /\ SF_notifyVars(ListRunnerTasks)

NotifySpec == NotifyInit /\ [][NotifyNext]_notifyVars /\ NotifyFairness

-----------------------------------------------------------------------------
(* Work the loop has not listed always has a wake-up on its way: a publish  *)
(* still to come, a notification in the buffer or on the wire, a ready      *)
(* event the client has yet to read, a pending wake-up or a listing about   *)
(* to run.  Since the last listing, only a full buffer of the connection    *)
(* the client reads or a failed listing can have broken the chain           *)
(* (pubsub/local.go Publish, sse.go handleSSE, notificationclient.go        *)
(* connect, runner.go Poll).                                                *)
WakeOnItsWay ==
  unseen /\ ~missed =>
    \/ wake \/ loop = "list"
    \/ pub["mine"] > 0
    \/ client = 0
    \/ conn[client].st \in {"request", "subscribed"}
    \/ conn[client].wire # <<>>
    \/ "mine" \in ToSet(conn[client].buf)

(* Where the chain is broken the interval makes up for it: committed work   *)
(* is listed in the end, whatever notification met a full buffer, listing   *)
(* failed or connection was lost (command/runner.go, the poll loop).        *)
WorkIsListed == unseen ~> ~unseen
=============================================================================
