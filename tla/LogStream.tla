----------------------------- MODULE LogStream -----------------------------
(***************************************************************************)
(* A driver's log on its way to the server and back: the Shipper of        *)
(* internal/runner/logship with its two senders (the background Run and    *)
(* the driver's final Flush), the log_chunks table, and gritzclient's      *)
(* TaskLog that reads it while it grows.                                   *)
(*                                                                         *)
(* The bytes written are numbered from 1, so that a chunk is an interval   *)
(* and order and loss can be read off it; masking (Redact) changes none of *)
(* that.  A request fails before the server did anything, or after the row *)
(* was committed (the response is lost, and the chunk is sent again), or   *)
(* for good.  Its late arrival after a newer one is left out.              *)
(***************************************************************************)
EXTENDS Pagination, FiniteSets

CONSTANTS
  ChunkSize, MaxPending,   \* Options of the shipper
  LogPage,                 \* page size of the reader
  MaxBytes,                \* bound on the bytes written
  MaxWrite,                \* bound on one write
  MaxLost                  \* bound on the lost responses

ASSUME LogAssumption ==
  /\ {ChunkSize, MaxPending, LogPage, MaxWrite} \subseteq Nat \ {0}
  /\ MaxBytes \in Nat /\ MaxLost \in Nat

VARIABLES
  written,      \* bytes the tee was given
  buf,          \* Shipper.buf
  dropped,      \* bytes dropped at the cap or undeliverable (history)
  inflight,     \* the chunk being delivered, <<>> when there is none
  sendSem,      \* the sender admitted, NoSender when there is none
  signal,       \* the wakeup channel holds a signal
  senders,      \* Run and Flush: where each is, and its allowance
  cancelled,    \* Run's context is done
  chunks,       \* the log_chunks table: row id -> the bytes
  lost,         \* responses lost
  reader        \* the TaskLog of a client

shipVars   == <<written, buf, dropped, inflight, sendSem, signal, senders,
                cancelled, chunks, lost>>
logVars    == <<shipVars, reader>>

Senders  == {"run", "flush"}
NoSender == "none"
Rows     == 1..Len(chunks)

LogInit ==
  /\ written = 0 /\ buf = <<>> /\ dropped = {} /\ inflight = <<>>
  /\ sendSem = NoSender /\ signal = FALSE /\ cancelled = FALSE
  /\ senders = [s \in Senders |-> [pc |-> "off", partial |-> FALSE]]
  /\ chunks = <<>> /\ lost = 0
  /\ reader = [pc |-> "off", token |-> NoToken, follow |-> NoToken,
               paged |-> FALSE, seen |-> <<>>]

-----------------------------------------------------------------------------
(* The driver.                                                              *)

(* A write that would take the buffer past the cap is dropped whole; the    *)
(* sender is woken only once a whole chunk is buffered.                     *)
Write(n) ==
  LET bytes == [i \in 1..n |-> written + i]
      fits  == Len(buf) + n <= MaxPending
  IN  /\ written + n <= MaxBytes /\ senders["flush"].pc = "off"
      /\ written' = written + n
      /\ buf' = IF fits THEN buf \o bytes ELSE buf
      /\ dropped' = IF fits THEN dropped ELSE dropped \cup ToSet(bytes)
      /\ signal' = (signal \/ Len(buf') >= ChunkSize)
      /\ UNCHANGED <<inflight, sendSem, senders, cancelled, chunks, lost, reader>>

(* Bytes are buffered from the construction on; Run is started later.       *)
StartRun ==
  /\ senders["run"].pc = "off"
  /\ senders' = [senders EXCEPT !["run"].pc = "acquire"]
  /\ UNCHANGED <<written, buf, dropped, inflight, sendSem, signal, cancelled,
                 chunks, lost, reader>>

(* The end of the run: the last thing the driver does is Flush; Run may or  *)
(* may not have been cancelled before.                                      *)
Flush ==
  /\ senders["flush"].pc = "off"
  /\ senders' = [senders EXCEPT !["flush"] = [pc |-> "acquire", partial |-> TRUE]]
  /\ UNCHANGED <<written, buf, dropped, inflight, sendSem, signal, cancelled,
                 chunks, lost, reader>>

CancelRun ==
  /\ ~cancelled
  /\ cancelled' = TRUE
  /\ UNCHANGED <<written, buf, dropped, inflight, sendSem, signal, senders,
                 chunks, lost, reader>>

-----------------------------------------------------------------------------
(* drain.                                                                   *)

Acquire(s) ==
  /\ senders[s].pc = "acquire" /\ sendSem = NoSender
  /\ sendSem' = s
  /\ senders' = [senders EXCEPT ![s].pc = "drain"]
  /\ UNCHANGED <<written, buf, dropped, inflight, signal, cancelled, chunks,
                 lost, reader>>

(* Mutant: a chunk left behind by an earlier drain is not sent first.       *)
CutAlways(s) ==
  LET n == IF Len(buf) < ChunkSize THEN Len(buf) ELSE ChunkSize
  IN  /\ senders[s].pc = "drain"
      /\ buf # <<>> /\ (Len(buf) >= ChunkSize \/ senders[s].partial)
      /\ inflight' = SubSeq(buf, 1, n)
      /\ buf' = SubSeq(buf, n + 1, Len(buf))
      /\ senders' = [senders EXCEPT ![s].pc = "send",
                       ![s].partial = @ /\ n = ChunkSize]
      /\ UNCHANGED <<written, dropped, sendSem, signal, cancelled, chunks,
                     lost, reader>>

(* The next chunk: a whole one, or once per drain the remainder.            *)
Cut(s) ==
  LET n == IF Len(buf) < ChunkSize THEN Len(buf) ELSE ChunkSize
  IN  /\ senders[s].pc = "drain" /\ inflight = <<>>
      /\ buf # <<>> /\ (Len(buf) >= ChunkSize \/ senders[s].partial)
      /\ inflight' = SubSeq(buf, 1, n)
      /\ buf' = SubSeq(buf, n + 1, Len(buf))
      /\ senders' = [senders EXCEPT ![s].pc = "send",
                       ![s].partial = @ /\ n = ChunkSize]
      /\ UNCHANGED <<written, dropped, sendSem, signal, cancelled, chunks,
                     lost, reader>>

(* The chunk an earlier drain left behind goes first.                       *)
Resume(s) ==
  /\ senders[s].pc = "drain" /\ inflight # <<>>
  /\ senders' = [senders EXCEPT ![s].pc = "send"]
  /\ UNCHANGED <<written, buf, dropped, inflight, sendSem, signal, cancelled,
                 chunks, lost, reader>>

(* AppendLogChunk inserts one row and its answer arrives.                   *)
Delivered(s) ==
  /\ senders[s].pc = "send"
  /\ chunks' = Append(chunks, inflight) /\ inflight' = <<>>
  /\ senders' = [senders EXCEPT ![s].pc = "drain"]
  /\ UNCHANGED <<written, buf, dropped, sendSem, signal, cancelled, lost, reader>>

(* A transient failure, before or after the row was committed: the same     *)
(* chunk is retried after the backoff.                                      *)
FailTransient(s, committed) ==
  /\ senders[s].pc = "send" /\ (committed => lost < MaxLost)
  /\ chunks' = IF committed THEN Append(chunks, inflight) ELSE chunks
  /\ lost' = IF committed THEN lost + 1 ELSE lost
  /\ senders' = [senders EXCEPT ![s].pc = "drain"]
  /\ UNCHANGED <<written, buf, dropped, inflight, sendSem, signal, cancelled,
                 reader>>

FailPermanent(s) ==
  /\ senders[s].pc = "send"
  /\ dropped' = dropped \cup ToSet(inflight) /\ inflight' = <<>>
  /\ senders' = [senders EXCEPT ![s].pc = "drain"]
  /\ UNCHANGED <<written, buf, sendSem, signal, cancelled, chunks, lost, reader>>

(* Nothing left that may be cut: Run goes back to its select, Flush is      *)
(* done.                                                                    *)
Drained(s) ==
  /\ senders[s].pc = "drain" /\ inflight = <<>>
  /\ buf = <<>> \/ (Len(buf) < ChunkSize /\ ~senders[s].partial)
  /\ sendSem' = NoSender
  /\ senders' = [senders EXCEPT ![s].pc = IF s = "run" THEN "select" ELSE "done"]
  /\ UNCHANGED <<written, buf, dropped, inflight, signal, cancelled, chunks,
                 lost, reader>>

(* The context is done: waiting for the semaphore, between requests, in a   *)
(* request or in the backoff.  An inflight chunk stays where it is.         *)
GivesUp(s) ==
  /\ senders[s].pc \in {"acquire", "drain", "send"}
  /\ s = "run" => cancelled
  /\ sendSem' = IF sendSem = s THEN NoSender ELSE sendSem
  /\ senders' = [senders EXCEPT ![s].pc = IF s = "run" THEN "exit" ELSE "gaveup"]
  /\ UNCHANGED <<written, buf, dropped, inflight, signal, cancelled, chunks,
                 lost, reader>>

Ticker ==
  /\ senders["run"].pc = "select" /\ ~cancelled
  /\ senders' = [senders EXCEPT !["run"] = [pc |-> "acquire", partial |-> TRUE]]
  /\ UNCHANGED <<written, buf, dropped, inflight, sendSem, signal, cancelled,
                 chunks, lost, reader>>

Notified ==
  /\ senders["run"].pc = "select" /\ signal
  /\ signal' = FALSE
  /\ senders' = [senders EXCEPT !["run"] = [pc |-> "acquire", partial |-> FALSE]]
  /\ UNCHANGED <<written, buf, dropped, inflight, sendSem, cancelled, chunks,
                 lost, reader>>

RunReturns ==
  /\ senders["run"].pc = "select" /\ cancelled
  /\ senders' = [senders EXCEPT !["run"].pc = "exit"]
  /\ UNCHANGED <<written, buf, dropped, inflight, sendSem, signal, cancelled,
                 chunks, lost, reader>>

-----------------------------------------------------------------------------
(* TaskLog.  A page is listed, yielded and advanced over in one step.       *)

ListLogChunks(token) == List(Rows, LogPage, token, TRUE)

OpenTaskLog ==
  /\ reader.pc = "off"
  /\ reader' = [reader EXCEPT !.pc = "open"]
  /\ UNCHANGED shipVars

(* History: from the tail back to the oldest page, then forward.            *)
HistoryBack ==
  /\ reader.pc \in {"open", "back"} /\ UNCHANGED shipVars
  /\ \E page \in {ListLogChunks(reader.token)} :
       reader' = IF page.more /\ page.next # NoToken
                   THEN [reader EXCEPT !.pc = "back", !.token = page.next,
                                       !.paged = TRUE]
                 ELSE [reader EXCEPT
                         !.pc = IF reader.paged THEN "forward" ELSE "follow",
                         !.seen = @ \o page.items,
                         !.follow = IF page.prev # NoToken THEN page.prev
                                                           ELSE @]

(* Mutant: the page just yielded is listed again.                           *)
ForwardFromToken ==
  /\ reader.pc \in {"forward", "follow"} /\ reader.follow # NoToken
  /\ UNCHANGED shipVars
  /\ \E page \in {ListLogChunks([reader.follow EXCEPT !.cursor = @ - 1])} :
       /\ reader.pc = "forward" \/ page.items # <<>>
       /\ reader' = [reader EXCEPT
                       !.seen = @ \o page.items,
                       !.follow = IF page.prev # NoToken THEN page.prev ELSE @,
                       !.pc = IF page.more THEN reader.pc ELSE "follow"]

(* The forward pass of History and the polls of Follow: everything newer    *)
(* than the cursor, page by page.  An empty poll echoes the cursor.         *)
Forward ==
  /\ reader.pc \in {"forward", "follow"} /\ reader.follow # NoToken
  /\ UNCHANGED shipVars
  /\ \E page \in {ListLogChunks(reader.follow)} :
       /\ reader.pc = "forward" \/ page.items # <<>>
       /\ reader' = [reader EXCEPT
                       !.seen = @ \o page.items,
                       !.follow = IF page.prev # NoToken THEN page.prev ELSE @,
                       !.pc = IF page.more THEN reader.pc ELSE "follow"]

(* Follow without a cursor opens at the tail again.                         *)
Reopen ==
  /\ reader.pc = "follow" /\ reader.follow = NoToken /\ chunks # <<>>
  /\ reader' = [reader EXCEPT !.pc = "open", !.token = NoToken, !.paged = FALSE]
  /\ UNCHANGED shipVars

-----------------------------------------------------------------------------
SenderStep(s) ==
  \/ Acquire(s) \/ Cut(s) \/ Resume(s) \/ Delivered(s) \/ Drained(s)
  \/ FailPermanent(s) \/ \E c \in BOOLEAN : FailTransient(s, c)

RunStep    == SenderStep("run") \/ Ticker \/ Notified \/ RunReturns
ReaderStep == HistoryBack \/ Forward \/ Reopen

LogNext ==
  \/ \E n \in 1..MaxWrite : Write(n)
  \/ StartRun \/ Flush \/ CancelRun \/ OpenTaskLog
  \/ RunStep \/ SenderStep("flush")
  \/ \E s \in Senders : GivesUp(s)
  \/ ReaderStep

(* Run loops until its context is done, the ticker ticks, the server        *)
(* answers a request of Run's sooner or later, Flush has a deadline, and a  *)
(* following client polls.                                                  *)
LogFairness ==
  /\ WF_logVars(RunStep) /\ SF_logVars(Delivered("run"))
  /\ WF_logVars(GivesUp("flush"))
  /\ WF_logVars(ReaderStep)

LogSpec == LogInit /\ [][LogNext]_logVars /\ LogFairness

-----------------------------------------------------------------------------
(* Every variable of shipper and reader has its type, and the buffer stays  *)
(* within the cap.                                                          *)
LogTypeOK ==
  /\ written \in 0..MaxBytes /\ lost \in 0..MaxLost
  /\ Len(buf) <= MaxPending /\ Len(inflight) <= ChunkSize
  /\ dropped \subseteq 1..written
  /\ sendSem \in Senders \cup {NoSender}
  /\ \A s \in Senders : senders[s].pc \in
       {"off", "acquire", "drain", "send", "select", "exit", "done", "gaveup"}
  /\ reader.pc \in {"off", "open", "back", "forward", "follow"}

(* The transcript is what was written, in order and without a hole: a row   *)
(* comes after all the bytes of the row before it, or repeats that row (its *)
(* first delivery was committed and the answer lost), and every byte is     *)
(* stored, in flight or buffered unless the cap or a permanent error        *)
(* dropped it.  Two senders, a Flush that takes over a cancelled Run's      *)
(* chunk and retries change nothing of that (logship.go drain, cut;         *)
(* model/logchunk.go, "which ... is the order the bytes were written").     *)
TranscriptFaithful ==
  /\ \A i \in 1..(Len(chunks) - 1) :
       \/ chunks[i + 1] = chunks[i]
       \/ \A a \in ToSet(chunks[i]), b \in ToSet(chunks[i + 1]) : a < b
  /\ 1..written = dropped \cup ToSet(buf) \cup ToSet(inflight)
                    \cup UNION {ToSet(chunks[i]) : i \in Rows}

(* The reader prints every row once, in order and without a gap, however    *)
(* rows are appended while it pages back and forth (TaskLog.History,        *)
(* "Appends landing mid-walk can't disturb it").                            *)
ReaderSeesAll == reader.seen = [i \in 1..Len(reader.seen) |-> i]

(* A quiet run is shipped too: while Run lives the buffer empties, a        *)
(* remainder shorter than a chunk with the next tick.                       *)
BufferLeaves ==
  (buf # <<>> /\ senders["run"].pc # "off") ~> (buf = <<>> \/ cancelled)

=============================================================================
