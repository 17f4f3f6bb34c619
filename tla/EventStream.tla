---------------------------- MODULE EventStream ----------------------------
(***************************************************************************)
(* A task's event stream: the transactions that append to it, and the      *)
(* driver that drains it into the agent's prompt behind a saved cursor.    *)
(*                                                                         *)
(* Appending is not atomic.  events.id comes from a sequence, which hands  *)
(* out the id when the INSERT starts; the row is visible when its          *)
(* transaction commits.  The foreign key makes the INSERT share-lock the   *)
(* task row, and GetTaskForUpdate wants that row exclusively: the router's *)
(* attach inserts first and locks second, while UpdateTask locks first, so *)
(* attach has one action per database step and UpdateTask is one action.   *)
(*                                                                         *)
(* The runner and its container are reduced to a driver that is launched   *)
(* when the row has work and can die at any point (TaskLifecycle has the   *)
(* rest).  delivered, ran, top, late and cut are history variables.        *)
(***************************************************************************)
EXTENDS Task, Pagination

CONSTANTS
  Writers,      \* router deliveries that can be in flight at once
  PageSize,     \* eventPageSize
  MaxId,        \* bound on the events of the task
  Commands      \* number of setup commands

ASSUME StreamAssumption ==
  /\ PageSize \in Nat \ {0}
  /\ MaxId \in Nat /\ Commands \in Nat

VARIABLES
  task,         \* the row of the tasks table
  events,       \* the events table: id -> row, NoEvent when there is none
  nextId,       \* the sequence behind events.id
  tx,           \* the attach transaction of each writer
  config,         \* the config file of the sandbox
  driver,       \* the driver process of the current run
  delivered,    \* ids a completed prompt carried
  ran,          \* setup commands that have succeeded
  top,          \* the highest injectable id that has been visible
  late,         \* ids that became visible after a higher injectable id
  cut           \* ids older than the page the last empty token was given

streamVars == <<task, events, nextId, tx, config, driver, delivered, ran, top,
                late, cut>>

Ids == 1..MaxId

(* The agent is given instructions and external events, taken alike here;   *)
(* the rest of the stream is for the user.                                  *)
Injectable == {"injectable"}
EventType  == Injectable \cup {"report"}
NoEvent    == [type |-> "none", wake |-> FALSE]
EventRow   == [type : EventType, wake : BOOLEAN] \cup {NoEvent}

NoTx == [pc |-> "idle", id |-> 0, wake |-> FALSE]
Off  == [pc |-> "off", version |-> 0, setup |-> 0, token |-> NoToken,
         acc |-> <<>>]

Tokens == [cursor : 0..MaxId, backward : BOOLEAN]

StreamTypeOK ==
  /\ task.status \in Status /\ task.command \in Command
  /\ task.version \in 0..(MaxId + 1) /\ task.archived = FALSE
  /\ events \in [Ids -> EventRow]
  /\ nextId \in 1..(MaxId + 1)
  /\ tx \in [Writers -> [pc : {"idle", "share", "lock", "commit"},
                         id : 0..MaxId, wake : BOOLEAN]]
  /\ config \in [setup : 0..Commands, started : BOOLEAN, token : Tokens]
  /\ driver.pc \in {"off", "setup", "saveSetup", "drain", "prompt", "save",
                    "stop"}
  /\ driver.setup \in 0..Commands /\ driver.token \in Tokens
  /\ delivered \subseteq Ids /\ late \subseteq Ids /\ cut \subseteq Ids
  /\ top \in 0..MaxId
  /\ ran \subseteq 1..Commands

StreamInit ==
  /\ task = [status |-> "Draft", command |-> "None", version |-> 0,
             archived |-> FALSE]
  /\ events = [i \in Ids |-> NoEvent]
  /\ nextId = 1
  /\ tx = [w \in Writers |-> NoTx]
  /\ config = [setup |-> 0, started |-> FALSE, token |-> NoToken]
  /\ driver = Off
  /\ delivered = {} /\ ran = {} /\ top = 0 /\ late = {} /\ cut = {}

-----------------------------------------------------------------------------
(* The events table.                                                        *)

(* The types filter of the list queries.                                    *)
Drainable == {i \in Ids : events[i].type \in Injectable}

NewEvent(type, wake) == [type |-> type, wake |-> wake]

Visible(i, row) ==
  /\ events' = [events EXCEPT ![i] = row]
  /\ late' = IF row.type \in Injectable /\ i < top THEN late \cup {i} ELSE late
  /\ top' = IF row.type \in Injectable /\ i > top THEN i ELSE top

(* Holders of the task row in the middle of an attach: the foreign key's    *)
(* share lock from the insert on, the exclusive one at the end of a wake.   *)
Sharing(w)   == tx[w].pc \in {"lock", "commit"}
Exclusive(w) == tx[w].pc = "commit" /\ tx[w].wake
RowFree      == \A w \in Writers : ~Sharing(w)

-----------------------------------------------------------------------------
(* Router.attach, one step per statement.                                   *)

AttachInsert(w, wake) ==
  /\ tx[w] = NoTx
  /\ nextId <= MaxId
  /\ tx' = [tx EXCEPT ![w] = [pc |-> "share", id |-> nextId, wake |-> wake]]
  /\ nextId' = nextId + 1
  /\ UNCHANGED <<task, events, config, driver, delivered, ran, top, late, cut>>

AttachShare(w) ==
  /\ tx[w].pc = "share"
  /\ \A v \in Writers : ~Exclusive(v)
  /\ tx' = [tx EXCEPT ![w].pc = IF tx[w].wake THEN "lock" ELSE "commit"]
  /\ UNCHANGED <<task, events, nextId, config, driver, delivered, ran, top,
                 late, cut>>

AttachLock(w) ==
  /\ tx[w].pc = "lock"
  /\ \A v \in Writers \ {w} : ~Sharing(v)
  /\ tx' = [tx EXCEPT ![w].pc = "commit"]
  /\ UNCHANGED <<task, events, nextId, config, driver, delivered, ran, top,
                 late, cut>>


(* The result of Start is ignored: a task that cannot start keeps the event.*)
AttachCommit(w) ==
  /\ tx[w].pc = "commit"
  /\ Visible(tx[w].id, NewEvent("injectable", tx[w].wake))
  /\ task' = IF tx[w].wake THEN Start(task) ELSE task
  /\ tx' = [tx EXCEPT ![w] = NoTx]
  /\ UNCHANGED <<nextId, config, driver, delivered, ran, cut>>

(* Two wakes hold the share lock and want the exclusive one.  The database  *)
(* aborts one of them; Apply logs the error and drops its event.            *)
AttachDeadlock(w) ==
  /\ tx[w].pc = "lock"
  /\ \E v \in Writers \ {w} : tx[v].pc = "lock"
  /\ tx' = [tx EXCEPT ![w] = NoTx]
  /\ UNCHANGED <<task, events, nextId, config, driver, delivered, ran, top,
                 late, cut>>

-----------------------------------------------------------------------------
(* The API handlers that append to or delete from the stream.               *)

(* UpdateTask with an added instruction; wake is start && CanStart.         *)
UpdateTask(start) ==
  /\ RowFree
  /\ nextId <= MaxId
  /\ Visible(nextId, NewEvent("injectable", start /\ CanStart(task)))
  /\ task' = IF start THEN Start(task) ELSE task
  /\ nextId' = nextId + 1
  /\ UNCHANGED <<tx, config, driver, delivered, ran, cut>>

(* A report, lifecycle or link event: in the stream, not for the agent.     *)
CreateReport ==
  /\ nextId <= MaxId
  /\ Visible(nextId, NewEvent("report", FALSE))
  /\ nextId' = nextId + 1
  /\ UNCHANGED <<task, tx, config, driver, delivered, ran, cut>>

DeleteEvent(i) ==
  /\ events[i] # NoEvent
  /\ events' = [events EXCEPT ![i] = NoEvent]
  /\ UNCHANGED <<task, nextId, tx, config, driver, delivered, ran, top, late, cut>>

-----------------------------------------------------------------------------
(* The driver: Run, runAgent, setup, drainEvents.                           *)

Report(kind) ==
  ApplyRunnerEvent(task, [event |-> kind, version |-> driver.version,
                          reconcile |-> FALSE])

(* Run reads the task and reports started; Load reads the config.           *)
DriverStart ==
  /\ driver.pc = "off" /\ HasPendingWork(task) /\ RowFree
  /\ task' = ApplyRunnerEvent(task, [event |-> "started",
                                     version |-> task.version,
                                     reconcile |-> FALSE])
  /\ driver' = [pc |-> "setup", version |-> task.version,
                setup |-> config.setup, token |-> config.token, acc |-> <<>>]
  /\ UNCHANGED <<events, nextId, tx, config, delivered, ran, top, late, cut>>

SetupRun ==
  /\ driver.pc = "setup" /\ driver.setup < Commands
  /\ ran' = ran \cup {driver.setup + 1}
  /\ driver' = [driver EXCEPT !.pc = "saveSetup", !.setup = @ + 1]
  /\ UNCHANGED <<task, events, nextId, tx, config, delivered, top, late, cut>>

SetupSave ==
  /\ driver.pc = "saveSetup"
  /\ config' = [config EXCEPT !.setup = driver.setup]
  /\ driver' = [driver EXCEPT !.pc = "setup"]
  /\ UNCHANGED <<task, events, nextId, tx, delivered, ran, top, late, cut>>

Setup == SetupRun \/ SetupSave

SetupDone ==
  /\ driver.pc = "setup" /\ driver.setup = Commands
  /\ driver' = [driver EXCEPT !.pc = "drain"]
  /\ UNCHANGED <<task, events, nextId, tx, config, delivered, ran, top, late, cut>>

(* ListEventsByTask: the pages are oldest-first, and the timeline's next    *)
(* page token is the store's backward one.                                  *)
ListEventsByTask(token) == List(Drainable, PageSize, token, TRUE)

(* One page of drainEvents; the iterator follows next_page_token while the  *)
(* page says there is more.  An empty token is given the newest page, and   *)
(* next_page_token leads away from what is older than it.                   *)
DrainPage ==
  LET page == ListEventsByTask(driver.token)
  IN  /\ driver.pc = "drain"
      /\ driver' = [driver EXCEPT !.acc = @ \o page.items,
                                  !.token = page.prev,
                                  !.pc = IF page.more THEN "drain" ELSE "prompt"]
      /\ cut' = IF driver.token # NoToken THEN cut
                ELSE {i \in Drainable : \A j \in Range(page.items) : i < j}
      /\ UNCHANGED <<task, events, nextId, tx, config, delivered, ran, top, late>>

(* Mutant: the cursor is saved before the agent has seen the events.        *)
PromptSavesFirst ==
  /\ driver.pc = "prompt"
  /\ config' = [config EXCEPT !.token = driver.token]
  /\ driver' = [driver EXCEPT !.pc = "save"]
  /\ UNCHANGED <<task, events, nextId, tx, delivered, ran, top, late, cut>>

Prompt ==
  /\ driver.pc = "prompt"
  /\ delivered' = delivered \cup Range(driver.acc)
  /\ driver' = [driver EXCEPT !.pc = "save"]
  /\ UNCHANGED <<task, events, nextId, tx, config, ran, top, late, cut>>

SaveCursor ==
  /\ driver.pc = "save"
  /\ config' = [config EXCEPT !.started = TRUE, !.token = driver.token]
  /\ driver' = [driver EXCEPT !.pc = "stop"]
  /\ UNCHANGED <<task, events, nextId, tx, delivered, ran, top, late, cut>>

ReportStopped ==
  /\ driver.pc = "stop" /\ RowFree
  /\ task' = Report("stopped")
  /\ driver' = Off
  /\ UNCHANGED <<events, nextId, tx, config, delivered, ran, top, late, cut>>

(* An error of any step, or the end of the process: the driver, or the      *)
(* runner that supervises it, reports the run failed.                       *)
RunFails ==
  /\ driver.pc # "off" /\ RowFree
  /\ task' = Report("failed")
  /\ driver' = Off
  /\ UNCHANGED <<events, nextId, tx, config, delivered, ran, top, late, cut>>

-----------------------------------------------------------------------------
AttachStep(w) ==
  AttachShare(w) \/ AttachLock(w) \/ AttachCommit(w) \/ AttachDeadlock(w)

DriverStep ==
  \/ DriverStart \/ Setup \/ SetupDone \/ DrainPage \/ Prompt \/ SaveCursor
  \/ ReportStopped

StreamNext ==
  \/ \E w \in Writers, wake \in BOOLEAN : AttachInsert(w, wake)
  \/ \E w \in Writers : AttachStep(w)
  \/ \E start \in BOOLEAN : UpdateTask(start)
  \/ CreateReport
  \/ \E i \in Ids : DeleteEvent(i)
  \/ DriverStep
  \/ RunFails

(* The database finishes a transaction it is given, and the runner launches *)
(* and supervises what the row asks for; nothing makes a run fail.          *)
StreamFairness ==
  /\ \A w \in Writers : WF_streamVars(AttachStep(w))
  /\ WF_streamVars(DriverStep)

StreamSpec == StreamInit /\ [][StreamNext]_streamVars /\ StreamFairness

-----------------------------------------------------------------------------
(* The config file never claims more than was done, whatever failed, died,  *)
(* was appended or was deleted between a step and its save: a setup command *)
(* it counts has succeeded, and an injectable event at or below its cursor  *)
(* was in a prompt that completed (driver.go setup, runAgent, drainEvents). *)
(* The exceptions are an event that became visible after a higher id, and   *)
(* what is older than the page an empty token was given.                    *)
SavedIsDone ==
  /\ 1..config.setup \subseteq ran
  /\ \A i \in Drainable \ (late \cup cut) :
       i <= config.token.cursor => i \in delivered

(* What the comment on drainEvents says: no injectable event is ever        *)
(* dropped, because ids are monotonic.                                      *)
NeverDropped ==
  \A i \in Drainable : i <= config.token.cursor => i \in delivered

(* What the comment in runAgent says of the first run: its cursor is empty, *)
(* so the drain starts at the head of the stream, and the brief is every    *)
(* injectable event up to the last one it carries.                          *)
BriefWhole ==
  driver.pc = "prompt" /\ ~config.started =>
    \A i \in Drainable \ late :
      i <= driver.token.cursor => i \in Range(driver.acc)


(* No attach transaction stays open: two wakes of one task that wait for    *)
(* each other's share lock do not wait for ever (Router.attach).            *)
AttachEnds == \A w \in Writers : tx[w].pc # "idle" ~> tx[w].pc = "idle"
=============================================================================
