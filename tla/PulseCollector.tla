---- MODULE PulseCollector ----
(***************************************************************************)
(* The collector process of Sphinx Pulse: asyncio tasks that read a market *)
(* websocket into a bounded queue, keep its subscriptions in step with the *)
(* catalog, write the queue to disk, and shut down together                *)
(* (src/sphinx_pulse/collector.py, class PulseCollector).                  *)
(*                                                                         *)
(* A step is what a task does between two awaits.  Records are counted,    *)
(* not named: the queue is first in, first out, so a number says which of  *)
(* them are still ahead.  A market has one token and one catalog record.   *)
(* The heartbeat, the backoff delays and the status file's contents are    *)
(* left out.                                                               *)
(***************************************************************************)
EXTENDS Integers, FiniteSets

CONSTANTS
    Tokens,       \* CLOB tokens the catalog may list
    BatchSize,    \* subscription_batch_size
    QueueSize,    \* queue_size
    WriterBatch,  \* writer_batch_size
    MaxItems      \* bound on the items of one websocket message

ASSUME SizesAssumption ==
    /\ IsFiniteSet(Tokens)
    /\ BatchSize \in Nat \ {0}
    /\ QueueSize \in Nat \ {0}
    /\ WriterBatch \in Nat \ {0}
    /\ MaxItems \in Nat \ {0}

VARIABLES
    stop,         \* the stop event
    main,         \* where run() is
    status,       \* the status task is running
    queued,       \* records in the queue
    due,          \* records in queue or batch when stop was set, not yet written
    writer,       \* where the writer task is
    batch,        \* records it took off the queue
    conn,         \* where the connection task is
    owed,         \* records it has yet to put
    wanted,       \* tokens of its catalog it has yet to subscribe
    socket,       \* the websocket is open
    server,       \* tokens the far end delivers on it
    subscribed,   \* tokens the collector believes it delivers
    selection,    \* tokens of the connection's catalog
    refresh,      \* where the refresh task is
    additions, removals, fresh,  \* its local sets
    refreshOwed   \* catalog records it has yet to put

runVars == <<stop, main, status, due>>
writerVars == <<writer, batch>>
connVars == <<conn, owed, wanted, selection>>
refreshVars == <<refresh, additions, removals, fresh, refreshOwed>>
collectorVars == <<runVars, queued, writerVars, connVars, socket, server, subscribed, refreshVars>>

(* The states between the start and the end of the try block that owns the *)
(* heartbeat and refresh tasks.                                            *)
InSession == {"consuming", "delivering"}
Leaving == {"ended", "failed", "cancelled"}

AtMost(a, b) == IF a < b THEN a ELSE b
AtLeast(a, b) == IF a < b THEN b ELSE a

CollectorInit ==
    /\ stop = FALSE
    /\ main = "waiting"
    /\ status = TRUE
    /\ queued = 0
    /\ due = 0
    /\ writer = "waiting"
    /\ batch = 0
    /\ conn = "looping"
    /\ owed = 0
    /\ wanted = {}
    /\ socket = FALSE
    /\ server = {}
    /\ subscribed = {}
    /\ selection = {}
    /\ refresh = "none"
    /\ additions = {}
    /\ removals = {}
    /\ fresh = {}
    /\ refreshOwed = 0

(* The next tokens one subscription message names.                         *)
Chunks(S) == {C \in SUBSET S : Cardinality(C) = AtMost(BatchSize, Cardinality(S))}

(***************************************************************************)
(* The writer: one batch at a time, until stop is set and nothing is left. *)
(***************************************************************************)

(* The deadline may end a batch before it is full.                         *)
TakeBatch ==
    /\ writer = "waiting"
    /\ \E n \in 1 .. AtMost(WriterBatch, queued) :
          /\ batch' = n
          /\ queued' = queued - n
    /\ writer' = "writing"
    /\ UNCHANGED <<runVars, connVars, socket, server, subscribed, refreshVars>>

WriteBatch ==
    /\ writer = "writing"
    /\ due' = AtLeast(0, due - batch)
    /\ batch' = 0
    /\ writer' = "waiting"
    /\ UNCHANGED <<stop, main, status, queued, connVars, socket, server, subscribed, refreshVars>>

(* The disk reserve is reached, or the append raises: the batch is gone.   *)
WriteFails ==
    /\ writer = "writing"
    /\ batch' = 0
    /\ writer' = "failed"
    /\ UNCHANGED <<runVars, queued, connVars, socket, server, subscribed, refreshVars>>

\* Mutant: the writer stops with the records it holds written.
SlipWriterEnds ==
    /\ writer = "waiting"
    /\ stop
    /\ writer' = "finished"
    /\ UNCHANGED <<runVars, queued, batch, connVars, socket, server, subscribed, refreshVars>>

(* The get times out, and the loop's condition is false.                   *)
WriterEnds ==
    /\ writer = "waiting"
    /\ stop
    /\ queued = 0
    /\ writer' = "finished"
    /\ UNCHANGED <<runVars, queued, batch, connVars, socket, server, subscribed, refreshVars>>

(***************************************************************************)
(* The connection task.                                                    *)
(***************************************************************************)

(* fetch_catalog and select_markets; an empty catalog raises.              *)
FetchCatalog ==
    /\ conn = "looping"
    /\ ~stop
    /\ \E ts \in SUBSET Tokens \ {{}} :
          /\ selection' = ts
          /\ owed' = Cardinality(ts)
    /\ conn' = "putting"
    /\ UNCHANGED <<runVars, queued, writerVars, wanted, socket, server, subscribed, refreshVars>>

(* The fetch, the handshake or the loop's own try block raises.            *)
ConnectFails ==
    /\ conn \in {"looping", "connecting"}
    /\ ~(conn = "looping" /\ stop)
    /\ conn' = "backoff"
    /\ UNCHANGED <<runVars, queued, writerVars, owed, wanted, selection, socket, server,
                   subscribed, refreshVars>>

(* queue.put waits while the queue is full.                                *)
Put ==
    /\ conn \in {"putting", "delivering"}
    /\ owed > 0
    /\ queued < QueueSize
    /\ queued' = queued + 1
    /\ owed' = owed - 1
    /\ UNCHANGED <<runVars, writerVars, conn, wanted, selection, socket, server, subscribed,
                   refreshVars>>

PutsDone ==
    /\ conn \in {"putting", "delivering"}
    /\ owed = 0
    /\ conn' = IF conn = "putting" THEN "connecting" ELSE "consuming"
    /\ UNCHANGED <<runVars, queued, writerVars, owed, wanted, selection, socket, server,
                   subscribed, refreshVars>>

Connect ==
    /\ conn = "connecting"
    /\ socket' = TRUE
    /\ server' = {}
    /\ wanted' = selection
    /\ conn' = "subscribing"
    /\ UNCHANGED <<runVars, queued, writerVars, owed, selection, subscribed, refreshVars>>

Subscribe ==
    /\ conn = "subscribing"
    /\ socket
    /\ wanted # {}
    /\ \E C \in Chunks(wanted) :
          /\ server' = server \cup C
          /\ wanted' = wanted \ C
    /\ UNCHANGED <<runVars, queued, writerVars, conn, owed, selection, socket, subscribed,
                   refreshVars>>

(* A send on a closed socket raises before the session's try block.        *)
SubscribeFails ==
    /\ conn = "subscribing"
    /\ ~socket
    /\ wanted' = {}
    /\ conn' = "backoff"
    /\ UNCHANGED <<runVars, queued, writerVars, owed, selection, socket, server, subscribed,
                   refreshVars>>

StartSession ==
    /\ conn = "subscribing"
    /\ wanted = {}
    /\ subscribed' = selection
    /\ refresh' = "sleeping"
    /\ conn' = "consuming"
    /\ UNCHANGED <<runVars, queued, writerVars, owed, wanted, selection, socket, server,
                   additions, removals, fresh, refreshOwed>>

(* A message arrives for a token the far end delivers.                     *)
Message ==
    /\ conn = "consuming"
    /\ socket
    /\ server # {}
    /\ \E n \in 1 .. MaxItems : owed' = n
    /\ conn' = "delivering"
    /\ UNCHANGED <<runVars, queued, writerVars, wanted, selection, socket, server, subscribed,
                   refreshVars>>

(* The websocket's iterator ends or raises, or a message is not JSON.      *)
SessionEnds ==
    /\ conn = "consuming"
    /\ \/ ~socket /\ conn' \in {"ended", "failed"}
       \/ socket /\ server # {} /\ conn' = "failed"
    /\ UNCHANGED <<runVars, queued, writerVars, owed, wanted, selection, socket, server,
                   subscribed, refreshVars>>

(* The session's finally block: both helper tasks are cancelled and waited *)
(* for before the belief about subscriptions is dropped.                   *)
Unwind ==
    /\ conn \in Leaving
    /\ refresh' = "none"
    /\ additions' = {}
    /\ removals' = {}
    /\ fresh' = {}
    /\ refreshOwed' = 0
    /\ subscribed' = {}
    /\ socket' = FALSE
    /\ server' = {}
    /\ conn' = CASE conn = "ended" -> "looping"
                 [] conn = "failed" -> "backoff"
                 [] OTHER -> "done"
    /\ UNCHANGED <<runVars, queued, writerVars, owed, wanted, selection>>

(* The backoff is over, or stop cuts it short.                             *)
Retry ==
    /\ conn = "backoff"
    /\ conn' = "looping"
    /\ UNCHANGED <<runVars, queued, writerVars, owed, wanted, selection, socket, server,
                   subscribed, refreshVars>>

LoopEnds ==
    /\ conn = "looping"
    /\ stop
    /\ conn' = "done"
    /\ UNCHANGED <<runVars, queued, writerVars, owed, wanted, selection, socket, server,
                   subscribed, refreshVars>>

(* The network, at any time.                                               *)
SocketDies ==
    /\ socket
    /\ socket' = FALSE
    /\ server' = {}
    /\ UNCHANGED <<runVars, queued, writerVars, connVars, subscribed, refreshVars>>

(***************************************************************************)
(* The refresh task: both differences are taken before the first send.     *)
(***************************************************************************)
Active == conn \in InSession /\ refresh # "none"

RefreshFetch ==
    /\ Active
    /\ refresh = "sleeping"
    /\ \E ts \in SUBSET Tokens :
          /\ fresh' = ts
          /\ additions' = ts \ subscribed
          /\ removals' = subscribed \ ts
    /\ refresh' = "sending"
    /\ UNCHANGED <<runVars, queued, writerVars, connVars, socket, server, subscribed, refreshOwed>>

RefreshSubscribe ==
    /\ Active
    /\ refresh = "sending"
    /\ socket
    /\ additions # {}
    /\ \E C \in Chunks(additions) :
          /\ server' = server \cup C
          /\ additions' = additions \ C
    /\ UNCHANGED <<runVars, queued, writerVars, connVars, socket, subscribed, refresh, removals,
                   fresh, refreshOwed>>

RefreshUnsubscribe ==
    /\ Active
    /\ refresh = "sending"
    /\ socket
    /\ additions = {}
    /\ removals # {}
    /\ \E C \in Chunks(removals) :
          /\ server' = server \ C
          /\ removals' = removals \ C
    /\ UNCHANGED <<runVars, queued, writerVars, connVars, socket, subscribed, refresh, additions,
                   fresh, refreshOwed>>

(* The loop's condition is read before the task sleeps again.              *)
Resting == IF stop THEN "ended" ELSE "sleeping"

(* A send on a closed socket raises; the exception is only noted.          *)
RefreshFails ==
    /\ Active
    /\ refresh = "sending"
    /\ ~socket
    /\ additions \cup removals # {}
    /\ additions' = {}
    /\ removals' = {}
    /\ fresh' = {}
    /\ refresh' = Resting
    /\ UNCHANGED <<runVars, queued, writerVars, connVars, socket, server, subscribed, refreshOwed>>

\* Mutant: what was unsubscribed still counts.
SlipRefreshCommit ==
    /\ Active
    /\ refresh = "sending"
    /\ additions \cup removals = {}
    /\ subscribed' = subscribed \cup fresh
    /\ refreshOwed' \in {0, Cardinality(fresh)}
    /\ fresh' = {}
    /\ refresh' = "putting"
    /\ UNCHANGED <<runVars, queued, writerVars, connVars, socket, server, additions, removals>>

(* The belief is updated; a catalog snapshot may be due.                   *)
RefreshCommit ==
    /\ Active
    /\ refresh = "sending"
    /\ additions \cup removals = {}
    /\ subscribed' = fresh
    /\ refreshOwed' \in {0, Cardinality(fresh)}
    /\ fresh' = {}
    /\ refresh' = "putting"
    /\ UNCHANGED <<runVars, queued, writerVars, connVars, socket, server, additions, removals>>

RefreshPut ==
    /\ Active
    /\ refresh = "putting"
    /\ refreshOwed > 0
    /\ queued < QueueSize
    /\ queued' = queued + 1
    /\ refreshOwed' = refreshOwed - 1
    /\ UNCHANGED <<runVars, writerVars, connVars, socket, server, subscribed, refresh, additions,
                   removals, fresh>>

RefreshDone ==
    /\ Active
    /\ refresh = "putting"
    /\ refreshOwed = 0
    /\ refresh' = Resting
    /\ UNCHANGED <<runVars, queued, writerVars, connVars, socket, server, subscribed, additions,
                   removals, fresh, refreshOwed>>

(***************************************************************************)
(* run(): it sleeps until a task ends or stop is set, then cancels the     *)
(* others and lets the writer drain the queue.                             *)
(***************************************************************************)
SetStop ==
    /\ stop' = TRUE
    /\ due' = IF stop THEN due ELSE queued + batch

(* SIGINT or SIGTERM.                                                      *)
Signal ==
    /\ ~stop
    /\ SetStop
    /\ UNCHANGED <<main, status, queued, writerVars, connVars, socket, server, subscribed,
                   refreshVars>>

(* The status file cannot be written, or its loop sees stop.               *)
StatusEnds ==
    /\ status
    /\ status' = FALSE
    /\ UNCHANGED <<stop, main, due, queued, writerVars, connVars, socket, server, subscribed,
                   refreshVars>>

(* A cancelled connection unwinds its session; if it was unwinding one     *)
(* already, the cancellation cuts that short and the belief stays.         *)
CancelConnection ==
    \/ /\ conn \in InSession
       /\ conn' = "cancelled"
       /\ UNCHANGED <<socket, server, refreshVars>>
    \/ /\ conn \notin InSession
       /\ conn' = "done"
       /\ socket' = FALSE
       /\ server' = {}
       /\ refresh' = "none"
       /\ UNCHANGED <<additions, removals, fresh, refreshOwed>>

\* Mutant: the writer is waited for while the connection still feeds it.
SlipWakeRun ==
    /\ main = "waiting"
    /\ stop \/ ~status \/ conn = "done" \/ writer \in {"finished", "failed"}
    /\ SetStop
    /\ status' = FALSE
    /\ main' = "draining"
    /\ UNCHANGED <<queued, writerVars, connVars, socket, server, subscribed, refreshVars>>

WakeRun ==
    /\ main = "waiting"
    /\ stop \/ ~status \/ conn = "done" \/ writer \in {"finished", "failed"}
    /\ SetStop
    /\ status' = FALSE
    /\ CancelConnection
    /\ main' = "cancelling"
    /\ UNCHANGED <<queued, writerVars, owed, wanted, selection, subscribed>>

Gathered ==
    /\ main = "cancelling"
    /\ conn = "done"
    /\ main' = "draining"
    /\ UNCHANGED <<stop, status, due, queued, writerVars, connVars, socket, server, subscribed,
                   refreshVars>>

Stopped ==
    /\ main = "draining"
    /\ writer \in {"finished", "failed"}
    /\ main' = "stopped"
    /\ UNCHANGED <<stop, status, due, queued, writerVars, connVars, socket, server, subscribed,
                   refreshVars>>

Write == TakeBatch \/ WriteBatch \/ WriteFails \/ WriterEnds
Connection ==
    \/ FetchCatalog \/ ConnectFails \/ Put \/ PutsDone \/ Connect
    \/ Subscribe \/ SubscribeFails \/ StartSession
    \/ Unwind \/ Retry \/ LoopEnds
Refreshing ==
    \/ RefreshFetch \/ RefreshSubscribe \/ RefreshUnsubscribe \/ RefreshFails
    \/ RefreshCommit \/ RefreshPut \/ RefreshDone
Run == WakeRun \/ Gathered \/ Stopped

CollectorNext ==
    \/ Write
    \/ Connection \/ Message \/ SessionEnds \/ SocketDies
    \/ Refreshing
    \/ Signal \/ StatusEnds \/ Run

(* Every task that can run gets to run, and the queue serves its waiting   *)
(* putters in the order they came.                                         *)
CollectorFairness ==
    /\ WF_collectorVars(Write)
    /\ WF_collectorVars(Connection)
    /\ SF_collectorVars(Put)
    /\ WF_collectorVars(Refreshing)
    /\ WF_collectorVars(Run)

CollectorSpec == CollectorInit /\ [][CollectorNext]_collectorVars /\ CollectorFairness

(***************************************************************************)
(* Properties.                                                             *)
(***************************************************************************)

(* Between refreshes of an open session the far end delivers exactly the   *)
(* tokens the collector counts as subscribed, although the refresh task    *)
(* computed its differences before awaits in which the session may end.    *)
(* No session inherits anything: whenever the connection task starts over  *)
(* the old belief is gone, and so is the task that could still write it.   *)
SubscriptionsAgree ==
    /\ refresh \in {"sleeping", "putting", "ended"} /\ socket => server = subscribed
    /\ conn \notin InSession \cup Leaving \cup {"done"} =>
           subscribed = {} /\ refresh = "none"

(* A graceful stop keeps what was in the queue: unless a write failed, the *)
(* writer ends only after writing every record queued when stop was set.   *)
QueueSurvivesStop == writer = "finished" => due = 0

(* A stop request, or the end of any task, ends the process.               *)
StopEnds == (stop \/ writer = "failed") ~> main = "stopped"
====
