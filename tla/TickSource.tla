------------------------------ MODULE TickSource ------------------------------
(***************************************************************************)
(* The tick sources of the three bridge servers: the asyncio task that     *)
(* publishes ticks, and the endpoints that start and stop it.  Each server *)
(* is its own program; `server` says which one a behaviour is about.       *)
(*                                                                         *)
(*   mock     mock_tick_loop: all symbols, then sleep, for ever            *)
(*   csv      csv_replay_loop: one row, then sleep; once or again and again*)
(*   binance  binance_tick_loop: connect, publish what arrives, back off   *)
(*                                                                         *)
(* Endpoints run on worker threads, each as one block under state.lock.    *)
(* The tasks run on the event loop, one at a time, from one await to the   *)
(* next; a worker thread may act between any two of their locked blocks.   *)
(* cancel() only takes effect at an await: a task that is not suspended    *)
(* goes on until it reaches one.                                           *)
(***************************************************************************)
EXTENDS Integers, Sequences, FiniteSetsExt

CONSTANTS
    Servers,        \* the programs considered, of {"mock", "csv", "binance"}
    Tasks,          \* task objects: bounds the number of starts
    SymbolCounts,   \* how many symbols a start may name (mock, binance)
    Files,          \* CSV files: sequences of good and bad rows
    Bursts,         \* messages a connection may deliver between two awaits
    MaxRows,        \* no replay is resumed after so many rows
    MaxAttempts,    \* connections fail at most so often in a row
    NoTask

ASSUME SourceAssumption ==
    /\ Servers \subseteq {"mock", "csv", "binance"}
    /\ SymbolCounts \subseteq Nat
    /\ Files \subseteq Seq({"tick", "bad"})
    /\ Bursts \subseteq Seq({"tick", "bad"})
    /\ MaxRows \in Nat /\ MaxAttempts \in Nat
    /\ NoTask \notin Tasks
    /\ \E n \in SymbolCounts : \A m \in SymbolCounts : m <= n
    /\ \E b \in Bursts : \A c \in Bursts : Len(c) <= Len(b)

VARIABLES
    server,
    running,        \* mock_running, csv_running, binance_running
    task,           \* mock_task, csv_task, binance_task
    source_symbols, \* how many symbols the source is to publish
    csv_completed, csv_rows_replayed,
    reconnect_attempts, reconnect_delay,
    tasks,          \* every task ever created
    inside          \* the task the event loop is executing, or NoTask

csv == <<csv_completed, csv_rows_replayed>>
backoff == <<reconnect_attempts, reconnect_delay>>
control == <<server, running, task, source_symbols>>
sourceVars == <<control, csv, backoff, tasks, inside>>

Suspended == {"scheduled", "sleep", "idle", "connecting", "receive", "backoff"}
Ended     == {"done", "cancelled", "failed"}
Labels    == Suspended \union Ended \union {"unused", "top", "publish", "complete", "retire", "except"}

\* left: the ticks still to publish before the next await or the end of the file;
\* rows and late: how many it has published, how many of them after cancel().
NewTask(file, loop) ==
    [pc |-> "scheduled", cancelled |-> FALSE, file |-> file, loop |-> loop,
     left |-> file, rows |-> 0, late |-> 0]

Unused == [NewTask(<<>>, FALSE) EXCEPT !.pc = "unused"]

BaseDelay == 3
MaxDelay == 30

SourceInit ==
    /\ server \in Servers
    /\ running = FALSE /\ task = NoTask /\ source_symbols = 0
    /\ csv_completed = FALSE /\ csv_rows_replayed = 0
    /\ reconnect_attempts = 0 /\ reconnect_delay = BaseDelay
    /\ tasks = [t \in Tasks |-> Unused]
    /\ inside = NoTask

-----------------------------------------------------------------------------
(* The endpoints, on worker threads.                                        *)

Live(t) == tasks[t].pc \in Labels \ (Ended \union {"unused"})

\* state.task.cancel(), if there is a task that is not done.
Cancelled(t) ==
    IF t # NoTask /\ Live(t) THEN [tasks EXCEPT ![t].cancelled = TRUE] ELSE tasks

BeginTask(t, new) ==
    /\ tasks[t].pc = "unused"
    /\ running' = TRUE
    /\ tasks' = [Cancelled(task) EXCEPT ![t] = new]
    /\ task' = t
    /\ UNCHANGED <<server, inside>>

StartMock(t, n) ==
    /\ server = "mock"
    /\ source_symbols' = n
    /\ BeginTask(t, NewTask(<<>>, FALSE))
    /\ UNCHANGED <<csv, backoff>>

StartReplay(t, file, loop) ==
    /\ server = "csv"
    /\ csv_completed' = FALSE
    /\ csv_rows_replayed' = 0
    /\ BeginTask(t, NewTask(file, loop))
    /\ UNCHANGED <<source_symbols, backoff>>

StartBinance(t, n) ==
    /\ server = "binance"
    /\ source_symbols' = n
    /\ reconnect_attempts' = 0
    /\ reconnect_delay' = BaseDelay
    /\ BeginTask(t, NewTask(<<>>, FALSE))
    /\ UNCHANGED csv

\* Variant: the task is forgotten without being cancelled.
StopForgets ==
    /\ running' = FALSE /\ task' = NoTask
    /\ UNCHANGED <<server, source_symbols, tasks, csv, backoff, inside>>

Stop ==
    /\ running \/ task # NoTask
    /\ running' = FALSE
    /\ tasks' = Cancelled(task)
    /\ task' = NoTask
    /\ UNCHANGED <<server, source_symbols, csv, backoff, inside>>

-----------------------------------------------------------------------------
(* The event loop.                                                          *)

Continue(t, label, ticks) ==
    /\ tasks' = [tasks EXCEPT ![t].pc = label, ![t].left = ticks]
    /\ inside' = t

Leave(t, label) ==
    /\ tasks' = [tasks EXCEPT ![t].pc = label]
    /\ inside' = NoTask

\* Variant: the task swallows CancelledError and goes on sleeping.
ResumeSwallowing(t) ==
    /\ inside = NoTask /\ tasks[t].pc \in Suspended /\ tasks[t].cancelled
    /\ Leave(t, "sleep")
    /\ UNCHANGED <<control, csv, backoff>>

\* A suspended task is resumed when it has been cancelled: CancelledError.
ResumeCancelled(t) ==
    /\ inside = NoTask
    /\ tasks[t].pc \in Suspended
    /\ tasks[t].cancelled
    /\ Leave(t, "cancelled")
    /\ UNCHANGED <<control, csv, backoff>>

\* The await is over: the first turn of the task, or its next one.
MayResume(t, labels) ==
    /\ inside = NoTask
    /\ tasks[t].pc \in labels
    /\ ~tasks[t].cancelled

Resume(t) ==
    /\ \/ /\ server = "csv"
          /\ MayResume(t, {"scheduled", "sleep"})
          /\ csv_rows_replayed < MaxRows
          /\ Continue(t, "publish", tasks[t].left)
       \/ /\ server = "mock"
          /\ MayResume(t, {"scheduled", "sleep"})
          /\ Continue(t, "top", <<>>)
       \/ /\ server = "binance"
          /\ MayResume(t, {"scheduled", "idle", "backoff"})
          /\ Continue(t, "top", <<>>)
    /\ UNCHANGED <<control, csv, backoff>>

ReadSymbols(t) ==
    /\ inside = t
    /\ tasks[t].pc = "top"
    /\ \/ server = "mock" /\ Continue(t, "publish", [i \in 1 .. source_symbols |-> "tick"])
       \/ server = "binance" /\ Leave(t, IF source_symbols = 0 THEN "idle" ELSE "connecting")
    /\ UNCHANGED <<control, csv, backoff>>

\* Variant: a replay without interval does not await between two rows.
PublishInOneGo(t) ==
    LET me == tasks[t]
    IN /\ inside = t /\ me.pc = "publish" /\ me.left # <<>> /\ Head(me.left) = "tick"
       /\ csv_rows_replayed' = csv_rows_replayed + 1
       /\ tasks' = [tasks EXCEPT ![t] = [me EXCEPT !.left = Tail(@), !.rows = @ + 1,
                                           !.late = IF me.cancelled THEN @ + 1 ELSE @]]
       /\ UNCHANGED <<inside, control, csv_completed, backoff>>

\* publish_tick under the lock; a replay then awaits.
Publish(t) ==
    LET me == tasks[t]
        after == [me EXCEPT !.left = Tail(@), !.rows = @ + 1,
                            !.late = IF me.cancelled THEN @ + 1 ELSE @]
    IN /\ inside = t
       /\ me.pc = "publish"
       /\ me.left # <<>>
       /\ Head(me.left) = "tick"
       /\ \/ /\ server = "csv"
             /\ csv_rows_replayed' = csv_rows_replayed + 1
             /\ tasks' = [tasks EXCEPT ![t] = [after EXCEPT !.pc = "sleep"]]
             /\ inside' = NoTask
          \/ /\ server # "csv"
             /\ tasks' = [tasks EXCEPT ![t] = [after EXCEPT !.rows = 0]]
             /\ UNCHANGED <<csv_rows_replayed, inside>>
       /\ UNCHANGED <<control, csv_completed, backoff>>

\* A row or message that is not a tick raises.
PublishBad(t) ==
    /\ inside = t
    /\ tasks[t].pc = "publish"
    /\ tasks[t].left # <<>>
    /\ Head(tasks[t].left) = "bad"
    /\ IF server = "binance" THEN Continue(t, "except", <<>>) ELSE Leave(t, "failed")
    /\ UNCHANGED <<control, csv, backoff>>

\* The engine raises on a good tick (BridgeSimulation): a row is counted first.
EngineRaises(t) ==
    /\ inside = t
    /\ tasks[t].pc = "publish"
    /\ tasks[t].left # <<>>
    /\ Head(tasks[t].left) = "tick"
    /\ IF server = "binance" THEN Continue(t, "except", <<>>) ELSE Leave(t, "failed")
    /\ csv_rows_replayed' = IF server = "csv" THEN csv_rows_replayed + 1 ELSE csv_rows_replayed
    /\ UNCHANGED <<control, csv_completed, backoff>>

TurnOver(t) ==
    /\ inside = t
    /\ tasks[t].pc = "publish"
    /\ tasks[t].left = <<>>
    /\ \/ server = "mock" /\ Leave(t, "sleep")
       \/ server = "binance" /\ Leave(t, "receive")
       \/ server = "csv" /\ Continue(t, "complete", <<>>)
    /\ UNCHANGED <<control, csv, backoff>>

(* The end of a CSV file. *)

Complete(t) ==
    /\ inside = t
    /\ tasks[t].pc = "complete"
    /\ csv_completed' = TRUE
    /\ IF tasks[t].loop THEN Continue(t, "publish", tasks[t].file) ELSE Continue(t, "retire", <<>>)
    /\ UNCHANGED <<control, csv_rows_replayed, backoff>>

\* Variant: the replay ends without saying so.
RetireQuietly(t) ==
    /\ inside = t /\ tasks[t].pc = "retire"
    /\ Leave(t, "done")
    /\ UNCHANGED <<control, csv, backoff>>

Retire(t) ==
    /\ inside = t
    /\ tasks[t].pc = "retire"
    /\ running' = FALSE
    /\ Leave(t, "done")
    /\ UNCHANGED <<server, task, source_symbols, csv, backoff>>

(* The Binance connection. *)

Connected(t) ==
    /\ server = "binance"
    /\ MayResume(t, {"connecting"})
    /\ reconnect_attempts' = 0
    /\ reconnect_delay' = BaseDelay
    /\ Leave(t, "receive")
    /\ UNCHANGED <<control, csv>>

Received(t) ==
    /\ server = "binance"
    /\ MayResume(t, {"receive"})
    /\ \E burst \in Bursts : Continue(t, "publish", burst)
    /\ UNCHANGED <<control, csv, backoff>>

\* The peer closes the stream: `async for` ends and the loop connects again.
StreamEnds(t) ==
    /\ server = "binance"
    /\ MayResume(t, {"receive"})
    /\ Continue(t, "top", <<>>)
    /\ UNCHANGED <<control, csv, backoff>>

ConnectionFails(t) ==
    /\ server = "binance"
    /\ MayResume(t, {"connecting", "receive"})
    /\ reconnect_attempts < MaxAttempts
    /\ Continue(t, "except", <<>>)
    /\ UNCHANGED <<control, csv, backoff>>

Delay(attempts) ==
    LET exponent == IF attempts - 1 < 4 THEN attempts - 1 ELSE 4
        delay == BaseDelay * 2 ^ exponent
    IN IF delay < MaxDelay THEN delay ELSE MaxDelay

BackOff(t) ==
    /\ inside = t
    /\ tasks[t].pc = "except"
    /\ reconnect_attempts' = reconnect_attempts + 1
    /\ reconnect_delay' = Delay(reconnect_attempts')
    /\ Leave(t, "backoff")
    /\ UNCHANGED <<control, csv>>

-----------------------------------------------------------------------------
Endpoint ==
    \/ \E t \in Tasks, n \in SymbolCounts : StartMock(t, n) \/ StartBinance(t, n)
    \/ \E t \in Tasks, file \in Files, loop \in BOOLEAN : StartReplay(t, file, loop)
    \/ Stop

LoopStep(t) ==
    \/ ResumeCancelled(t) \/ Resume(t) \/ ReadSymbols(t)
    \/ Publish(t) \/ PublishBad(t) \/ EngineRaises(t) \/ TurnOver(t)
    \/ Complete(t) \/ Retire(t)
    \/ Connected(t) \/ BackOff(t)

Peer(t) == Received(t) \/ StreamEnds(t) \/ ConnectionFails(t)

SourceNext == Endpoint \/ \E t \in Tasks : LoopStep(t) \/ Peer(t)

\* The event loop serves every ready task.  Clients and the peer owe nothing,
\* but a pending connection is answered (open_timeout) one way or the other.
Fairness ==
    \A t \in Tasks : /\ SF_sourceVars(LoopStep(t))
                     /\ SF_sourceVars(ConnectionFails(t) \/ Connected(t))

SourceSpec == SourceInit /\ [][SourceNext]_sourceVars /\ Fairness
-----------------------------------------------------------------------------
(* Safety.                                                                  *)

\* However starts and stops overlap with the loop, at most one task is not on
\* its way out, and it is the one the server will cancel next.
OneSource == \A t \in Tasks : Live(t) /\ ~tasks[t].cancelled => t = task

\* A source that has been stopped or replaced publishes no more than the turn
\* it was in: one row of a replay, one round of mock symbols, one burst.
LateTicksBounded ==
    \A t \in Tasks : tasks[t].late <=
        CASE server = "csv" -> 1
          [] server = "mock" -> Max(SymbolCounts)
          [] server = "binance" -> Max({Len(burst) : burst \in Bursts})

\* The running flag is believed by every client.  It is wrong in two cases
\* only: the task failed, which nobody notices; or a replay reached its end
\* after its successor had been started, and cleared the successor's flag.
RunningIsTruthful ==
    /\ running => task # NoTask /\ tasks[task].pc \notin {"done", "cancelled"}
    /\ ~running /\ task # NoTask /\ Live(task) =>
         \E t \in Tasks \ {task} : tasks[t].pc = "done" /\ tasks[t].cancelled

-----------------------------------------------------------------------------
(* Liveness.                                                                *)

\* Replaying an empty file again and again never awaits: nothing else runs.
LoopIsStuck == \E t \in Tasks : inside = t /\ tasks[t].loop /\ tasks[t].file = <<>>

\* A task that is cancelled ends, and so does a replay that is not looped, whether
\* or not it is stopped.
TasksEnd ==
    \A t \in Tasks :
        /\ tasks[t].cancelled ~> tasks[t].pc \in Ended \/ LoopIsStuck
        /\ Live(t) /\ server = "csv" /\ ~tasks[t].loop ~> tasks[t].pc \in Ended \/ LoopIsStuck
=============================================================================
