---------------------------- MODULE AShareGateway ----------------------------
(***************************************************************************)
(* The free A-share feeds of the lab (my_bt_lab/live): AutoAShareGateway   *)
(* iterates over four polling gateways in order of preference.  Each polls *)
(* its library on a worker thread, yields the rows, pauses and polls       *)
(* again; after so many failed polls in a row it raises, and the next one  *)
(* is tried.                                                               *)
(*                                                                         *)
(* One task consumes ticks().  Other tasks may call close() and            *)
(* subscribe() wherever the consumer awaits; the steps between two awaits  *)
(* are kept apart to name them, but nothing happens in between.            *)
(***************************************************************************)
EXTENDS Integers, Sequences

CONSTANTS
    Sources,        \* in the order in which they are tried
    MayRefuse,      \* those whose connect() can fail: no library, no token
    Chunks,         \* the requests of one poll, by source
    Batches,        \* rows a request may return: "tick", "skip" or "bad"
    MaxErrors,      \* max_consecutive_errors
    AShareSymbols   \* the subscriptions considered

ASSUME GatewayAssumption ==
    /\ Sources \in Seq(STRING) /\ MayRefuse \subseteq STRING
    /\ Chunks \in [{Sources[i] : i \in DOMAIN Sources} -> Nat \ {0}]
    /\ Batches \subseteq Seq({"tick", "skip", "bad"})
    /\ MaxErrors \in Nat \ {0}

VARIABLES
    pc,             \* where the consumer's ticks() is
    index,          \* the source it has come to, 0 before the first
    stopped, symbols,   \* AutoAShareGateway
    source,         \* the current polling gateway
    raised,         \* the sources that have raised
    result,         \* how ticks() ended
    closed          \* close() has been called since ticks() began

ashareVars == <<pc, index, stopped, symbols, source, raised, result, closed>>

\* Where the event loop may run another task.
Awaits == {"idle", "fetch", "yielded", "pause", "ended"}

NewSource(wanted) ==
    [stopped |-> FALSE, symbols |-> wanted, errors |-> 0, chunks |-> 0, rows |-> <<>>]

AShareInit ==
    /\ pc = "idle" /\ index = 0
    /\ stopped = FALSE
    /\ symbols \in AShareSymbols
    /\ source = NewSource(symbols)
    /\ raised = {} /\ result = "none" /\ closed = FALSE

Here(label) == pc = label /\ UNCHANGED symbols
GoTo(label) == pc' = label

-----------------------------------------------------------------------------
(* AutoAShareGateway.                                                       *)

\* ticks() begins with connect(): an earlier close() is forgotten.
Begin ==
    /\ Here("idle")
    /\ stopped' = FALSE
    /\ GoTo("next")
    /\ UNCHANGED <<index, source, raised, result, closed>>

Exhausted ==
    /\ Here("next")
    /\ index = Len(Sources)
    /\ result' = "failed"
    /\ GoTo("ended")
    /\ UNCHANGED <<index, stopped, source, raised, closed>>

\* Variant: a source that ends is followed by the next one, stopped or not.
TryNextAnyway ==
    /\ Here("next")
    /\ index < Len(Sources)
    /\ index' = index + 1 /\ source' = NewSource(symbols) /\ GoTo("connect")
    /\ UNCHANGED <<stopped, raised, result, closed>>

TryNext ==
    /\ Here("next")
    /\ index < Len(Sources)
    /\ IF stopped
       THEN /\ result' = "returned" /\ GoTo("ended")
            /\ UNCHANGED <<index, source>>
       ELSE /\ index' = index + 1
            /\ source' = NewSource(symbols)
            /\ GoTo("connect") /\ UNCHANGED result
    /\ UNCHANGED <<stopped, raised, closed>>

\* The consumer asks for the next tick.
ResumeTicks ==
    /\ Here("yielded")
    /\ IF stopped
       THEN /\ source' = [source EXCEPT !.stopped = TRUE]
            /\ result' = "returned" /\ GoTo("ended")
       ELSE GoTo("rows") /\ UNCHANGED <<source, result>>
    /\ UNCHANGED <<index, stopped, raised, closed>>

\* The consumer returns, as run_loop does after --max-ticks.
Abandon ==
    /\ Here("yielded")
    /\ closed
    /\ result' = "abandoned" /\ GoTo("ended")
    /\ UNCHANGED <<index, stopped, source, raised, closed>>

SourceRaised ==
    /\ Here("raised")
    /\ raised' = raised \union {index}
    /\ source' = [source EXCEPT !.stopped = TRUE]
    /\ GoTo("next")
    /\ UNCHANGED <<index, stopped, result, closed>>

\* Variant: only the loop over the sources is told.
CloseLoop ==
    /\ pc \in Awaits
    /\ ~stopped
    /\ stopped' = TRUE
    /\ closed' = (pc # "idle")
    /\ UNCHANGED <<pc, index, symbols, source, raised, result>>

\* Calls of other tasks.
Close ==
    /\ pc \in Awaits
    /\ ~stopped
    /\ stopped' = TRUE
    /\ source' = IF index = 0 THEN source ELSE [source EXCEPT !.stopped = TRUE]
    /\ closed' = (pc # "idle")
    /\ UNCHANGED <<pc, index, symbols, raised, result>>

\* Variant: only the sources to come are told.
SubscribeNext(wanted) ==
    /\ pc \in Awaits
    /\ symbols' = wanted
    /\ UNCHANGED <<pc, index, stopped, source, raised, result, closed>>

Subscribe(wanted) ==
    /\ pc \in Awaits
    /\ symbols' = wanted
    /\ source' = IF index = 0 THEN source ELSE [source EXCEPT !.symbols = wanted]
    /\ UNCHANGED <<pc, index, stopped, raised, result, closed>>

-----------------------------------------------------------------------------
(* The polling gateways.                                                    *)

Connect ==
    /\ Here("connect")
    /\ \/ source' = [source EXCEPT !.stopped = FALSE] /\ GoTo("poll")
       \/ Sources[index] \in MayRefuse /\ GoTo("raised") /\ UNCHANGED source
    /\ UNCHANGED <<index, stopped, raised, result, closed>>

\* A stopped gateway just ends.
Poll ==
    /\ Here("poll")
    /\ source' = [source EXCEPT !.chunks = Chunks[Sources[index]]]
    /\ GoTo(IF source.stopped THEN "next" ELSE "fetch")
    /\ UNCHANGED <<index, stopped, raised, result, closed>>

Fetched ==
    /\ Here("fetch")
    /\ \/ \E batch \in Batches :
            source' = [source EXCEPT !.rows = batch, !.chunks = @ - 1] /\ GoTo("rows")
       \/ UNCHANGED source /\ GoTo("error")
    /\ UNCHANGED <<index, stopped, raised, result, closed>>

NextRow ==
    /\ Here("rows")
    /\ source.rows # <<>>
    /\ source' = [source EXCEPT !.rows = Tail(@)]
    /\ GoTo(CASE Head(source.rows) = "tick" -> "yielded"
              [] Head(source.rows) = "skip" -> "rows"
              [] Head(source.rows) = "bad" -> "error")
    /\ UNCHANGED <<index, stopped, raised, result, closed>>

\* The next request of this poll, or a pause until the next poll.
RowsDone ==
    /\ Here("rows")
    /\ source.rows = <<>>
    /\ IF source.chunks > 0 THEN GoTo("fetch") /\ UNCHANGED source
       ELSE GoTo("pause") /\ source' = [source EXCEPT !.errors = 0]
    /\ UNCHANGED <<index, stopped, raised, result, closed>>

PollFailed ==
    /\ Here("error")
    /\ source' = [source EXCEPT !.errors = @ + 1, !.rows = <<>>]
    /\ GoTo(IF source.errors + 1 >= MaxErrors THEN "raised" ELSE "pause")
    /\ UNCHANGED <<index, stopped, raised, result, closed>>

PauseOver ==
    /\ Here("pause")
    /\ GoTo("poll")
    /\ UNCHANGED <<index, stopped, source, raised, result, closed>>

AShareTicks ==
    \/ Begin \/ Exhausted \/ TryNext \/ ResumeTicks \/ SourceRaised
    \/ Connect \/ Poll \/ Fetched \/ NextRow \/ RowsDone \/ PollFailed \/ PauseOver

AShareNext == AShareTicks \/ Abandon \/ Close \/ \E wanted \in AShareSymbols : Subscribe(wanted)

\* Requests return, pauses end, and the consumer goes on asking or returns.
AShareSpec == AShareInit /\ [][AShareNext]_ashareVars /\ WF_ashareVars(AShareTicks)

-----------------------------------------------------------------------------

\* "The fallback switches only if the current source raises."
FallbackOnFailure == \A i \in 1 .. index - 1 : i \in raised

\* A subscription reaches the source in use, whichever it is and whichever was
\* in use when it was made.
SubscriptionReaches == index > 0 => source.symbols = symbols

\* close() ends ticks(), wherever it finds it.
CloseEnds == closed ~> pc = "ended"

\* "all A-share free realtime sources failed" is said only when they all have.
AllHaveFailed == result = "failed" => raised = DOMAIN Sources
=============================================================================
