---------------------------- MODULE BinanceGateway ----------------------------
(***************************************************************************)
(* live/binance_spot.py: ticks() connects with the symbols it finds, hands *)
(* on what arrives, and connects again after an error or an end.  Other    *)
(* tasks may call subscribe() and close() wherever it awaits.              *)
(***************************************************************************)
EXTENDS Integers

CONSTANTS Streams       \* the symbol lists considered, {} among them

VARIABLE spot           \* BinanceSpotGateway, where its ticks() is, and how it found the last close()

spotVars == <<spot>>

SpotInit ==
    \E S \in Streams : spot = [symbols |-> S, stopped |-> FALSE, open |-> FALSE, at |-> "idle", closed |-> "no"]

Goto(at) == spot' = [spot EXCEPT !.at = at]

\* connect() forgets an earlier close().
SpotBegin ==
    /\ spot.at \in {"idle", "ended"}
    /\ spot' = [spot EXCEPT !.at = "loop", !.stopped = FALSE, !.closed = "no"]

\* Nothing is awaited between the test of the loop and the attempt to connect.
SpotLoop ==
    /\ spot.at = "loop"
    /\ IF spot.stopped THEN Goto("ended")
       ELSE IF spot.symbols = {} THEN Goto("sleep")
       ELSE Goto("connecting")

SpotConnected == spot.at = "connecting" /\ spot' = [spot EXCEPT !.at = "receive", !.open = TRUE]

\* A message without a symbol is passed over, one that cannot be read is an error like a lost connection.
Message == spot.at = "receive" /\ (Goto("yielded") \/ UNCHANGED spot)
NextMessage == spot.at = "yielded" /\ Goto("receive")
SpotError ==
    /\ spot.at \in {"connecting", "receive"}
    /\ spot' = [spot EXCEPT !.at = "sleep", !.open = FALSE]

\* The iteration over a connection that was closed in order ends without an error.
ConnectionEnds ==
    /\ spot.at = "receive"
    /\ spot' = [spot EXCEPT !.at = "loop", !.open = FALSE]

SleepOver == spot.at = "sleep" /\ Goto("loop")

SpotSubscribe(S) == /\ spot.at \notin {"loop"} /\ spot' = [spot EXCEPT !.symbols = S]

SpotClose == /\ spot.at \notin {"idle", "loop", "ended"}
             /\ spot' = [spot EXCEPT !.stopped = TRUE, !.open = FALSE,
                                     !.closed = IF spot.at = "connecting" THEN "missed" ELSE "heard"]

SpotTicks == SpotLoop \/ SpotConnected \/ NextMessage \/ SleepOver
SpotNext ==
    \/ SpotBegin \/ SpotTicks \/ Message \/ SpotError \/ ConnectionEnds \/ SpotClose
    \/ \E S \in Streams : SpotSubscribe(S)

(* The consumer asks again, sleeps and attempts end, and so does a connection that close() closed, *)
(* after the messages it had received.                                                            *)
SpotFairness == WF_spotVars(SpotTicks) /\ SF_spotVars(~spot.open /\ ConnectionEnds)

----------------------------------------------------------------------------
(* close() ends ticks() for good, wherever it finds it - waiting for a message, between two ticks, *)
(* asleep after an error - but not while a connection is being opened: that one is not closed.     *)
SpotCloseEnds == spot.closed = "heard" ~> spot.at = "ended" \/ spot.closed = "missed"
=============================================================================
