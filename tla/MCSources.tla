------------------------------ MODULE MCSources ------------------------------
(***************************************************************************)
(* Everything that produces live ticks: the tick sources of the bridge     *)
(* servers and the gateways of the lab.  They share no state; a behaviour  *)
(* is of one of them, the others stay as they are.                         *)
(***************************************************************************)
EXTENDS TickSource, AShareGateway, CtpGateway, BinanceGateway, TLC

CONSTANTS t1, t2

VARIABLE part           \* "bridge", "ashare", "ctp" or "spot"

allVars == <<part, sourceVars, ashareVars, ctpVars, spotVars>>

(* Files that are empty, well formed or broken; one or two ticks at a time. *)
TestFiles  == {<<>>, <<"tick", "tick">>, <<"tick", "bad">>}
TestBursts == {<<"tick">>, <<"tick", "tick">>, <<"bad">>}

(* The order that auto_ashare.py documents; Tushare asks in several requests. *)
Preferred == <<"mootdx", "tushare", "efinance", "akshare">>
Requests  == [s \in {Preferred[i] : i \in DOMAIN Preferred} |-> IF s = "tushare" THEN 2 ELSE 1]
Replies   == {<<>>, <<"skip">>, <<"tick", "tick">>, <<"tick", "bad">>}

(* A symbol with an exchange and one without, and one that only the configuration file names. *)
TestInstrument == [s \in CtpSymbols |-> IF s = "rb.SHFE" THEN "rb" ELSE s]

Idle ==
    /\ part # "bridge" => server = CHOOSE s \in Servers : TRUE
    /\ part # "ashare" => symbols = CHOOSE s \in AShareSymbols : TRUE
    /\ part # "ctp" => ctp.symbols = {}
    /\ part # "spot" => spot.symbols = {}

LiveInit ==
    /\ part \in {"bridge", "ashare", "ctp", "spot"}
    /\ SourceInit /\ AShareInit /\ CtpInit /\ SpotInit /\ Idle

LiveNext ==
    \/ part = "bridge" /\ SourceNext /\ UNCHANGED <<part, ashareVars, ctpVars, spotVars>>
    \/ part = "ashare" /\ AShareNext /\ UNCHANGED <<part, sourceVars, ctpVars, spotVars>>
    \/ part = "ctp" /\ CtpNext /\ UNCHANGED <<part, sourceVars, ashareVars, spotVars>>
    \/ part = "spot" /\ SpotNext /\ UNCHANGED <<part, sourceVars, ashareVars, ctpVars>>

\* The fairness of each; a consumer that has not begun is idle in the other parts.
LiveSpec ==
    /\ LiveInit /\ [][LiveNext]_allVars
    /\ Fairness /\ SpotFairness
    /\ WF_ashareVars(part = "ashare" /\ AShareTicks)

-----------------------------------------------------------------------------
\* close() ends the stream of ticks of the A-share and of the Binance gateway, wherever it
\* finds it (for Binance with the exception that SpotCloseEnds states).
ClosedStreamsEnd == CloseEnds /\ SpotCloseEnds
=============================================================================
