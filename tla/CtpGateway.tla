------------------------------ MODULE CtpGateway ------------------------------
(***************************************************************************)
(* live/simnow_ctp.py: market data of SimNow.  The callbacks of the CTP    *)
(* library run on a thread of their own; connect(), subscribe(), close()   *)
(* and the consumer of ticks() run on the event loop, one at a time; the   *)
(* consumer waits for the queue on a thread of the pool.                   *)
(***************************************************************************)
EXTENDS Integers, Sequences

CONSTANTS
    CtpSymbols,     \* what a caller may subscribe to
    Instrument,     \* _normalize_instrument_id: symbol -> instrument
    InstrumentIds,  \* instrument_ids of the configuration file
    MaxQueue        \* bound: ticks nobody has taken yet

VARIABLES
    ctp,            \* SimNowCtpGateway, where its ticks() is, and the ticks yielded after close()
    api,            \* _SimNowMdApi, what it has asked this session for, and the step its callback is in
    loop,           \* what the event loop is inside of: "free", or a step of subscribe()
    ctp_queue

ctpVars == <<ctp, api, loop, ctp_queue>>

Instruments(S) == {Instrument[s] : s \in S}
NewApi(S) == [symbols |-> S, connected |-> FALSE, login_status |-> FALSE, asked |-> {}, callback |-> "none"]

CtpInit ==
    /\ \E S \in SUBSET CtpSymbols : ctp = [symbols |-> S, stopped |-> FALSE, client |-> FALSE, at |-> "idle", late |-> 0]
    /\ api = NewApi({}) /\ loop = "free" /\ ctp_queue = <<>>

----------------------------------------------------------------------------
(* The event loop. *)

Wanted == IF ctp.symbols # {} THEN Instruments(ctp.symbols) ELSE InstrumentIds

\* ticks() connects if there is no client; without a symbol connect() raises.
CtpBegin ==
    /\ loop = "free" /\ ctp.at \in {"idle", "ended"}
    /\ IF ctp.client THEN ctp' = [ctp EXCEPT !.at = "take", !.late = 0] /\ UNCHANGED api
       ELSE IF Wanted = {} THEN ctp' = [ctp EXCEPT !.at = "ended"] /\ UNCHANGED api
       ELSE ctp' = [ctp EXCEPT !.at = "take", !.late = 0, !.stopped = FALSE, !.client = TRUE] /\ api' = NewApi(Wanted)
    /\ UNCHANGED <<loop, ctp_queue>>

\* queue.get has no timeout: it waits for a tick, whatever becomes of the client.
TakeTick ==
    /\ loop = "free" /\ ctp.at = "take" /\ ctp_queue # <<>>
    /\ ctp_queue' = Tail(ctp_queue)
    /\ ctp' = [ctp EXCEPT !.at = "yielded", !.late = IF ctp.stopped THEN @ + 1 ELSE @]
    /\ UNCHANGED <<api, loop>>

\* A mutated form goes on while there are ticks.
ResumeAnyway ==
    /\ loop = "free" /\ ctp.at = "yielded"
    /\ ctp' = [ctp EXCEPT !.at = IF ctp.stopped /\ ctp_queue = <<>> THEN "ended" ELSE "take"]
    /\ UNCHANGED <<api, loop, ctp_queue>>
ResumeCtp ==
    /\ loop = "free" /\ ctp.at = "yielded"
    /\ ctp' = [ctp EXCEPT !.at = IF ctp.stopped THEN "ended" ELSE "take"]
    /\ UNCHANGED <<api, loop, ctp_queue>>

\* subscribe(): the gateway's list, the client's list, then the client looks whether it is logged in.
CtpSubscribe(S) ==
    /\ loop = "free"
    /\ ctp' = [ctp EXCEPT !.symbols = S]
    /\ IF ctp.client THEN api' = [api EXCEPT !.symbols = Instruments(S)] /\ loop' = "look" ELSE UNCHANGED <<api, loop>>
    /\ UNCHANGED ctp_queue

LookForLogin ==
    /\ loop = "look" /\ loop' = IF api.login_status THEN "send" ELSE "free"
    /\ UNCHANGED <<ctp, api, ctp_queue>>

\* Requests on a session that is not logged in are lost.
Asked == IF api.login_status THEN api.asked \cup api.symbols ELSE api.asked

SendSubscriptions ==
    /\ loop = "send" /\ loop' = "free"
    /\ api' = [api EXCEPT !.asked = Asked]
    /\ UNCHANGED <<ctp, ctp_queue>>

CtpClose ==
    /\ loop = "free" /\ ctp.client
    /\ ctp' = [ctp EXCEPT !.stopped = TRUE, !.client = FALSE]
    /\ api' = NewApi(api.symbols)
    /\ UNCHANGED <<loop, ctp_queue>>

----------------------------------------------------------------------------
(* The callbacks. *)
Callback(before) == ctp.client /\ api.callback = before /\ UNCHANGED <<ctp, loop>>

OnFrontConnected ==
    /\ Callback("none") /\ ~api.connected
    /\ api' = [api EXCEPT !.connected = TRUE] /\ UNCHANGED ctp_queue

\* The answer to the login; a refused login is not tried again before the front connects again.
OnRspUserLogin ==
    /\ Callback("none") /\ api.connected /\ ~api.login_status
    /\ api' = [api EXCEPT !.login_status = TRUE, !.callback = "logged_in"] /\ UNCHANGED ctp_queue

SubscribeAll ==
    /\ Callback("logged_in")
    /\ api' = [api EXCEPT !.asked = Asked, !.callback = "none"] /\ UNCHANGED ctp_queue

\* A mutated form leaves the login status of the lost session.
OnlyDisconnected ==
    /\ Callback("none") /\ api.connected
    /\ api' = [api EXCEPT !.connected = FALSE, !.asked = {}] /\ UNCHANGED ctp_queue
OnFrontDisconnected ==
    /\ Callback("none") /\ api.connected
    /\ api' = [api EXCEPT !.connected = FALSE, !.login_status = FALSE, !.asked = {}] /\ UNCHANGED ctp_queue

OnRtnDepthMarketData(instrument) ==
    /\ Callback("none") /\ instrument \in api.asked /\ Len(ctp_queue) < MaxQueue
    /\ ctp_queue' = Append(ctp_queue, instrument) /\ UNCHANGED api

CtpNext ==
    \/ CtpBegin \/ TakeTick \/ ResumeCtp \/ LookForLogin \/ SendSubscriptions \/ CtpClose
    \/ \E S \in SUBSET CtpSymbols : CtpSubscribe(S)
    \/ OnFrontConnected \/ OnRspUserLogin \/ SubscribeAll \/ OnFrontDisconnected
    \/ \E i \in Instruments(CtpSymbols) \cup InstrumentIds : OnRtnDepthMarketData(i)

CtpSpec == CtpInit /\ [][CtpNext]_ctpVars

----------------------------------------------------------------------------
(* A session that is logged in has been asked for every instrument of the last subscription,      *)
(* whether subscribe() came before, during or after the login callback, and again after every     *)
(* reconnect; and a consumer gets at most one tick after close().                                 *)
CtpSubscribed ==
    (ctp.client /\ api.login_status /\ api.callback = "none" /\ loop = "free") => api.symbols \subseteq api.asked

LateTickAtMostOne == ctp.late <= 1
=============================================================================
