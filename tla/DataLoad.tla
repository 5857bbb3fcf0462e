------------------------------- MODULE DataLoad -------------------------------
(***************************************************************************)
(* Data of a backtest from files and from PostgreSQL: data/loaders_bt.py   *)
(* (the backtrader engine), data/loaders_df.py (the simple engine),        *)
(* data/normalize.py, data/tick_aggregator.py, and the queries and the     *)
(* connection of app/desktop_support.py.  Ticks become bars in the         *)
(* database or, if that fails, in the program.                             *)
(*                                                                         *)
(* Time is counted from the start of a week in parts of a minute, as fine  *)
(* as the rows tell it: rows of one time are not ordered.  What stands in  *)
(* a row beside its time is a price, 0 if there is none or it cannot be    *)
(* read (the columns that the queries name have no constraints in          *)
(* sql/ddl.sql).  The program drops rows without a time.                   *)
(***************************************************************************)
EXTENDS Integers, Rows, FiniteSetsExt

CONSTANTS
    MinuteLen, HourLen, DayLen, WeekLen,
    Items,          \* the data[] items considered
    Tables,         \* contents of the table an item is about: [time, price], in the order they are stored
    Files,          \* contents of a file: whether it has the columns of ticks, and its rows as they stand there
    MaxLoads        \* bound: loads one after another

\* The hour has whole minutes and the day whole hours.
LoadAssumption ==
    /\ MinuteLen \in Nat \ {0} /\ HourLen \in Nat \ {0} /\ DayLen \in Nat \ {0}
    /\ HourLen % MinuteLen = 0 /\ DayLen % HourLen = 0
    /\ Items # {} /\ \A item \in Items : item.compression \in Nat \ {0}
    /\ Tables \subseteq Seq([time : Nat, price : Nat])
    /\ \A file \in Files : file.rows \in Seq([time : Nat, price : Nat])
ASSUME LoadIsTyped == LoadAssumption

VARIABLES
    job,            \* the load in progress: item, position, attempt, rows received, bars, what failed
    session,        \* what is open: the tunnel and the connection, of this attempt or a former one
    tick_data,      \* the table
    csv_file,       \* the item's file, NoFile if there is none
    loads

loadVars == <<job, session, tick_data, csv_file, loads>>

NoFile == [ticks |-> FALSE, rows |-> <<>>, there |-> FALSE]
Floor(t, n) == (t \div n) * n
Idle(item) == [item |-> item, at |-> "idle", attempt |-> "rows", rows |-> <<>>, bars |-> <<>>, fallback |-> FALSE]

----------------------------------------------------------------------------
(* Rows I of a table or a file: those with a price, the first and the last of them (of rows of one *)
(* time any), their prices, and the bar that opens with one of them and closes with another.        *)
Priced(rows) == {i \in DOMAIN rows : rows[i].price > 0}
Earliest(rows, I) == {i \in I : \A j \in I : rows[i].time <= rows[j].time}
Latest(rows, I) == {i \in I : \A j \in I : rows[j].time <= rows[i].time}
PricesIn(rows, I) == {rows[i].price : i \in I} \ {0}
BarOf(rows, I, first, last) ==
    [open |-> rows[first].price, high |-> Max(PricesIn(rows, I)), low |-> Min(PricesIn(rows, I)),
     close |-> rows[last].price, ticks |-> Cardinality(I)]

(* _pg_bar_bucket_expr: date_trunc and integer division; any other timeframe is one of minutes. *)
PgBucket(t, timeframe, c) ==
    CASE timeframe \in {"minutes", "none"} -> Floor(t, HourLen) + Floor(t % HourLen, c * MinuteLen)
      [] timeframe = "hours" -> IF c = 1 THEN Floor(t, HourLen) ELSE Floor(t, DayLen) + Floor(t % DayLen, c * HourLen)
      [] timeframe = "days" -> Floor(t, DayLen)
      [] OTHER -> Floor(t, MinuteLen)

(* DataFrame.resample: periods are counted from the start of the first day, weeks are named by their *)
(* last day; without a timeframe the frequency is one of days.                                       *)
\* A mutated form counts from the first row.
LocalBucketFromFirst(t, timeframe, c, first) ==
    CASE timeframe = "minutes" -> first + Floor(t - first, c * MinuteLen)
      [] timeframe = "tick" -> first + Floor(t - first, MinuteLen)
      [] timeframe = "hours" -> first + Floor(t - first, c * HourLen)
      [] OTHER -> first + Floor(t - first, c * DayLen)
LocalBucket(t, timeframe, c, first) ==
    LET origin == Floor(first, DayLen) IN
    CASE timeframe = "minutes" -> origin + Floor(t - origin, c * MinuteLen)
      [] timeframe = "tick" -> origin + Floor(t - origin, MinuteLen)
      [] timeframe = "hours" -> origin + Floor(t - origin, c * HourLen)
      [] timeframe \in {"days", "none"} -> origin + Floor(t - origin, c * DayLen)
      [] timeframe = "weeks" -> Floor(t, WeekLen) + WeekLen - DayLen

\* WHERE trading_day >= start AND trading_day <= end.
InWindow(item, r) ==
    /\ item.start = 0 \/ r.time \div DayLen >= item.start - 1
    /\ item.end = 0 \/ r.time \div DayLen <= item.end - 1
Selected(item, rows) == Where(rows, {r \in ToSet(rows) : InWindow(item, r)})

\* ORDER BY day, time and milliseconds: rows that are equal in all of them come in any order.
Ordered(rows) ==
    {[i \in DOMAIN rows |-> rows[p[i]]] :
        p \in {q \in Bijection(DOMAIN rows, DOMAIN rows) :
                  \A i, j \in DOMAIN rows : i < j => rows[q[i]].time <= rows[q[j]].time}}

(* The database numbers the rows of a bucket from either end, equal ones as it likes: the rows that *)
(* become number one give open and close.  Bars without one of these prices do not outlast the      *)
(* normalisation; MAX and MIN pass over what is missing, and the volume is that of all rows.        *)
OneOfEach(offered) == {f \in [DOMAIN offered -> UNION Range(offered)] : \A b \in DOMAIN offered : f[b] \in offered[b]}
PostgresTickToBar(item, rows) ==
    LET bucket(r) == PgBucket(r.time, item.timeframe, item.compression)
        buckets == {bucket(rows[i]) : i \in DOMAIN rows}
        Of(b) == {i \in DOMAIN rows : bucket(rows[i]) = b}
    IN  {[b \in {c \in buckets : {ends[c][1], ends[c][2]} \subseteq Priced(rows)} |->
             BarOf(rows, Of(b), ends[b][1], ends[b][2])] :
            ends \in OneOfEach([b \in buckets |-> Earliest(rows, Of(b)) \X Latest(rows, Of(b))])}

(* aggregate_tick_to_bar drops rows it cannot read and resamples by time, which keeps the order of  *)
(* equal rows.                                                                                      *)
AggregateTickToBar(item, rows) ==
    LET good == Priced(rows)
        origin == Min({rows[i].time : i \in good})
        bucket(r) == LocalBucket(r.time, item.timeframe, item.compression, origin)
        Of(b) == {i \in good : bucket(rows[i]) = b}
    IN  [b \in {bucket(rows[i]) : i \in good} |->
            BarOf(rows, Of(b), Min(Earliest(rows, Of(b))), Max(Latest(rows, Of(b))))]

(* normalize_ohlcv_df: rows without prices are dropped; of rows with one time any may be kept, since *)
(* the sort before drop_duplicates is not stable.                                                    *)
Normalized(rows) ==
    LET good == Priced(rows)
        times == {rows[i].time : i \in good}
    IN  {[t \in times |-> BarOf(rows, {pick[t]}, pick[t], pick[t])] :
            pick \in {p \in [times -> good] : \A t \in times : rows[p[t]].time = t}}

----------------------------------------------------------------------------
(* A load begins.  bt asks the database to aggregate whenever the item is about ticks or names the *)
(* tick table; df only if it is about ticks and names no table.                                    *)
IsTick(item) == item.data_type = "tick"
ServerFirst(item) == IF item.loader = "bt" THEN IsTick(item) \/ item.table = "tick_data"
                     ELSE IsTick(item) /\ item.table = ""

LoadInit ==
    /\ job = Idle(CHOOSE i \in Items : TRUE)
    /\ session = {} /\ loads = 0
    /\ tick_data \in Tables /\ csv_file \in Files \cup {NoFile}

Loaded(bars) == [at |-> "done", bars |-> bars]
LoadFailed == [at |-> "failed", bars |-> <<>>]
JobGoes(at) == job' = [job EXCEPT !.at = at]

BeginPostgres(item) ==
    /\ job.at = "idle" /\ loads < MaxLoads /\ item.source = "postgres"
    /\ job' = [Idle(item) EXCEPT !.at = IF item.ssh THEN "tunnel" ELSE "connect",
                                 !.attempt = IF ServerFirst(item) THEN "server" ELSE "rows"]
    /\ loads' = loads + 1
    /\ UNCHANGED <<session, tick_data, csv_file>>

StartTunnel ==
    /\ job.at = "tunnel"
    /\ \/ session' = session \cup {"tunnel"} /\ JobGoes("connect")
       \/ JobGoes("error") /\ UNCHANGED session
    /\ UNCHANGED <<tick_data, csv_file, loads>>

\* A server without SSL is asked once more without it, unless sslmode says so already.
Connect ==
    /\ job.at \in {"connect", "retry"}
    /\ \/ session' = session \cup {"connection"} /\ JobGoes("query")
       \/ job.at = "connect" /\ job.item.sslmode # "disable" /\ JobGoes("retry") /\ UNCHANGED session
       \/ JobGoes("error") /\ UNCHANGED session
    /\ UNCHANGED <<tick_data, csv_file, loads>>

\* build_postgres_tick_to_bar_query, or build_postgres_query; what was selected is kept in either case.
\* A table of bars does not have the columns that the first of them names.
Query ==
    /\ job.at = "query"
    /\ LET selected == Selected(job.item, tick_data)
       IN  \/ /\ job.attempt = "server" /\ job.item.table # "bars"
              /\ \E bars \in PostgresTickToBar(job.item, selected) :
                    job' = [job EXCEPT !.at = "received", !.rows = selected, !.bars = bars]
           \/ /\ job.attempt = "rows"
              /\ \E rows \in Ordered(selected) : job' = [job EXCEPT !.at = "received", !.rows = rows]
    /\ UNCHANGED <<session, tick_data, csv_file, loads>>

\* A statement timeout, a table or a column that is not there, a connection that breaks, or bars that
\* cannot be normalised (one of rows without a time).
QueryFails ==
    /\ job.at = "query" /\ JobGoes("error")
    /\ UNCHANGED <<session, tick_data, csv_file, loads>>

(* Leaving the with statement closes the connection and stops the tunnel, error or not. *)
\* A mutated form leaves the tunnel to itself after an error.
ConnectionClosed(open, after) == IF after = "error" THEN open \ {"connection"} ELSE {}
Closed(open, after) == {}

(* No bars from the database, for an error or because nothing was selected: the rows are asked for. *)
FallBack ==
    /\ job.attempt = "server" /\ (job.at = "error" \/ (job.at = "received" /\ job.rows = <<>>))
    /\ session' = Closed(session, job.at)
    /\ job' = [job EXCEPT !.at = IF job.item.ssh THEN "tunnel" ELSE "connect", !.attempt = "rows", !.fallback = TRUE]
    /\ UNCHANGED <<tick_data, csv_file, loads>>

PostgresFails ==
    /\ job.attempt = "rows" /\ (job.at = "error" \/ (job.at = "received" /\ job.rows = <<>>))
    /\ session' = Closed(session, job.at) /\ JobGoes("failed")
    /\ UNCHANGED <<tick_data, csv_file, loads>>

ServerBarsArrive ==
    /\ job.attempt = "server" /\ job.at = "received" /\ job.rows # <<>>
    /\ session' = Closed(session, job.at) /\ JobGoes("done")
    /\ UNCHANGED <<tick_data, csv_file, loads>>

(* Rows that are ticks, by their columns or because the item says so, are aggregated by the bt loader. *)
(* Bars said to be ticks have a price, their close; they have a time only if the column of it has one  *)
(* of the names it has for ticks.  The df loader finds no columns of bars in ticks.                    *)
AsTicks(item, rows) == {IF Priced(rows) = {} THEN LoadFailed ELSE Loaded(AggregateTickToBar(item, rows))}
AsBars(rows, ticks) == IF ticks \/ rows = <<>> THEN {LoadFailed} ELSE {Loaded(bars) : bars \in Normalized(rows)}
Told(item, rows, ticks) ==
    IF item.loader = "bt" /\ (ticks \/ IsTick(item))
    THEN AsTicks(item, rows) \cup (IF ticks THEN {} ELSE {LoadFailed})
    ELSE AsBars(rows, ticks)

RowsArrive ==
    /\ job.attempt = "rows" /\ job.at = "received" /\ job.rows # <<>>
    /\ session' = Closed(session, job.at)
    /\ \E told \in Told(job.item, job.rows, job.item.table # "bars") :
          job' = [job EXCEPT !.at = told.at, !.bars = told.bars]
    /\ UNCHANGED <<tick_data, csv_file, loads>>

(* A file is read at once, all of it; a csv file that is missing is fetched from Tushare, if that is *)
(* configured, and written for the loads to come.  Only csv files may hold ticks.                    *)
LoadFile(item) ==
    /\ job.at = "idle" /\ loads < MaxLoads /\ item.source \in {"csv", "excel"}
    /\ loads' = loads + 1
    /\ \E fetched \in Files :
          LET fetches == ~csv_file.there /\ item.source = "csv" /\ item.loader = "bt" /\ item.tushare /\ ~fetched.ticks
              file == IF fetches THEN fetched ELSE csv_file
              outcomes == IF ~file.there THEN {LoadFailed}
                          ELSE IF fetches \/ item.source = "excel" THEN AsBars(file.rows, file.ticks)
                          ELSE Told(item, file.rows, file.ticks)
          IN  /\ csv_file' = file
              /\ \E told \in outcomes : job' = [Idle(item) EXCEPT !.at = told.at, !.bars = told.bars]
    /\ UNCHANGED <<session, tick_data>>

\* The engine takes the bars, or reports the error; the next item or the next run follows.
LoadEnds == /\ job.at \in {"done", "failed"} /\ JobGoes("idle")
            /\ UNCHANGED <<session, tick_data, csv_file, loads>>

LoadNext ==
    \/ \E item \in Items : BeginPostgres(item) \/ LoadFile(item)
    \/ StartTunnel \/ Connect \/ Query \/ QueryFails \/ FallBack
    \/ PostgresFails \/ ServerBarsArrive \/ RowsArrive \/ LoadEnds

LoadSpec == LoadInit /\ [][LoadNext]_loadVars

----------------------------------------------------------------------------
PeriodLen(item) == CASE item.timeframe = "minutes" -> item.compression * MinuteLen
                     [] item.timeframe = "hours" -> item.compression * HourLen
                     [] item.timeframe = "days" -> DayLen
                     [] OTHER -> MinuteLen
EvenPeriod(item) == \/ item.timeframe = "minutes" /\ (HourLen \div MinuteLen) % item.compression = 0
                    \/ item.timeframe = "hours" /\ (DayLen \div HourLen) % item.compression = 0
                    \/ item.timeframe = "days" /\ item.compression = 1
                    \/ item.timeframe = "tick"

\* The bars tell the rows that count, each those of its period: it opens with a price of the period's
\* first time and closes with one of its last.  A period is left out only if such a price is missing.
Tell(bars, rows, counted, len) ==
    LET Of(b) == {i \in counted : b <= rows[i].time /\ rows[i].time < b + len} IN
    /\ \A b \in DOMAIN bars :
          /\ b % len = 0 /\ Of(b) # {}
          /\ bars[b].open \in {rows[i].price : i \in Earliest(rows, Of(b))} \ {0}
          /\ bars[b].close \in {rows[i].price : i \in Latest(rows, Of(b))} \ {0}
          /\ bars[b].high = Max(PricesIn(rows, Of(b)))
          /\ bars[b].low = Min(PricesIn(rows, Of(b)))
          /\ bars[b].ticks = Cardinality(Of(b))
    /\ \A b \in {Floor(rows[i].time, len) : i \in counted} :
          b \in DOMAIN bars \/ \E i \in Earliest(rows, Of(b)) \cup Latest(rows, Of(b)) : rows[i].price = 0

(* Where a load of ticks gets its bars - from the database, from the program after the database     *)
(* failed or was slow, from a csv file in any order - they tell the same ticks: each bar covers one *)
(* period from its time on, with the highest and the lowest price in it, opens with a price of its  *)
(* first time and closes with one of its last, and counts each of its ticks once.  Two things may   *)
(* differ: which of several ticks of one time is the first, and what is made of ticks without a     *)
(* price - the program drops them, the database counts them and has no bar of a period that begins  *)
(* or ends with one.  (Periods that divide the hour or the day; see the README for others.)         *)
BarsAreTheTicks ==
    LET item == job.item
        rows == IF item.source = "csv" THEN csv_file.rows ELSE Selected(item, tick_data)
        are_ticks == (item.source = "csv" /\ csv_file.ticks) \/ (item.source = "postgres" /\ item.table # "bars")
    IN  (job.at = "done" /\ are_ticks /\ EvenPeriod(item)) =>
            Tell(job.bars, rows, IF job.attempt = "server" THEN DOMAIN rows ELSE Priced(rows), PeriodLen(item))

(* However a load ends, after whichever attempt failed, no connection and no tunnel is left open, *)
(* and the second attempt does not begin with what the first had open.                            *)
NothingLeftOpen == job.at \in {"idle", "tunnel", "done", "failed"} => session = {}

(* "Aggregation in the database failed, falling back to local aggregation": a load of ticks whose *)
(* rows arrive after that ends with bars.  (The loader of the simple engine does not.)            *)
FallbackAggregates ==
    (job.at = "failed" /\ job.fallback) => job.rows = <<>>
=============================================================================
