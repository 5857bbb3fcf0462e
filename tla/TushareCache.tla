---------------------------- MODULE TushareCache ----------------------------
(***************************************************************************)
(* One cached series of data/tushare_loader.py and the loads that use it.  *)
(* A load belongs to a backtest; several can go on at once, in the threads *)
(* of one desktop application or in several processes, and nothing locks   *)
(* the file.  A table of rows is the set of its bars' times, in 1..LastBar. *)
(***************************************************************************)
EXTENDS FiniteSetsExt, Integers

CONSTANTS
    Loads,          \* the loads, each started once
    Requests,       \* [start, end, intraday, refresh, use_cache, incremental]
    LastBar,        \* bound: the last bar the source publishes
    ChunkBars,      \* chunk_days in bars
    OverlapBars,    \* overlap_days in bars
    MaxRetries      \* max_retries

ASSUME BoundsAssumption ==
    /\ LastBar \in Nat \ {0} /\ ChunkBars \in Nat \ {0}
    /\ OverlapBars \in Nat /\ MaxRetries \in Nat
    /\ \A r \in Requests : r.start \in Int /\ r.end \in Int

VARIABLES
    source,     \* the rows Tushare has
    file,       \* the cache file: whether it exists, and its rows
    load        \* each load: its position in fetch_tushare_ohlcv and its locals

tcVars == <<source, file, load>>

Times == 1 .. LastBar

Positions == {"new", "found", "fetching", "writing", "done", "failed"}

\* Where a load that has not begun stands; `cached' are the rows it read from the cache, `has_cache'
\* says that it read some, `published' is what the source had when the load began.
NotBegun(r) ==
    [at |-> "new", request |-> r, has_cache |-> FALSE, cached |-> {}, cur |-> r.start,
     parts |-> {}, retry_idx |-> 0, saved |-> {}, served |-> {}, published |-> {}]

TcInit ==
    /\ source \in SUBSET (1 .. LastBar - 1)
    /\ file = [exists |-> FALSE, rows |-> {}]
    /\ load \in [Loads -> {NotBegun(r) : r \in Requests}]

Fails(l) == load' = [load EXCEPT ![l].at = "failed"]

Clip(rows, r) == rows \cap (r.start .. r.end)
IncrementalStart(rows, r) == Max({Max(rows) - OverlapBars, r.start})

----------------------------------------------------------------------------
(* Without a file, with refresh or without use_cache everything is fetched. *)
Begin(l) ==
    /\ load[l].at = "new"
    /\ LET cached == file.exists /\ ~load[l].request.refresh /\ load[l].request.use_cache IN
       load' = [load EXCEPT ![l].at = IF cached THEN "found" ELSE "fetching", ![l].published = source]
    /\ UNCHANGED <<source, file>>

Readable == file.exists /\ file.rows # {}

(* The file may have gone since, and a file without rows is an error.  A minute series whose *)
(* increment would begin after the window's end is an error as well.                         *)
ReadCache(l) ==
    LET r == load[l].request
        inc_start == IncrementalStart(file.rows, r)
        backwards == r.intraday /\ inc_start > r.end
    IN  /\ load[l].at = "found"
        /\ \/ /\ Readable /\ ~r.incremental
              /\ load' = [load EXCEPT ![l].at = "done", ![l].has_cache = TRUE, ![l].cached = file.rows, ![l].served = Clip(file.rows, r)]
           \/ /\ Readable /\ r.incremental /\ ~backwards
              /\ load' = [load EXCEPT ![l].at = "fetching", ![l].has_cache = TRUE, ![l].cached = file.rows, ![l].cur = inc_start]
           \/ /\ (Readable => r.incremental /\ backwards)
              /\ Fails(l)
        /\ UNCHANGED <<source, file>>

----------------------------------------------------------------------------
(* pro_bar in chunks for minutes, one call otherwise.  Only a rate limit is retried, and only *)
(* between the chunks of a minute series.                                                     *)
ChunkEnd(l) ==
    IF load[l].request.intraday THEN Min({load[l].cur + ChunkBars - 1, load[l].request.end}) ELSE load[l].request.end

\* A mutated form begins the next chunk one bar late.
NextChunkLate(last) == last + 2
NextChunk(last) == last + 1

FetchChunk(l) ==
    LET nxt == ChunkEnd(l)
        part == source \cap (load[l].cur .. nxt)
    IN  /\ load[l].at = "fetching" /\ load[l].cur <= load[l].request.end
        /\ load' = [load EXCEPT ![l].cur = NextChunk(nxt), ![l].retry_idx = 0, ![l].parts = @ \cup part]
        /\ UNCHANGED <<source, file>>

RateLimited(l) ==
    /\ load[l].at = "fetching" /\ load[l].cur <= load[l].request.end
    /\ IF load[l].request.intraday /\ load[l].retry_idx < MaxRetries
       THEN load' = [load EXCEPT ![l].retry_idx = @ + 1]
       ELSE Fails(l)
    /\ UNCHANGED <<source, file>>

CallFails(l) ==
    /\ load[l].at = "fetching" /\ load[l].cur <= load[l].request.end
    /\ Fails(l)
    /\ UNCHANGED <<source, file>>

Saves(l, rows) ==
    load' = [load EXCEPT ![l].at = "writing", ![l].saved = rows, ![l].served = Clip(rows, load[l].request)]

(* Nothing new: the cache is served as it is.  Otherwise the merged rows, which reach beyond *)
(* the window, are saved.                                                                    *)
EndIncrement(l) ==
    /\ load[l].at = "fetching" /\ load[l].cur > load[l].request.end /\ load[l].has_cache
    /\ IF load[l].parts = {}
       THEN load' = [load EXCEPT ![l].at = "done", ![l].served = Clip(load[l].cached, load[l].request)]
            /\ UNCHANGED file
       ELSE Saves(l, load[l].cached \cup load[l].parts) /\ file' = [exists |-> TRUE, rows |-> {}]
    /\ UNCHANGED source

(* A full fetch that yields nothing is an error; otherwise the window replaces the file. *)
EndFullFetch(l) ==
    LET rows == Clip(load[l].parts, load[l].request) IN
    /\ load[l].at = "fetching" /\ load[l].cur > load[l].request.end /\ ~load[l].has_cache
    /\ \/ /\ load[l].parts = {} /\ Fails(l) /\ UNCHANGED file
       \/ /\ load[l].parts # {} /\ load[l].request.use_cache
          /\ Saves(l, rows) /\ file' = [exists |-> TRUE, rows |-> {}]
       \/ /\ load[l].parts # {} /\ ~load[l].request.use_cache
          /\ load' = [load EXCEPT ![l].at = "done", ![l].served = rows]
          /\ UNCHANGED file
    /\ UNCHANGED source

(* to_csv opened the file, which emptied it, and now writes the rows in order of time.  A file *)
(* that was deleted in between is written without a name.                                      *)
Write(l) ==
    /\ load[l].at = "writing"
    /\ load' = [load EXCEPT ![l].at = "done"]
    /\ file' = IF file.exists THEN [file EXCEPT !.rows = load[l].saved] ELSE file
    /\ UNCHANGED source

(* The process ends while it writes: the rows up to some time are in the file. *)
CrashWriting(l) ==
    /\ load[l].at = "writing"
    /\ Fails(l)
    /\ \E t \in 0 .. LastBar :
          file' = IF file.exists THEN [file EXCEPT !.rows = load[l].saved \cap (1 .. t)] ELSE file
    /\ UNCHANGED source

----------------------------------------------------------------------------
(* The source publishes a bar; the cleanup of another run deletes the file. *)
Publish == \E t \in Times :
    /\ \A u \in source : u < t
    /\ source' = source \cup {t}
    /\ UNCHANGED <<file, load>>

CleanedUp ==
    /\ file.exists
    /\ file' = [exists |-> FALSE, rows |-> {}]
    /\ UNCHANGED <<source, load>>

LoadStep(l) ==
    \/ Begin(l) \/ ReadCache(l) \/ FetchChunk(l) \/ RateLimited(l) \/ CallFails(l)
    \/ EndIncrement(l) \/ EndFullFetch(l) \/ Write(l) \/ CrashWriting(l)

TcNext == Publish \/ CleanedUp \/ \E l \in Loads : LoadStep(l)

TcSpec == TcInit /\ [][TcNext]_tcVars

----------------------------------------------------------------------------
TcTypeOK ==
    /\ source \subseteq Times
    /\ file \in [exists : BOOLEAN, rows : SUBSET Times]
    /\ \A l \in Loads : load[l].at \in Positions /\ load[l].cached \subseteq Times /\ load[l].served \subseteq Times
                        /\ load[l].retry_idx \in 0 .. MaxRetries /\ load[l].request \in Requests

(* An increment never saves less than the cache it began from, however narrow its window (a full *)
(* fetch may).  A load that succeeds returns rows of its window only, and through chunks, retries *)
(* and the merge it loses no bar of the window that the source had published when it began: what  *)
(* can be missing lies inside the series the cache already held, or after it when the load was    *)
(* told to use the cache alone.                                                                   *)
LoadIsComplete ==
    \A l \in Loads :
        LET r == load[l].request
            missing == (load[l].published \cap (r.start .. r.end)) \ load[l].served
        IN  /\ load[l].at = "writing" /\ load[l].has_cache => load[l].cached \subseteq load[l].saved
            /\ load[l].at = "done" =>
                /\ load[l].served \subseteq r.start .. r.end
                /\ ~load[l].has_cache => missing = {}
                /\ load[l].has_cache /\ r.incremental => \A t \in missing : t < Max(load[l].cached)
=============================================================================
