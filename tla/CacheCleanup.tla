---------------------------- MODULE CacheCleanup ----------------------------
(***************************************************************************)
(* data/cache_cleanup.py: what a backtest deletes from the cache directory *)
(* before it loads its data.  `now' is a counter of days.                  *)
(***************************************************************************)
EXTENDS Integers, SequencesExt

CONSTANTS
    CacheFiles,     \* the csv files the cache directory can hold
    Listing,        \* the order in which rglob yields them
    Sizes,          \* sizes a file can have
    Configs,        \* [enabled, max_age, max_total, keep_current, dry_run, referenced]
    MaxDays         \* bound: days

\* Files are finitely many and no two are at one place of the listing; sizes and limits are numbers.
CleanupAssumption ==
    /\ IsFiniteSet(CacheFiles) /\ Listing \in [CacheFiles -> Nat] /\ Sizes \subseteq Nat /\ MaxDays \in Nat
    /\ \A f, g \in CacheFiles : Listing[f] = Listing[g] => f = g
    /\ \A c \in Configs : c.max_total \in Nat /\ c.max_age \in Nat
ASSUME CleanupIsTyped == CleanupAssumption

VARIABLES
    dir,            \* the files there are: [size, mtime]
    now,
    summary         \* the cleanup that just ended (empty otherwise): its configuration, the directory
                    \* before it, the files it could not delete, and the counts it reports

clVars == <<dir, now, summary>>

NoFiles == [f \in {} |-> 0]
NoSummary == NoFiles
SizeOf(d, files) == FoldSet(LAMBDA f, total : total + d[f].size, 0, files)
WithoutFiles(files) == [f \in DOMAIN dir \ files |-> dir[f]]

ClInit ==
    /\ dir = NoFiles
    /\ now = 0
    /\ summary = NoSummary

----------------------------------------------------------------------------
(* Files the configuration of this backtest refers to, under keep_current. *)
Pinned(c) == IF c.keep_current THEN c.referenced \cap DOMAIN dir ELSE {}

Expired(c) == {f \in DOMAIN dir \ Pinned(c) : now - dir[f].mtime > c.max_age}

(* The oldest first, in the order of the listing among files of the same day. *)
Older(d, f, g) == \/ d[f].mtime < d[g].mtime
                  \/ d[f].mtime = d[g].mtime /\ Listing[f] < Listing[g]
OldestFirst(d, files) ==
    CHOOSE order \in [1 .. Cardinality(files) -> files] :
        /\ ToSet(order) = files
        /\ \A i, j \in DOMAIN order : i < j => Older(d, order[i], order[j])

(* The second pass walks through them until the total is within the cap; a file that cannot be *)
(* deleted still counts.                                                                       *)
OverCap(c, total, candidates, stuck) ==
    FoldLeft(LAMBDA acc, f :
                IF acc.total <= c.max_total THEN acc
                ELSE IF f \in stuck /\ ~c.dry_run THEN [acc EXCEPT !.tried = @ + 1]
                ELSE [total |-> acc.total - dir[f].size, gone |-> acc.gone \cup {f}, tried |-> acc.tried + 1],
             [total |-> total, gone |-> {}, tried |-> 0], candidates)

\* A mutated form takes the total without the files in use.
CountedUnpinned(kept) == SizeOf(dir, {f \in kept : \A c \in Configs : f \notin Pinned(c)})
Counted(kept) == SizeOf(dir, kept)

(* cleanup_cache; `stuck' are the files whose deletion fails (open elsewhere, no permission). *)
Cleanup(c) ==
    \E stuck \in SUBSET DOMAIN dir :
        LET expired == Expired(c)
            kept == DOMAIN dir \ expired
            second == OverCap(c, Counted(kept), OldestFirst(dir, kept \ Pinned(c)), stuck)
            gone == IF c.dry_run THEN {} ELSE (expired \ stuck) \cup second.gone
        IN  /\ c.enabled
            /\ dir' = WithoutFiles(gone)
            /\ summary' = [config |-> c, before |-> dir, stuck |-> stuck, deleted |-> Cardinality(expired) + second.tried,
                           bytes_freed |-> SizeOf(dir, gone)]
            /\ UNCHANGED now

(* A load writes its cache file; a day passes. *)
Saved(f, size) ==
    /\ dir' = [g \in DOMAIN dir \cup {f} |-> IF g = f THEN [size |-> size, mtime |-> now] ELSE dir[g]]
    /\ summary' = NoSummary /\ UNCHANGED now

NextDay == now < MaxDays /\ now' = now + 1 /\ summary' = NoSummary /\ UNCHANGED dir

ClNext ==
    \/ \E c \in Configs : Cleanup(c)
    \/ \E f \in CacheFiles, size \in Sizes : Saved(f, size)
    \/ NextDay

ClSpec == ClInit /\ [][ClNext]_clVars

----------------------------------------------------------------------------
(* A cleanup leaves the files its configuration refers to; it leaves no more than the cap unless *)
(* every file left is one of those or could not be deleted (an expired file that could not be    *)
(* deleted does not count); of the files within their age it deletes none newer than one it      *)
(* spares.  A dry run deletes nothing, and no file is reported twice.                            *)
CleanupTakesTheOldest ==
    summary # NoSummary =>
        LET c == summary.config
            before == summary.before
            pinned == IF c.keep_current THEN c.referenced ELSE {}
            gone == DOMAIN before \ DOMAIN dir
            young == {f \in DOMAIN before \ pinned : now - before[f].mtime <= c.max_age}
        IN  /\ gone \cap pinned = {}
            /\ c.dry_run => gone = {}
            /\ ~c.dry_run => \/ SizeOf(dir, DOMAIN dir \cap (young \cup pinned)) <= c.max_total
                             \/ DOMAIN dir \subseteq pinned \cup summary.stuck
            /\ \A f \in gone \cap young, g \in young \cap DOMAIN dir :
                   before[g].mtime < before[f].mtime => g \in summary.stuck
            /\ ~c.dry_run => summary.deleted <= Cardinality(gone \cup summary.stuck)

=============================================================================
