------------------------------ MODULE PriceSync ------------------------------
(***************************************************************************)
(* The price cache and the jobs that fill it: one file of daily prices per *)
(* symbol, written beside the target and swapped in, and jobs that extend,  *)
(* refresh or first download it, symbol after symbol, from a list of        *)
(* providers.  Jobs take no lock on a symbol: each loads the file, asks for *)
(* what is before and after it and stores the merged series.  The name a    *)
(* series is written under is one for all jobs of a process.                *)
(*                                                                          *)
(* A price is reduced to its level, whether it is quoted before or after   *)
(* the symbol's split: that is what "raw" and "split adjusted" series      *)
(* differ in and what the merge has to tell apart.                         *)
(***************************************************************************)
EXTENDS Naturals, FiniteSets, Sequences, SequencesExt

CONSTANTS
    Symbols,
    LastDay,        \* bound: days
    FirstDay,       \* the day the process starts
    ListDay,        \* the first day of each symbol
    SplitDay,       \* the day each symbol splits
    Providers,      \* in the order they are asked
    Adjusting,      \* providers whose prices are adjusted for every past split
    Metered,        \* providers with an allowance
    MaxAttempts,    \* requests one download is worth
    UniverseIds,    \* universe names
    Definitions,    \* what a universe may be, by fingerprint
    Members,        \* the memberships of each
    Starts, Ends,   \* bound: dates requests name; 0 is "today"
    EdgeTolerance,  \* days a history may start late or end early
    Jobs,           \* bound: background jobs
    Absent,         \* no file
    Broken          \* a file that is no series: half written, or by two at once

Days == 1 .. LastDay
Level == {"before", "after"}
(* days: the level of each day a file holds; by: the provider of them all.   *)
Frame == [days : UNION {[S -> Level] : S \in SUBSET Days}, by : Range(Providers)]
Membership == [symbol : Symbols, entry : Days, exit : Days \cup {0}]

ASSUME PriceAssumption ==
    /\ LastDay \in Nat \ {0} /\ FirstDay \in Days /\ EdgeTolerance \in Nat
    /\ MaxAttempts \in Nat \ {0}
    /\ ListDay \in [Symbols -> Days] /\ SplitDay \in [Symbols -> Nat]
    /\ Providers \in Seq(Range(Providers)) /\ Providers # <<>>
    /\ Adjusting \subseteq Range(Providers) /\ Metered \subseteq Range(Providers)
    /\ IsFiniteSet(Symbols)
    /\ Starts \subseteq Days /\ Ends \subseteq Days \cup {0}
    /\ \A d \in Definitions : Members[d] \subseteq Membership /\ Members[d] # {}
    /\ "none" \notin Definitions \cup UniverseIds
    /\ Broken \notin Frame \cup {Absent}

VARIABLES
    today,
    cache,      \* each symbol's file
    temp,       \* the file a process writes a symbol's series to, by owner
    job,        \* each background job
    clashed     \* history: symbols two jobs of one process stored at once

files == <<cache, temp, clashed>>
priceVars == <<today, files, job>>

NoJob == [status |-> "absent", kind |-> "sync", mode |-> "incremental", from |-> 0, to |-> 0,
          pin |-> <<"none", "none">>, left |-> <<>>, stop |-> FALSE, step |-> "next",
          had |-> Absent, ranges |-> <<>>, got |-> <<>>, file |-> "none", mixed |-> FALSE,
          reason |-> "none"]

(* The server process, or the process of a script.                           *)
Owners == {0} \cup Jobs
Owner(j) == IF job[j].kind = "script" THEN j ELSE 0

IsSeqOf(s, S) == Range(s) \subseteq S

PricesTypeOK ==
    /\ today \in Days
    /\ \A s \in Symbols : cache[s] \in {Absent, Broken} \/ cache[s] \in Frame
    /\ \A o \in Owners, s \in Symbols :
          temp[<<o, s>>] \in {Absent, Broken} \/ temp[<<o, s>>] \in Frame
    /\ clashed \subseteq Symbols
    /\ \A j \in Jobs :
        /\ job[j].status \in {"absent", "asked", "queued", "running", "over"}
        /\ job[j].kind \in {"sync", "fill", "script", "signal"}
        /\ job[j].mode \in {"incremental", "refresh", "missing"}
        /\ job[j].step \in {"next", "load", "fetch", "store", "write", "replace", "undo"}
        /\ job[j].file \in {"none", "temp", "target", "gone"} /\ job[j].mixed \in BOOLEAN
        /\ job[j].pin \in (UniverseIds \cup {"none"}) \X (Definitions \cup {"none"})
        /\ IsSeqOf(job[j].left, Symbols) /\ IsSeqOf(job[j].got, Frame)
        /\ job[j].had = Absent \/ job[j].had \in Frame
        /\ job[j].stop \in BOOLEAN
        /\ job[j].reason \in {"none", "completed", "user_stopped", "quota_exceeded"}

PricesInit ==
    /\ today = FirstDay
    /\ cache = [s \in Symbols |-> Absent]
    /\ temp = [x \in Owners \X Symbols |-> Absent]
    /\ clashed = {}
    /\ job = [j \in Jobs |-> NoJob]

-----------------------------------------------------------------------------
(* Series of prices.                                                         *)

Held(frame) == DOMAIN frame.days
FirstOf(frame) == Min(Held(frame))
LastOf(frame) == Max(Held(frame))
Basis(provider) == IF provider \in Adjusting THEN "split_adjusted" ELSE "raw"

(* infer_price_basis: a jump of the price at a recorded split tells a raw    *)
(* series; no jump an adjusted one; without the split nothing is known.      *)
InferredBasis(s, frame) ==
    LET earlier == {d \in Held(frame) : d < SplitDay[s]} IN
    IF SplitDay[s] \notin Held(frame) \/ earlier = {} THEN "unknown"
    ELSE IF frame.days[Max(earlier)] # frame.days[SplitDay[s]] THEN "raw"
    ELSE "split_adjusted"

(* merge_price_frames: later pieces win, pieces of two providers or of two   *)
(* bases and a series that contradicts its basis are refused.                *)
Joined(pieces) ==
    LET held == UNION {Held(pieces[i]) : i \in DOMAIN pieces} IN
    [days |-> [d \in held |->
                pieces[Max({i \in DOMAIN pieces : d \in Held(pieces[i])})].days[d]],
     by |-> pieces[1].by]

Mergeable_AnyBasis(s, pieces) ==
    \A i \in DOMAIN pieces : pieces[i].by = pieces[1].by

Mergeable(s, pieces) ==
    /\ \A i \in DOMAIN pieces : pieces[i].by = pieces[1].by
    /\ InferredBasis(s, Joined(pieces)) \in {"unknown", Basis(pieces[1].by)}

-----------------------------------------------------------------------------
(* Providers.                                                                *)

(* with_retry around one download: bursts over the limit and lost            *)
(* connections are tried again, anything else is final.                      *)
Answers == {"rows", "transient", "quota", "error"}
DownloadResult(answers) ==
    LET final == {i \in DOMAIN answers : answers[i] # "transient"} IN
    IF final = {} THEN "error" ELSE answers[Min(final)]

Results(provider) ==
    {DownloadResult(answers) :
        answers \in [1 .. MaxAttempts ->
                        IF provider \in Metered THEN Answers ELSE {"rows", "error"}]}

Rows_ByFallback(provider, s, from, to, lag) ==
    [days |-> [d \in {x \in from .. today - lag : x >= ListDay[s]} |-> "after"],
     by |-> "fallback"]

(* What a provider holds of a range at a moment: it may lag a day; one that  *)
(* adjusts quotes all days at today's level, and leaves a stated end out.    *)
Rows(provider, s, from, to, lag) ==
    LET upto == IF to = 0 THEN today - lag
                ELSE Min({today - lag, IF provider \in Adjusting THEN to - 1 ELSE to})
        level(d) == IF (IF provider \in Adjusting THEN today ELSE d) >= SplitDay[s]
                    THEN "after" ELSE "before"
    IN  [days |-> [d \in {x \in from .. upto : x >= ListDay[s]} |-> level(d)], by |-> provider]

(* FallbackProvider: a provider that fails is passed over, one whose         *)
(* allowance is used up ends the search.                                     *)
Asked(result) == SelectInSeq(Providers, LAMBDA p : result[p] # "error")

-----------------------------------------------------------------------------
(* Coverage of a universe by the cache.                                      *)

Membered(def, asOf) == {m.symbol : m \in {x \in Members[def] : x.entry <= asOf}}

Readable(s) == cache[s] \notin {Absent, Broken}

IsComplete(def, asOf, s) ==
    /\ Readable(s)
    /\ \A m \in {x \in Members[def] : x.symbol = s /\ x.entry <= asOf} :
        LET end == IF m.exit = 0 THEN asOf ELSE Min({asOf, m.exit - 1})
            seen == {d \in Held(cache[s]) : m.entry <= d /\ d <= end}
        IN  \/ end < m.entry
            \/ /\ seen # {}
               /\ Min(seen) <= m.entry + EdgeTolerance
               /\ Max(seen) + EdgeTolerance >= end

Incomplete(def, asOf) == {s \in Membered(def, asOf) : ~IsComplete(def, asOf, s)}

(* plan_coverage_fill: a top-up leaves out what was never downloaded.        *)
FillPlan(def, asOf, scope) ==
    {s \in Incomplete(def, asOf) : scope = "full" \/ cache[s] # Absent}

RequiredStart(def, asOf) == Min({m.entry : m \in {x \in Members[def] : x.entry <= asOf}})

(* Symbols a request for a range of dates needs (members_overlapping).       *)
Overlapping(def, from, to) ==
    {m.symbol : m \in {x \in Members[def] :
        x.entry <= (IF to = 0 THEN today ELSE to) /\ (x.exit = 0 \/ x.exit > from)}}

-----------------------------------------------------------------------------
(* Requests.                                                                 *)

Unused(j) == job[j].status = "absent" /\ \A i \in 1 .. j - 1 : job[i].status # "absent"
Live(j) == job[j].status \in {"queued", "running"}

(* POST /data/sync: one that is asked for already, and not being stopped,    *)
(* is not started again; the check and the submission are under one lock.    *)
SubmitSync(j, name, def, mode, from, to) ==
    LET symbols == Overlapping(def, from, to)
        new == [NoJob EXCEPT !.status = "queued", !.kind = "sync", !.mode = mode,
                             !.from = from, !.to = to, !.pin = <<name, def>>,
                             !.left = SetToSeq(symbols)]
    IN  /\ symbols # {} /\ Unused(j)
        /\ to # 0 => from <= to
        /\ ~\E i \in Jobs : /\ Live(i) /\ ~job[i].stop /\ job[i].kind = "sync"
                            /\ [x \in {"mode", "from", "to", "pin"} |-> job[i][x]]
                               = [x \in {"mode", "from", "to", "pin"} |-> new[x]]
        /\ job' = [job EXCEPT ![j] = new]
        /\ UNCHANGED <<today, files>>

(* POST /universes/{name}/fill looks for a live fill first and submits after *)
(* that, with no lock around the two.                                        *)
AskFill(j, name, def, scope) ==
    LET symbols == FillPlan(def, today, scope) IN
    /\ symbols # {} /\ Unused(j)
    /\ ~\E i \in Jobs : Live(i) /\ job[i].kind = "fill" /\ job[i].pin[1] = name
    /\ job' = [job EXCEPT ![j] = [NoJob EXCEPT
                !.status = "asked", !.kind = "fill", !.mode = "incremental",
                !.from = RequiredStart(def, today), !.to = today, !.pin = <<name, def>>,
                !.left = SetToSeq(symbols)]]
    /\ UNCHANGED <<today, files>>

SubmitFill(j) ==
    /\ job[j].status = "asked"
    /\ job' = [job EXCEPT ![j].status = "queued"]
    /\ UNCHANGED <<today, files>>

(* scripts/download_universe.py: a process of its own that downloads what    *)
(* has no file and keeps what it gets, rows or none.                         *)
RunScript(j, def, from) ==
    /\ Unused(j)
    /\ job' = [job EXCEPT ![j] = [NoJob EXCEPT
                !.status = "queued", !.kind = "script", !.mode = "missing", !.from = from,
                !.to = today, !.left = SetToSeq({m.symbol : m \in Members[def]})]]
    /\ UNCHANGED <<today, files>>

StopSync(j) ==
    /\ Live(j) /\ ~job[j].stop /\ job[j].kind \in {"sync", "fill"}
    /\ job' = [job EXCEPT ![j].stop = TRUE]
    /\ UNCHANGED <<today, files>>

(* Files go; a job that is writing one goes on, and nothing comes of it.     *)
ClearPrices ==
    /\ cache' = [s \in Symbols |-> Absent]
    /\ temp' = [x \in Owners \X Symbols |-> Absent]
    /\ job' = [j \in Jobs |->
                IF job[j].file = "none" THEN job[j] ELSE [job[j] EXCEPT !.file = "gone"]]
    /\ UNCHANGED <<today, clashed>>

DayPasses ==
    /\ today < LastDay
    /\ today' = today + 1
    /\ UNCHANGED <<files, job>>

(* The process is killed: jobs live in memory, and the next process writes   *)
(* under another name.  A file stays as it is.                               *)
SyncLive == \E j \in Jobs : job[j].status \in {"asked", "queued", "running"}

RestartSync ==
    /\ job' = [j \in Jobs |->
                IF job[j].status \in {"asked", "queued", "running"}
                THEN [NoJob EXCEPT !.status = "over", !.kind = job[j].kind] ELSE job[j]]
    /\ temp' = [x \in Owners \X Symbols |-> Absent]
    /\ UNCHANGED <<today, cache, clashed>>

-----------------------------------------------------------------------------
(* The batch, _run_data_sync, and one symbol of it, _sync_one_symbol.        *)

Over(j, reason) ==
    job' = [job EXCEPT ![j] = [NoJob EXCEPT !.status = "over", !.kind = job[j].kind,
                                            !.reason = reason]]

(* The symbol is done, or failed and the batch goes on.                      *)
NextUp(j) ==
    [job[j] EXCEPT !.left = Tail(@), !.step = "next",
                   !.had = Absent, !.ranges = <<>>, !.got = <<>>]

Through(j) == job' = [job EXCEPT ![j] = NextUp(j)]

StartJob(j) ==
    /\ job[j].status = "queued"
    /\ job' = [job EXCEPT ![j].status = "running"]
    /\ UNCHANGED <<today, files>>

NextSymbol(j) ==
    /\ job[j].status = "running" /\ job[j].step = "next"
    /\ IF job[j].stop /\ job[j].left # <<>> THEN Over(j, "user_stopped")
       ELSE IF job[j].left = <<>> THEN Over(j, "completed")
       ELSE job' = [job EXCEPT ![j].step = "load"]
    /\ UNCHANGED <<today, files>>

(* What to ask for: everything, or what is before and what is after.         *)
FetchRanges_UpToTheEnd(mode, had, from, to) ==
    IF mode = "refresh" \/ had = Absent \/ (had # Absent /\ Held(had) = {})
    THEN <<<<from, to>>>>
    ELSE (IF FirstOf(had) > from THEN <<<<from, to>>>> ELSE <<>>)
         \o (IF LastOf(had) < (IF to = 0 THEN today ELSE to)
             THEN <<<<LastOf(had) + 1, to>>>> ELSE <<>>)

FetchRanges(mode, had, from, to) ==
    IF mode = "refresh" \/ had = Absent \/ (had # Absent /\ Held(had) = {})
    THEN <<<<from, to>>>>
    ELSE (IF FirstOf(had) > from THEN <<<<from, FirstOf(had)>>>> ELSE <<>>)
         \o (IF LastOf(had) < (IF to = 0 THEN today ELSE to)
             THEN <<<<LastOf(had) + 1, to>>>> ELSE <<>>)

(* A file that covers the request is skipped, and one that cannot be read    *)
(* fails, even if it is to be refreshed; the script skips any file.          *)
LoadSymbol(j) ==
    /\ job[j].step = "load"
    /\ LET had == cache[Head(job[j].left)]
           ranges == IF job[j].mode = "missing" /\ had # Absent THEN <<>>
                     ELSE FetchRanges(job[j].mode, had, job[j].from, job[j].to)
       IN  IF had = Broken \/ (had # Broken /\ ranges = <<>>) THEN Through(j)
           ELSE job' = [job EXCEPT ![j] = [job[j] EXCEPT
                    !.step = "fetch", !.ranges = ranges,
                    !.had = IF job[j].mode = "refresh" THEN Absent ELSE had]]
    /\ UNCHANGED <<today, files>>

(* One range.  Sync keeps frames with rows; the script keeps any.            *)
FetchRange(j) ==
    /\ job[j].step = "fetch"
    /\ \E result \in [Range(Providers) -> Answers], lag \in 0 .. 1 :
        /\ \A p \in Range(Providers) : result[p] \in Results(p)
        /\ lag < today
        /\ LET s == Head(job[j].left)
               i == Asked(result)
               range == Head(job[j].ranges)
           IN  IF i = 0 THEN lag = 0 /\ Through(j)
               ELSE IF result[Providers[i]] = "quota" THEN lag = 0 /\ Over(j, "quota_exceeded")
               ELSE LET frame == Rows(Providers[i], s, range[1], range[2], lag) IN
                    job' = [job EXCEPT ![j] = [job[j] EXCEPT
                        !.ranges = Tail(@),
                        !.step = IF Tail(job[j].ranges) = <<>> THEN "store" ELSE "fetch",
                        !.got = IF Held(frame) = {} /\ job[j].mode # "missing" THEN @
                                ELSE Append(@, frame)]]
    /\ UNCHANGED <<today, files>>

(* ParquetCache.store: the series is written to a temporary name and moved   *)
(* over the target.                                                          *)
At(j) == Head(job[j].left)
Pieces(j) == (IF job[j].had = Absent THEN <<>> ELSE <<job[j].had>>) \o job[j].got
Storing(j) == job[j].step \in {"write", "replace", "undo"}

(* The jobs under way with the temporary file that j uses, and of these      *)
(* those that have it open and have not seen it moved or removed.            *)
Sharing(j) ==
    {k \in Jobs \ {j} : Storing(k) /\ Owner(k) = Owner(j) /\ At(k) = At(j)}

Writing(j) == {k \in Sharing(j) : job[k].file = "temp"}

(* A faulty variant: the target itself is opened.                            *)
OpenTemporary_InPlace(j) ==
    /\ job[j].step = "store"
    /\ IF Pieces(j) = <<>> \/ ~Mergeable(At(j), Pieces(j)) THEN Through(j) /\ UNCHANGED cache
       ELSE /\ cache' = [cache EXCEPT ![At(j)] = Broken]
            /\ job' = [job EXCEPT ![j] = [job[j] EXCEPT !.step = "write", !.file = "target"]]
    /\ UNCHANGED <<today, temp, clashed>>

(* Nothing to store, pieces that do not fit, or the file is opened, which    *)
(* empties it if another job has just written it.                            *)
OpenTemporary(j) ==
    /\ job[j].step = "store"
    /\ IF Pieces(j) = <<>> \/ ~Mergeable(At(j), Pieces(j))
       THEN Through(j) /\ UNCHANGED <<temp, clashed>>
       ELSE /\ temp' = [temp EXCEPT ![<<Owner(j), At(j)>>] = Broken]
            /\ job' = [k \in Jobs |->
                    IF k = j THEN [job[k] EXCEPT !.step = "write", !.file = "temp",
                                                 !.mixed = Writing(j) # {}]
                    ELSE IF k \in Writing(j) THEN [job[k] EXCEPT !.mixed = TRUE] ELSE job[k]]
            /\ clashed' = IF Sharing(j) = {} THEN clashed ELSE clashed \cup {At(j)}
    /\ UNCHANGED <<today, cache>>

(* to_parquet returns or raises.  The file it wrote to is still under the    *)
(* temporary name, or another job has made it the target, or it has none.    *)
(* Two jobs that wrote at once leave the series of one of them or neither's. *)
Content(j) ==
    CASE job[j].file = "temp" -> temp[<<Owner(j), At(j)>>]
      [] job[j].file = "target" -> cache[At(j)]
      [] OTHER -> Broken

Left(j, whole) ==
    IF whole /\ ~job[j].mixed THEN {Joined(Pieces(j))}
    ELSE {Broken, Content(j)} \cup (IF whole THEN {Joined(Pieces(j))} ELSE {})

CloseTemporary(j) ==
    /\ job[j].step = "write"
    /\ \E whole \in BOOLEAN : \E left \in Left(j, whole) :
          /\ temp' = IF job[j].file = "temp"
                     THEN [temp EXCEPT ![<<Owner(j), At(j)>>] = left] ELSE temp
          /\ cache' = IF job[j].file = "target"
                      THEN [cache EXCEPT ![At(j)] = left] ELSE cache
          /\ job' = [job EXCEPT ![j] = [job[j] EXCEPT
                    !.step = IF whole THEN "replace" ELSE "undo",
                    !.file = "none", !.mixed = FALSE]]
    /\ UNCHANGED <<today, clashed>>

(* os.replace takes whatever has the temporary name by now.  Who has it open *)
(* writes to the target from now on; who wrote to the old target, to no file.*)
Replace(j) ==
    /\ job[j].step = "replace"
    /\ IF temp[<<Owner(j), At(j)>>] = Absent
       THEN /\ job' = [job EXCEPT ![j].step = "undo"]
            /\ UNCHANGED <<cache, temp>>
       ELSE /\ cache' = [cache EXCEPT ![At(j)] = temp[<<Owner(j), At(j)>>]]
            /\ temp' = [temp EXCEPT ![<<Owner(j), At(j)>>] = Absent]
            /\ job' = [k \in Jobs |->
                    IF k = j THEN NextUp(j)
                    ELSE IF k \in Writing(j) THEN [job[k] EXCEPT !.file = "target"]
                    ELSE IF job[k].file = "target" /\ At(k) = At(j)
                         THEN [job[k] EXCEPT !.file = "gone"] ELSE job[k]]
    /\ UNCHANGED <<today, clashed>>

(* After an error the temporary name is removed, whoever's file it is.       *)
Undo(j) ==
    /\ job[j].step = "undo"
    /\ temp' = [temp EXCEPT ![<<Owner(j), At(j)>>] = Absent]
    /\ job' = [k \in Jobs |->
            IF k = j THEN NextUp(j)
            ELSE IF k \in Writing(j) THEN [job[k] EXCEPT !.file = "gone"] ELSE job[k]]
    /\ UNCHANGED <<today, cache, clashed>>

StoreStep(j) == OpenTemporary(j) \/ CloseTemporary(j) \/ Replace(j) \/ Undo(j)

-----------------------------------------------------------------------------
(* A file that can be read is one unbroken series of one provider whose      *)
(* price at a recorded split is what its basis says: however jobs overlap,   *)
(* only the first and the last day of a file are looked at when it is        *)
(* extended, so a hole or a piece of another basis would never be noticed    *)
(* again.  And a file can be read, whenever the process was killed or a      *)
(* write failed (cache.py 103-105), unless two jobs of one process ever      *)
(* stored the symbol at once.                                                *)
HistoryIsOneSeries ==
    \A s \in Symbols :
        /\ Readable(s) =>
              /\ \A d \in Days :
                    (\E a, b \in Held(cache[s]) : a <= d /\ d <= b) => d \in Held(cache[s])
              /\ InferredBasis(s, cache[s]) \in {"unknown", Basis(cache[s].by)}
        /\ cache[s] = Broken => s \in clashed

(* "A process killed mid-write (a stopped sync, a closed terminal) must      *)
(* leave the previous file or no file, never a truncated Parquet that has()  *)
(* reports as cached and every later load fails to read" (cache.py 103-105): *)
(* when no job is at work no file is torn.                                   *)
NoTruncatedFile == SyncLive \/ \A s \in Symbols : cache[s] # Broken

(* cache.py on the merge: "Merge incremental provider frames without losing  *)
(* or mixing price semantics".  A split adjusted file then has no jump of    *)
(* its level anywhere.  The code looks for one at recorded splits only, and  *)
(* a provider that adjusts lowers, after a split, the days before it that it *)
(* is asked for then, and not those in the file.                             *)
AdjustedSeriesHaveOneLevel ==
    \A s \in {x \in Symbols : Readable(x)} :
        cache[s].by \in Adjusting => Cardinality(Range(cache[s].days)) <= 1
=============================================================================
