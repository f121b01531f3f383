--------------------------- MODULE AnalysisResults ---------------------------
(***************************************************************************)
(* The asynchronous analyses of the analysis service                       *)
(* (apps/analysis-service/src/analysis_service/api/analysis.py): the       *)
(* ordered dictionary _ANALYSIS_RESULTS of one process, bounded in size    *)
(* and in age, and the background tasks that complete its records.         *)
(*                                                                         *)
(* A handler runs to its end on the event loop; a task gives way only in   *)
(* fetch_graph, at every attempt (TopologyClient), and so do the requests  *)
(* that wait for the graph themselves: POST /analysis/impact and           *)
(* /simulation/run, and the readiness check.  updated_at is set when a     *)
(* record is stored and read only against the time to live: old holds the  *)
(* analyses whose last store is further back than that, and the dictionary *)
(* is in the order of the stores.                                          *)
(***************************************************************************)
EXTENDS TopologyClient, Lists, FiniteSets

CONSTANTS Analysis,          \* analysis ids (uuid4)
          Direct,            \* requests that wait for the graph themselves
          MaxAsyncResults    \* MAX_ASYNC_RESULTS

ASSUME CallAssumption == Call = Analysis \cup Direct /\ Analysis \cap Direct = {}

ASSUME MaxAsyncResultsAssumption == MaxAsyncResults \in Nat \ {0}

VARIABLES results,   \* _ANALYSIS_RESULTS: the records in order, key and status
          task,      \* of each analysis: new, running, complete or failed, or
                     \* lost with the process it ran in
          old,       \* analyses last stored more than RESULT_TTL_SECONDS ago
          since      \* history: the analyses stored since the last store of each

records == <<results, task, old, since>>

vars == <<client, records>>

Init ==
  /\ client = NoFetches
  /\ results = << >>
  /\ task = [k \in Analysis |-> "new"]
  /\ old = {}
  /\ since = [k \in Analysis |-> {}]

Record(k, status) == [key |-> k, status |-> status]

Records == [key : Analysis, status : {"pending", "complete"}]

Others(list, k) == Keep(list, {record \in Records : record.key # k})

\* _cleanup_expired_results: a poll spares its own analysis.
Cleaned(list, spared) ==
  Keep(list, {record \in Records : record.key \in old => record.key \in spared})

\* Mutant: the dictionary keeps a key at the place of its first store.
StoredInPlace(list, k, status) ==
  IF \E i \in DOMAIN list : list[i].key = k
  THEN [i \in DOMAIN list |-> IF list[i].key = k THEN Record(k, status) ELSE list[i]]
  ELSE LET longer == Append(list, Record(k, status))
       IN  IF Len(longer) > MaxAsyncResults THEN Tail(longer) ELSE longer

\* Mutant: the size is checked before the record is added.
StoredAfterCheck(list, k, status) ==
  LET rest == Others(list, k)
  IN  Append(IF Len(rest) > MaxAsyncResults THEN Tail(rest) ELSE rest, Record(k, status))

\* _store_record: the key moves to the end, and the oldest ones are dropped.
Stored(list, k, status) ==
  LET longer == Append(Others(list, k), Record(k, status))
  IN  IF Len(longer) > MaxAsyncResults THEN Tail(longer) ELSE longer

Store(list, k, status) ==
  /\ results' = Stored(list, k, status)
  /\ old' = old \ {k}
  /\ since' = [j \in Analysis |-> IF j = k THEN {} ELSE since[j] \cup {k}]

------------------------------------------------------------------------------
\* run_impact_analysis_async; the answer is 'queued'.
RunImpactAnalysisAsync(k) ==
  /\ task[k] = "new"
  /\ FetchGraph(k)
  /\ Store(Cleaned(results, {}), k, "pending")
  /\ task' = [task EXCEPT ![k] = "running"]

\* _run_analysis after fetch_graph: the record is stored again, whether the
\* pending one is still there or not.
RunAnalysis(k) ==
  /\ FetchGraphEnds(k)
  /\ Store(results, k, "complete")
  /\ task' = [task EXCEPT ![k] = "complete"]

\* fetch_graph raises, or analyze does with the graph it has got (the service
\* is not in it): nobody catches it in the task.
RunAnalysisRaises(k) ==
  /\ FetchGraphEnds(k)
  /\ task' = [task EXCEPT ![k] = "failed"]
  /\ UNCHANGED <<results, old, since>>

\* run_impact_analysis, run_simulation and readiness leave no record: what
\* fetch_graph returns or raises is their answer.
RunDirectly(d) ==
  /\ FetchGraph(d) \/ FetchGraphEnds(d)
  /\ UNCHANGED records

Retry(k) == Retries(k) /\ UNCHANGED records

Found(k) == {results[i] : i \in DOMAIN results} \cap {Record(k, s) : s \in {"pending", "complete"}}

\* What get_async_result answers.
PollAnswer(k) ==
  CASE Found(k) = {} -> "pending"
    [] Found(k) # {} /\ k \in old -> "404"
    [] Found(k) = {Record(k, "complete")} /\ k \notin old -> "complete"
    [] OTHER -> "pending"

\* get_async_result: the records that are too old go, its own one included.
GetAsyncResult(k) ==
  /\ task[k] # "new"
  /\ results' = IF PollAnswer(k) = "404" THEN Others(Cleaned(results, {k}), k)
                ELSE Cleaned(results, {k})
  /\ UNCHANGED <<client, task, old, since>>

------------------------------------------------------------------------------
\* Stored by this process.
Live(k) == task[k] \notin {"new", "lost"}

\* Time passes: of the analyses that were stored, the one stored longest ago
\* passes the time to live.
Age(k) ==
  /\ Live(k) /\ k \notin old
  /\ \A j \in Analysis \ (old \cup {k}) : Live(j) => j \in since[k]
  /\ old' = old \cup {k}
  /\ UNCHANGED <<client, results, task, since>>

\* The process is replaced: results, tasks and requests are gone, the ids are not.
Restart ==
  /\ client' = NoFetches
  /\ results' = << >>
  /\ task' = [k \in Analysis |-> IF task[k] = "new" THEN "new" ELSE "lost"]
  /\ old' = {}
  /\ since' = [k \in Analysis |-> {}]

Next ==
  \/ \E k \in Analysis :
       \/ RunImpactAnalysisAsync(k) \/ RunAnalysis(k) \/ RunAnalysisRaises(k)
       \/ GetAsyncResult(k) \/ Age(k)
  \/ \E d \in Direct : RunDirectly(d)
  \/ \E k \in Call : Retry(k)
  \/ Restart

\* httpx gives an attempt topology_timeout_seconds, the pause before the next
\* one is bounded by topology_backoff_max, and what awaits it runs on.
FetchGoesOn(k) ==
  \/ Retry(k)
  \/ k \in Analysis /\ (RunAnalysis(k) \/ RunAnalysisRaises(k))
  \/ k \in Direct /\ FetchGraphEnds(k) /\ UNCHANGED records

Spec == Init /\ [][Next]_vars /\ \A k \in Call : WF_vars(FetchGoesOn(k))

------------------------------------------------------------------------------
\* Properties

TypeOK ==
  /\ client \in [Call -> [stage : {"idle", "sent", "paused"}, attempt : 0 .. MaxRetries]]
  /\ \A k \in Analysis : task[k] = "running" <=> client[k] # Idle
  /\ results \in Seq(Records)
  /\ Len(results) <= MaxAsyncResults
  /\ \A i, j \in DOMAIN results : results[i].key = results[j].key => i = j
  /\ task \in [Analysis -> {"new", "running", "complete", "failed", "lost"}]
  /\ old \subseteq Analysis
  /\ since \in [Analysis -> SUBSET Analysis]

\* "Async results are stored in-memory with bounded retention"
\* (docs/api-guide.md:41): what a client may rely on.  A completed analysis is
\* answered as long as it is younger than the time to live and fewer than
\* MaxAsyncResults others were stored after it, however the tasks overtake each
\* other and other polls clean up, until the process is replaced.
RecentResultIsKept ==
  \A k \in Analysis :
    task[k] = "complete" /\ k \notin old /\ Cardinality(since[k]) < MaxAsyncResults
      => Record(k, "complete") \in Found(k)

\* "`POST /analysis/impact/async` — queued analysis" (docs/api-guide.md:34): a queued analysis
\* ends, and so does every request that waits for the graph, however the
\* topology service fails: the retries stop, and what they raise ends the call.
EveryFetchEnds == \A k \in Call : client[k] # Idle ~> client[k] = Idle

\* "Expired entries may return `404` and should be treated as no longer
\* available" (docs/api-guide.md:43): no client is told to wait for a result that
\* was there and has expired, whoever polls and whatever else is cleaned up.
ExpiredIsGone ==
  \A k \in Analysis : task[k] = "complete" /\ k \in old => PollAnswer(k) # "pending"

==============================================================================
