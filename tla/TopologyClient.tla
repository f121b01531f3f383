---------------------------- MODULE TopologyClient ----------------------------
(***************************************************************************)
(* TopologyClient of the analysis service                                  *)
(* (apps/analysis-service/src/analysis_service/core/http_client.py): the   *)
(* graph is fetched in up to topology_max_retries attempts, with a pause   *)
(* before each but the first.                                              *)
(*                                                                         *)
(* get_topology_client makes a client for every request, and closes it     *)
(* when the response, its background task included, is done.  The circuit  *)
(* breaker lives and goes with the client, which fetches once: it records  *)
(* one failure at most, when nothing asks it any more, and never refuses.  *)
(* So it is not part of the state.                                         *)
(***************************************************************************)
EXTENDS Naturals

CONSTANTS Call,         \* requests that need the graph
          MaxRetries    \* topology_max_retries

ASSUME RetryAssumption == MaxRetries \in Nat \ {0}

VARIABLE client   \* fetch_graph of each request: whether an attempt is sent or
                  \* paused for, or neither, and the number of the last one

Idle == [stage |-> "idle", attempt |-> 0]

NoFetches == [k \in Call |-> Idle]

\* A new client sends its first attempt.
FetchGraph(k) ==
  /\ client[k] = Idle
  /\ client' = [client EXCEPT ![k] = [stage |-> "sent", attempt |-> 1]]

StopAfterAttempt(k) == client[k].attempt >= MaxRetries

\* httpx.HTTPError: a timeout, a refused connection, a status from 400 up.
AttemptFails(k) ==
  /\ client[k].stage = "sent" /\ ~ StopAfterAttempt(k)
  /\ client' = [client EXCEPT ![k].stage = "paused"]

\* Mutant: every attempt has a retryer of its own, which starts to count again.
CountedAnew(attempt) == 1

Counted(attempt) == attempt + 1

NextAttempt(k) ==
  /\ client[k].stage = "paused"
  /\ client' = [client EXCEPT ![k] = [stage |-> "sent", attempt |-> Counted(@.attempt)]]

Retries(k) == AttemptFails(k) \/ NextAttempt(k)

\* The graph; or a body that is not JSON, which raises at once; or the failure
\* of the last attempt, which becomes a 503.
FetchGraphEnds(k) ==
  /\ client[k].stage = "sent"
  /\ client' = [client EXCEPT ![k] = Idle]
==============================================================================
