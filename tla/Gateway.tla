------------------------------- MODULE Gateway -------------------------------
(***************************************************************************)
(* The gateway process: start and shutdown of server.ts, the HTTP requests *)
(* on their way through the hooks of the app (metrics, API key, rate       *)
(* limit) to a handler, and the metrics listener, over the clients they    *)
(* share: the Postgres pool and the connection to Redis.                   *)
(*                                                                         *)
(* External: Fastify, whose close stops admitting requests and resolves    *)
(* when no connection is left or rejects; pg, whose pool refuses queries   *)
(* once end is called and ends when none is out; ioredis, which refuses    *)
(* commands once disconnected.  A handler of the chat routes ends, which   *)
(* is shown in ChatRoute and StreamRoute; it does without the client of    *)
(* the cache, which nothing waits for and which is disconnected with the   *)
(* other.                                                                  *)
(***************************************************************************)
EXTENDS Metrics

CONSTANT Requests

ASSUME RequestsAssumption == IsFiniteSet(Requests)

VARIABLES startup,  \* connecting, listening, metrics, up; or, when it fails,
                    \* closingMetrics, endingPool, failed
          booting,  \* of the connections awaited first, the ones pending
          shutdown, \* no, closingApp, closingMetrics, endingPool, done
          app, metricsServer, \* new, open, closing, closed
          redis, pool,
          unclean,  \* app.close() has rejected
          stage,    \* how far each request is
          answer,   \* answered, with a result or an error of its own; or
                    \* closed, because a client it needs has been closed
          response, \* none, open, finished, closed: response.raw
          httpActive

processVars == <<startup, booting, shutdown, app, metricsServer, redis, pool, unclean>>
requestVars == <<stage, answer, response, httpActive>>
vars == <<processVars, requestVars, metricsVars>>

(* Queries that are out: the pool lends them a connection. *)
Querying == {r \in Requests : stage[r] \in {"authenticating", "querying", "selecting"}}
PoolIdle == Querying = {} /\ reads = {} /\ "pool" \notin booting

Connected == {r \in Requests : response[r] \in {"open", "finished"}}

----------------------------------------------------------------------------
(* start *)

Startup(s) == startup' = s

(* catch: metricsServer.close() is awaited first. *)
Fails == Startup("closingMetrics") /\ metricsServer' = "closing"

(* One of the two connections of Promise.all is there, or refused. *)
Booted(c) ==
    /\ c \in booting
    /\ booting' = booting \ {c}
    /\ \/ /\ c = "redis" => redis = "connecting"
          /\ redis' = IF c = "redis" THEN "ready" ELSE redis
          /\ \/ startup = "connecting" /\ booting = {c} /\ Startup("listening")
             \/ (startup # "connecting" \/ booting # {c}) /\ UNCHANGED startup
          /\ UNCHANGED metricsServer
       \/ /\ startup = "connecting" /\ Fails
          /\ UNCHANGED redis
       \/ /\ startup # "connecting"
          /\ UNCHANGED <<startup, metricsServer, redis>>
    /\ UNCHANGED <<shutdown, app, pool, unclean, requestVars, metricsVars>>

(* app.listen.  An app that is closed admits no request even if its port   *)
(* is opened.                                                              *)
Listen ==
    /\ startup = "listening"
    /\ \/ /\ app' = IF app = "new" THEN "open" ELSE app
          /\ Startup("metrics")
          /\ UNCHANGED metricsServer
       \/ Fails /\ UNCHANGED app
    /\ UNCHANGED <<booting, shutdown, redis, pool, unclean, requestVars, metricsVars>>

(* metricsServer.listen; a failure is logged. *)
ListenMetrics ==
    /\ startup = "metrics"
    /\ Startup("up")
    /\ \/ metricsServer = "new" /\ metricsServer' = "open"
       \/ UNCHANGED metricsServer
    /\ UNCHANGED <<booting, shutdown, app, redis, pool, unclean, requestVars, metricsVars>>

----------------------------------------------------------------------------
(* shutdown *)

(* SIGINT or SIGTERM; preClose aborts the synchronous chats. *)
SignalDisconnecting == \* mutant: the clients are closed before the app
    /\ shutdown = "no"
    /\ shutdown' = "closingApp"
    /\ app' = "closing"
    /\ redis' = "closed"
    /\ UNCHANGED <<startup, booting, metricsServer, pool, unclean, requestVars, metricsVars>>
Signal ==
    /\ shutdown = "no"
    /\ shutdown' = "closingApp"
    /\ app' = "closing"
    /\ UNCHANGED <<startup, booting, metricsServer, redis, pool, unclean, requestVars,
                   metricsVars>>

(* app.close() settles, the Redis clients are disconnected, and            *)
(* metricsServer.close() is called.                                        *)
CloseEndsUncaught(clean) == \* mutant: the rejection of app.close() is not caught
    /\ shutdown = "closingApp"
    /\ \/ /\ clean /\ Connected = {} /\ app' = "closed" /\ UNCHANGED unclean
          /\ shutdown' = "closingMetrics"
          /\ redis' = "closed"
          /\ metricsServer' = "closing"
       \/ /\ ~clean /\ unclean' = TRUE /\ shutdown' = "done"
          /\ UNCHANGED <<app, redis, metricsServer>>
    /\ UNCHANGED <<startup, booting, pool, requestVars, metricsVars>>
CloseEnds(clean) ==
    /\ shutdown = "closingApp"
    /\ \/ clean /\ Connected = {} /\ app' = "closed" /\ UNCHANGED unclean
       \/ ~clean /\ unclean' = TRUE /\ UNCHANGED app
    /\ shutdown' = "closingMetrics"
    /\ redis' = "closed"
    /\ metricsServer' = "closing"
    /\ UNCHANGED <<startup, booting, pool, requestVars, metricsVars>>

(* metricsServer.close() settles; whoever awaited it goes on to pool.end(),*)
(* which rejects a second call.                                            *)
MetricsClosed(clean) ==
    /\ clean => Waiting = {}
    /\ metricsServer' = IF clean THEN "closed" ELSE metricsServer
    /\ pool' = IF pool = "open" THEN "ending" ELSE pool
    /\ \/ /\ shutdown = "closingMetrics"
          /\ shutdown' = IF pool = "open" THEN "endingPool" ELSE "done"
          /\ UNCHANGED <<startup, redis>>
       \/ /\ startup = "closingMetrics"
          /\ Startup(IF pool = "open" THEN "endingPool" ELSE "failed")
          /\ redis' = "closed"
          /\ UNCHANGED shutdown
    /\ UNCHANGED <<booting, app, unclean, requestVars, metricsVars>>

(* The last connection of the pool is given back. *)
PoolEnded ==
    /\ pool = "ending" /\ PoolIdle
    /\ pool' = "ended"
    /\ shutdown' = IF shutdown = "endingPool" THEN "done" ELSE shutdown
    /\ startup' = IF startup = "endingPool" THEN "failed" ELSE startup
    /\ UNCHANGED <<booting, app, metricsServer, redis, unclean, requestVars, metricsVars>>

----------------------------------------------------------------------------
(* Requests *)

Goto(r, s) == stage' = [stage EXCEPT ![r] = s] /\ UNCHANGED answer
Reply(r, a) == /\ stage' = [stage EXCEPT ![r] = "replied"]
               /\ answer' = [answer EXCEPT ![r] = a]

(* A query or a command that starts on a closed client fails at once. *)
Query(r, s) == IF pool = "open" THEN Goto(r, s) ELSE Reply(r, "closed")

(* The hooks of observeHttp and of the guard; /health has no guard, and a  *)
(* request without a bearer token gets no further.                         *)
Arrive(r) ==
    /\ response[r] = "none" /\ app = "open"
    /\ response' = [response EXCEPT ![r] = "open"]
    /\ httpActive' = httpActive + 1
    /\ \/ Query(r, "authenticating")
       \/ Goto(r, "handling")
       \/ Reply(r, "answered")
    /\ UNCHANGED <<processVars, metricsVars>>

Step(r, s) == stage[r] = s /\ UNCHANGED <<processVars, response, httpActive, metricsVars>>

(* findEnabledByHash has found the key, or not, or failed; rateLimiter     *)
(* .consume is called.                                                     *)
Authenticated(r) ==
    /\ Step(r, "authenticating")
    /\ \/ redis # "closed" /\ Goto(r, "limiting")
       \/ redis = "closed" /\ Reply(r, "closed")
       \/ Reply(r, "answered")

(* The script has run.  Of a request that may pass the body is awaited;    *)
(* one without a body asks for a job, which queries Postgres, or reaches   *)
(* another handler.                                                        *)
Limited(r) ==
    /\ Step(r, "limiting")
    /\ \/ redis = "closed" /\ Reply(r, "closed")
       \/ redis # "closed" /\ (Query(r, "querying") \/ Goto(r, "receiving") \/ Goto(r, "handling"))
       \/ redis # "closed" /\ Reply(r, "answered")

(* The body is there, for a job or a chat, or is refused. *)
Received(r) ==
    /\ Step(r, "receiving")
    /\ Query(r, "querying") \/ Goto(r, "handling") \/ Reply(r, "answered")

(* getJob or the INSERT of enqueue ends; a submission that is known        *)
(* already is selected with a second query.                                *)
Queried(r) == Step(r, "querying") /\ (Reply(r, "answered") \/ Query(r, "selecting"))
Selected(r) == Step(r, "selecting") /\ Reply(r, "answered")

(* The handler of another route ends. *)
Handled(r) == Step(r, "handling") /\ Reply(r, "answered")

(* The events finish and close of the response; the first ends the count.  *)
Finish(r) ==
    /\ stage[r] = "replied" /\ response[r] = "open"
    /\ response' = [response EXCEPT ![r] = "finished"]
    /\ httpActive' = httpActive - 1
    /\ UNCHANGED <<processVars, stage, answer, metricsVars>>
Close(r) ==
    /\ r \in Connected
    /\ response' = [response EXCEPT ![r] = "closed"]
    /\ httpActive' = IF response[r] = "open" THEN httpActive - 1 ELSE httpActive
    /\ UNCHANGED <<processVars, stage, answer, metricsVars>>

Handler(r) == \/ Authenticated(r) \/ Limited(r) \/ Received(r) \/ Queried(r) \/ Selected(r)
              \/ Handled(r)

----------------------------------------------------------------------------
(* The metrics listener. *)
Scrape(s) == /\ metricsServer = "open"
             /\ scrape(s)
             /\ UNCHANGED <<processVars, requestVars>>
Read(n) == /\ \E ok \in BOOLEAN : ReadEnds(n, ok)
           /\ UNCHANGED <<processVars, requestVars>>
Timeout == ReadTimesOut /\ UNCHANGED <<processVars, requestVars>>
Answer == /\ \E ok \in BOOLEAN : Encode(ok)
          /\ UNCHANGED <<processVars, requestVars>>
ScraperLeaves(s) == Leave(s) /\ UNCHANGED <<processVars, requestVars>>

Init ==
    /\ MetricsInit
    /\ startup = "connecting" /\ booting = {"pool", "redis"}
    /\ shutdown = "no"
    /\ app = "new" /\ metricsServer = "new"
    /\ redis = "connecting" /\ pool = "open"
    /\ unclean = FALSE
    /\ stage = [r \in Requests |-> "none"]
    /\ answer = [r \in Requests |-> "none"]
    /\ response = [r \in Requests |-> "none"]
    /\ httpActive = 0

Boot == (\E c \in booting : Booted(c)) \/ Listen \/ ListenMetrics
Teardown == CloseEnds(TRUE) \/ MetricsClosed(TRUE) \/ PoolEnded

Next == \/ Boot \/ Teardown \/ Signal \/ CloseEnds(FALSE) \/ MetricsClosed(FALSE)
        \/ \E r \in Requests : Arrive(r) \/ Handler(r) \/ Finish(r) \/ Close(r)
        \/ \E s \in Scrapers : Scrape(s) \/ ScraperLeaves(s)
        \/ (\E n \in reads : Read(n)) \/ Timeout \/ Answer

Spec == Init /\ [][Next]_vars

(* What the process does by itself: handlers end, the timer of a scrape    *)
(* fires, and connections whose response is sent are closed.  Nothing is   *)
(* assumed of Postgres, Redis and the clients.                             *)
FairSpec ==
    /\ Spec
    /\ WF_vars(Teardown) /\ WF_vars(Timeout) /\ WF_vars(Answer)
    /\ \A r \in Requests : /\ WF_vars(Handled(r))
                          /\ WF_vars(response[r] = "finished" /\ Close(r))

----------------------------------------------------------------------------
(* Properties. *)

(* A graceful shutdown, or a start that fails beside it, closes no client  *)
(* under a request that somebody waits for: unless app.close() rejected,   *)
(* only requests whose connection is gone can find Redis or the pool       *)
(* closed (the order of shutdown).                                         *)
ShutdownSparesClients ==
    \A r \in Connected : answer[r] = "closed" => unclean

(* The gateway reports the truth about itself: http_active counts the      *)
(* responses that are open, each once, and scrapes are answered truthfully *)
(* whatever the pool does meanwhile (observeHttp, Metrics).                *)
MetricsTruthful ==
    /\ httpActive = Cardinality({r \in Requests : response[r] = "open"})
    /\ ScrapesTruthful

(* A request that waits for somebody else: for a query that is out, or,    *)
(* with its client, for Redis, the rest of the body or the delivery of the *)
(* response.  The process sets no limit to any of these: the client of the *)
(* limiter has no commandTimeout, statement_timeout is enforced by         *)
(* Postgres, and Fastify's requestTimeout is off.                          *)
Awaits(r) == r \in Querying \/ (response[r] = "open" /\ stage[r] # "handling")

(* If those waits, the connecting pool and the reads of the queue depth    *)
(* come to an end, a signal, at any time, ends with every client closed    *)
(* and no response open, even if app.close() rejects, if start fails at    *)
(* the same time, or if a scrape is abandoned (shutdown).                  *)
ShutdownEnds ==
    (\A r \in Requests : []<>~Awaits(r)) /\ []<>("pool" \notin booting) /\ []<>(reads = {}) =>
        (shutdown # "no" ~> /\ shutdown = "done"
                            /\ redis = "closed" /\ pool = "ended"
                            /\ httpActive = 0)

(* The inductive invariant behind the first: requests arrive only at an    *)
(* app whose start went through and which is not shut down, the clients    *)
(* are closed only by a start that failed or behind app.close().           *)
Ready == startup \in {"metrics", "up"}
Failing == startup \in {"closingMetrics", "endingPool", "failed"}
Torn == shutdown \in {"closingMetrics", "endingPool", "done"}
ShutdownInv ==
    /\ response \in [Requests -> {"none", "open", "finished", "closed"}]
    /\ DOMAIN answer = Requests /\ DOMAIN stage = Requests
    /\ \A r \in Requests : response[r] = "none" => answer[r] = "none" /\ stage[r] = "none"
    /\ app \in {"new", "open"} => shutdown = "no"
    /\ app = "open" => Ready
    /\ Connected # {} => Ready
    /\ ~Failing /\ ~Torn => redis # "closed" /\ pool = "open"
    /\ shutdown \in {"no", "closingApp"} \/ Torn
    /\ Torn => unclean \/ Connected = {}
    /\ ShutdownSparesClients

(* And the one behind the second: the gauges, once set, are those of the   *)
(* present collection, which every waiting scraper may be shown.           *)
CountInv ==
    /\ response \in [Requests -> {"none", "open", "finished", "closed"}]
    /\ httpActive = Cardinality({r \in Requests : response[r] = "open"})
ScrapeInv ==
    /\ collections \in Nat /\ reads \subseteq 1..collections
    /\ DOMAIN scraper = Scrapers /\ DOMAIN body = Scrapers
    /\ arrived \in [Scrapers -> Nat]
    /\ scraping \in {"no", "collecting", "encoding"}
    /\ scraping # "no" => collections > 0
    /\ scraping = "encoding" => depth = IF up THEN collections ELSE NaN
    /\ Waiting # {} => scraping # "no"
    /\ \A s \in Waiting : arrived[s] < collections
    /\ \A s \in Scrapers : body[s].sent => scraper[s] = "answered"
    /\ ScrapesTruthful
=============================================================================
