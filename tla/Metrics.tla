------------------------------ MODULE Metrics ------------------------------
(***************************************************************************)
(* Metrics and its listener: scrapes that arrive while one is collecting   *)
(* share its result.  A collection sets the gauges of this process, reads  *)
(* the depth of the job queue from Postgres against a timer, and then      *)
(* encodes the registry.  Collections are numbered; the depth gauge holds  *)
(* the number of the one whose read it shows, or NaN.                      *)
(***************************************************************************)
EXTENDS Naturals, FiniteSets

CONSTANTS Scrapers, \* each asks for the metrics once
          NaN

ASSUME NaNAssumption == NaN \notin Nat

VARIABLES collections, \* how many collections have been started
          scraping,    \* no, collecting, or encoding: the promise they share
          reads,       \* collections whose read of the depth is unanswered
          depth, up,   \* the gauges jobs_depth and collector_up of jobs
          scraper,     \* idle, waiting, gone, or answered
          body,        \* what an answered scraper was sent
          arrived      \* which collections had ended when a scraper arrived

metricsVars == <<collections, scraping, reads, depth, up, scraper, body, arrived>>

Waiting == {s \in Scrapers : scraper[s] = "waiting"}

(* The collectors of concurrency and circuits run at once. *)
Collect == /\ collections' = collections + 1
           /\ reads' = reads \cup {collections + 1}
           /\ scraping' = "collecting"

scrape(s) ==
    /\ scraper[s] = "idle"
    /\ scraper' = [scraper EXCEPT ![s] = "waiting"]
    /\ arrived' = [arrived EXCEPT ![s] = IF scraping = "no" THEN collections
                                                            ELSE collections - 1]
    /\ \/ scraping = "no" /\ Collect
       \/ scraping # "no" /\ UNCHANGED <<collections, reads, scraping>>
    /\ UNCHANGED <<depth, up, body>>

(* The race of the current collection is decided. *)
Show(value, health) == /\ scraping = "collecting"
                       /\ depth' = value
                       /\ up' = health
                       /\ scraping' = "encoding"

(* The read of collection n ends; after the timer nobody listens to it. *)
ReadEndsLate(n, ok) == \* mutant: the gauges are set when the read ends
    /\ n \in reads
    /\ reads' = reads \ {n}
    /\ depth' = IF ok THEN n ELSE NaN
    /\ up' = ok
    /\ scraping' = IF n = collections /\ scraping = "collecting" THEN "encoding" ELSE scraping
    /\ UNCHANGED <<collections, scraper, body, arrived>>
ReadEnds(n, ok) ==
    /\ n \in reads
    /\ reads' = reads \ {n}
    /\ \/ n = collections /\ Show(IF ok THEN n ELSE NaN, ok)
       \/ /\ n # collections \/ scraping # "collecting"
          /\ UNCHANGED <<scraping, depth, up>>
    /\ UNCHANGED <<collections, scraper, body, arrived>>

ReadTimesOut ==
    /\ Show(NaN, FALSE)
    /\ UNCHANGED <<collections, reads, scraper, body, arrived>>

(* registry.metrics() has encoded the gauges, or failed: 503. *)
Encode(ok) ==
    /\ scraping = "encoding"
    /\ scraping' = "no"
    /\ scraper' = [s \in Scrapers |-> IF s \in Waiting THEN "answered" ELSE scraper[s]]
    /\ body' = [s \in Scrapers |-> IF s \notin Waiting \/ ~ok THEN body[s]
                                   ELSE [sent |-> TRUE, depth |-> depth, up |-> up]]
    /\ UNCHANGED <<collections, reads, depth, up, arrived>>

(* A scraper closes its connection. *)
Leave(s) == /\ s \in Waiting
            /\ scraper' = [scraper EXCEPT ![s] = "gone"]
            /\ UNCHANGED <<collections, scraping, reads, depth, up, body, arrived>>

MetricsInit == /\ collections = 0
               /\ scraping = "no"
               /\ reads = {}
               /\ depth = 0 /\ up = FALSE
               /\ scraper = [s \in Scrapers |-> "idle"]
               /\ body = [s \in Scrapers |-> [sent |-> FALSE, depth |-> NaN, up |-> FALSE]]
               /\ arrived = [s \in Scrapers |-> 0]

----------------------------------------------------------------------------
(* What a scraper is sent is true: a healthy collector shows the depth     *)
(* that a collection read which had not ended when the scraper asked, an   *)
(* unhealthy one shows no depth.  An answer that comes after the timer     *)
(* reaches no gauge, and no result is handed out again (scrape,            *)
(* bindQueueDepth).                                                        *)
ScrapesTruthful ==
    \A s \in Scrapers :
        body[s].sent => IF body[s].up THEN body[s].depth \in arrived[s] + 1..collections
                                      ELSE body[s].depth = NaN
=============================================================================
