----------------------------- MODULE MCServices -----------------------------
(***************************************************************************)
(* The services of the API, each against its own tables, for TLC.  A       *)
(* behaviour runs one of them, named by `part'; the others stay at a first *)
(* state, so the run explores the union of their state spaces.             *)
(***************************************************************************)
EXTENDS MCActionPipeline, Accounts, Scraping, ScrapeQueue, Composing, Team,
        Analytics, Metrics, EventHub, SessionRelay

CONSTANTS n1, n2, n3, q1, q2, t1, t2, i1, h1, u1, m1, m2, s1, s2

VARIABLE part

Parts == {"pipeline", "accounts", "scraping", "queue", "composing", "team",
          "analytics", "metrics", "hub", "relay"}

\* One account on TikTok, which has no automation; or each on a network of its own.
MCNetworks == {[n \in Names |-> IF n = n3 THEN "tt" ELSE "ig"], [n \in Names |-> n]}
MCNetworksFirst == [n \in Names |-> n]

\* What an actor run may deliver: an error, a post with a comment, a page of its
\* author without a date, and a Threads post.
Delivered(p, k, g, d) == [post |-> p, talk |-> k, page |-> g, date |-> d]
MCDeliverable ==
    {Delivered(NoPost, FALSE, FALSE, "in"), Delivered(i1, TRUE, FALSE, "in"),
     Delivered(i1, FALSE, TRUE, "none"), Delivered(h1, FALSE, FALSE, "in")}

\* Of two requests one at most is a search: two of them meet in the posts
\* alone, as a search and a target do.
OneSearch == Cardinality({t \in Tasks : task[t].kind = "batch"}) <= 1

MCActorAccount == [j \in ScrapeJobs |-> 1]

ServicesInit ==
    /\ part \in Parts
    /\ Init /\ AccountsInit /\ ScrapingInit /\ QueueInit /\ ComposingInit /\ TeamInit
    /\ AnalyticsInit /\ MetricsInit /\ HubInit /\ RelayInit
    /\ part # "pipeline" => home = [a \in Accounts |-> w1]
    /\ part # "accounts" => net = MCNetworksFirst
    /\ part # "composing" => tmpl = [m \in Templates |-> NoTemplate]
    /\ part # "team" => /\ member = [u \in Users |-> "OWNER"]
                        /\ session = [s \in Sessions |-> NoSession]
    /\ part # "relay" => /\ place = [a \in Logins |-> NoHolder]
                         /\ file = [h \in Holders |-> 0]

Serves(p) == part = p /\ UNCHANGED part
Others(p) ==
    /\ p # "pipeline" => UNCHANGED vars
    /\ p # "accounts" => UNCHANGED accountVars
    /\ p # "scraping" => UNCHANGED scrapeVars
    /\ p # "queue" => UNCHANGED queueVars
    /\ p # "composing" => UNCHANGED composingVars
    /\ p # "team" => UNCHANGED teamVars
    /\ p # "analytics" => UNCHANGED analyticsVars
    /\ p # "metrics" => UNCHANGED metricsVars
    /\ p # "hub" => UNCHANGED hubVars
    /\ p # "relay" => UNCHANGED relayVars

ServicesNext ==
    \/ Serves("pipeline") /\ Next /\ Others("pipeline")
    \/ Serves("accounts") /\ AccountsNext /\ Others("accounts")
    \/ Serves("scraping") /\ ScrapingNext /\ Others("scraping")
    \/ Serves("queue") /\ QueueNext /\ Others("queue")
    \/ Serves("composing") /\ ComposingNext /\ Others("composing")
    \/ Serves("team") /\ TeamNext /\ Others("team")
    \/ Serves("analytics") /\ AnalyticsNext /\ Others("analytics")
    \/ Serves("metrics") /\ MetricsNext /\ Others("metrics")
    \/ Serves("hub") /\ HubNext /\ Others("hub")
    \/ Serves("relay") /\ RelayNext /\ Others("relay")

ServicesSpec ==
    ServicesInit /\ [][ServicesNext]_<<part, vars, accountVars, scrapeVars, queueVars,
                                       composingVars, teamVars, analyticsVars, metricsVars,
                                       hubVars, relayVars>>

\* Every variable of the service that runs has the shape its comment says.
ServicesTypeOK ==
    CASE part = "pipeline" -> TypeOK
      [] part = "accounts" -> AccountsTypeOK
      [] part = "scraping" -> ScrapingTypeOK
      [] part = "queue" -> QueueTypeOK
      [] part = "composing" -> ComposingTypeOK
      [] part = "team" -> TeamTypeOK
      [] part = "analytics" -> AnalyticsTypeOK
      [] part = "metrics" -> MetricsTypeOK
      [] part = "hub" -> HubTypeOK
      [] part = "relay" -> RelayTypeOK
=============================================================================
