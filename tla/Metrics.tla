------------------------------ MODULE Metrics ------------------------------
(***************************************************************************)
(* The samples of a post's views and who reads them.  A scrape stores what *)
(* it saw; every tick the aggregator ranks the posts by their last sample  *)
(* and stores those values again under the present time, row by row; the   *)
(* alert engine compares a post's last sample of the last 24 hours with    *)
(* the one of the 24 hours before.  A day stands for 24 hours.             *)
(***************************************************************************)
EXTENDS Integers, FiniteSets

CONSTANTS
    Watched,       \* ids of posts
    TopN,          \* posts re-sampled a tick
    Views,         \* bound: the views a post may have
    MaxDays,       \* bound: so many days pass
    Unseen         \* no sample

ASSUME MetricsConstants ==
    /\ IsFiniteSet(Watched)
    /\ TopN \in Nat \ {0} /\ Views \subseteq Nat /\ MaxDays \in Nat
    /\ Unseen \notin Nat

VARIABLES
    today,     \* metric_snapshot: the last sample of the last 24 hours
    before,    \* and of the 24 hours before them
    latest,    \* and the last of all
    seen,      \* history: what the last scrape saw, and had seen a day ago
    tick,      \* the values the aggregator has read and not stored again
    met,       \* history: posts a scrape stored a sample of since the aggregator read them
    stale,     \* history: posts the aggregator stored an old value of since then
    fired,     \* the posts the last evaluation raised a views-drop alert for
    days       \* days left

metricsVars == <<today, before, latest, seen, tick, met, stale, fired, days>>

NoSample == [p \in Watched |-> Unseen]

MetricsInit ==
    /\ today = NoSample /\ before = NoSample /\ latest = NoSample /\ tick = NoSample
    /\ seen = [now |-> NoSample, ago |-> NoSample]
    /\ stale = [now |-> {}, ago |-> {}]
    /\ met = {} /\ fired = {}
    /\ days = MaxDays

\* The time of the row is the database's, whatever the caller passed.
CreateMetricSnapshot(p, v) ==
    /\ today' = [today EXCEPT ![p] = v]
    /\ latest' = [latest EXCEPT ![p] = v]

\* A scrape has read the post's page.
Observe(p) ==
    \E v \in Views :
        /\ CreateMetricSnapshot(p, v)
        /\ seen' = [seen EXCEPT !.now[p] = v]
        /\ stale' = [stale EXCEPT !.now = @ \ {p}]
        /\ met' = IF tick[p] # Unseen THEN met \cup {p} ELSE met
        /\ UNCHANGED <<before, tick, fired, days>>

-----------------------------------------------------------------------------
\* Mutant: the highest sample ranks, and is what comes back.
TopPostsByPeak(n) ==
    LET peak(p) == IF before[p] # Unseen /\ before[p] > latest[p] THEN before[p] ELSE latest[p]
        some == {p \in Watched : latest[p] # Unseen}
    IN  {[p \in Watched |-> IF p \in top THEN peak(p) ELSE Unseen] :
            top \in {t \in SUBSET some : Cardinality(t) <= n
                        /\ (some \ t # {} => Cardinality(t) = n)
                        /\ \A p \in t, q \in some \ t : peak(p) >= peak(q)}}

\* The n posts with the highest last value, with that value.
TopPostsByMetric(n) ==
    LET some == {p \in Watched : latest[p] # Unseen} IN
    {[p \in Watched |-> IF p \in top THEN latest[p] ELSE Unseen] :
        top \in {t \in SUBSET some : Cardinality(t) <= n
                    /\ (some \ t # {} => Cardinality(t) = n)
                    /\ \A p \in t, q \in some \ t : latest[p] >= latest[q]}}

StartAggregate ==
    /\ tick = NoSample
    /\ tick' \in TopPostsByMetric(TopN) \ {NoSample}
    /\ UNCHANGED <<today, before, latest, seen, met, stale, fired, days>>

\* A row that cannot be stored is skipped.
Resample(p) ==
    /\ tick[p] # Unseen
    /\ tick' = [tick EXCEPT ![p] = Unseen]
    /\ \/ /\ CreateMetricSnapshot(p, tick[p])
          /\ stale' = [stale EXCEPT !.now = IF p \in met THEN @ \cup {p} ELSE @]
       \/ UNCHANGED <<today, latest, stale>>
    /\ met' = met \ {p}
    /\ UNCHANGED <<before, seen, fired, days>>

-----------------------------------------------------------------------------
\* Both windows have a sample, and neither sample is of no views at all.
Comparable(p) == {today[p], before[p]} \cap {Unseen, 0} = {}

\* Mutant: the two windows are exchanged.
DropsSwapped(p) == Comparable(p) /\ 2 * before[p] < today[p]

\* Below half of the day before.
Drops(p) == Comparable(p) /\ 2 * today[p] < before[p]

\* A post whose samples cannot be read is skipped.
Evaluate ==
    /\ fired' \in SUBSET {p \in Watched : Drops(p)}
    /\ UNCHANGED <<today, before, latest, seen, tick, met, stale, days>>

DayPasses ==
    /\ days > 0
    /\ days' = days - 1
    /\ before' = today /\ today' = NoSample
    /\ seen' = [seen EXCEPT !.ago = seen.now]
    /\ stale' = [stale EXCEPT !.ago = stale.now]
    /\ fired' = {}
    /\ UNCHANGED <<latest, tick, met>>

MetricsNext ==
    \/ \E p \in Watched : Observe(p) \/ Resample(p)
    \/ StartAggregate \/ Evaluate \/ DayPasses

MetricsSpec == MetricsInit /\ [][MetricsNext]_metricsVars

-----------------------------------------------------------------------------
(***************************************************************************)
(* Properties.                                                             *)
(***************************************************************************)
Samples == [Watched -> Views \cup {Unseen}]

MetricsTypeOK ==
    /\ {today, before, latest, tick} \subseteq Samples
    /\ seen \in [now : Samples, ago : Samples]
    /\ stale \in [now : SUBSET Watched, ago : SUBSET Watched]
    /\ met \in SUBSET Watched /\ fired \in SUBSET Watched
    /\ days \in 0 .. MaxDays

\* "It never invents numbers: every value written is the last observed one."
\* True of the last sample of every post, except where a scrape stored a newer
\* one between the ranking and the re-sampling: the older value is then stored
\* as the newest, and carried on by every later tick, until a scrape comes.
LatestIsObserved ==
    \A p \in Watched \ stale.now : latest[p] = seen.now[p]

\* A views-drop alert is about views that dropped and did not vanish: unless one
\* of the two samples is such a stale one, what was seen last is below half of
\* what had been seen a day earlier, however often either was stored again in
\* between, and is not zero.
AlertIsReal ==
    [][\A p \in fired' \ fired :
        \/ p \in stale.now \cup stale.ago
        \/ /\ seen.ago[p] # Unseen /\ 2 * seen.now[p] < seen.ago[p]
           /\ seen.now[p] # 0]_metricsVars
=============================================================================
