--------------------------- MODULE ServicesProofs ---------------------------
(***************************************************************************)
(* Theorems about the event stream, the metrics and alerts and the         *)
(* analytics of official accounts: EventHub, Metrics and Analytics.        *)
(***************************************************************************)
EXTENDS EventHub, Metrics, Analytics, SequenceTheorems, FiniteSetTheorems, TLAPS

-----------------------------------------------------------------------------
(***************************************************************************)
(* EventHub: a browser that missed an event is told, for every number of   *)
(* connections, publishers and events and every length of a queue.         *)
(***************************************************************************)
Conns == [state : {"none", "open", "shut", "gone"}, queue : Seq(Events),
          shown : SUBSET Events, due : SUBSET Events]
Pubs == [stage : {"idle", "scan", "drop"}, event : 0 .. MaxEvents,
         todo : SUBSET Streams, dead : SUBSET Streams]

HubTyped ==
    /\ conn \in [Streams -> Conns]
    /\ pub \in [Publishers -> Pubs]
    /\ events \in 0 .. MaxEvents

Buffered == \A s \in Streams : Len(conn[s].queue) <= HubBuffer

SendsToOpen == \A p \in Publishers : pub[p].todo \subseteq Subscribed

\* What the two sections of Publish and a fresh connection start from: only a
\* scan has sends left to do, a busy publisher has an event, an idle one no
\* list of dead ones, and nothing is due to a channel that is not there yet.
Sections ==
    /\ \A p \in Publishers : pub[p].stage # "scan" => pub[p].todo = {}
    /\ \A p \in Publishers : pub[p].stage # "idle" => pub[p].event \in Events
    /\ \A p \in Publishers : pub[p].stage = "idle" => pub[p].dead = {}
    /\ \A s \in Streams : conn[s].state = "none" => conn[s].due = {}

HubInv == HubTyped /\ Buffered /\ SendsToOpen /\ Sections /\ NoSilentGap

LEMMA HubTypeParts == HubTypeOK <=> HubTyped /\ Buffered /\ SendsToOpen
BY DEF HubTypeOK, HubTyped, Buffered, SendsToOpen, Conns, Pubs

LEMMA BlankHub ==
    /\ NoStream \in Conns /\ [NoStream EXCEPT !.state = "gone"] \in Conns
    /\ NoPublish \in Pubs
    /\ [NoStream EXCEPT !.state = "gone"].state = "gone"
    /\ NoStream.due = {} /\ NoStream.state = "none"
    /\ Len(NoStream.queue) = 0 /\ Len([NoStream EXCEPT !.state = "gone"].queue) = 0
    /\ NoPublish.stage = "idle" /\ NoPublish.todo = {} /\ NoPublish.dead = {}
<1>1. NoStream \in Conns
  BY DEF NoStream, Conns
<1>2. [NoStream EXCEPT !.state = "gone"] \in Conns
  BY <1>1 DEF Conns
<1>3. NoPublish \in Pubs
  BY EventHubConstants DEF NoPublish, Pubs
<1>4. Len(NoStream.queue) = 0 /\ Len([NoStream EXCEPT !.state = "gone"].queue) = 0
  BY DEF NoStream
<1> QED BY <1>1, <1>2, <1>3, <1>4 DEF NoStream, NoPublish

-----------------------------------------------------------------------------
LEMMA HubFirst == HubInit => HubInv
<1> SUFFICES ASSUME HubInit PROVE HubInv
  OBVIOUS
<1>1. HubTyped
  BY BlankHub, EventHubConstants DEF HubInit, HubTyped
<1>2. Buffered /\ SendsToOpen /\ Sections
  BY BlankHub, EventHubConstants DEF HubInit, Buffered, SendsToOpen, Sections
<1>3. NoSilentGap
  BY BlankHub DEF HubInit, NoSilentGap, Subscribed
<1> QED BY <1>1, <1>2, <1>3 DEF HubInv

\* Without a scan under way nobody has sends left to do.
LEMMA LockFree ==
    ASSUME HubInv, WriteLockFree, NEW p \in Publishers
    PROVE  pub[p].todo = {}
BY DEF HubInv, Sections, WriteLockFree

\* A connection that replaces another in the table, while the publishers stay
\* as they are: if it is not open, nothing is promised to it.
LEMMA Replaced ==
    ASSUME HubInv, NEW s \in Streams, NEW c \in Conns,
           conn' = [conn EXCEPT ![s] = c], UNCHANGED <<pub, events>>,
           Len(c.queue) <= HubBuffer,
           c.state = "none" => c.due = {},
           c.state = "open" \/ \A p \in Publishers : s \notin pub[p].todo,
           c.state = "open" =>
             \A e \in c.due :
                \/ e \in c.shown \cup Range(c.queue)
                \/ \E p \in Publishers : s \in pub[p].dead \/ (pub[p].event = e /\ s \in pub[p].todo)
    PROVE  HubInv'
<1>1. /\ conn \in [Streams -> Conns] /\ conn'[s] = c
      /\ \A r \in Streams \ {s} : conn'[r] = conn[r]
  BY DEF HubInv, HubTyped
<1>2. HubTyped'
  BY <1>1 DEF HubInv, HubTyped
<1>3. Buffered'
  BY <1>1 DEF HubInv, Buffered
<1>4. SendsToOpen'
  BY <1>1 DEF HubInv, SendsToOpen, Subscribed
<1>5. Sections'
  BY <1>1 DEF HubInv, Sections
<1>6. NoSilentGap'
  BY <1>1 DEF HubInv, NoSilentGap, Subscribed
<1> QED BY <1>2, <1>3, <1>4, <1>5, <1>6 DEF HubInv

LEMMA SubscribeInv ==
    ASSUME HubInv, NEW s \in Streams, Subscribe(s)
    PROVE  HubInv'
<1>1. conn[s] \in Conns /\ conn[s].due = {} /\ Len(conn[s].queue) <= HubBuffer
  BY DEF HubInv, HubTyped, Sections, Buffered, Subscribe
<1> DEFINE c == [conn[s] EXCEPT !.state = "open"]
<1>2. c \in Conns /\ c.due = {} /\ c.state = "open" /\ c.queue = conn[s].queue
  BY <1>1 DEF Conns
<1> HIDE DEF c
<1>3. conn' = [conn EXCEPT ![s] = c] /\ UNCHANGED <<pub, events>>
  BY DEF Subscribe, c
<1> QED BY <1>1, <1>2, <1>3, Replaced

\* A connection that goes - the browser leaves, or finds its channel shut.
LEMMA GoneInv ==
    ASSUME HubInv, NEW s \in Streams, NoticeShut(s) \/ Unsubscribe(s)
    PROVE  HubInv'
<1> DEFINE c == [NoStream EXCEPT !.state = "gone"]
<1>1. c \in Conns /\ c.state = "gone" /\ Len(c.queue) = 0
  BY BlankHub
<1> HIDE DEF c
<1>2. conn' = [conn EXCEPT ![s] = c] /\ UNCHANGED <<pub, events>>
  BY DEF NoticeShut, Unsubscribe, c
<1>3. \A p \in Publishers : s \notin pub[p].todo
  <2>1. CASE NoticeShut(s)
    BY <2>1 DEF NoticeShut, HubInv, SendsToOpen, Subscribed
  <2>2. CASE Unsubscribe(s)
    BY <2>2, LockFree DEF Unsubscribe
  <2> QED BY <2>1, <2>2
<1>4. Len(c.queue) <= HubBuffer
  BY <1>1, EventHubConstants
<1> QED BY <1>1, <1>2, <1>3, <1>4, Replaced

\* What is taken from the queue is shown.
LEMMA ShowInv ==
    ASSUME HubInv, NEW s \in Streams, Show(s)
    PROVE  HubInv'
<1> DEFINE q == conn[s].queue
<1>1. conn[s] \in Conns /\ q \in Seq(Events) /\ q # <<>> /\ Len(q) <= HubBuffer
  BY DEF HubInv, HubTyped, Buffered, Show, Conns
<1>2. /\ Head(q) \in Events /\ Tail(q) \in Seq(Events) /\ Len(Tail(q)) = Len(q) - 1
      /\ Range(q) = {Head(q)} \cup Range(Tail(q))
  <2>1. Head(q) \in Events /\ Tail(q) \in Seq(Events) /\ Len(Tail(q)) = Len(q) - 1
    BY <1>1, HeadTailProperties
  <2>2. \A i \in 1 .. Len(Tail(q)) : Tail(q)[i] = q[i + 1]
    BY <1>1, HeadTailProperties
  <2>3. DOMAIN q = 1 .. Len(q) /\ DOMAIN Tail(q) = 1 .. Len(Tail(q)) /\ Len(q) \in Nat \ {0}
    BY <1>1, <2>1, EmptySeq, LenProperties
  <2>4. Head(q) = q[1]
    BY <1>1
  <2>5. Range(q) \subseteq {Head(q)} \cup Range(Tail(q))
    <3> SUFFICES ASSUME NEW i \in 1 .. Len(q) PROVE q[i] \in {Head(q)} \cup Range(Tail(q))
      BY <2>3 DEF Range
    <3>1. CASE i = 1
      BY <2>4, <3>1
    <3>2. CASE i # 1
      <4>1. i - 1 \in 1 .. Len(Tail(q)) /\ (i - 1) + 1 = i
        BY <2>1, <2>3, <3>2
      <4>2. Tail(q)[i - 1] = q[i]
        BY <2>2, <4>1
      <4> QED BY <2>3, <4>1, <4>2 DEF Range
    <3> QED BY <3>1, <3>2
  <2>6. {Head(q)} \cup Range(Tail(q)) \subseteq Range(q)
    <3>1. 1 \in DOMAIN q
      BY <2>3
    <3>2. \A i \in 1 .. Len(Tail(q)) : i + 1 \in DOMAIN q
      BY <2>1, <2>3
    <3> QED BY <2>2, <2>3, <2>4, <3>1, <3>2 DEF Range
  <2> QED BY <2>1, <2>5, <2>6
<1> DEFINE c == [conn[s] EXCEPT !.queue = Tail(q), !.shown = @ \cup {Head(q)}]
<1>3. /\ c \in Conns /\ c.queue = Tail(q) /\ c.shown = conn[s].shown \cup {Head(q)}
      /\ c.due = conn[s].due /\ c.state = conn[s].state
  BY <1>1, <1>2 DEF Conns
<1>4. conn' = [conn EXCEPT ![s] = c] /\ UNCHANGED <<pub, events>>
  BY DEF Show
<1>5. Len(c.queue) <= HubBuffer
  BY <1>1, <1>2, <1>3, EventHubConstants
<1>6. c.state = "open" \/ \A p \in Publishers : s \notin pub[p].todo
  BY <1>3 DEF HubInv, SendsToOpen, Subscribed
<1>7. c.state = "open" =>
        \A e \in c.due :
           \/ e \in c.shown \cup Range(c.queue)
           \/ \E p \in Publishers : s \in pub[p].dead \/ (pub[p].event = e /\ s \in pub[p].todo)
  BY <1>2, <1>3 DEF HubInv, NoSilentGap, Subscribed
<1>8. c.state = "none" => c.due = {}
  BY <1>3 DEF HubInv, Sections
<1> HIDE DEF c
<1> QED BY <1>3, <1>4, <1>5, <1>6, <1>7, <1>8, Replaced

-----------------------------------------------------------------------------
(***************************************************************************)
(* The publishers.                                                         *)
(***************************************************************************)

\* The read section opens: the event is due to whoever is in the table, and
\* the publisher has them all before it.
LEMMA HubPublishInv ==
    ASSUME HubInv, NEW p \in Publishers, HubPublish(p)
    PROVE  HubInv'
<1> DEFINE e == events + 1
           u == [NoPublish EXCEPT !.stage = "scan", !.event = e, !.todo = Subscribed]
<1>1. /\ pub[p].stage = "idle" /\ e \in Events /\ events' = e
      /\ pub' = [pub EXCEPT ![p] = u]
      /\ conn' = [s \in Streams |-> IF s \in Subscribed
                                    THEN [conn[s] EXCEPT !.due = @ \cup {e}] ELSE conn[s]]
  BY EventHubConstants DEF HubPublish, HubInv, HubTyped, Events
<1>2. /\ u \in Pubs /\ u.stage = "scan" /\ u.event = e /\ u.todo = Subscribed
  <2>1. Subscribed \subseteq Streams /\ e \in 0 .. MaxEvents
    BY <1>1 DEF Subscribed, Events
  <2> QED BY <2>1, BlankHub DEF NoPublish, Pubs
<1> HIDE DEF u
<1>3. \A s \in Subscribed :
        /\ conn'[s] \in Conns /\ conn'[s].due = conn[s].due \cup {e}
        /\ conn'[s].state = "open" /\ conn'[s].queue = conn[s].queue
        /\ conn'[s].shown = conn[s].shown
  <2> SUFFICES ASSUME NEW s \in Subscribed
               PROVE  /\ conn'[s] \in Conns /\ conn'[s].due = conn[s].due \cup {e}
                      /\ conn'[s].state = "open" /\ conn'[s].queue = conn[s].queue
                      /\ conn'[s].shown = conn[s].shown
    OBVIOUS
  <2>1. s \in Streams /\ conn[s] \in Conns /\ conn[s].state = "open"
    BY DEF HubInv, HubTyped, Subscribed
  <2>2. conn'[s] = [conn[s] EXCEPT !.due = @ \cup {e}]
    BY <1>1, <2>1
  <2> QED BY <1>1, <2>1, <2>2 DEF Conns
<1>4. \A s \in Streams \ Subscribed : conn'[s] = conn[s]
  BY <1>1
<1>5. \A s \in Streams : conn'[s].state = conn[s].state /\ conn'[s].queue = conn[s].queue
  BY <1>3, <1>4 DEF Subscribed
<1>6. Subscribed' = Subscribed
  BY <1>5 DEF Subscribed
<1>7. pub'[p] = u /\ \A r \in Publishers \ {p} : pub'[r] = pub[r]
  BY <1>1 DEF HubInv, HubTyped
<1>8. HubTyped'
  <2>1. \A s \in Streams : conn'[s] \in Conns
    BY <1>3, <1>4 DEF HubInv, HubTyped
  <2>2. conn' \in [Streams -> Conns]
    BY <1>1, <2>1
  <2> QED BY <1>1, <1>2, <2>2 DEF HubInv, HubTyped, Events
<1>9. Buffered'
  BY <1>5 DEF HubInv, Buffered
<1>10. SendsToOpen'
  BY <1>2, <1>6, <1>7 DEF HubInv, SendsToOpen
<1>11. Sections'
  <2>1. \A s \in Streams : conn'[s].state = "none" => conn'[s].due = {}
    BY <1>3, <1>4 DEF HubInv, Sections
  <2> QED BY <1>1, <1>2, <1>7, <2>1 DEF HubInv, Sections
<1>12. NoSilentGap'
  <2> SUFFICES ASSUME NEW s \in Subscribed, NEW d \in conn'[s].due
               PROVE  \/ d \in conn'[s].shown \cup Range(conn'[s].queue)
                      \/ \E r \in Publishers :
                            s \in pub'[r].dead \/ (pub'[r].event = d /\ s \in pub'[r].todo)
    BY <1>6 DEF NoSilentGap
  <2>1. CASE d = e
    BY <1>2, <1>7, <2>1
  <2>2. CASE d # e
    <3>1. d \in conn[s].due
      BY <1>3, <2>2
    <3>2. CASE d \in conn[s].shown \cup Range(conn[s].queue)
      BY <1>3, <3>2
    <3>3. ASSUME NEW r \in Publishers, s \in pub[r].dead \/ (pub[r].event = d /\ s \in pub[r].todo)
          PROVE  s \in pub'[r].dead \/ (pub'[r].event = d /\ s \in pub'[r].todo)
      <4>1. r # p
        BY <1>1, <3>3 DEF HubInv, Sections
      <4> QED BY <1>7, <3>3, <4>1
    <3> QED BY <3>1, <3>2, <3>3 DEF HubInv, NoSilentGap
  <2> QED BY <2>1, <2>2
<1> QED BY <1>8, <1>9, <1>10, <1>11, <1>12 DEF HubInv

\* One non-blocking send: the event is queued, or the connection listed dead.
LEMMA SendInv ==
    ASSUME HubInv, NEW p \in Publishers, NEW s \in Streams, Send(p, s)
    PROVE  HubInv'
<1> DEFINE e == pub[p].event
           q == conn[s].queue
<1>1. /\ s \in pub[p].todo /\ s \in Subscribed /\ pub[p].stage = "scan" /\ e \in Events
      /\ pub[p] \in Pubs /\ conn[s] \in Conns /\ q \in Seq(Events)
      /\ events' = events
  BY DEF Send, HubInv, HubTyped, SendsToOpen, Sections, Conns
<1>2. CASE Len(q) < HubBuffer
  <2> DEFINE c == [conn[s] EXCEPT !.queue = Append(q, e)]
             u == [pub[p] EXCEPT !.todo = @ \ {s}]
  <2>1. conn' = [conn EXCEPT ![s] = c] /\ pub' = [pub EXCEPT ![p] = u]
    BY <1>2 DEF Send
  <2>2. /\ Append(q, e) \in Seq(Events) /\ Len(Append(q, e)) = Len(q) + 1
        /\ Range(Append(q, e)) = Range(q) \cup {e}
    <3>1. /\ Append(q, e) \in Seq(Events) /\ Len(Append(q, e)) = Len(q) + 1
          /\ \A i \in 1 .. Len(q) : Append(q, e)[i] = q[i]
          /\ Append(q, e)[Len(q) + 1] = e
      BY <1>1, AppendProperties
    <3>2. /\ Len(q) \in Nat /\ DOMAIN q = 1 .. Len(q)
          /\ DOMAIN Append(q, e) = 1 .. Len(q) + 1
      BY <1>1, <3>1, LenProperties
    <3>3. 1 .. Len(q) + 1 = (1 .. Len(q)) \cup {Len(q) + 1}
      BY <3>2
    <3> QED BY <3>1, <3>2, <3>3 DEF Range
  <2>3. /\ c \in Conns /\ c.state = conn[s].state /\ c.queue = Append(q, e)
        /\ c.shown = conn[s].shown /\ c.due = conn[s].due
    BY <1>1, <2>2 DEF Conns
  <2>4. /\ u \in Pubs /\ u.stage = "scan" /\ u.event = e /\ u.dead = pub[p].dead
        /\ u.todo = pub[p].todo \ {s}
    BY <1>1 DEF Pubs
  <2> HIDE DEF c, u
  <2>5. /\ conn'[s] = c /\ pub'[p] = u
        /\ \A r \in Streams \ {s} : conn'[r] = conn[r]
        /\ \A r \in Publishers \ {p} : pub'[r] = pub[r]
    BY <2>1 DEF HubInv, HubTyped
  <2>6. HubTyped'
    BY <1>1, <2>1, <2>3, <2>4 DEF HubInv, HubTyped
  <2>7. Buffered'
    <3>1. Len(c.queue) <= HubBuffer
      <4>1. Len(q) \in Nat
        BY <1>1, LenProperties
      <4> QED BY <1>2, <2>2, <2>3, <4>1, EventHubConstants
    <3> QED BY <2>5, <3>1 DEF HubInv, Buffered
  <2>8. Subscribed' = Subscribed
    BY <2>3, <2>5 DEF Subscribed
  <2>9. SendsToOpen'
    BY <2>4, <2>5, <2>8 DEF HubInv, SendsToOpen
  <2>10. Sections'
    BY <1>1, <2>3, <2>4, <2>5 DEF HubInv, Sections
  <2>11. NoSilentGap'
    <3> SUFFICES ASSUME NEW t \in Subscribed, NEW d \in conn'[t].due
                 PROVE  \/ d \in conn'[t].shown \cup Range(conn'[t].queue)
                        \/ \E r \in Publishers :
                              t \in pub'[r].dead \/ (pub'[r].event = d /\ t \in pub'[r].todo)
      BY <2>8 DEF NoSilentGap
    <3>1. t \in Streams /\ d \in conn[t].due
      BY <2>3, <2>5 DEF Subscribed
    <3>2. CASE d \in conn[t].shown \cup Range(conn[t].queue)
      BY <2>2, <2>3, <2>5, <3>1, <3>2
    <3>3. ASSUME NEW r \in Publishers, t \in pub[r].dead
          PROVE  t \in pub'[r].dead
      BY <2>4, <2>5, <3>3
    <3>4. ASSUME NEW r \in Publishers, pub[r].event = d, t \in pub[r].todo
          PROVE  \/ d \in Range(conn'[t].queue)
                 \/ pub'[r].event = d /\ t \in pub'[r].todo
      BY <2>2, <2>3, <2>4, <2>5, <3>4
    <3> QED BY <3>1, <3>2, <3>3, <3>4 DEF HubInv, NoSilentGap
  <2> QED BY <2>6, <2>7, <2>9, <2>10, <2>11 DEF HubInv
<1>3. CASE ~(Len(q) < HubBuffer)
  <2> DEFINE u == [pub[p] EXCEPT !.todo = @ \ {s}, !.dead = @ \cup {s}]
  <2>1. conn' = conn /\ pub' = [pub EXCEPT ![p] = u]
    BY <1>3 DEF Send
  <2>2. /\ u \in Pubs /\ u.stage = "scan" /\ u.event = e /\ u.dead = pub[p].dead \cup {s}
        /\ u.todo = pub[p].todo \ {s}
    BY <1>1 DEF Pubs
  <2> HIDE DEF u
  <2>3. pub'[p] = u /\ \A r \in Publishers \ {p} : pub'[r] = pub[r]
    BY <2>1 DEF HubInv, HubTyped
  <2>4. HubTyped'
    BY <1>1, <2>1, <2>2 DEF HubInv, HubTyped
  <2>5. Buffered' /\ SendsToOpen'
    BY <2>1, <2>2, <2>3 DEF HubInv, Buffered, SendsToOpen, Subscribed
  <2>6. Sections'
    BY <1>1, <2>1, <2>2, <2>3 DEF HubInv, Sections
  <2>7. NoSilentGap'
    BY <2>1, <2>2, <2>3 DEF HubInv, NoSilentGap, Subscribed
  <2> QED BY <2>4, <2>5, <2>6, <2>7 DEF HubInv
<1> QED BY <1>2, <1>3

\* The read section closes with no send left.
LEMMA EndScanInv ==
    ASSUME HubInv, NEW p \in Publishers, EndScan(p)
    PROVE  HubInv'
<1>1. /\ pub[p] \in Pubs /\ pub[p].stage = "scan" /\ pub[p].todo = {} /\ pub[p].event \in Events
      /\ conn' = conn /\ events' = events
  BY DEF EndScan, HubInv, HubTyped, Sections
<1>2. PICK u \in Pubs : /\ pub' = [pub EXCEPT ![p] = u]
                        /\ u.todo = {} /\ u.dead = pub[p].dead
                        /\ u.stage = "idle" => u.dead = {}
                        /\ u.stage = "drop" => u.event \in Events
                        /\ u.stage # "scan"
  <2>1. CASE pub[p].dead = {}
    BY <2>1, BlankHub DEF EndScan
  <2>2. CASE pub[p].dead # {}
    <3> DEFINE u == [pub[p] EXCEPT !.stage = "drop"]
    <3>1. /\ u \in Pubs /\ u.todo = {} /\ u.dead = pub[p].dead /\ u.stage = "drop"
          /\ u.event \in Events
      BY <1>1 DEF Pubs
    <3>2. pub' = [pub EXCEPT ![p] = u]
      BY <2>2 DEF EndScan
    <3> QED BY <3>1, <3>2
  <2> QED BY <2>1, <2>2
<1>3. pub'[p] = u /\ \A r \in Publishers \ {p} : pub'[r] = pub[r]
  BY <1>2 DEF HubInv, HubTyped
<1>4. HubTyped' /\ Buffered'
  BY <1>1, <1>2 DEF HubInv, HubTyped, Buffered
<1>5. SendsToOpen'
  BY <1>1, <1>2, <1>3 DEF HubInv, SendsToOpen, Subscribed
<1>6. Sections'
  BY <1>1, <1>2, <1>3 DEF HubInv, Sections, Pubs
<1>7. NoSilentGap'
  BY <1>1, <1>2, <1>3 DEF HubInv, NoSilentGap, Subscribed
<1> QED BY <1>4, <1>5, <1>6, <1>7 DEF HubInv

\* The write section throws out every connection on the list, also one that
\* has read its queue empty, or been sent more, since it was listed.
LEMMA DropDeadInv ==
    ASSUME HubInv, NEW p \in Publishers, DropDead(p)
    PROVE  HubInv'
<1> DEFINE gone == pub[p].dead \cap Subscribed
<1>1. /\ WriteLockFree /\ events' = events
      /\ pub' = [pub EXCEPT ![p] = NoPublish]
      /\ conn' = [s \in Streams |-> IF s \in gone THEN [conn[s] EXCEPT !.state = "shut"]
                                                  ELSE conn[s]]
  BY DEF DropDead, Shut
<1>2. pub'[p] = NoPublish /\ \A r \in Publishers \ {p} : pub'[r] = pub[r]
  BY <1>1 DEF HubInv, HubTyped
<1>3. \A s \in gone : /\ conn'[s] \in Conns /\ conn'[s].state = "shut"
                      /\ conn'[s].queue = conn[s].queue
  <2> SUFFICES ASSUME NEW s \in gone
               PROVE  /\ conn'[s] \in Conns /\ conn'[s].state = "shut"
                      /\ conn'[s].queue = conn[s].queue
    OBVIOUS
  <2>1. s \in Streams /\ conn[s] \in Conns
    BY DEF HubInv, HubTyped, Subscribed
  <2>2. conn'[s] = [conn[s] EXCEPT !.state = "shut"]
    BY <1>1, <2>1
  <2> QED BY <2>1, <2>2 DEF Conns
<1>4. \A s \in Streams \ gone : conn'[s] = conn[s]
  BY <1>1
<1> HIDE DEF gone
<1>5. HubTyped'
  <2>1. \A s \in Streams : conn'[s] \in Conns
    BY <1>3, <1>4 DEF HubInv, HubTyped
  <2>2. conn' \in [Streams -> Conns]
    BY <1>1, <2>1
  <2> QED BY <1>1, <2>2, BlankHub DEF HubInv, HubTyped
<1>6. Buffered'
  BY <1>3, <1>4 DEF HubInv, Buffered
<1>7. \A r \in Publishers : pub'[r].todo = {}
  BY <1>1, <1>2, LockFree, BlankHub
<1>8. SendsToOpen'
  BY <1>7 DEF SendsToOpen
<1>9. Sections'
  <2>1. \A s \in Streams : conn'[s].state = "none" => conn'[s].due = {}
    BY <1>3, <1>4 DEF HubInv, Sections
  <2> QED BY <1>2, <1>7, <2>1, BlankHub DEF HubInv, Sections
<1>10. NoSilentGap'
  <2> SUFFICES ASSUME NEW s \in Subscribed', NEW d \in conn'[s].due
               PROVE  \/ d \in conn'[s].shown \cup Range(conn'[s].queue)
                      \/ \E r \in Publishers : s \in pub'[r].dead
    BY DEF NoSilentGap
  <2>1. s \in Streams \ gone /\ conn'[s] = conn[s] /\ s \in Subscribed
    BY <1>3, <1>4 DEF Subscribed
  <2>2. s \notin pub[p].dead
    BY <2>1 DEF gone
  <2>3. \A r \in Publishers : pub[r].todo = {}
    BY <1>1, LockFree
  <2> QED BY <1>2, <2>1, <2>2, <2>3 DEF HubInv, NoSilentGap
<1> QED BY <1>5, <1>6, <1>8, <1>9, <1>10 DEF HubInv

-----------------------------------------------------------------------------
LEMMA HubInvStep == HubInv /\ [HubNext]_hubVars => HubInv'
<1> SUFFICES ASSUME HubInv, [HubNext]_hubVars PROVE HubInv'
  OBVIOUS
<1>1. ASSUME NEW p \in Publishers,
             HubPublish(p) \/ EndScan(p) \/ DropDead(p) \/ \E s \in Streams : Send(p, s)
      PROVE  HubInv'
  BY <1>1, HubPublishInv, EndScanInv, DropDeadInv, SendInv
<1>2. ASSUME NEW s \in Streams, Subscribe(s) \/ Show(s) \/ NoticeShut(s) \/ Unsubscribe(s)
      PROVE  HubInv'
  BY <1>2, SubscribeInv, ShowInv, GoneInv
<1>3. CASE UNCHANGED hubVars
  BY <1>3 DEF hubVars, HubInv, HubTyped, Buffered, SendsToOpen, Subscribed, Sections, NoSilentGap
<1> QED BY <1>1, <1>2, <1>3 DEF HubNext

\* No publisher ever sends on a closed channel, which would panic, however
\* the sections of the publishers and the closers interleave; and no queue
\* grows past its buffer.
THEOREM HubTypeCorrect == HubSpec => []HubTypeOK
<1>1. HubInv => HubTypeOK
  BY HubTypeParts DEF HubInv
<1> QED BY <1>1, HubFirst, HubInvStep, PTL DEF HubSpec

\* An event that an open tab missed is on its way to throwing the tab out,
\* however much the tab has caught up since.
THEOREM GapsAreSignalled == HubSpec => []NoSilentGap
<1>1. HubInv => NoSilentGap
  BY DEF HubInv
<1> QED BY <1>1, HubFirst, HubInvStep, PTL DEF HubSpec

-----------------------------------------------------------------------------
(***************************************************************************)
(* Metrics: a sample is what the last scrape saw, for every number of      *)
(* posts, days and re-samplings.  The inductive invariant follows a value  *)
(* from the ranking to the row it is stored in again, and from one day's   *)
(* window to the next.                                                     *)
(***************************************************************************)
SamplesTyped ==
    /\ today \in Samples /\ before \in Samples /\ latest \in Samples /\ tick \in Samples
    /\ seen \in [now : Samples, ago : Samples]
    /\ stale \in [now : SUBSET Watched, ago : SUBSET Watched]
    /\ met \in SUBSET Watched /\ fired \in SUBSET Watched
    /\ days \in 0 .. MaxDays

TickIsCurrent ==
    \A p \in Watched \ (met \cup stale.now) : tick[p] # Unseen => tick[p] = seen.now[p]

WindowsAreObserved ==
    /\ \A p \in Watched : today[p] \in {Unseen, latest[p]}
    /\ \A p \in Watched \ stale.ago : before[p] # Unseen => before[p] = seen.ago[p]

MetricsInv == SamplesTyped /\ LatestIsObserved /\ TickIsCurrent /\ WindowsAreObserved

LEMMA MetricsTypes == SamplesTyped <=> MetricsTypeOK
BY DEF SamplesTyped, MetricsTypeOK

LEMMA InitMetrics == MetricsInit => MetricsInv
<1> SUFFICES ASSUME MetricsInit PROVE MetricsInv
  OBVIOUS
<1>1. NoSample \in Samples /\ \A p \in Watched : NoSample[p] = Unseen
  BY DEF NoSample, Samples
<1>2. SamplesTyped
  BY <1>1, MetricsConstants DEF MetricsInit, SamplesTyped
<1>3. LatestIsObserved /\ TickIsCurrent /\ WindowsAreObserved
  BY <1>1 DEF MetricsInit, LatestIsObserved, TickIsCurrent, WindowsAreObserved
<1> QED BY <1>2, <1>3 DEF MetricsInv

LEMMA ObserveMetrics ==
    ASSUME MetricsInv, NEW p \in Watched, Observe(p)
    PROVE  MetricsInv'
<1> USE DEF MetricsInv, SamplesTyped
<1>1. PICK v \in Views :
        /\ today' = [today EXCEPT ![p] = v] /\ latest' = [latest EXCEPT ![p] = v]
        /\ seen' = [seen EXCEPT !.now[p] = v]
        /\ stale' = [stale EXCEPT !.now = @ \ {p}]
        /\ met' = IF tick[p] # Unseen THEN met \cup {p} ELSE met
        /\ UNCHANGED <<before, tick, fired, days>>
  BY DEF Observe, CreateMetricSnapshot
<1>2. /\ seen'.now = [seen.now EXCEPT ![p] = v] /\ seen'.ago = seen.ago
      /\ seen' = [now |-> seen'.now, ago |-> seen'.ago]
      /\ stale'.now = stale.now \ {p} /\ stale'.ago = stale.ago
      /\ stale' = [now |-> stale'.now, ago |-> stale'.ago]
  BY <1>1
<1>3. /\ today' \in Samples /\ latest' \in Samples /\ seen'.now \in Samples
      /\ today'[p] = v /\ latest'[p] = v /\ seen'.now[p] = v
      /\ \A q \in Watched \ {p} : /\ today'[q] = today[q] /\ latest'[q] = latest[q]
                                  /\ seen'.now[q] = seen.now[q]
  BY <1>1, <1>2 DEF Samples
<1>4. SamplesTyped'
  BY <1>1, <1>2, <1>3
<1>5. LatestIsObserved'
  BY <1>2, <1>3 DEF LatestIsObserved
<1>6. TickIsCurrent'
  BY <1>1, <1>2, <1>3 DEF TickIsCurrent
<1>7. WindowsAreObserved'
  BY <1>1, <1>2, <1>3 DEF WindowsAreObserved
<1> QED BY <1>4, <1>5, <1>6, <1>7

LEMMA ResampleMetrics ==
    ASSUME MetricsInv, NEW p \in Watched, Resample(p)
    PROVE  MetricsInv'
<1> USE DEF MetricsInv, SamplesTyped
<1>1. /\ tick[p] \in Views \cup {Unseen} /\ tick' = [tick EXCEPT ![p] = Unseen]
      /\ met' = met \ {p}
      /\ UNCHANGED <<before, seen, fired, days>>
  BY DEF Resample, Samples
<1>2. /\ tick' \in Samples /\ tick'[p] = Unseen
      /\ \A q \in Watched \ {p} : tick'[q] = tick[q]
  BY <1>1 DEF Samples
<1>3. CASE UNCHANGED <<today, latest, stale>>
  <2>1. TickIsCurrent'
    BY <1>1, <1>2, <1>3 DEF TickIsCurrent
  <2> QED BY <2>1, <1>1, <1>2, <1>3 DEF LatestIsObserved, WindowsAreObserved
<1>4. CASE /\ CreateMetricSnapshot(p, tick[p])
           /\ stale' = [stale EXCEPT !.now = IF p \in met THEN @ \cup {p} ELSE @]
  <2>1. /\ today' \in Samples /\ latest' \in Samples
        /\ today'[p] = tick[p] /\ latest'[p] = tick[p]
        /\ \A q \in Watched \ {p} : today'[q] = today[q] /\ latest'[q] = latest[q]
    BY <1>1, <1>4 DEF CreateMetricSnapshot, Samples
  <2>2. /\ stale'.now = IF p \in met THEN stale.now \cup {p} ELSE stale.now
        /\ stale'.ago = stale.ago
        /\ stale' = [now |-> stale'.now, ago |-> stale'.ago]
    BY <1>4
  <2>3. SamplesTyped'
    BY <1>1, <1>2, <2>1, <2>2
  <2>4. LatestIsObserved'
    <3>1. tick[p] # Unseen
      BY DEF Resample
    <3> QED BY <3>1, <1>1, <2>1, <2>2 DEF LatestIsObserved, TickIsCurrent
  <2>5. TickIsCurrent'
    BY <1>1, <1>2, <2>2 DEF TickIsCurrent
  <2>6. WindowsAreObserved'
    BY <1>1, <2>1, <2>2 DEF WindowsAreObserved
  <2> QED BY <2>3, <2>4, <2>5, <2>6
<1> QED BY <1>3, <1>4 DEF Resample

LEMMA AggregateMetrics ==
    ASSUME MetricsInv, StartAggregate
    PROVE  MetricsInv'
<1> USE DEF MetricsInv, SamplesTyped
<1>1. PICK top \in SUBSET Watched :
        tick' = [p \in Watched |-> IF p \in top THEN latest[p] ELSE Unseen]
  BY DEF StartAggregate, TopPostsByMetric
<1>2. tick' \in Samples
  BY <1>1 DEF Samples
<1>3. TickIsCurrent'
  BY <1>1 DEF StartAggregate, TickIsCurrent, LatestIsObserved
<1> QED BY <1>2, <1>3 DEF StartAggregate, LatestIsObserved, WindowsAreObserved

LEMMA EvaluateMetrics ==
    ASSUME MetricsInv, Evaluate
    PROVE  MetricsInv'
BY DEF MetricsInv, SamplesTyped, Evaluate, LatestIsObserved, TickIsCurrent, WindowsAreObserved

LEMMA DayMetrics ==
    ASSUME MetricsInv, DayPasses
    PROVE  MetricsInv'
<1> USE DEF MetricsInv, SamplesTyped
<1>1. /\ seen'.now = seen.now /\ seen'.ago = seen.now
      /\ seen' = [now |-> seen'.now, ago |-> seen'.ago]
      /\ stale'.now = stale.now /\ stale'.ago = stale.now
      /\ stale' = [now |-> stale'.now, ago |-> stale'.ago]
  BY DEF DayPasses
<1>2. NoSample \in Samples /\ \A p \in Watched : NoSample[p] = Unseen
  BY DEF NoSample, Samples
<1>3. SamplesTyped'
  BY <1>1, <1>2, MetricsConstants DEF DayPasses
<1>4. LatestIsObserved' /\ TickIsCurrent'
  BY <1>1 DEF DayPasses, LatestIsObserved, TickIsCurrent
<1>5. WindowsAreObserved'
  BY <1>1, <1>2 DEF DayPasses, WindowsAreObserved, LatestIsObserved
<1> QED BY <1>3, <1>4, <1>5

LEMMA MetricsStep == MetricsInv /\ [MetricsNext]_metricsVars => MetricsInv'
<1> SUFFICES ASSUME MetricsInv, [MetricsNext]_metricsVars PROVE MetricsInv'
  OBVIOUS
<1>1. CASE UNCHANGED metricsVars
  BY <1>1 DEF metricsVars, MetricsInv, SamplesTyped, LatestIsObserved, TickIsCurrent,
              WindowsAreObserved
<1> QED BY <1>1, ObserveMetrics, ResampleMetrics, AggregateMetrics, EvaluateMetrics, DayMetrics
        DEF MetricsNext

\* Samples, rankings and alerts keep their shape (every action).
THEOREM MetricsTypeCorrect == MetricsSpec => []MetricsTypeOK
<1>1. MetricsInv => MetricsTypeOK
  BY MetricsTypes DEF MetricsInv
<1> QED BY <1>1, InitMetrics, MetricsStep, PTL DEF MetricsSpec

\* The last sample of a post is what its last scrape saw, unless the aggregator
\* stored an older value over it (Observe, StartAggregate, Resample).
THEOREM SamplesAreObserved == MetricsSpec => []LatestIsObserved
<1>1. MetricsInv => LatestIsObserved
  BY DEF MetricsInv
<1> QED BY <1>1, InitMetrics, MetricsStep, PTL DEF MetricsSpec

\* A views-drop alert is about two samples a scrape took, unless the aggregator
\* stored one of them over a newer one (Evaluate, DayPasses).
THEOREM AlertsAreReal == MetricsSpec => AlertIsReal
<1> DEFINE Real == \A p \in fired' \ fired :
              \/ p \in stale.now \cup stale.ago
              \/ /\ seen.ago[p] # Unseen /\ 2 * seen.now[p] < seen.ago[p]
                 /\ seen.now[p] # 0
<1>1. ASSUME MetricsInv, [MetricsNext]_metricsVars PROVE Real
  <2>1. CASE Evaluate
    <3> SUFFICES ASSUME NEW p \in Watched, Drops(p), p \notin stale.now \cup stale.ago
                 PROVE  /\ seen.ago[p] # Unseen /\ 2 * seen.now[p] < seen.ago[p]
                        /\ seen.now[p] # 0
      BY <2>1 DEF Evaluate
    <3>1. today[p] = seen.now[p] /\ before[p] = seen.ago[p]
      BY <1>1 DEF Drops, Comparable, MetricsInv, LatestIsObserved, WindowsAreObserved
    <3> QED BY <3>1 DEF Drops, Comparable
  <2>2. CASE ~ Evaluate
    <3>1. fired' \subseteq fired
      BY <1>1, <2>2 DEF MetricsNext, metricsVars, Observe, Resample, StartAggregate, DayPasses
    <3> QED BY <3>1
  <2> QED BY <2>1, <2>2
<1>2. MetricsInv /\ [MetricsNext]_metricsVars => Real
  BY <1>1
<1> QED BY <1>2, InitMetrics, MetricsStep, PTL DEF MetricsSpec, AlertIsReal

-----------------------------------------------------------------------------
(***************************************************************************)
(* Analytics: the verdict of a run, for every number of accounts, passes   *)
(* and runs.  The inductive invariant says of every pass under way what    *)
(* its counters, its list and its row of analytics_ingest_run have to do   *)
(* with each other at each of its steps.                                   *)
(***************************************************************************)
OfficialRows == [status : OfficialStatuses \cup {"none"}, metrics : BOOLEAN,
                 mentions : BOOLEAN, fetched : {"never", "old", "fresh"}]
PassRows == [at : {"idle", "open", "health", "next", "metrics", "mentions", "touch", "close"},
             todo : SUBSET Monitored, on : Monitored \cup {NoMonitored},
             ok : 0 .. BatchSize, err : 0 .. BatchSize, run : 0 .. MaxIngests,
             sick : BOOLEAN, cut : BOOLEAN]
RunRows == [status : IngestStatuses \cup {"none"}, ok : 0 .. BatchSize, err : 0 .. BatchSize,
            listed : SUBSET Monitored, got : SUBSET Monitored]

AtWork == {"metrics", "mentions", "touch"}
InRun == {"health", "next", "close"} \cup AtWork

\* The account a pass is at.
Current(p) == IF p.at \in AtWork THEN {p.on} ELSE {}

\* How far a pass is, and what its run has recorded.
Agree(p, r) ==
    /\ r.status = "RUNNING"
    /\ p.ok = Cardinality(r.got)
    /\ p.at \in AtWork => p.on \in Monitored
    /\ (p.todo \cup Current(p)) \cap r.got = {} /\ Current(p) \cap p.todo = {}
    /\ p.err = 0 => r.listed = (r.got \cup p.todo) \cup Current(p)
    /\ p.err > 0 => \E m \in r.listed : m \notin (r.got \cup p.todo) \cup Current(p)
    /\ p.at = "health" => r.got = {}
    /\ p.sick => r.got = {} /\ p.at = "close"
    /\ p.at = "close" /\ ~ p.cut /\ ~ p.sick => p.todo = {}
    /\ p.ok + p.err + Cardinality(p.todo \cup Current(p)) <= BatchSize

\* An account's data is in by the step that follows.
DataIn(p, off) ==
    /\ p.at \in {"mentions", "touch"} => off[p.on].metrics
    /\ p.at = "touch" => off[p.on].mentions

\* A pass that has no run yet.
Resting(p) ==
    /\ p.at = "idle" => p = IngestIdle
    /\ p.at = "open" => /\ p.ok = 0 /\ p.err = 0 /\ (p.sick => p.todo = {})
                        /\ Cardinality(p.todo) <= BatchSize

\* A verdict a run is closed with.
VerdictTrue(r) ==
    r.status \in Closed =>
        /\ r.ok = Cardinality(r.got)
        /\ r.status = "SUCCESS" => r.got = r.listed
        /\ r.status = "FAILED" => r.got = {}
        /\ r.status = "PARTIAL" => r.got # {} /\ r.got # r.listed

HasData(row) == row.fetched # "never" => row.metrics /\ row.mentions

RowsTyped ==
    /\ official \in [Monitored -> OfficialRows]
    /\ ingest \in [Ingests -> PassRows]
    /\ irun \in [IRuns -> RunRows]
    /\ opened \in 0 .. MaxIngests

PassesAgree ==
    \A i \in Ingests :
        /\ Resting(ingest[i])
        /\ ingest[i].at \in InRun => /\ ingest[i].run \in 1 .. opened
                                     /\ Agree(ingest[i], irun[ingest[i].run])
        /\ DataIn(ingest[i], official)

RunsApart ==
    \A i, k \in Ingests :
        ingest[i].at \in InRun /\ ingest[k].at \in InRun /\ ingest[i].run = ingest[k].run => i = k

RunsTrue ==
    \A r \in IRuns : /\ r > opened => irun[r].status = "none"
                     /\ VerdictTrue(irun[r])

DataStored == \A m \in Monitored : HasData(official[m])

AnalyticsInv == RowsTyped /\ PassesAgree /\ RunsApart /\ RunsTrue /\ DataStored

LEMMA AnalyticsTypes == RowsTyped <=> AnalyticsTypeOK
BY DEF RowsTyped, AnalyticsTypeOK, OfficialRows, PassRows, RunRows

LEMMA Listable ==
    ASSUME NEW S \in SUBSET Monitored
    PROVE  /\ IsFiniteSet(S) /\ Cardinality(S) \in Nat
           /\ \A x : /\ Cardinality(S \cup {x}) = IF x \in S THEN Cardinality(S)
                                                  ELSE Cardinality(S) + 1
                     /\ Cardinality(S \ {x}) = IF x \in S THEN Cardinality(S) - 1
                                               ELSE Cardinality(S)
           /\ Cardinality(S) = 0 <=> S = {}
BY AnalyticsConstants, FS_Subset, FS_CardinalityType, FS_AddElement, FS_RemoveElement, FS_EmptySet

LEMMA InitAnalytics == AnalyticsInit => AnalyticsInv
<1> SUFFICES ASSUME AnalyticsInit PROVE AnalyticsInv
  OBVIOUS
<1>1. NoOfficial \in OfficialRows /\ HasData(NoOfficial)
  BY DEF NoOfficial, OfficialRows, HasData
<1>2. IngestIdle \in PassRows /\ Resting(IngestIdle) /\ IngestIdle.at = "idle"
  BY AnalyticsConstants DEF IngestIdle, PassRows, Resting
<1>3. NoRun \in RunRows /\ NoRun.status = "none"
  BY AnalyticsConstants DEF NoRun, RunRows
<1>4. RowsTyped
  BY <1>1, <1>2, <1>3, AnalyticsConstants DEF AnalyticsInit, RowsTyped
<1>5. PassesAgree /\ RunsApart
  BY <1>2 DEF AnalyticsInit, PassesAgree, RunsApart, InRun, AtWork, DataIn
<1>6. RunsTrue /\ DataStored
  BY <1>1, <1>3 DEF AnalyticsInit, RunsTrue, DataStored, VerdictTrue, Closed, IngestStatuses
<1> QED BY <1>4, <1>5, <1>6 DEF AnalyticsInv

-----------------------------------------------------------------------------
\* What a pass has stored is not taken back.
LEMMA OfficialMoves ==
    ASSUME AnalyticsInv, NEW m \in Monitored, NEW o \in OfficialRows,
           official' = [official EXCEPT ![m] = o],
           official[m].metrics => o.metrics, official[m].mentions => o.mentions,
           HasData(o)
    PROVE  /\ official' \in [Monitored -> OfficialRows] /\ DataStored'
           /\ \A n \in Monitored : /\ official[n].metrics => official'[n].metrics
                                   /\ official[n].mentions => official'[n].mentions
<1>1. /\ official \in [Monitored -> OfficialRows] /\ official'[m] = o
      /\ \A n \in Monitored \ {m} : official'[n] = official[n]
  BY DEF AnalyticsInv, RowsTyped
<1>2. DataStored'
  BY <1>1 DEF AnalyticsInv, DataStored
<1> QED BY <1>1, <1>2

LEMMA DataStaysIn ==
    ASSUME AnalyticsInv, NEW i \in Ingests,
           \A n \in Monitored : /\ official[n].metrics => official'[n].metrics
                                /\ official[n].mentions => official'[n].mentions
    PROVE  DataIn(ingest[i], official')
<1>1. ingest[i].at \in AtWork => ingest[i].on \in Monitored
  BY DEF AnalyticsInv, PassesAgree, Agree, InRun
<1> QED BY <1>1 DEF AnalyticsInv, PassesAgree, DataIn, AtWork

LEMMA OperatorAnalytics ==
    ASSUME AnalyticsInv, NEW m \in Monitored,
           CreateOfficialAccount(m) \/ ArchiveOfficialAccount(m) \/ GrowStale(m)
    PROVE  AnalyticsInv'
<1>1. official[m] \in OfficialRows /\ HasData(official[m])
  BY DEF AnalyticsInv, RowsTyped, DataStored
<1>2. UNCHANGED <<ingest, irun, opened>>
  BY DEF CreateOfficialAccount, ArchiveOfficialAccount, GrowStale
<1>3. PICK o : /\ o \in {[official[m] EXCEPT !.status = "ACTIVE"],
                         [official[m] EXCEPT !.status = "ARCHIVED"],
                         [official[m] EXCEPT !.fetched = "old"]}
               /\ official[m].fetched = "fresh"
                    \/ o \in {[official[m] EXCEPT !.status = "ACTIVE"],
                              [official[m] EXCEPT !.status = "ARCHIVED"]}
               /\ official' = [official EXCEPT ![m] = o]
  BY DEF CreateOfficialAccount, ArchiveOfficialAccount, GrowStale, createOfficialAccount,
         archiveOfficialAccount
<1>4. /\ o \in OfficialRows /\ HasData(o)
      /\ o.metrics = official[m].metrics /\ o.mentions = official[m].mentions
  BY <1>1, <1>3 DEF OfficialRows, HasData, OfficialStatuses
<1>5. /\ official' \in [Monitored -> OfficialRows] /\ DataStored'
      /\ \A n \in Monitored : /\ official[n].metrics => official'[n].metrics
                              /\ official[n].mentions => official'[n].mentions
  BY <1>3, <1>4, OfficialMoves
<1>6. \A i \in Ingests : DataIn(ingest[i], official')
  BY <1>5, DataStaysIn
<1>7. RowsTyped'
  BY <1>2, <1>5 DEF AnalyticsInv, RowsTyped
<1>8. PassesAgree' /\ RunsApart' /\ RunsTrue'
  BY <1>2, <1>6 DEF AnalyticsInv, PassesAgree, RunsApart, RunsTrue
<1> QED BY <1>5, <1>7, <1>8 DEF AnalyticsInv

\* A pass without a run moves on, or ends.
LEMMA RestMoves ==
    ASSUME AnalyticsInv, NEW i \in Ingests, NEW p \in PassRows,
           ingest' = [ingest EXCEPT ![i] = p], UNCHANGED <<official, irun, opened>>,
           p.at \notin InRun, Resting(p)
    PROVE  AnalyticsInv'
<1>1. /\ ingest \in [Ingests -> PassRows] /\ ingest'[i] = p
      /\ \A k \in Ingests \ {i} : ingest'[k] = ingest[k]
  BY DEF AnalyticsInv, RowsTyped
<1>2. RowsTyped'
  BY <1>1 DEF AnalyticsInv, RowsTyped
<1>3. PassesAgree'
  BY <1>1 DEF AnalyticsInv, PassesAgree, DataIn, InRun, AtWork
<1>4. RunsApart'
  BY <1>1 DEF AnalyticsInv, RunsApart
<1>5. RunsTrue' /\ DataStored'
  BY DEF AnalyticsInv, RunsTrue, DataStored
<1> QED BY <1>2, <1>3, <1>4, <1>5 DEF AnalyticsInv

\* A pass moves on in its run, whose row becomes r.
LEMMA PassMoves ==
    ASSUME AnalyticsInv, NEW i \in Ingests, NEW p \in PassRows, NEW r \in RunRows,
           ingest[i].at \in InRun,
           ingest' = [ingest EXCEPT ![i] = p],
           irun' = [irun EXCEPT ![ingest[i].run] = r],
           opened' = opened,
           official' \in [Monitored -> OfficialRows], DataStored',
           \A n \in Monitored : /\ official[n].metrics => official'[n].metrics
                                /\ official[n].mentions => official'[n].mentions,
           p.at # "open", Resting(p), DataIn(p, official'),
           p.at \in InRun => p.run = ingest[i].run /\ Agree(p, r),
           VerdictTrue(r)
    PROVE  AnalyticsInv'
<1> DEFINE n == ingest[i].run
<1>1. n \in 1 .. opened /\ n \in IRuns /\ opened \in 0 .. MaxIngests
  BY AnalyticsConstants DEF AnalyticsInv, PassesAgree, RowsTyped, IRuns
<1>2. /\ ingest \in [Ingests -> PassRows] /\ ingest'[i] = p
      /\ \A k \in Ingests \ {i} : ingest'[k] = ingest[k]
  BY DEF AnalyticsInv, RowsTyped
<1>3. /\ irun \in [IRuns -> RunRows] /\ irun'[n] = r
      /\ \A q \in IRuns \ {n} : irun'[q] = irun[q]
  BY <1>1 DEF AnalyticsInv, RowsTyped
<1>4. \A k \in Ingests \ {i} : ingest[k].at \in InRun =>
         /\ ingest[k].run \in 1 .. opened /\ ingest[k].run \in IRuns \ {n}
  BY <1>1, AnalyticsConstants DEF AnalyticsInv, PassesAgree, RunsApart, IRuns
<1>5. RowsTyped'
  BY <1>2, <1>3, <1>1 DEF AnalyticsInv, RowsTyped
<1>6. PassesAgree'
  <2>1. Resting(ingest'[i]) /\ DataIn(ingest'[i], official')
    BY <1>2
  <2>2. ingest'[i].at \in InRun => /\ ingest'[i].run \in 1 .. opened'
                                   /\ Agree(ingest'[i], irun'[ingest'[i].run])
    BY <1>1, <1>2, <1>3
  <2>3. ASSUME NEW k \in Ingests \ {i}
        PROVE  /\ Resting(ingest'[k]) /\ DataIn(ingest'[k], official')
               /\ ingest'[k].at \in InRun => /\ ingest'[k].run \in 1 .. opened'
                                             /\ Agree(ingest'[k], irun'[ingest'[k].run])
    <3>1. DataIn(ingest[k], official')
      BY DataStaysIn
    <3> QED BY <1>2, <1>3, <1>4, <3>1 DEF AnalyticsInv, PassesAgree
  <2> QED BY <2>1, <2>2, <2>3 DEF PassesAgree
<1>7. RunsApart'
  BY <1>2 DEF AnalyticsInv, RunsApart
<1>8. RunsTrue'
  BY <1>1, <1>3 DEF AnalyticsInv, RunsTrue
<1> QED BY <1>5, <1>6, <1>7, <1>8 DEF AnalyticsInv

\* The same, while the tables stay.
LEMMA PassMovesAlone ==
    ASSUME AnalyticsInv, NEW i \in Ingests, NEW p \in PassRows,
           ingest[i].at \in InRun,
           ingest' = [ingest EXCEPT ![i] = p], UNCHANGED <<official, irun, opened>>,
           p.at # "open", Resting(p), DataIn(p, official),
           p.at \in InRun => p.run = ingest[i].run /\ Agree(p, irun[ingest[i].run])
    PROVE  AnalyticsInv'
<1>1. ingest[i].run \in IRuns /\ irun \in [IRuns -> RunRows]
  BY AnalyticsConstants DEF AnalyticsInv, PassesAgree, RowsTyped, IRuns
<1>2. /\ irun[ingest[i].run] \in RunRows /\ VerdictTrue(irun[ingest[i].run])
      /\ irun' = [irun EXCEPT ![ingest[i].run] = irun[ingest[i].run]]
  BY <1>1 DEF AnalyticsInv, RunsTrue
<1>3. official' \in [Monitored -> OfficialRows] /\ DataStored'
  BY DEF AnalyticsInv, RowsTyped, DataStored
<1>4. \A n \in Monitored : /\ official[n].metrics => official'[n].metrics
                           /\ official[n].mentions => official'[n].mentions
  OBVIOUS
<1>5. DataIn(p, official')
  OBVIOUS
<1> QED BY <1>2, <1>3, <1>4, <1>5, PassMoves

\* The types of a pass and its run, spelt out.
LEMMA PassTypes ==
    ASSUME AnalyticsInv, NEW i \in Ingests, ingest[i].at \in InRun
    PROVE  /\ ingest[i] \in PassRows /\ ingest[i].run \in IRuns
           /\ irun[ingest[i].run] \in RunRows
           /\ Agree(ingest[i], irun[ingest[i].run])
           /\ IsFiniteSet(ingest[i].todo \cup Current(ingest[i]))
           /\ Cardinality(ingest[i].todo \cup Current(ingest[i])) \in Nat
<1>1. ingest[i] \in PassRows /\ ingest[i].run \in IRuns /\ Agree(ingest[i], irun[ingest[i].run])
  BY AnalyticsConstants DEF AnalyticsInv, PassesAgree, RowsTyped, IRuns
<1>2. ingest[i].todo \cup Current(ingest[i]) \in SUBSET Monitored
  BY <1>1 DEF PassRows, Agree, Current
<1>3. irun[ingest[i].run] \in RunRows
  BY <1>1 DEF AnalyticsInv, RowsTyped
<1> QED BY <1>1, <1>2, <1>3, Listable

-----------------------------------------------------------------------------
LEMMA IdlePass ==
    /\ IngestIdle \in PassRows /\ IngestIdle.at = "idle" /\ IngestIdle.at \notin InRun
    /\ Resting(IngestIdle) /\ DataIn(IngestIdle, official) /\ DataIn(IngestIdle, official')
BY AnalyticsConstants DEF IngestIdle, PassRows, InRun, AtWork, Resting, DataIn

LEMMA StartAnalytics ==
    ASSUME AnalyticsInv, NEW i \in Ingests, StartIngest(i)
    PROVE  AnalyticsInv'
<1>1. ingest[i] = IngestIdle /\ ingest \in [Ingests -> PassRows]
  BY DEF AnalyticsInv, PassesAgree, Resting, StartIngest, RowsTyped
<1>2. CASE \E some \in ListForIngest :
             ingest' = [ingest EXCEPT ![i].at = "open", ![i].todo = some]
  <2>1. PICK some \in ListForIngest :
             ingest' = [ingest EXCEPT ![i].at = "open", ![i].todo = some]
    BY <1>2
  <2>2. some \in SUBSET Monitored /\ Cardinality(some) <= BatchSize
    <3>1. PICK active \in SUBSET Monitored :
            /\ some \in SUBSET active
            /\ Cardinality(some) = Smaller(BatchSize, Cardinality(active))
      BY DEF ListForIngest
    <3>2. Cardinality(active) \in Nat
      BY Listable
    <3> QED BY <3>1, <3>2, AnalyticsConstants DEF Smaller
  <2> DEFINE p == [IngestIdle EXCEPT !.at = "open", !.todo = some]
  <2>3. ingest' = [ingest EXCEPT ![i] = p]
    BY <1>1, <2>1
  <2>4. p \in PassRows
    BY <2>2, IdlePass DEF PassRows
  <2>5. p.at = "open" /\ p.todo = some /\ p.ok = 0 /\ p.err = 0 /\ p.sick = FALSE
    BY DEF IngestIdle
  <2> HIDE DEF p
  <2>6. p.at \notin InRun /\ Resting(p)
    BY <2>2, <2>5 DEF InRun, AtWork, Resting
  <2> QED BY <2>3, <2>4, <2>6, RestMoves DEF StartIngest
<1>3. CASE ingest' = [ingest EXCEPT ![i].at = "open", ![i].sick = TRUE]
  <2> DEFINE p == [IngestIdle EXCEPT !.at = "open", !.sick = TRUE]
  <2>1. ingest' = [ingest EXCEPT ![i] = p]
    BY <1>1, <1>3
  <2>2. p \in PassRows
    BY IdlePass DEF PassRows
  <2>3. p.at = "open" /\ p.todo = {} /\ p.ok = 0 /\ p.err = 0
    BY DEF IngestIdle
  <2> HIDE DEF p
  <2>4. p.at \notin InRun /\ Resting(p)
    BY <2>3, FS_EmptySet, AnalyticsConstants DEF InRun, AtWork, Resting
  <2> QED BY <2>1, <2>2, <2>4, RestMoves DEF StartIngest
<1> QED BY <1>2, <1>3 DEF StartIngest

\* A run is opened under a number nobody has.
LEMMA OpenAnalytics ==
    ASSUME AnalyticsInv, NEW i \in Ingests, CreateIngestRun(i)
    PROVE  AnalyticsInv'
<1>1. /\ ingest \in [Ingests -> PassRows] /\ ingest[i] \in PassRows
      /\ ingest[i].at = "open" /\ Resting(ingest[i]) /\ UNCHANGED official
  BY DEF AnalyticsInv, PassesAgree, RowsTyped, CreateIngestRun
<1>2. CASE EndPass(i) /\ UNCHANGED <<irun, opened>>
  BY <1>1, <1>2, IdlePass, RestMoves DEF EndPass
<1>3. CASE /\ ~ ingest[i].cut /\ opened < MaxIngests
           /\ opened' = opened + 1
           /\ irun' = [irun EXCEPT ![opened + 1] = createAnalyticsIngestRun(ingest[i].todo)]
           /\ ingest' = [ingest EXCEPT
                ![i].at = IF ingest[i].sick \/ ingest[i].todo = {} THEN "close" ELSE "health",
                ![i].run = opened + 1]
  <2> DEFINE n == opened + 1
             p == [ingest[i] EXCEPT
                     !.at = IF ingest[i].sick \/ ingest[i].todo = {} THEN "close" ELSE "health",
                     !.run = n]
             r == createAnalyticsIngestRun(ingest[i].todo)
  <2>1. /\ opened \in 0 .. MaxIngests /\ n \in IRuns /\ n \in 0 .. MaxIngests /\ n > opened
        /\ n \in 1 .. n /\ opened' = n
    BY <1>3, AnalyticsConstants DEF AnalyticsInv, RowsTyped, IRuns
  <2>2. /\ p \in PassRows /\ p.run = n /\ p.at \in {"close", "health"} /\ p.todo = ingest[i].todo
        /\ p.ok = 0 /\ p.err = 0 /\ p.sick = ingest[i].sick /\ p.cut = ingest[i].cut
        /\ p.at = "close" <=> ingest[i].sick \/ ingest[i].todo = {}
    BY <1>1, <2>1 DEF PassRows, Resting
  <2>3. /\ r \in RunRows /\ r.status = "RUNNING" /\ r.listed = ingest[i].todo /\ r.got = {}
    <3>1. NoRun \in RunRows /\ NoRun.got = {} /\ ingest[i].todo \in SUBSET Monitored
      BY <1>1, AnalyticsConstants DEF NoRun, RunRows, PassRows
    <3>2. r = [NoRun EXCEPT !.status = "RUNNING", !.listed = ingest[i].todo]
      BY DEF createAnalyticsIngestRun
    <3> HIDE DEF r
    <3> QED BY <3>1, <3>2 DEF RunRows, IngestStatuses
  <2>4. ingest' = [ingest EXCEPT ![i] = p] /\ irun' = [irun EXCEPT ![n] = r]
    BY <1>1, <1>3
  <2> HIDE DEF n, p, r
  <2>5. /\ ingest'[i] = p /\ irun'[n] = r
        /\ \A k \in Ingests \ {i} : ingest'[k] = ingest[k]
        /\ \A q \in IRuns \ {n} : irun'[q] = irun[q]
    BY <1>1, <2>1, <2>4 DEF AnalyticsInv, RowsTyped
  <2>6. p.at \in InRun /\ p.at \notin AtWork /\ Current(p) = {}
    BY <2>2 DEF InRun, AtWork, Current
  <2>7. Agree(p, r)
    <3>1. Cardinality({}) = 0 /\ Cardinality(p.todo) \in Nat /\ Cardinality(p.todo) <= BatchSize
      BY <1>1, <2>2, FS_EmptySet, Listable DEF PassRows, Resting
    <3>2. p.todo \cup Current(p) = p.todo /\ (r.got \cup p.todo) \cup Current(p) = r.listed
      BY <2>2, <2>3, <2>6
    <3> QED BY <2>2, <2>3, <2>6, <3>1, <3>2, AnalyticsConstants DEF Agree
  <2>8. Resting(p) /\ DataIn(p, official) /\ VerdictTrue(r)
    BY <2>2, <2>3 DEF Resting, DataIn, VerdictTrue, Closed, IngestStatuses
  <2>9. RowsTyped'
    BY <1>1, <2>1, <2>2, <2>3, <2>4 DEF AnalyticsInv, RowsTyped
  <2>10. \A k \in Ingests \ {i} : ingest[k].at \in InRun =>
            /\ ingest[k].run \in 1 .. n /\ ingest[k].run \in IRuns \ {n}
    BY <2>1, AnalyticsConstants DEF AnalyticsInv, PassesAgree, IRuns, n
  <2>11. PassesAgree'
    BY <1>1, <2>1, <2>2, <2>5, <2>7, <2>8, <2>10 DEF AnalyticsInv, PassesAgree
  <2>12. RunsApart'
    BY <2>2, <2>5, <2>10 DEF AnalyticsInv, RunsApart
  <2>13. RunsTrue' /\ DataStored'
    BY <1>1, <2>1, <2>3, <2>5, <2>8 DEF AnalyticsInv, RunsTrue, DataStored, IRuns
  <2> QED BY <2>9, <2>11, <2>12, <2>13 DEF AnalyticsInv
<1> QED BY <1>2, <1>3 DEF CreateIngestRun

\* A pass whose list, account and counters stay.
LEMMA AgreeStays ==
    ASSUME NEW p, NEW q, NEW r, Agree(p, r),
           q.todo = p.todo, q.ok = p.ok, q.err = p.err, Current(q) = Current(p),
           q.at \in AtWork => p.at \in AtWork /\ q.on = p.on,
           q.at = "health" => p.at = "health",
           q.sick => r.got = {} /\ q.at = "close",
           q.at = "close" /\ ~ q.cut /\ ~ q.sick => q.todo = {}
    PROVE  Agree(q, r)
BY DEF Agree

LEMMA HealthAnalytics ==
    ASSUME AnalyticsInv, NEW i \in Ingests, Health(i)
    PROVE  AnalyticsInv'
<1> DEFINE p == ingest[i]  r == irun[p.run]
<1>1. /\ ingest[i].at = "health" /\ ingest[i].at \in InRun /\ UNCHANGED <<official, irun, opened>>
  BY DEF Health, InRun
<1>2. p \in PassRows /\ Agree(p, r)
  BY <1>1, PassTypes
<1>3. PICK q : /\ q \in {[p EXCEPT !.at = "next"], [p EXCEPT !.at = "close", !.sick = TRUE]}
               /\ ingest' = [ingest EXCEPT ![i] = q]
  <2>1. ingest' \in {[ingest EXCEPT ![i] = [p EXCEPT !.at = "next"]],
                     [ingest EXCEPT ![i] = [p EXCEPT !.at = "close", !.sick = TRUE]]}
    BY DEF Health, Phase
  <2> QED BY <2>1
<1>4. /\ q \in PassRows /\ q.todo = p.todo /\ q.ok = p.ok /\ q.err = p.err /\ q.run = p.run
      /\ \/ q.at = "next" /\ q.sick = p.sick
         \/ q.at = "close" /\ q.sick = TRUE
  BY <1>2, <1>3 DEF PassRows
<1>5. ~ p.sick /\ r.got = {} /\ p.at \notin AtWork
  BY <1>1, <1>2 DEF Agree, AtWork
<1>6. Agree(q, r)
  <2>1. Current(q) = {} /\ Current(p) = {}
    BY <1>4, <1>5 DEF Current, AtWork
  <2> QED BY <1>2, <1>4, <1>5, <2>1, AgreeStays DEF AtWork
<1>7. q.at # "open" /\ Resting(q) /\ DataIn(q, official)
  BY <1>4 DEF Resting, DataIn
<1> HIDE DEF p
<1> QED BY <1>1, <1>3, <1>4, <1>6, <1>7, PassMovesAlone DEF p

LEMMA NextAnalytics ==
    ASSUME AnalyticsInv, NEW i \in Ingests, NextAccount(i)
    PROVE  AnalyticsInv'
<1> DEFINE p == ingest[i]  r == irun[p.run]
<1>1. /\ p.at = "next" /\ p.at \in InRun /\ p.at \notin AtWork
      /\ UNCHANGED <<official, irun, opened>>
  BY DEF NextAccount, InRun, AtWork
<1>2. /\ p \in PassRows /\ r \in RunRows /\ Agree(p, r) /\ Current(p) = {}
      /\ IsFiniteSet(p.todo) /\ Cardinality(p.todo) \in Nat
  BY <1>1, PassTypes, Listable DEF Current, PassRows
<1>3. CASE (p.todo = {} \/ p.cut) /\ Phase(i, "close")
  <2> DEFINE q == [p EXCEPT !.at = "close"]
  <2>1. /\ ingest' = [ingest EXCEPT ![i] = q]
    BY <1>3 DEF Phase
  <2>2. /\ q \in PassRows /\ q.at = "close" /\ q.todo = p.todo /\ q.ok = p.ok /\ q.err = p.err
        /\ q.run = p.run /\ q.sick = p.sick /\ q.cut = p.cut
    BY <1>2 DEF PassRows
  <2> HIDE DEF q
  <2>3. Agree(q, r)
    <3>1. ~ p.sick
      BY <1>1, <1>2 DEF Agree
    <3>2. Current(q) = {}
      BY <2>2 DEF Current, AtWork
    <3> QED BY <1>2, <1>3, <2>2, <3>1, <3>2, AgreeStays DEF AtWork
  <2>4. q.at # "open" /\ Resting(q) /\ DataIn(q, official)
    BY <2>2 DEF Resting, DataIn
  <2> HIDE DEF p
  <2> QED BY <1>1, <2>1, <2>2, <2>3, <2>4, PassMovesAlone DEF p
<1>4. ASSUME NEW m \in p.todo,
             ingest' = [ingest EXCEPT ![i].at = "metrics", ![i].on = m, ![i].todo = @ \ {m}]
      PROVE  AnalyticsInv'
  <2> DEFINE q == [p EXCEPT !.at = "metrics", !.on = m, !.todo = p.todo \ {m}]
  <2>1. ingest' = [ingest EXCEPT ![i] = q]
    BY <1>4
  <2>2. m \in Monitored
    BY <1>2 DEF PassRows
  <2>3. /\ q \in PassRows /\ q.at = "metrics" /\ q.on = m /\ q.todo = p.todo \ {m}
        /\ q.ok = p.ok /\ q.err = p.err /\ q.run = p.run /\ q.sick = p.sick /\ q.cut = p.cut
    BY <1>2, <2>2 DEF PassRows
  <2> HIDE DEF q
  <2>4. Current(q) = {m} /\ q.todo \cup Current(q) = p.todo \cup Current(p)
    BY <1>2, <2>3 DEF Current, AtWork
  <2>5. Agree(q, r)
    <3>1. (r.got \cup q.todo) \cup Current(q) = (r.got \cup p.todo) \cup Current(p)
      BY <2>4
    <3>2. ~ p.sick
      BY <1>1, <1>2 DEF Agree
    <3> QED BY <1>2, <2>2, <2>3, <2>4, <3>1, <3>2 DEF Agree
  <2>6. q.at # "open" /\ Resting(q) /\ DataIn(q, official)
    BY <2>3 DEF Resting, DataIn
  <2> HIDE DEF p
  <2> QED BY <1>1, <2>1, <2>3, <2>5, <2>6, PassMovesAlone DEF p
<1> QED BY <1>3, <1>4 DEF NextAccount

LEMMA FailAnalytics ==
    ASSUME AnalyticsInv, NEW i \in Ingests, AccountFails(i)
    PROVE  AnalyticsInv'
<1> DEFINE p == ingest[i]  r == irun[p.run]  q == [p EXCEPT !.at = "next", !.err = p.err + 1]
<1>1. /\ p.at \in AtWork /\ p.at \in InRun /\ UNCHANGED <<official, irun, opened>>
      /\ ingest' = [ingest EXCEPT ![i] = q]
  BY DEF AccountFails, InRun, AtWork
<1>2. /\ p \in PassRows /\ r \in RunRows /\ Agree(p, r) /\ Current(p) = {p.on}
      /\ p.on \in Monitored /\ p.on \notin p.todo
  BY <1>1, PassTypes DEF Current, Agree
<1>3. /\ Cardinality(p.todo) \in Nat
      /\ Cardinality(p.todo \cup Current(p)) = Cardinality(p.todo) + 1
  BY <1>2, Listable DEF PassRows
<1>4. p.ok \in Nat /\ p.err \in Nat /\ p.ok + (p.err + 1) + Cardinality(p.todo) <= BatchSize
  BY <1>2, <1>3, AnalyticsConstants DEF Agree, PassRows
<1>5. p.err + 1 \in 0 .. BatchSize
  BY <1>3, <1>4, AnalyticsConstants
<1>6. /\ q \in PassRows /\ q.at = "next" /\ q.todo = p.todo /\ q.ok = p.ok /\ q.err = p.err + 1
      /\ q.run = p.run /\ q.sick = p.sick /\ q.cut = p.cut
  BY <1>2, <1>5 DEF PassRows
<1> HIDE DEF q
<1>7. Agree(q, r)
  <2>1. Current(q) = {} /\ q.at \notin AtWork
    BY <1>6 DEF Current, AtWork
  <2>2. ~ p.sick
    BY <1>1, <1>2 DEF Agree, AtWork
  <2>3. \E m \in r.listed : m \notin (r.got \cup q.todo) \cup Current(q)
    <3>1. CASE p.err = 0
      <4>1. p.on \in r.listed /\ p.on \notin r.got
        BY <1>2, <3>1 DEF Agree
      <4> QED BY <1>2, <1>6, <2>1, <4>1
    <3>2. CASE p.err > 0
      BY <1>2, <1>6, <2>1, <3>2 DEF Agree
    <3> QED BY <1>4, <3>1, <3>2
  <2>4. q.todo \cup Current(q) = p.todo
    BY <1>6, <2>1
  <2>5. q.ok + q.err + Cardinality(q.todo \cup Current(q)) <= BatchSize
    BY <1>4, <1>6, <2>4
  <2>6. /\ r.status = "RUNNING" /\ q.ok = Cardinality(r.got) /\ q.todo \cap r.got = {}
    BY <1>2, <1>6 DEF Agree
  <2> QED BY <1>4, <1>6, <2>1, <2>2, <2>3, <2>4, <2>5, <2>6 DEF Agree
<1>8. q.at # "open" /\ Resting(q) /\ DataIn(q, official)
  BY <1>6 DEF Resting, DataIn
<1> HIDE DEF p
<1> QED BY <1>1, <1>6, <1>7, <1>8, PassMovesAlone DEF p

\* The two upserts.
LEMMA UpsertAnalytics ==
    ASSUME AnalyticsInv, NEW i \in Ingests, UpsertSnapshot(i) \/ UpsertMentions(i)
    PROVE  AnalyticsInv'
<1> DEFINE p == ingest[i]  r == irun[p.run]  o == official[p.on]
<1>1. p.at \in AtWork /\ p.at \in InRun /\ UNCHANGED <<irun, opened>>
  BY DEF UpsertSnapshot, UpsertMentions, InRun, AtWork
<1>2. /\ p \in PassRows /\ r \in RunRows /\ Agree(p, r) /\ p.on \in Monitored /\ p.run \in IRuns
  BY <1>1, PassTypes DEF Agree
<1>3. /\ o \in OfficialRows /\ HasData(o) /\ irun' = [irun EXCEPT ![p.run] = r]
      /\ irun \in [IRuns -> RunRows]
  BY <1>1, <1>2 DEF AnalyticsInv, RowsTyped, DataStored
<1>4. PICK at, c : /\ \/ at = "mentions" /\ c = [o EXCEPT !.metrics = TRUE] /\ p.at = "metrics"
                      \/ at = "touch" /\ c = [o EXCEPT !.mentions = TRUE] /\ p.at = "mentions"
                   /\ ingest' = [ingest EXCEPT ![i] = [p EXCEPT !.at = at]]
                   /\ official' = [official EXCEPT ![p.on] = c]
  <2>1. CASE UpsertSnapshot(i)
    BY <2>1 DEF UpsertSnapshot, Phase, upsertAnalyticsSnapshot
  <2>2. CASE UpsertMentions(i)
    BY <2>2 DEF UpsertMentions, Phase, upsertAnalyticsMention
  <2> QED BY <2>1, <2>2
<1>5. /\ c \in OfficialRows /\ HasData(c) /\ (o.metrics => c.metrics) /\ (o.mentions => c.mentions)
      /\ at = "mentions" => c.metrics
      /\ at = "touch" => c.mentions /\ c.metrics = o.metrics
  BY <1>3, <1>4 DEF OfficialRows, HasData
<1> DEFINE q == [p EXCEPT !.at = at]
<1>6. /\ q \in PassRows /\ q.at = at /\ q.todo = p.todo /\ q.ok = p.ok /\ q.err = p.err
      /\ q.run = p.run /\ q.sick = p.sick /\ q.cut = p.cut /\ q.on = p.on
  BY <1>2, <1>4 DEF PassRows
<1>7. ingest' = [ingest EXCEPT ![i] = q]
  BY <1>4
<1> HIDE DEF q
<1>8. Agree(q, r)
  <2>1. q.at \in AtWork /\ Current(q) = Current(p)
    BY <1>1, <1>4, <1>6 DEF Current, AtWork
  <2>2. ~ p.sick
    BY <1>1, <1>2 DEF Agree, AtWork
  <2> QED BY <1>1, <1>2, <1>6, <2>1, <2>2, AgreeStays DEF AtWork
<1>9. DataIn(p, official)
  BY DEF AnalyticsInv, PassesAgree
<1>10. official'[p.on] = c
  BY <1>2, <1>4 DEF AnalyticsInv, RowsTyped
<1>11. q.at # "open" /\ Resting(q) /\ DataIn(q, official')
  BY <1>4, <1>5, <1>6, <1>9, <1>10 DEF Resting, DataIn
<1>12. /\ official' \in [Monitored -> OfficialRows] /\ DataStored'
       /\ \A n \in Monitored : /\ official[n].metrics => official'[n].metrics
                               /\ official[n].mentions => official'[n].mentions
  BY <1>2, <1>4, <1>5, OfficialMoves
<1>13. VerdictTrue(r)
  BY <1>2 DEF AnalyticsInv, RunsTrue
<1> HIDE DEF p, r
<1> QED BY <1>1, <1>2, <1>3, <1>6, <1>7, <1>8, <1>11, <1>12, <1>13, PassMoves DEF p

LEMMA TouchAnalytics ==
    ASSUME AnalyticsInv, NEW i \in Ingests, TouchFetched(i)
    PROVE  AnalyticsInv'
<1> DEFINE p == ingest[i]  r == irun[p.run]  o == official[p.on]
           q == [p EXCEPT !.at = "next", !.ok = p.ok + 1]
           s == [r EXCEPT !.got = r.got \cup {p.on}]
           c == [o EXCEPT !.fetched = "fresh"]
<1>1. /\ p.at = "touch" /\ p.at \in AtWork /\ p.at \in InRun /\ opened' = opened
      /\ ingest' = [ingest EXCEPT ![i] = q]
      /\ irun' = [irun EXCEPT ![p.run] = s]
      /\ official' = [official EXCEPT ![p.on] = c]
  BY DEF TouchFetched, InRun, AtWork, touchOfficialAccountFetched
<1>2. /\ p \in PassRows /\ r \in RunRows /\ Agree(p, r) /\ Current(p) = {p.on}
      /\ p.on \in Monitored /\ p.on \notin p.todo /\ p.on \notin r.got /\ p.run \in IRuns
  BY <1>1, PassTypes DEF Current, Agree
<1>3. /\ Cardinality(p.todo) \in Nat
      /\ Cardinality(p.todo \cup Current(p)) = Cardinality(p.todo) + 1
      /\ Cardinality(r.got \cup {p.on}) = Cardinality(r.got) + 1
  BY <1>2, Listable DEF PassRows, RunRows
<1>4. p.ok \in Nat /\ p.err \in Nat /\ (p.ok + 1) + p.err + Cardinality(p.todo) <= BatchSize
  BY <1>2, <1>3, AnalyticsConstants DEF Agree, PassRows
<1>5. p.ok + 1 \in 0 .. BatchSize
  BY <1>3, <1>4, AnalyticsConstants
<1>6. /\ q \in PassRows /\ q.at = "next" /\ q.todo = p.todo /\ q.ok = p.ok + 1 /\ q.err = p.err
      /\ q.run = p.run /\ q.sick = p.sick /\ q.cut = p.cut
  BY <1>2, <1>5 DEF PassRows
<1>7. /\ s \in RunRows /\ s.status = r.status /\ s.listed = r.listed /\ s.got = r.got \cup {p.on}
  BY <1>2 DEF RunRows
<1>8. /\ o \in OfficialRows /\ DataIn(p, official)
  BY <1>2 DEF AnalyticsInv, RowsTyped, PassesAgree
<1>9. /\ c \in OfficialRows /\ HasData(c) /\ c.metrics = o.metrics /\ c.mentions = o.mentions
  BY <1>1, <1>8 DEF OfficialRows, HasData, DataIn
<1> HIDE DEF q, s, c
<1>10. Agree(q, s)
  <2>1. Current(q) = {} /\ q.at \notin AtWork
    BY <1>6 DEF Current, AtWork
  <2>2. ~ p.sick
    BY <1>1, <1>2 DEF Agree
  <2>3. q.todo \cup Current(q) = p.todo /\ q.todo \cap s.got = {}
        /\ (s.got \cup q.todo) \cup Current(q) = (r.got \cup p.todo) \cup Current(p)
    BY <1>2, <1>6, <1>7, <2>1 DEF Agree
  <2>4. q.ok + q.err + Cardinality(q.todo \cup Current(q)) <= BatchSize
    BY <1>4, <1>6, <2>3
  <2>5. s.status = "RUNNING" /\ q.ok = Cardinality(s.got)
    BY <1>2, <1>3, <1>6, <1>7 DEF Agree
  <2>6. /\ q.err = 0 => s.listed = (s.got \cup q.todo) \cup Current(q)
        /\ q.err > 0 => \E m \in s.listed : m \notin (s.got \cup q.todo) \cup Current(q)
    BY <1>2, <1>6, <1>7, <2>3 DEF Agree
  <2> QED BY <1>6, <2>1, <2>2, <2>3, <2>4, <2>5, <2>6 DEF Agree
<1>11. q.at # "open" /\ Resting(q) /\ DataIn(q, official')
  BY <1>6 DEF Resting, DataIn
<1>12. /\ official' \in [Monitored -> OfficialRows] /\ DataStored'
       /\ \A n \in Monitored : /\ official[n].metrics => official'[n].metrics
                               /\ official[n].mentions => official'[n].mentions
  BY <1>1, <1>2, <1>9, OfficialMoves
<1>13. VerdictTrue(s)
  BY <1>2, <1>7 DEF Agree, VerdictTrue, Closed, IngestStatuses
<1> HIDE DEF p, r
<1> QED BY <1>1, <1>6, <1>7, <1>10, <1>11, <1>12, <1>13, PassMoves DEF p

\* A run is closed with a verdict that is true, or not at all.
LEMMA CloseAnalytics ==
    ASSUME AnalyticsInv, NEW i \in Ingests, CloseRun(i)
    PROVE  AnalyticsInv'
<1> DEFINE p == ingest[i]  r == irun[p.run]
           s == updateAnalyticsIngestRun(r, Verdict(i), p.ok, p.err)
<1>1. /\ p.at = "close" /\ p.at \in InRun /\ UNCHANGED <<official, opened>>
      /\ ingest' = [ingest EXCEPT ![i] = IngestIdle]
  BY DEF CloseRun, EndPass, InRun
<1>2. /\ p \in PassRows /\ r \in RunRows /\ Agree(p, r) /\ Current(p) = {}
  BY <1>1, PassTypes DEF Current, AtWork
<1>3. CASE UNCHANGED irun
  BY <1>1, <1>3, IdlePass, PassMovesAlone
<1>4. CASE ~ p.cut /\ Close(i)
  <2>1. irun' = [irun EXCEPT ![p.run] = s]
    BY <1>4 DEF Close
  <2>2. /\ s \in RunRows /\ s.status = Verdict(i) /\ s.ok = p.ok
        /\ s.listed = r.listed /\ s.got = r.got
    BY <1>2 DEF updateAnalyticsIngestRun, RunRows, PassRows, Verdict, IngestStatuses
  <2>3. VerdictTrue(s)
    <3>1. p.ok = Cardinality(r.got) /\ (p.ok = 0 <=> r.got = {})
      BY <1>2, Listable DEF Agree, RunRows
    <3>2. p.err \in Nat
      BY <1>2 DEF PassRows
    <3>3. CASE p.sick
      <4>1. r.got = {} /\ s.status = "FAILED"
        BY <1>2, <2>2, <3>3 DEF Agree, Verdict
      <4> QED BY <2>2, <3>1, <4>1 DEF VerdictTrue
    <3>4. CASE ~ p.sick
      <4>1. p.todo = {}
        <5>1. p.at = "close" /\ ~ p.cut
          BY <1>1, <1>4
        <5>2. p.at = "close" /\ ~ p.cut /\ ~ p.sick => p.todo = {}
          BY Zenon, <1>2 DEF Agree
        <5> QED BY Zenon, <3>4, <5>1, <5>2
      <4>2. CASE p.err = 0
        <5>1. r.listed = r.got
          BY <1>2, <4>1, <4>2 DEF Agree
        <5> QED BY <2>2, <3>1, <3>4, <4>2, <5>1 DEF VerdictTrue, Verdict
      <4>3. CASE p.err > 0
        <5>1. r.listed # r.got
          BY <1>2, <4>3 DEF Agree
        <5>2. s.status = IF p.ok = 0 THEN "FAILED" ELSE "PARTIAL"
          BY <2>2, <3>2, <3>4, <4>3 DEF Verdict
        <5> QED BY <2>2, <3>1, <5>1, <5>2 DEF VerdictTrue
      <4> QED BY <3>2, <4>2, <4>3
    <3> QED BY <3>3, <3>4
  <2>4. official' \in [Monitored -> OfficialRows] /\ DataStored'
    BY <1>1 DEF AnalyticsInv, RowsTyped, DataStored
  <2>5. \A n \in Monitored : /\ official[n].metrics => official'[n].metrics
                             /\ official[n].mentions => official'[n].mentions
    BY <1>1
  <2> HIDE DEF s
  <2> QED BY <1>1, <2>1, <2>2, <2>3, <2>4, <2>5, IdlePass, PassMoves
<1> QED BY <1>3, <1>4 DEF CloseRun

LEMMA CutAnalytics ==
    ASSUME AnalyticsInv, NEW i \in Ingests, Cut(i)
    PROVE  AnalyticsInv'
<1> DEFINE p == ingest[i]  r == irun[p.run]  q == [p EXCEPT !.cut = TRUE]
<1>1. /\ p \in PassRows /\ p.at # "idle" /\ UNCHANGED <<official, irun, opened>>
      /\ ingest' = [ingest EXCEPT ![i] = q] /\ Resting(p) /\ DataIn(p, official)
  BY DEF Cut, AnalyticsInv, RowsTyped, PassesAgree
<1>2. /\ q \in PassRows /\ q.at = p.at /\ q.todo = p.todo /\ q.ok = p.ok /\ q.err = p.err
      /\ q.run = p.run /\ q.sick = p.sick /\ q.cut = TRUE /\ q.on = p.on
  BY <1>1 DEF PassRows
<1> HIDE DEF q
<1>3. Resting(q) /\ DataIn(q, official)
  BY <1>1, <1>2 DEF Resting, DataIn
<1>4. CASE p.at \in InRun
  <2>1. Agree(p, r) /\ Current(q) = Current(p)
    BY <1>2, <1>4, PassTypes DEF Current
  <2>2. Agree(q, r)
    BY <1>2, <2>1 DEF Agree
  <2>3. q.at # "open"
    BY <1>2, <1>4 DEF InRun, AtWork
  <2> HIDE DEF p
  <2> QED BY <1>1, <1>2, <1>3, <1>4, <2>2, <2>3, PassMovesAlone DEF p
<1>5. CASE p.at \notin InRun
  BY <1>1, <1>2, <1>3, <1>5, RestMoves
<1> QED BY <1>4, <1>5

LEMMA AnalyticsStep == AnalyticsInv /\ [AnalyticsNext]_analyticsVars => AnalyticsInv'
<1> SUFFICES ASSUME AnalyticsInv, [AnalyticsNext]_analyticsVars PROVE AnalyticsInv'
  OBVIOUS
<1>1. CASE UNCHANGED analyticsVars
  BY <1>1 DEF analyticsVars, AnalyticsInv, RowsTyped, PassesAgree, RunsApart, RunsTrue, DataStored
<1> QED BY <1>1, OperatorAnalytics, StartAnalytics, OpenAnalytics, HealthAnalytics, NextAnalytics,
           FailAnalytics, UpsertAnalytics, TouchAnalytics, CloseAnalytics, CutAnalytics
        DEF AnalyticsNext

\* No counter of a run passes the batch, no pass writes to a run that is not
\* there.
THEOREM AnalyticsTypeCorrect == AnalyticsSpec => []AnalyticsTypeOK
<1>1. AnalyticsInv => AnalyticsTypeOK
  BY AnalyticsTypes DEF AnalyticsInv
<1> QED BY <1>1, InitAnalytics, AnalyticsStep, PTL DEF AnalyticsSpec

\* What a closed run says of its accounts is true, whatever failed and whenever
\* its pass was cut (NextAccount, AccountFails, CloseRun).
THEOREM RunVerdictsAreTrue == AnalyticsSpec => []RunVerdictIsTrue
<1>1. AnalyticsInv => RunVerdictIsTrue
  BY DEF AnalyticsInv, RunsTrue, VerdictTrue, RunVerdictIsTrue
<1> QED BY <1>1, InitAnalytics, AnalyticsStep, PTL DEF AnalyticsSpec

\* An account that counts as fetched has its data, and a badge that is not
\* stale stands beside the numbers of a monitored account (Overview).
THEOREM FetchedHasData == AnalyticsSpec => []FetchedMeansData
<1>1. AnalyticsInv => FetchedMeansData
  <2> SUFFICES ASSUME AnalyticsInv PROVE FetchedMeansData
    OBVIOUS
  <2> DEFINE active == {m \in listOfficialAccounts : official[m].status # "ARCHIVED"}
  <2>1. \A m \in Monitored :
          official[m].fetched # "never" => official[m].metrics /\ official[m].mentions
    BY DEF AnalyticsInv, DataStored, HasData
  <2>2. ASSUME ~ Overview.freshness.stale
        PROVE  \E k \in Overview.kpis : k.handle # NoMonitored
    <3>1. PICK m \in active : ~ IsStale(m)
      BY <2>2 DEF Overview, freshness
    <3>2. m \in Monitored /\ official[m].metrics
      BY <2>1, <3>1 DEF IsStale, listOfficialAccounts
    <3> DEFINE k == [account |-> m, handle |-> IF m \in active THEN m ELSE NoMonitored]
    <3>3. Overview.kpis = platformKPIs(analyticsOverviewByPlatform, active)
      BY <3>1 DEF Overview
    <3>4. k \in Overview.kpis
      BY <3>2, <3>3 DEF platformKPIs, analyticsOverviewByPlatform
    <3>5. k.handle = m /\ m # NoMonitored
      BY <3>1, <3>2, AnalyticsConstants
    <3> QED BY <3>4, <3>5
  <2> QED BY <2>1, <2>2 DEF FetchedMeansData
<1> QED BY <1>1, InitAnalytics, AnalyticsStep, PTL DEF AnalyticsSpec

=============================================================================
