------------------------------ MODULE EventHub ------------------------------
(***************************************************************************)
(* The dashboard's event stream.  Publish copies an event into the queue   *)
(* of every connection under the read lock, one non-blocking send each, so *)
(* publishers interleave; the connections whose queue was full are thrown  *)
(* out in a second section under the write lock, and another publisher may *)
(* slip in between the two.  A browser that reconnects is a connection of  *)
(* its own.                                                                *)
(***************************************************************************)
EXTENDS Integers, Sequences, SequencesExt, FiniteSets

CONSTANTS
    Streams,     \* connections, each used once
    Publishers,  \* handlers that may publish at once
    HubBuffer,   \* SSE_BUFFER, the length of a queue
    MaxEvents    \* bound: so many events are published

ASSUME EventHubConstants ==
    /\ IsFiniteSet(Streams) /\ IsFiniteSet(Publishers)
    /\ HubBuffer \in Nat \ {0} /\ MaxEvents \in Nat

VARIABLES
    conn,   \* connections: the channel, and what was shown of it
    pub,    \* the Publish calls in flight
    events  \* events published so far; they are numbered in this order

hubVars == <<conn, pub, events>>

Events == 1 .. MaxEvents
NoStream == [state |-> "none", queue |-> <<>>, shown |-> {}, due |-> {}]
NoPublish == [stage |-> "idle", event |-> 0, todo |-> {}, dead |-> {}]

HubInit ==
    /\ conn = [s \in Streams |-> NoStream]
    /\ pub = [p \in Publishers |-> NoPublish]
    /\ events = 0

-----------------------------------------------------------------------------
(***************************************************************************)
(* The connections in h.subs, and the lock around it.                      *)
(***************************************************************************)
Subscribed == {s \in Streams : conn[s].state = "open"}
WriteLockFree == \A p \in Publishers : pub[p].stage # "scan"

\* Delete from the table and close the channel, those that still are in it.
Shut(gone) ==
    conn' = [s \in Streams |->
                IF s \in gone \cap Subscribed THEN [conn[s] EXCEPT !.state = "shut"] ELSE conn[s]]

Subscribe(s) ==
    /\ conn[s].state = "none" /\ WriteLockFree
    /\ conn' = [conn EXCEPT ![s].state = "open"]
    /\ UNCHANGED <<pub, events>>

HubPublish(p) ==
    /\ pub[p].stage = "idle"
    /\ events < MaxEvents
    /\ events' = events + 1
    /\ pub' = [pub EXCEPT ![p] = [NoPublish EXCEPT !.stage = "scan", !.event = events + 1,
                                                   !.todo = Subscribed]]
    /\ conn' = [s \in Streams |-> IF s \in Subscribed
                                  THEN [conn[s] EXCEPT !.due = @ \cup {events + 1}] ELSE conn[s]]

\* select { case ch <- ev: default: dead = append(dead, ch) }
Send(p, s) ==
    /\ s \in pub[p].todo
    /\ IF Len(conn[s].queue) < HubBuffer
       THEN /\ conn' = [conn EXCEPT ![s].queue = Append(@, pub[p].event)]
            /\ pub' = [pub EXCEPT ![p].todo = @ \ {s}]
       ELSE /\ pub' = [pub EXCEPT ![p].todo = @ \ {s}, ![p].dead = @ \cup {s}]
            /\ UNCHANGED conn
    /\ UNCHANGED events

EndScan(p) ==
    /\ pub[p].stage = "scan" /\ pub[p].todo = {}
    /\ pub' = [pub EXCEPT ![p] = IF pub[p].dead = {} THEN NoPublish ELSE [@ EXCEPT !.stage = "drop"]]
    /\ UNCHANGED <<conn, events>>

\* Mutant: a laggard that has caught up by now is spared.
DropLaggards(p) ==
    /\ pub[p].stage = "drop" /\ WriteLockFree
    /\ Shut({s \in pub[p].dead : Len(conn[s].queue) = HubBuffer})
    /\ pub' = [pub EXCEPT ![p] = NoPublish]
    /\ UNCHANGED events

DropDead(p) ==
    /\ pub[p].stage = "drop" /\ WriteLockFree
    /\ Shut(pub[p].dead)
    /\ pub' = [pub EXCEPT ![p] = NoPublish]
    /\ UNCHANGED events

-----------------------------------------------------------------------------
(***************************************************************************)
(* GET /stream.  A closed channel still hands out what is queued on it.    *)
(***************************************************************************)
Show(s) ==
    /\ conn[s].queue # <<>>
    /\ conn' = [conn EXCEPT ![s].queue = Tail(@), ![s].shown = @ \cup {Head(conn[s].queue)}]
    /\ UNCHANGED <<pub, events>>

\* The loop finds the channel closed and ends; the browser reconnects.
NoticeShut(s) ==
    /\ conn[s].state = "shut" /\ conn[s].queue = <<>>
    /\ conn' = [conn EXCEPT ![s] = [NoStream EXCEPT !.state = "gone"]]
    /\ UNCHANGED <<pub, events>>

\* The client goes, or a write to it fails: the closer runs.
Unsubscribe(s) ==
    /\ conn[s].state \in {"open", "shut"} /\ WriteLockFree
    /\ conn' = [conn EXCEPT ![s] = [NoStream EXCEPT !.state = "gone"]]
    /\ UNCHANGED <<pub, events>>

HubNext ==
    \/ \E p \in Publishers :
        HubPublish(p) \/ EndScan(p) \/ DropDead(p) \/ \E s \in Streams : Send(p, s)
    \/ \E s \in Streams : Subscribe(s) \/ Show(s) \/ NoticeShut(s) \/ Unsubscribe(s)

HubSpec == HubInit /\ [][HubNext]_hubVars

-----------------------------------------------------------------------------
(***************************************************************************)
(* Properties.                                                             *)
(***************************************************************************)

\* A publisher only ever has open channels left to send to - a send on a
\* closed one would panic - and no queue passes its buffer.
HubTypeOK ==
    /\ conn \in [Streams -> [state : {"none", "open", "shut", "gone"},
                             queue : Seq(Events), shown : SUBSET Events, due : SUBSET Events]]
    /\ pub \in [Publishers -> [stage : {"idle", "scan", "drop"}, event : 0 .. MaxEvents,
                               todo : SUBSET Streams, dead : SUBSET Streams]]
    /\ events \in 0 .. MaxEvents
    /\ \A s \in Streams : Len(conn[s].queue) <= HubBuffer
    /\ \A p \in Publishers : pub[p].todo \subseteq Subscribed

\* "A closed queue is a signal to reconnect": a tab that missed an event is
\* thrown out.  An event due to an open connection is shown, queued, about to
\* be sent - or some publisher has put the connection on its list of dead
\* ones, however much it has caught up or been sent since (Send, DropDead).
NoSilentGap ==
    \A s \in Subscribed : \A e \in conn[s].due :
        \/ e \in conn[s].shown \cup Range(conn[s].queue)
        \/ \E p \in Publishers : s \in pub[p].dead \/ (pub[p].event = e /\ s \in pub[p].todo)

=============================================================================
