--------------------------- MODULE AccountsProofs ---------------------------
(***************************************************************************)
(* Theorems about the accounts: the relay of sessions between the          *)
(* accounts and their containers (SessionRelay), and the requests that     *)
(* create, assign, pause and remove accounts (Accounts).                   *)
(***************************************************************************)
EXTENDS Accounts, SessionRelay, Functions, FiniteSetTheorems, TLAPS

-----------------------------------------------------------------------------
(***************************************************************************)
(* SessionRelay: an export is answered with a session of its own, for      *)
(* every number of requests, accounts and containers.                      *)
(***************************************************************************)
RequestRows == [kind : {"new", "export", "import", "input"},
                stage : {"new", "publish", "waiting", "answered", "failed"},
                login : Logins \cup {NoHolder}, holder : Holders \cup {NoHolder},
                chan : SUBSET Versions, answer : SUBSET Versions]

\* An export the container may have heard of.
Asked(r) == request[r].kind = "export" /\ request[r].stage \notin {"new", "publish"}

Addressed ==
    \A r \in Exports : request[r].stage \in {"publish", "waiting"} =>
        request[r].login \in Logins /\ request[r].holder \in Holders

\* What an answer may say: what the container has kept since it was asked, or
\* that there is no session.
Says(r) == kept[r] \cup {0}

\* Only an export that was asked is on its way, and while it waits what comes
\* back is of the time since then.
Underway ==
    /\ \A m \in wire : m.kind = "export" => Asked(m.id) /\ m.holder = request[m.id].holder
    /\ \A d \in dumps : Asked(d.id) /\ (d.id \in exports => d.session \in Says(d.id))
    /\ deliver # NoDelivery => /\ deliver.id \in Exports /\ Asked(deliver.id)
                               /\ deliver.session \in Says(deliver.id)

HandedOver ==
    \A r \in Exports :
        /\ r \in exports => file[request[r].holder] \in kept[r]
        /\ request[r].chan \subseteq Says(r)
        /\ ~ Asked(r) => request[r].chan = {} /\ request[r].answer = {}

RelayInv == RelayTypeOK /\ Addressed /\ Underway /\ HandedOver /\ ExportIsOwn

LEMMA RelayTypes ==
    ASSUME RelayTypeOK
    PROVE  /\ request \in [Exports -> RequestRows]
           /\ \A r \in Exports : request[r] \in RequestRows
           /\ \A m \in wire : /\ m.kind \in {"export", "import", "input"} /\ m.id \in Exports
                              /\ m.login \in Logins /\ m.holder \in Holders
                              /\ m.session \in Versions
           /\ \A d \in dumps : /\ d.id \in Exports /\ d.session \in Versions
                               /\ d.left \in 1 .. MaxPosts
BY DEF RelayTypeOK, RequestRows

LEMMA InitRelay == RelayInit => RelayInv
<1> SUFFICES ASSUME RelayInit PROVE RelayInv
  OBVIOUS
<1>1. NoRequest \in RequestRows
  BY DEF NoRequest, RequestRows
<1>2. 0 \in Versions /\ 1 \in Versions /\ 0 \in 0 .. MaxMoves
  BY SessionRelayConstants DEF Versions
<1>3. /\ \A r \in Exports : request[r] = NoRequest
      /\ request \in [Exports -> RequestRows] /\ exports = {} /\ wire = {} /\ dumps = {}
  BY <1>1 DEF RelayInit
<1>4. RelayTypeOK
  <2>1. exports = {r \in Exports : request[r].kind = "export" /\ request[r].stage = "waiting"}
    BY <1>3 DEF NoRequest
  <2>2. deliver \in [id : Exports \cup {NoHolder}, session : Versions]
    BY <1>2 DEF RelayInit, NoDelivery
  <2>3. /\ file \in [Holders -> Versions] /\ kept \in [Exports -> SUBSET Versions]
        /\ login \in [Logins -> Awaiting \cup {"AUTHENTICATED", "FAILED"}]
    BY <1>2 DEF RelayInit, Awaiting
  <2> QED BY <1>2, <1>3, <2>1, <2>2, <2>3 DEF RelayInit, RelayTypeOK, RequestRows
<1> QED BY <1>3, <1>4 DEF RelayInv, Addressed, Underway, HandedOver, ExportIsOwn, RelayInit, Says,
                         NoRequest, Asked

-----------------------------------------------------------------------------
\* A request that is new takes an account, or cannot.
LEMMA ReadRelay ==
    ASSUME RelayInv, NEW r \in Exports, NEW kind \in {"export", "import", "input"},
           NEW a \in Logins, Read(r, kind, a)
    PROVE  RelayInv'
<1> USE DEF RelayInv
<1> DEFINE c == [NoRequest EXCEPT !.kind = kind, !.login = a, !.holder = place[a],
             !.stage = IF place[a] = NoHolder \/ (kind = "input" /\ login[a] \notin Awaiting)
                       THEN "failed" ELSE "publish"]
<1>1. /\ request[r].stage = "new" /\ request' = [request EXCEPT ![r] = c]
      /\ UNCHANGED <<place, login, file, exports, wire, dumps, deliver, newest, moves, kept>>
  BY DEF Read
<1>2. /\ c \in RequestRows /\ c.chan = {} /\ c.answer = {}
      /\ c.login = a /\ c.stage \in {"failed", "publish"}
      /\ c.stage = "publish" => c.holder \in Holders
  BY DEF NoRequest, RequestRows, RelayTypeOK
<1> HIDE DEF c
<1>3. /\ request' \in [Exports -> RequestRows] /\ request'[r] = c
      /\ \A q \in Exports \ {r} : request'[q] = request[q]
  BY <1>1, <1>2, RelayTypes
<1>4. ~ Asked(r) /\ r \notin exports
  BY <1>1 DEF Asked, RelayTypeOK
<1>5. exports' = {q \in Exports : request'[q].kind = "export" /\ request'[q].stage = "waiting"}
  BY <1>1, <1>2, <1>3, <1>4 DEF RelayTypeOK
<1>6. RelayTypeOK'
  BY <1>1, <1>3, <1>5 DEF RelayTypeOK, RequestRows
<1>7. Addressed'
  BY <1>2, <1>3 DEF Addressed
<1>8. Underway'
  BY <1>1, <1>3, <1>4, RelayTypes DEF Underway, Asked, Says
<1>9. HandedOver' /\ ExportIsOwn'
  BY <1>1, <1>2, <1>3, <1>4 DEF HandedOver, ExportIsOwn, Asked, Says
<1> QED BY <1>6, <1>7, <1>8, <1>9

LEMMA AskExportRelay ==
    ASSUME RelayInv, NEW r \in Exports, AskExport(r)
    PROVE  RelayInv'
<1> USE DEF RelayInv
<1> DEFINE m == controlMessage(r, 0)  h == request[r].holder
<1>1. /\ request[r].kind = "export" /\ request[r].stage = "publish"
      /\ exports' = exports \cup {r}
      /\ request' = [request EXCEPT ![r].stage = "waiting"]
      /\ kept' = [kept EXCEPT ![r] = {file[h]}]
      /\ wire' \subseteq wire \cup {m}
      /\ UNCHANGED <<place, login, file, dumps, deliver, newest, moves>>
  BY DEF AskExport, registerExport, PublishControl
<1>2. h \in Holders /\ request[r].login \in Logins /\ file[h] \in Versions
  BY <1>1 DEF Addressed, RelayTypeOK
<1>3. /\ request' \in [Exports -> RequestRows]
      /\ request'[r] = [request[r] EXCEPT !.stage = "waiting"]
      /\ \A q \in Exports \ {r} : request'[q] = request[q]
  BY <1>1, RelayTypes DEF RequestRows
<1>4. /\ request'[r].kind = "export" /\ request'[r].stage = "waiting"
      /\ request'[r].holder = h /\ request'[r].login = request[r].login
      /\ request'[r].chan = {} /\ request'[r].answer = {}
  BY <1>1, <1>3, RelayTypes DEF RequestRows, HandedOver, Asked, Says
<1>5. kept' \in [Exports -> SUBSET Versions] /\ kept'[r] = {file[h]}
      /\ \A q \in Exports \ {r} : kept'[q] = kept[q]
  BY <1>1, <1>2 DEF RelayTypeOK
<1>6. /\ m.kind = "export" /\ m.id = r /\ m.holder = h
      /\ m \in [kind : {"export", "import", "input"}, id : Exports, login : Logins,
                       holder : Holders, session : Versions]
  BY <1>1, <1>2, SessionRelayConstants DEF controlMessage, Versions
<1>7. ~ Asked(r)
  BY <1>1 DEF Asked
<1> HIDE DEF m, h
<1>8. exports' = {q \in Exports : request'[q].kind = "export" /\ request'[q].stage = "waiting"}
  BY <1>1, <1>3, <1>4 DEF RelayTypeOK
<1>9. RelayTypeOK'
  <2>1. wire' \subseteq [kind : {"export", "import", "input"}, id : Exports, login : Logins,
                          holder : Holders, session : Versions]
    BY <1>1, <1>6 DEF RelayTypeOK
  <2> QED BY <1>1, <1>3, <1>5, <1>8, <2>1 DEF RelayTypeOK, RequestRows
<1>10. Addressed'
  BY <1>2, <1>3, <1>4 DEF Addressed
<1>11. Underway'
  <2>1. \A x \in wire' : x.kind = "export" => Asked(x.id)' /\ x.holder = request'[x.id].holder
    BY <1>1, <1>3, <1>4, <1>6, <1>7, RelayTypes DEF Underway, Asked, Says
  <2>2. \A d \in dumps' : Asked(d.id)' /\ (d.id \in exports' => d.session \in Says(d.id)')
    BY <1>1, <1>3, <1>5, <1>7, RelayTypes DEF Underway, Asked, Says
  <2>3. deliver' # NoDelivery => /\ deliver'.id \in Exports /\ Asked(deliver.id)'
                                 /\ deliver'.session \in Says(deliver.id)'
    BY <1>1, <1>3, <1>5, <1>7, RelayTypes DEF Underway, Asked, Says
  <2> QED BY <2>1, <2>2, <2>3 DEF Underway, Says
<1>12. HandedOver' /\ ExportIsOwn'
  BY <1>1, <1>3, <1>4, <1>5, <1>7 DEF HandedOver, ExportIsOwn, Asked, h, Says
<1> QED BY <1>9, <1>10, <1>11, <1>12

\* Imports and input are published and done with.
LEMMA AskOtherRelay ==
    ASSUME RelayInv, NEW r \in Exports, AskImport(r) \/ AskInput(r)
    PROVE  RelayInv'
<1> USE DEF RelayInv
<1>1. PICK m : /\ m \in {controlMessage(r, 0), controlMessage(r, newest')}
               /\ wire' \subseteq wire \cup {m}
  BY DEF AskImport, AskInput, PublishControl
<1>2. /\ request[r].kind \in {"import", "input"} /\ request[r].stage = "publish"
      /\ request' = [request EXCEPT ![r].stage = "answered"]
      /\ newest' \in Versions
      /\ UNCHANGED <<place, login, file, exports, dumps, deliver, moves, kept>>
  BY SessionRelayConstants DEF AskImport, AskInput, RelayTypeOK, Versions
<1>3. request[r].holder \in Holders /\ request[r].login \in Logins
  BY <1>2 DEF Addressed
<1>4. /\ request' \in [Exports -> RequestRows]
      /\ request'[r] = [request[r] EXCEPT !.stage = "answered"]
      /\ \A q \in Exports \ {r} : request'[q] = request[q]
  BY <1>2, RelayTypes DEF RequestRows
<1>5. /\ request'[r].stage = "answered" /\ request'[r].kind = request[r].kind
      /\ request'[r].chan = request[r].chan /\ request'[r].answer = request[r].answer
  BY <1>4, RelayTypes DEF RequestRows
<1>6. /\ m.kind # "export"
      /\ m \in [kind : {"export", "import", "input"}, id : Exports, login : Logins,
                       holder : Holders, session : Versions]
  BY <1>1, <1>2, <1>3, SessionRelayConstants DEF controlMessage, Versions
<1>7. ~ Asked(r) /\ r \notin exports
  BY <1>2 DEF Asked, RelayTypeOK
<1>8. exports' = {q \in Exports : request'[q].kind = "export" /\ request'[q].stage = "waiting"}
  BY <1>2, <1>4, <1>5, <1>7 DEF RelayTypeOK
<1>9. RelayTypeOK'
  BY <1>1, <1>2, <1>4, <1>6, <1>8 DEF RelayTypeOK, RequestRows
<1>10. Addressed'
  BY <1>4, <1>5 DEF Addressed
<1>11. Underway'
  BY <1>1, <1>2, <1>4, <1>6, <1>7, RelayTypes DEF Underway, Asked, Says
<1>12. HandedOver' /\ ExportIsOwn'
  BY <1>2, <1>4, <1>5, <1>7 DEF HandedOver, ExportIsOwn, Asked, Says
<1> QED BY <1>9, <1>10, <1>11, <1>12

\* A request that ends, with an answer or without.
LEMMA EndRelay ==
    ASSUME RelayInv, NEW r \in Exports, GiveUp(r) \/ Receive(r)
    PROVE  RelayInv'
<1> USE DEF RelayInv
<1>1. /\ request[r].stage \in {"publish", "waiting"} /\ exports' = exports \ {r}
      /\ UNCHANGED <<place, login, file, wire, dumps, deliver, newest, moves, kept>>
  BY DEF GiveUp, Receive, Failed, unregisterExport
<1>2. \/ request' = [request EXCEPT ![r].stage = "failed"]
      \/ \E v \in request[r].chan \ {0} :
            request' = [request EXCEPT ![r].stage = "answered", ![r].answer = {v}]
  BY DEF GiveUp, Receive, Failed
<1>3. /\ request' \in [Exports -> RequestRows]
      /\ \A q \in Exports \ {r} : request'[q] = request[q]
      /\ request'[r].stage \in {"failed", "answered"} /\ request'[r].kind = request[r].kind
      /\ request'[r].holder = request[r].holder
      /\ request'[r].chan = request[r].chan
      /\ request'[r].answer \subseteq request[r].answer \cup (request[r].chan \ {0})
  <2>1. request[r] \in RequestRows /\ request \in [Exports -> RequestRows]
    BY RelayTypes
  <2>2. CASE request' = [request EXCEPT ![r].stage = "failed"]
    BY <2>1, <2>2 DEF RequestRows
  <2>3. ASSUME NEW v \in request[r].chan \ {0},
               request' = [request EXCEPT ![r].stage = "answered", ![r].answer = {v}]
        PROVE  <1>3
    BY <2>1, <2>3 DEF RequestRows
  <2> QED BY <1>2, <2>2, <2>3
<1>4. exports' = {q \in Exports : request'[q].kind = "export" /\ request'[q].stage = "waiting"}
  BY <1>1, <1>3 DEF RelayTypeOK
<1>5. RelayTypeOK'
  BY <1>1, <1>3, <1>4 DEF RelayTypeOK, RequestRows
<1>6. Addressed'
  BY <1>3 DEF Addressed
<1>7. Underway'
  BY <1>1, <1>3, RelayTypes DEF Underway, Asked, Says
<1>8. HandedOver' /\ ExportIsOwn'
  BY <1>1, <1>3 DEF HandedOver, ExportIsOwn, Asked, Says
<1> QED BY <1>5, <1>6, <1>7, <1>8

-----------------------------------------------------------------------------
\* What the container keeps from now on it has kept since every request that waits.
LEMMA KeepRelay ==
    ASSUME RelayInv, NEW h \in Holders, NEW v \in Versions, Keep(h, v)
    PROVE  /\ file' \in [Holders -> Versions] /\ kept' \in [Exports -> SUBSET Versions]
           /\ \A r \in Exports : kept[r] \subseteq kept'[r]
           /\ \A r \in exports : file'[request[r].holder] \in kept'[r]
<1> USE DEF RelayInv, RelayTypeOK
<1>1. file' \in [Holders -> Versions] /\ kept' \in [Exports -> SUBSET Versions]
  BY SessionRelayConstants DEF Keep, Versions
<1>2. \A r \in Exports : kept[r] \subseteq kept'[r]
  BY DEF Keep
<1>3. ASSUME NEW r \in exports PROVE file'[request[r].holder] \in kept'[r]
  <2>1. r \in Exports /\ request[r].stage = "waiting" /\ request[r].holder \in Holders
    BY DEF Addressed
  <2>2. CASE request[r].holder = h
    BY <2>1, <2>2 DEF Keep
  <2>3. CASE request[r].holder # h
    BY <2>1, <2>3 DEF Keep, HandedOver, Says
  <2> QED BY <2>2, <2>3
<1> QED BY <1>1, <1>2, <1>3

LEMMA WorkerRelay ==
    ASSUME RelayInv, NEW m \in wire, AdoptSession(m) \/ TryInput(m)
    PROVE  RelayInv'
<1> USE DEF RelayInv
<1>1. /\ wire' = wire \ {m}
      /\ UNCHANGED <<place, request, exports, dumps, deliver, moves>>
  BY DEF AdoptSession, TryInput
<1>2. /\ m.holder \in Holders /\ m.session \in Versions /\ m.login \in Logins
  BY RelayTypes
<1>3. /\ newest' \in Versions
      /\ login' \in [Logins -> Awaiting \cup {"AUTHENTICATED", "FAILED"}]
  <2>1. newest' = newest \/ (newest < MaxVersions /\ newest' = newest + 1)
    BY DEF AdoptSession, TryInput
  <2>2. newest' \in Versions
    BY <2>1, SessionRelayConstants DEF RelayTypeOK, Versions
  <2>3. \/ login' = login
        \/ \E s \in {"AUTHENTICATED", "FAILED", "NEEDS_INPUT"} :
              login' = [login EXCEPT ![m.login] = s]
    BY DEF AdoptSession, TryInput
  <2>4. login' \in [Logins -> Awaiting \cup {"AUTHENTICATED", "FAILED"}]
    BY <1>2, <2>3 DEF RelayTypeOK, Awaiting
  <2> QED BY <2>2, <2>4
<1>4. (\E v \in Versions : Keep(m.holder, v)) \/ UNCHANGED <<file, kept>>
  BY <1>2, <1>3 DEF AdoptSession, TryInput
<1>5. /\ file' \in [Holders -> Versions] /\ kept' \in [Exports -> SUBSET Versions]
      /\ \A r \in Exports : kept[r] \subseteq kept'[r]
      /\ \A r \in exports : file'[request[r].holder] \in kept'[r]
  <2>1. CASE \E v \in Versions : Keep(m.holder, v)
    BY <1>2, <2>1, KeepRelay
  <2>2. CASE UNCHANGED <<file, kept>>
    BY <2>2 DEF RelayTypeOK, HandedOver, Says
  <2> QED BY <1>4, <2>1, <2>2
<1>6. RelayTypeOK'
  BY <1>1, <1>3, <1>5 DEF RelayTypeOK
<1>7. Addressed'
  BY <1>1 DEF Addressed
<1>8. Underway'
  BY <1>1, <1>5, RelayTypes DEF Underway, Asked, Says
<1>9. HandedOver' /\ ExportIsOwn'
  BY <1>1, <1>5 DEF HandedOver, ExportIsOwn, Asked, Says
<1> QED BY <1>6, <1>7, <1>8, <1>9

LEMMA DumpRelay ==
    ASSUME RelayInv, NEW m \in wire, DumpSession(m)
    PROVE  RelayInv'
<1> USE DEF RelayInv
<1>0. PICK v \in {file[m.holder], 0} :
        dumps' = dumps \cup {[id |-> m.id, session |-> v, left |-> MaxPosts]}
  BY DEF DumpSession
<1> DEFINE d == [id |-> m.id, session |-> v, left |-> MaxPosts]
<1>1. /\ m.kind = "export" /\ dumps' = dumps \cup {d} /\ wire' = wire \ {m}
      /\ UNCHANGED <<place, login, file, request, exports, deliver, newest, moves, kept>>
  BY <1>0 DEF DumpSession
<1>2. m.id \in Exports /\ m.holder \in Holders /\ Asked(m.id) /\ m.holder = request[m.id].holder
  BY <1>1, RelayTypes DEF Underway, Says
<1>3. d \in [id : Exports, session : Versions, left : 1 .. MaxPosts]
  BY <1>0, <1>2, SessionRelayConstants DEF RelayTypeOK, Versions
<1>4. d.id = m.id /\ (m.id \in exports => d.session \in Says(m.id))
  BY <1>0, <1>2 DEF HandedOver, Says
<1> HIDE DEF d
<1>5. RelayTypeOK'
  BY <1>1, <1>3 DEF RelayTypeOK
<1>6. Underway'
  BY <1>1, <1>2, <1>4 DEF Underway, Asked, Says
<1> QED BY <1>1, <1>5, <1>6 DEF Addressed, HandedOver, ExportIsOwn, Asked, Says

LEMMA LookUpRelay ==
    ASSUME RelayInv, NEW d \in dumps, LookUp(d)
    PROVE  RelayInv'
<1> USE DEF RelayInv
<1>1. /\ deliver' = IF d.id \in exports THEN [id |-> d.id, session |-> d.session] ELSE NoDelivery
      /\ UNCHANGED <<place, login, file, request, exports, wire, newest, moves, kept>>
  BY DEF LookUp
<1>2. /\ d.id \in Exports /\ d.session \in Versions /\ d.left \in 1 .. MaxPosts
      /\ Asked(d.id) /\ (d.id \in exports => d.session \in Says(d.id))
  BY RelayTypes DEF Underway, Says
<1>3. /\ dumps' \subseteq [id : Exports, session : Versions, left : 1 .. MaxPosts]
      /\ \A e \in dumps' : e \in dumps \/ (e.id = d.id /\ e.session = d.session)
  <2>1. CASE dumps' = dumps \ {d}
    BY <2>1 DEF RelayTypeOK
  <2>2. CASE d.left > 1 /\ dumps' = (dumps \ {d}) \cup {[d EXCEPT !.left = @ - 1]}
    <3>1. d \in [id : Exports, session : Versions, left : 1 .. MaxPosts]
      BY DEF RelayTypeOK
    <3> DEFINE e == [d EXCEPT !.left = @ - 1]
    <3>2. e \in [id : Exports, session : Versions, left : 1 .. MaxPosts]
          /\ e.id = d.id /\ e.session = d.session
      BY <2>2, <3>1, SessionRelayConstants
    <3> HIDE DEF e
    <3> QED BY <2>2, <3>2 DEF RelayTypeOK, e
  <2> QED BY <2>1, <2>2 DEF LookUp, Attempted
<1>4. RelayTypeOK'
  <2>1. deliver' \in [id : Exports \cup {NoHolder}, session : Versions]
    BY <1>1, <1>2, SessionRelayConstants DEF NoDelivery, Versions
  <2> QED BY <1>1, <1>3, <2>1 DEF RelayTypeOK
<1>5. Underway'
  <2>1. \A e \in dumps' : Asked(e.id) /\ (e.id \in exports => e.session \in Says(e.id))
    BY <1>2, <1>3 DEF Underway, Says
  <2> QED BY <1>1, <1>2, <2>1 DEF Underway, Asked, Says
<1> QED BY <1>1, <1>4, <1>5 DEF Addressed, HandedOver, ExportIsOwn, Asked, Says

LEMMA DeliverRelay ==
    ASSUME RelayInv, DeliverExportedSession
    PROVE  RelayInv'
<1> USE DEF RelayInv
<1> DEFINE r == deliver.id
<1>1. /\ request' = [request EXCEPT ![r].chan = IF @ = {} THEN {deliver.session} ELSE @]
      /\ deliver # NoDelivery /\ deliver' = NoDelivery
      /\ UNCHANGED <<place, login, file, exports, wire, dumps, newest, moves, kept>>
  BY DEF DeliverExportedSession
<1>2. r \in Exports /\ Asked(r) /\ deliver.session \in Says(r) /\ deliver.session \in Versions
  BY <1>1 DEF Underway, RelayTypeOK, Says
<1>3. /\ request' \in [Exports -> RequestRows]
      /\ \A q \in Exports \ {r} : request'[q] = request[q]
      /\ request'[r].stage = request[r].stage /\ request'[r].kind = request[r].kind
      /\ request'[r].login = request[r].login /\ request'[r].holder = request[r].holder
      /\ request'[r].answer = request[r].answer
      /\ request'[r].chan \subseteq request[r].chan \cup {deliver.session}
  <2>1. request[r] \in RequestRows /\ request \in [Exports -> RequestRows]
    BY <1>2, RelayTypes
  <2>2. PICK c : c = IF request[r].chan = {} THEN {deliver.session} ELSE request[r].chan
    OBVIOUS
  <2>3. PICK n : n = [request[r] EXCEPT !.chan = c]
    OBVIOUS
  <2>4. c \in SUBSET Versions /\ c \subseteq request[r].chan \cup {deliver.session}
    BY <1>2, <2>1, <2>2 DEF RequestRows
  <2>5. /\ n \in RequestRows /\ n.stage = request[r].stage /\ n.kind = request[r].kind
        /\ n.login = request[r].login /\ n.holder = request[r].holder
        /\ n.answer = request[r].answer /\ n.chan = c
    BY <2>1, <2>3, <2>4 DEF RequestRows
  <2>6. request' = [request EXCEPT ![r] = n]
    BY <1>1, <1>2, <2>1, <2>2, <2>3
  <2> QED BY <1>2, <2>1, <2>4, <2>5, <2>6
<1>4. exports' = {q \in Exports : request'[q].kind = "export" /\ request'[q].stage = "waiting"}
  BY <1>1, <1>3 DEF RelayTypeOK
<1>5. RelayTypeOK'
  <2>1. deliver' \in [id : Exports \cup {NoHolder}, session : Versions]
    BY <1>1, SessionRelayConstants DEF NoDelivery, Versions
  <2> QED BY SMTT(30), <1>1, <1>3, <1>4, <2>1 DEF RelayTypeOK, RequestRows
<1>6. Addressed'
  BY <1>3 DEF Addressed
<1>7. Underway'
  BY <1>1, <1>2, <1>3, RelayTypes DEF Underway, Asked, Says
<1>8. HandedOver' /\ ExportIsOwn'
  BY <1>1, <1>2, <1>3 DEF HandedOver, ExportIsOwn, Asked, Says
<1> QED BY <1>5, <1>6, <1>7, <1>8

LEMMA RelocateRelay ==
    ASSUME RelayInv, NEW a \in Logins, Relocate(a)
    PROVE  RelayInv'
<1> USE DEF RelayInv
<1>1. PICK h \in (Holders \cup {NoHolder}) \ {place[a]} :
        /\ h # NoHolder => \A b \in Logins : place[b] # h
        /\ place' = [place EXCEPT ![a] = h]
  BY DEF Relocate
<1>2. /\ place' \in [Logins -> Holders \cup {NoHolder}]
      /\ \A b, c \in Logins : place'[b] = place'[c] /\ place'[b] # NoHolder => b = c
  BY <1>1 DEF RelayTypeOK
<1>3. moves' \in 0 .. MaxMoves
  BY SessionRelayConstants DEF Relocate, RelayTypeOK
<1>4. RelayTypeOK'
  BY <1>2, <1>3 DEF Relocate, RelayTypeOK
<1> QED BY <1>4 DEF Relocate, Addressed, Underway, HandedOver, ExportIsOwn, Asked, Says

LEMMA RelayStep == RelayInv /\ [RelayNext]_relayVars => RelayInv'
<1> SUFFICES ASSUME RelayInv, [RelayNext]_relayVars PROVE RelayInv'
  OBVIOUS
<1>1. CASE UNCHANGED relayVars
  BY <1>1 DEF relayVars, RelayInv, RelayTypeOK, Addressed, Underway, HandedOver, ExportIsOwn, Asked, Says
<1>2. ASSUME NEW r \in Exports, ExportSession(r) \/ ImportSession(r) \/ SubmitInput(r)
      PROVE  RelayInv'
  BY <1>2, ReadRelay DEF ExportSession, ImportSession, SubmitInput
<1> QED BY <1>1, <1>2, AskExportRelay, AskOtherRelay, EndRelay, WorkerRelay, DumpRelay,
           LookUpRelay, DeliverRelay, RelocateRelay DEF RelayNext

\* The table of waiting exports names those that wait, and a container has one
\* account of the platform at a time.
THEOREM RelayTypeCorrect == RelaySpec => []RelayTypeOK
<1>1. RelayInv => RelayTypeOK
  BY DEF RelayInv
<1> QED BY <1>1, InitRelay, RelayStep, PTL DEF RelaySpec

\* An export is answered with what its container kept while it waited
\* (registerExport, DeliverExportedSession).
THEOREM ExportsAreOwn == RelaySpec => []ExportIsOwn
<1>1. RelayInv => ExportIsOwn
  BY DEF RelayInv
<1> QED BY <1>1, InitRelay, RelayStep, PTL DEF RelaySpec

-----------------------------------------------------------------------------
(***************************************************************************)
(* Accounts: what each request carries at each of its stages, and with it  *)
(* the types of the tables.                                                *)
(***************************************************************************)
Kinds == {"none", "create", "remove", "open", "close"} \cup Edits
ReqStages == {"idle", "insert", "resolve", "count", "hosted", "get", "cands", "assign", "port",
              "spawn", "read", "publish", "write", "release", "delete", "list", "empty", "drop"}

Requests == [kind : Kinds, stage : ReqStages, name : Names \cup {Nobody},
             pick : Boxes \cup Ports \cup {Nobody}, arg : AuthStates \cup Verdicts \cup {""},
             snap : AccountRow, box : Boxes \cup {Nobody},
             cands : SUBSET (Boxes \cup Ports), todo : SUBSET Names]

BoxRow == [phase : {"none", "live", "gone"}, source : WorkerSources,
           desired : DesiredStates, port : Ports \cup {Nobody}]

CreateStages == {"insert", "resolve", "count", "hosted", "get", "cands", "assign", "port", "spawn"}
SlotStages == {"resolve", "count", "hosted", "assign"}

\* A request that creates an account has a container to look at when it looks
\* at one, and the ports it may insert are ports.
CreateShape(r) ==
    /\ r.stage \in CreateStages
    /\ r.name \in Names /\ r.pick \in Boxes \cup {Nobody}
    /\ r.stage \in SlotStages \/ (r.stage = "get" /\ r.pick # Nobody) => r.box \in Boxes
    /\ IF r.stage = "spawn" THEN r.cands \subseteq Ports ELSE r.cands \subseteq Boxes

OpenShape(r) ==
    /\ r.stage \in {"port", "spawn"} /\ r.name = Nobody /\ r.pick \in Ports \cup {Nobody}
    /\ r.stage = "spawn" => r.cands \subseteq Ports

CloseShape(r) ==
    r.stage \in {"list", "empty", "drop"} /\ r.name = Nobody /\ r.box \in Boxes

\* A request that edits a row has read it before it writes it.
EditShape(r) ==
    /\ r.stage \in {"read", "publish", "write", "release"} /\ r.name \in Names
    /\ r.stage = "publish" => r.kind = "login"
    /\ r.stage = "release" => r.kind = "pause"
    /\ r.stage \in {"publish", "write"} => r.snap.phase = "live"
    /\ r.kind = "resume" /\ r.stage = "write" => r.snap.status \in {"PAUSED", "QUARANTINED"}
    /\ r.kind = "outcome" => r.arg \in AuthStates
    /\ r.kind = "verdict" => r.arg \in Verdicts

Shape(r) ==
    /\ r.kind = "none" => r.stage = "idle" /\ r.name = Nobody
    /\ r.kind = "create" => CreateShape(r)
    /\ r.kind = "open" => OpenShape(r)
    /\ r.kind = "close" => CloseShape(r)
    /\ r.kind = "remove" => r.stage \in {"read", "delete"} /\ r.name \in Names
    /\ r.kind \in Edits => EditShape(r)

TablesTyped ==
    /\ net \in Networks
    /\ acc \in [Names -> AccountRow]
    /\ box \in [Boxes -> BoxRow]
    /\ asked \subseteq Names /\ disturbed \subseteq Names /\ laundered \subseteq Names
    /\ budget \in [ops : 0 .. MaxOps, aborts : 0 .. MaxAborts]
    /\ \A n \in Names : acc[n].box # Nobody => Has(n) /\ Stands(acc[n].box)
    /\ \A n, m \in Names :
        acc[n].box = acc[m].box /\ net[n] = net[m] /\ acc[n].box # Nobody => n = m

ReqsFit == req \in [Reqs -> Requests] /\ \A q \in Reqs : Shape(req[q])

AccInv == TablesTyped /\ ReqsFit

-----------------------------------------------------------------------------
(***************************************************************************)
(* What is true of an account no two requests have met on, whichever of    *)
(* the requests in flight is at work on it.                                *)
(***************************************************************************)
\* A live row in the pool has a score above the threshold.
Healthy(row) == row.status \in {"ACTIVE", "PAUSED"} => row.score >= QuarantineThreshold

\* What a request knows of the account it works on is true of it: the row read
\* is the row there is, its container apart, a paused row was read without a
\* container, and an account that is being packed is ACTIVE.
Knows(r) ==
    /\ r.kind \in Edits /\ r.stage \in {"publish", "write"} =>
         /\ Has(r.name)
         /\ r.snap.status = acc[r.name].status /\ r.snap.score = acc[r.name].score
         /\ r.snap.status = "PAUSED" => r.snap.box = Nobody
    /\ r.kind = "create" /\ r.stage # "insert" /\ Has(r.name) =>
         acc[r.name].status = "ACTIVE"

Released(n) ==
    Has(n) /\ acc[n].status = "PAUSED" /\ acc[n].box # Nobody =>
        \E q \in Reqs : At(q, "pause", "release") /\ req[q].name = n

MeetInv ==
    /\ Met \subseteq disturbed
    /\ \A q \in Reqs : req[q].name \in Names \ disturbed => Knows(req[q])
    /\ \A n \in Names \ disturbed : Released(n)
    /\ \A n \in Names \ (disturbed \cup laundered) : Has(n) => Healthy(acc[n])

-----------------------------------------------------------------------------
\* The containers on a port, and the requests about to insert one on it.
Sharers(p) == {b \in Boxes : Stands(b) /\ box[b].port = p}
Racers(p) == {q \in Reqs : req[q].stage = "spawn" /\ p \in req[q].cands}

PortInv == \A p \in Ports : Cardinality(Sharers(p)) + Cardinality(Racers(p)) <= Cardinality(Reqs)

\* A request may still put its account on container b: it has counted b's
\* accounts, or has read a row that names b.
Aims(r, b) ==
    \/ r.kind = "create" /\ r.stage \in {"hosted", "assign"} /\ r.box = b
    \/ r.kind \in Edits /\ r.stage \in {"publish", "write"} /\ r.snap.box = b

\* The accounts on b, and those that may yet be put there.
Claimants(b) ==
    ListAccountsByWorker(b) \cup {n \in Names : \E q \in Reqs : Aims(req[q], b) /\ req[q].name = n}

CapInv == \A b \in Boxes : Cardinality(Claimants(b)) < MaxPerContainer + Cardinality(Reqs)

-----------------------------------------------------------------------------
(***************************************************************************)
(* How a request moves on.                                                 *)
(***************************************************************************)
Moves(q, r) == r \in Requests /\ Shape(r) /\ Put(q, r)

\* A request ends, or goes on with the next row of its import.
Settled(r) == r.kind = "none" \/ (r.kind = "create" /\ r.stage = "insert")

LEMMA AccountBounds ==
    /\ Nobody \notin Names /\ Nobody \notin Boxes /\ Nobody \notin Ports
    /\ Boxes \subseteq Nat /\ Ports \subseteq Nat
    /\ MaxPerContainer \in Nat /\ MaxPerContainer > 0
    /\ ScoreMax \in Nat /\ QuarantineThreshold \in Nat /\ QuarantineThreshold <= ScoreMax
    /\ FailPenalty \in Nat /\ RecoverBonus \in Nat /\ AuthPenalty \in Nat /\ RatePenalty \in Nat
    /\ MaxOps \in Nat /\ MaxAborts \in Nat /\ MaxBoxes \in Nat
    /\ IsFiniteSet(Names) /\ IsFiniteSet(Reqs)
BY AccountsConstants DEF Boxes

LEMMA FreshRow ==
    /\ Fresh \in AccountRow /\ Fresh.phase = "live" /\ Fresh.status = "ACTIVE"
    /\ Fresh.score = ScoreMax /\ Fresh.box = Nobody
    /\ NoAccount \in AccountRow /\ NoAccount.phase = "none" /\ NoAccount.box = Nobody
    /\ [NoAccount EXCEPT !.phase = "gone"] \in AccountRow
    /\ [NoAccount EXCEPT !.phase = "gone"].phase = "gone"
    /\ [NoAccount EXCEPT !.phase = "gone"].box = Nobody
<1>1. ScoreMax \in 0 .. ScoreMax
  BY AccountBounds
<1>2. PICK f : f = Fresh
  OBVIOUS
<1>3. f \in AccountRow /\ f.phase = "live" /\ f.status = "ACTIVE" /\ f.score = ScoreMax /\ f.box = Nobody
  BY <1>1, <1>2 DEF Fresh, AccountRow, Statuses, AuthStates
<1>4. PICK g : g = NoAccount
  OBVIOUS
<1>5. g = [f EXCEPT !.phase = "none"]
  BY <1>2, <1>4 DEF NoAccount
<1>6. g \in AccountRow /\ g.phase = "none" /\ g.box = Nobody
  BY <1>3, <1>5 DEF AccountRow
<1>7. PICK h : h = [g EXCEPT !.phase = "gone"]
  OBVIOUS
<1>8. h \in AccountRow /\ h.phase = "gone" /\ h.box = Nobody
  BY <1>6, <1>7 DEF AccountRow
<1> QED BY <1>2, <1>3, <1>4, <1>6, <1>7, <1>8

LEMMA WaitingFits ==
    /\ Waiting \in Requests /\ Shape(Waiting)
    /\ Waiting.kind = "none" /\ Waiting.stage = "idle" /\ Waiting.name = Nobody
    /\ Waiting.pick = Nobody /\ Waiting.arg = "" /\ Waiting.snap = NoAccount
    /\ Waiting.box = Nobody /\ Waiting.cands = {} /\ Waiting.todo = {}
<1>1. PICK e : e = NoAccount
  OBVIOUS
<1>2. e \in AccountRow
  BY <1>1, FreshRow
<1>3. PICK w : w = [kind |-> "none", stage |-> "idle", name |-> Nobody, pick |-> Nobody,
                    arg |-> "", snap |-> e, box |-> Nobody, cands |-> {}, todo |-> {}]
  OBVIOUS
<1>4. /\ w \in Requests /\ w.kind = "none" /\ w.stage = "idle" /\ w.name = Nobody
      /\ w.pick = Nobody /\ w.arg = "" /\ w.snap = e /\ w.box = Nobody /\ w.cands = {} /\ w.todo = {}
  BY <1>2, <1>3 DEF Requests, Kinds, ReqStages
<1>5. Shape(w)
  BY <1>4 DEF Shape, Edits
<1>6. w = Waiting
  BY <1>1, <1>3 DEF Waiting
<1> QED BY <1>1, <1>4, <1>5, <1>6

LEMMA DoneMoves ==
    ASSUME ReqsFit, NEW q \in Reqs, Done(q)
    PROVE  \E r : Moves(q, r) /\ Settled(r)
<1>1. CASE Put(q, Waiting)
  BY <1>1, WaitingFits DEF Moves, Settled
<1>2. ASSUME NEW n \in req[q].todo,
             Put(q, [Waiting EXCEPT !.kind = "create", !.stage = "insert",
                                    !.name = n, !.todo = req[q].todo \ {n}])
      PROVE  \E r : Moves(q, r) /\ Settled(r)
  <2>1. PICK r : r = [Waiting EXCEPT !.kind = "create", !.stage = "insert",
                                     !.name = n, !.todo = req[q].todo \ {n}]
    OBVIOUS
  <2>2. PICK w : w = Waiting
    OBVIOUS
  <2>3. w \in Requests /\ w.pick = Nobody /\ w.cands = {}
    BY <2>2, WaitingFits
  <2>4. req[q].todo \subseteq Names
    BY DEF ReqsFit, Requests
  <2>5. r = [w EXCEPT !.kind = "create", !.stage = "insert", !.name = n, !.todo = req[q].todo \ {n}]
    BY <2>1, <2>2
  <2>6. r \in Requests /\ r.kind = "create" /\ r.stage = "insert" /\ r.name = n
        /\ r.pick = Nobody /\ r.cands = {}
    BY <1>2, <2>3, <2>4, <2>5 DEF Requests, Kinds, ReqStages
  <2>7. Shape(r)
    BY <1>2, <2>4, <2>6 DEF Shape, CreateShape, CreateStages, SlotStages, Edits
  <2> QED BY <1>2, <2>1, <2>6, <2>7 DEF Moves, Settled
<1> QED BY <1>1, <1>2 DEF Done

\* A request keeps what it carries and takes another stage.
LEMMA Staged ==
    ASSUME ReqsFit, NEW q \in Reqs, NEW s \in ReqStages,
           NEW r, r = [req[q] EXCEPT !.stage = s]
    PROVE  /\ r \in Requests /\ r.stage = s /\ r.kind = req[q].kind /\ r.name = req[q].name
           /\ r.pick = req[q].pick /\ r.arg = req[q].arg /\ r.snap = req[q].snap
           /\ r.box = req[q].box /\ r.cands = req[q].cands /\ r.todo = req[q].todo
<1>1. PICK e : e = req[q]
  OBVIOUS
<1>2. e \in Requests /\ r = [e EXCEPT !.stage = s]
  BY <1>1 DEF ReqsFit
<1>3. /\ r \in Requests /\ r.stage = s /\ r.kind = e.kind /\ r.name = e.name
      /\ r.pick = e.pick /\ r.arg = e.arg /\ r.snap = e.snap
      /\ r.box = e.box /\ r.cands = e.cands /\ r.todo = e.todo
  BY <1>2 DEF Requests
<1> QED BY <1>1, <1>3

\* The next container of a walk, a fresh one, or none.
LEMMA WalkMoves ==
    ASSUME ReqsFit, NEW q \in Reqs, req[q].kind = "create", req[q].cands \subseteq Boxes,
           NEW C \in SUBSET Boxes, Walk(q, C)
    PROVE  \E r : /\ Moves(q, r)
                  /\ \/ Settled(r)
                     \/ r.kind = "create" /\ r.name = req[q].name /\ r.stage \in {"count", "port"}
<1>1. PICK e : e = req[q]
  OBVIOUS
<1>2. e \in Requests /\ e.kind = "create" /\ e.name \in Names /\ e.pick \in Boxes \cup {Nobody}
      /\ e.cands \subseteq Boxes \cup Ports
  BY <1>1 DEF ReqsFit, Shape, CreateShape, Requests
<1>3. ASSUME NEW b \in C, Put(q, [req[q] EXCEPT !.stage = "count", !.box = b, !.cands = C \ {b}])
      PROVE  \E r : Moves(q, r) /\ r.kind = "create" /\ r.name = e.name /\ r.stage = "count"
  <2>1. PICK r : r = [e EXCEPT !.stage = "count", !.box = b, !.cands = C \ {b}]
    OBVIOUS
  <2>2. /\ r \in Requests /\ r.kind = "create" /\ r.stage = "count" /\ r.name = e.name
        /\ r.pick = e.pick /\ r.box = b /\ r.cands = C \ {b}
    BY <1>2, <2>1 DEF Requests, ReqStages
  <2>3. Shape(r)
    BY <1>2, <1>3, <2>2 DEF Shape, CreateShape, CreateStages, Edits
  <2> QED BY <1>1, <1>3, <2>1, <2>2, <2>3 DEF Moves
<1>4. ASSUME Put(q, [req[q] EXCEPT !.stage = "port", !.box = Nobody])
      PROVE  \E r : Moves(q, r) /\ r.kind = "create" /\ r.name = e.name /\ r.stage = "port"
  <2>1. PICK r : r = [e EXCEPT !.stage = "port", !.box = Nobody]
    OBVIOUS
  <2>2. /\ r \in Requests /\ r.kind = "create" /\ r.stage = "port" /\ r.name = e.name
        /\ r.pick = e.pick /\ r.box = Nobody /\ r.cands = e.cands
    BY <1>2, <2>1 DEF Requests, ReqStages
  <2>3. Shape(r)
    BY <1>1, <1>2, <1>4, <2>2 DEF Shape, CreateShape, CreateStages, SlotStages, Edits
  <2> QED BY <1>1, <1>4, <2>1, <2>2, <2>3 DEF Moves
<1>5. CASE C # {}
  BY <1>1, <1>3, <1>5 DEF Walk
<1>6. CASE C = {} /\ ~AutoCreate
  BY <1>6, DoneMoves DEF Walk
<1>7. CASE C = {} /\ AutoCreate
  <2>1. Put(q, [req[q] EXCEPT !.stage = "port", !.box = Nobody])
    BY <1>7 DEF Walk
  <2> QED BY <1>1, <1>4, <2>1
<1> QED BY <1>5, <1>6, <1>7

-----------------------------------------------------------------------------
(***************************************************************************)
(* Most steps put no account anywhere, insert nothing and learn nothing    *)
(* about a row; they may let go of what there is.                          *)
(***************************************************************************)
Quiet(q, r) ==
    /\ r.stage # "spawn"
    /\ \/ r.stage \notin {"hosted", "assign", "publish", "write"}
       \/ /\ r.kind = req[q].kind /\ r.name = req[q].name /\ r.box = req[q].box
          /\ r.snap = req[q].snap
          /\ \/ req[q].stage = "hosted" /\ r.stage = "assign"
             \/ req[q].stage = "publish" /\ r.stage = "write"
    /\ r.kind = "create" /\ r.stage # "insert" =>
         req[q].kind = "create" /\ req[q].stage # "insert" /\ r.name = req[q].name

\* No account gets a container; the one a request removes is gone.
Unplaces(q) ==
    \A n \in Names :
        \/ acc'[n] = acc[n]
        \/ acc'[n] = [acc[n] EXCEPT !.box = Nobody]
        \/ /\ req[q].kind = "remove" /\ n = req[q].name
           /\ acc'[n] = [NoAccount EXCEPT !.phase = "gone"]

LetsGo(q, r) ==
    /\ Moves(q, r) /\ Quiet(q, r) /\ Unplaces(q)
    /\ acc' \in [Names -> AccountRow]
    /\ asked' \subseteq Names /\ UNCHANGED <<laundered, net>>
    /\ budget' \in [ops : 0 .. MaxOps, aborts : 0 .. MaxAborts]
    /\ box' \in [Boxes -> BoxRow]
    /\ \A b \in Boxes : Stands(b)' => Stands(b) /\ box'[b].port = box[b].port
    /\ \A n \in Names : acc'[n].box # Nobody => box'[acc'[n].box].phase = "live"
    /\ At(q, "pause", "release") /\ acc'[req[q].name].phase = "live" =>
         acc'[req[q].name].box = Nobody

\* A step of request q that changes nothing but q itself.
LEMMA OnlyMoves ==
    ASSUME AccInv, NEW q \in Reqs, ~At(q, "pause", "release"),
           NEW r, Moves(q, r), Quiet(q, r),
           UNCHANGED <<acc, box, laundered, net>>, asked' \subseteq Names,
           budget' \in [ops : 0 .. MaxOps, aborts : 0 .. MaxAborts]
    PROVE  LetsGo(q, r)
<1>1. /\ acc \in [Names -> AccountRow] /\ box \in [Boxes -> BoxRow]
      /\ \A n \in Names : acc[n].box # Nobody => Stands(acc[n].box)
  BY DEF AccInv, TablesTyped
<1>2. Unplaces(q)
  BY DEF Unplaces
<1>3. \A b \in Boxes : Stands(b)' => Stands(b) /\ box'[b].port = box[b].port
  BY DEF Stands
<1>4. \A n \in Names : acc'[n].box # Nobody => box'[acc'[n].box].phase = "live"
  BY <1>1 DEF Stands
<1> QED BY <1>1, <1>2, <1>3, <1>4 DEF LetsGo

LEMMA Calm ==
    ASSUME NEW q \in Reqs, NEW r,
           \/ Settled(r) /\ Shape(r)
           \/ r.stage \in {"insert", "read", "port", "list"} /\ r.kind # "create"
           \/ r.stage \in {"insert", "read", "list"} /\ Shape(r)
    PROVE  Quiet(q, r)
BY DEF Settled, Quiet, Shape, CreateShape, CreateStages

LEMMA ArriveLets ==
    ASSUME AccInv, NEW q \in Reqs, Arrives(q), UNCHANGED net
    PROVE  \E r : LetsGo(q, r)
<1>1. ASSUME NEW r \in Requests, Shape(r), Arrive(q, r),
             \/ r.stage \in {"insert", "read", "list"}
             \/ r.stage = "port" /\ r.kind = "open"
      PROVE  \E x : LetsGo(q, x)
  <2>1. /\ req[q].kind = "none" /\ Put(q, r) /\ UNCHANGED <<acc, box, asked, laundered>>
        /\ budget' = [budget EXCEPT !.ops = @ - 1] /\ budget.ops > 0
    BY <1>1 DEF Arrive
  <2>2. Moves(q, r) /\ Quiet(q, r)
    BY <1>1, <2>1, Calm DEF Moves
  <2>3. budget' \in [ops : 0 .. MaxOps, aborts : 0 .. MaxAborts] /\ asked' \subseteq Names
    BY <2>1, AccountBounds DEF AccInv, TablesTyped
  <2>4. ~At(q, "pause", "release")
    BY <2>1 DEF At
  <2> QED BY <2>1, <2>2, <2>3, <2>4, OnlyMoves
<1>2. ASSUME NEW k \in {"pause", "resume", "login", "remove", "outcome", "verdict"}, NEW n \in Names,
             NEW a \in AuthStates \cup Verdicts \cup {""},
             k = "outcome" => a \in AuthStates, k = "verdict" => a \in Verdicts,
             Ask(q, k, n, a)
      PROVE  \E r : LetsGo(q, r)
  <2>1. PICK r : r = [Waiting EXCEPT !.kind = k, !.stage = "read", !.name = n, !.arg = a]
    OBVIOUS
  <2>2. Arrive(q, r)
    BY <1>2, <2>1 DEF Ask
  <2>3. k \in Kinds
    BY DEF Kinds, Edits
  <2>4. PICK w \in Requests : w = Waiting
    BY WaitingFits
  <2>7. r = [w EXCEPT !.kind = k, !.stage = "read", !.name = n, !.arg = a]
    BY <2>1, <2>4
  <2>5. r \in Requests /\ r.kind = k /\ r.stage = "read" /\ r.name = n /\ r.arg = a
    BY <2>3, <2>7 DEF Requests, ReqStages
  <2>6. Shape(r)
    BY <1>2, <2>5 DEF Shape, EditShape, Edits
  <2> QED BY <1>1, <2>2, <2>5, <2>6
<1>3. ASSUME NEW n \in Names, NEW p \in Boxes \cup {Nobody}, NEW T \in SUBSET Names, NEW r,
             r = [Waiting EXCEPT !.kind = "create", !.stage = "insert", !.name = n,
                                 !.pick = p, !.todo = T],
             Arrive(q, r)
      PROVE  \E x : LetsGo(q, x)
  <2>1. PICK w \in Requests : w = Waiting /\ w.cands = {}
    BY WaitingFits
  <2>4. r = [w EXCEPT !.kind = "create", !.stage = "insert", !.name = n, !.pick = p, !.todo = T]
    BY <1>3, <2>1
  <2>2. /\ r \in Requests /\ r.kind = "create" /\ r.stage = "insert" /\ r.name = n
        /\ r.pick = p /\ r.cands = {}
    BY <2>1, <2>4 DEF Requests, ReqStages, Kinds
  <2>3. Shape(r)
    BY <1>3, <2>2 DEF Shape, CreateShape, CreateStages, SlotStages, Edits
  <2> QED BY <1>1, <1>3, <2>2, <2>3
<1>4. CASE PostAccount(q)
  <2>1. PICK n \in Names, b \in {c \in Boxes : box[c].phase # "none"} \cup {Nobody} :
          Arrive(q, [Waiting EXCEPT !.kind = "create", !.stage = "insert", !.name = n, !.pick = b])
    BY <1>4 DEF PostAccount
  <2>2. b \in Boxes \cup {Nobody} /\ {} \in SUBSET Names
    BY <2>1
  <2>3. PICK r, w : /\ r = [Waiting EXCEPT !.kind = "create", !.stage = "insert", !.name = n, !.pick = b]
                    /\ w = Waiting
    OBVIOUS
  <2>4. w \in Requests /\ w.todo = {}
    BY <2>3, WaitingFits
  <2>5. [w EXCEPT !.kind = "create", !.stage = "insert", !.name = n, !.pick = b]
          = [w EXCEPT !.kind = "create", !.stage = "insert", !.name = n, !.pick = b, !.todo = {}]
    BY <2>4 DEF Requests
  <2>6. r = [Waiting EXCEPT !.kind = "create", !.stage = "insert", !.name = n, !.pick = b, !.todo = {}]
    BY <2>3, <2>5
  <2>7. Arrive(q, r)
    BY <2>1, <2>3
  <2> QED BY <1>3, <2>1, <2>2, <2>6, <2>7
<1>5. CASE PostImport(q)
  <2>1. PICK rows \in SUBSET {n \in Names : acc[n].phase # "gone"} :
        \E n \in rows :
          Arrive(q, [Waiting EXCEPT !.kind = "create", !.stage = "insert",
                                    !.name = n, !.todo = rows \ {n}])
    BY <1>5 DEF PostImport
  <2>2. PICK n \in rows :
          Arrive(q, [Waiting EXCEPT !.kind = "create", !.stage = "insert",
                                    !.name = n, !.todo = rows \ {n}])
    BY <2>1
  <2>3. n \in Names /\ rows \ {n} \in SUBSET Names
    BY <2>1, <2>2
  <2>4. PICK r, w, T : /\ T = rows \ {n} /\ w = Waiting
                       /\ r = [Waiting EXCEPT !.kind = "create", !.stage = "insert",
                                              !.name = n, !.todo = T]
    OBVIOUS
  <2>5. w \in Requests /\ w.pick = Nobody
    BY <2>4, WaitingFits
  <2>6. [w EXCEPT !.kind = "create", !.stage = "insert", !.name = n, !.todo = T]
          = [w EXCEPT !.kind = "create", !.stage = "insert", !.name = n, !.pick = Nobody, !.todo = T]
    BY <2>5 DEF Requests
  <2>7. r = [Waiting EXCEPT !.kind = "create", !.stage = "insert", !.name = n, !.pick = Nobody,
                            !.todo = T]
    BY <2>4, <2>6
  <2>8. Arrive(q, r) /\ T \in SUBSET Names
    BY <2>2, <2>3, <2>4
  <2> QED BY <1>3, <2>3, <2>7, <2>8
<1>6. CASE SetStatus(q) \/ StartLogin(q) \/ RemoveAccount(q)
  BY <1>2, <1>6 DEF SetStatus, StartLogin, RemoveAccount
<1>7. CASE AccountCallback(q)
  <2>1. asked \subseteq Names
    BY DEF AccInv, TablesTyped
  <2> QED BY <1>2, <1>7, <2>1 DEF AccountCallback
<1>8. CASE VerdictCallback(q)
  BY <1>2, <1>8 DEF VerdictCallback
<1>9. CASE OpenBox(q)
  <2>1. PICK p \in Ports \cup {Nobody} :
          Arrive(q, [Waiting EXCEPT !.kind = "open", !.stage = "port", !.pick = p])
    BY <1>9 DEF OpenBox
  <2>2. PICK r : r = [Waiting EXCEPT !.kind = "open", !.stage = "port", !.pick = p]
    OBVIOUS
  <2>3. PICK w \in Requests : w = Waiting /\ w.name = Nobody
    BY WaitingFits
  <2>6. r = [w EXCEPT !.kind = "open", !.stage = "port", !.pick = p]
    BY <2>2, <2>3
  <2>7. p \in Boxes \cup Ports \cup {Nobody} /\ "open" \in Kinds /\ "port" \in ReqStages
    BY <2>1 DEF Kinds, ReqStages
  <2>4. r \in Requests /\ r.kind = "open" /\ r.stage = "port" /\ r.name = Nobody /\ r.pick = p
    BY <2>3, <2>6, <2>7 DEF Requests
  <2>5. Shape(r)
    BY <2>1, <2>4 DEF Shape, OpenShape, Edits
  <2> QED BY <1>1, <2>1, <2>2, <2>4, <2>5
<1>10. CASE CloseBox(q)
  <2>1. PICK b \in Boxes :
          Arrive(q, [Waiting EXCEPT !.kind = "close", !.stage = "list", !.box = b])
    BY <1>10 DEF CloseBox
  <2>2. PICK r : r = [Waiting EXCEPT !.kind = "close", !.stage = "list", !.box = b]
    OBVIOUS
  <2>3. PICK w \in Requests : w = Waiting /\ w.name = Nobody
    BY WaitingFits
  <2>6. r = [w EXCEPT !.kind = "close", !.stage = "list", !.box = b]
    BY <2>2, <2>3
  <2>4. r \in Requests /\ r.kind = "close" /\ r.stage = "list" /\ r.name = Nobody /\ r.box = b
    <3>1. b \in Boxes \cup {Nobody} /\ "close" \in Kinds /\ "list" \in ReqStages
      BY <2>1 DEF Kinds, ReqStages
    <3> QED BY <2>3, <2>6, <3>1 DEF Requests
  <2>5. Shape(r)
    BY <2>1, <2>4 DEF Shape, CloseShape, Edits
  <2> QED BY <1>1, <2>1, <2>2, <2>4, <2>5
<1> QED BY <1>4, <1>5, <1>6, <1>7, <1>8, <1>9, <1>10 DEF Arrives

-----------------------------------------------------------------------------
LEMMA DoneLets ==
    ASSUME ReqsFit, NEW q \in Reqs, Done(q)
    PROVE  \E r : Moves(q, r) /\ Quiet(q, r)
<1>1. PICK r : Moves(q, r) /\ Settled(r)
  BY DoneMoves
<1> QED BY <1>1, Calm DEF Moves

LEMMA WalkLets ==
    ASSUME ReqsFit, NEW q \in Reqs, req[q].kind = "create", req[q].stage # "insert",
           req[q].cands \subseteq Boxes, NEW C \in SUBSET Boxes, Walk(q, C)
    PROVE  \E r : Moves(q, r) /\ Quiet(q, r)
<1>1. PICK r : /\ Moves(q, r)
               /\ \/ Settled(r)
                  \/ r.kind = "create" /\ r.name = req[q].name /\ r.stage \in {"count", "port"}
  BY WalkMoves
<1>2. CASE Settled(r)
  BY <1>1, <1>2, Calm DEF Moves
<1>3. CASE r.kind = "create" /\ r.name = req[q].name /\ r.stage \in {"count", "port"}
  <2>1. Quiet(q, r)
    BY <1>3 DEF Quiet
  <2> QED BY <1>1, <2>1
<1> QED BY <1>1, <1>2, <1>3

LEMMA NotFreeLets ==
    ASSUME ReqsFit, NEW q \in Reqs, req[q].kind = "create", req[q].stage # "insert",
           req[q].cands \subseteq Boxes, NotFree(q)
    PROVE  \E r : Moves(q, r) /\ Quiet(q, r)
<1>1. CASE Done(q)
  BY <1>1, DoneLets
<1>2. CASE Walk(q, req[q].cands)
  BY <1>2, WalkLets
<1> QED BY <1>1, <1>2 DEF NotFree

\* A request takes a quiet stage.
LEMMA StageLets ==
    ASSUME ReqsFit, NEW q \in Reqs, NEW s \in ReqStages, Stage(q, s),
           \A r \in Requests :
             /\ r.stage = s /\ r.kind = req[q].kind /\ r.name = req[q].name
             /\ r.pick = req[q].pick /\ r.arg = req[q].arg /\ r.snap = req[q].snap
             /\ r.box = req[q].box /\ r.cands = req[q].cands
             => Shape(r) /\ Quiet(q, r)
    PROVE  \E r : Moves(q, r) /\ Quiet(q, r)
<1>1. PICK r : r = [req[q] EXCEPT !.stage = s]
  OBVIOUS
<1>2. /\ r \in Requests /\ r.stage = s /\ r.kind = req[q].kind /\ r.name = req[q].name
      /\ r.pick = req[q].pick /\ r.arg = req[q].arg /\ r.snap = req[q].snap
      /\ r.box = req[q].box /\ r.cands = req[q].cands
  BY <1>1, Staged
<1>3. Put(q, r)
  BY <1>1 DEF Stage
<1> QED BY <1>2, <1>3 DEF Moves

LEMMA Idles ==
    ASSUME AccInv, NEW q \in Reqs, ~At(q, "pause", "release"),
           UNCHANGED <<acc, box, asked, budget, laundered, net>>,
           \E r : Moves(q, r) /\ Quiet(q, r)
    PROVE  \E r : LetsGo(q, r)
<1>1. asked' \subseteq Names /\ budget' \in [ops : 0 .. MaxOps, aborts : 0 .. MaxAborts]
  BY DEF AccInv, TablesTyped
<1> QED BY <1>1, OnlyMoves

\* What a request that creates an account carries.
LEMMA Creating ==
    ASSUME AccInv, NEW q \in Reqs, req[q].kind = "create"
    PROVE  /\ ReqsFit /\ CreateShape(req[q]) /\ req[q].name \in Names
           /\ req[q].pick \in Boxes \cup {Nobody} /\ req[q].snap \in AccountRow
           /\ req[q].stage \in SlotStages => req[q].box \in Boxes
           /\ req[q].stage # "spawn" => req[q].cands \subseteq Boxes
           /\ ~At(q, "pause", "release")
BY DEF AccInv, ReqsFit, Shape, CreateShape, Requests, At

LEMMA PackLets ==
    ASSUME AccInv, NEW q \in Reqs, UNCHANGED net,
           \/ Insert(q) /\ Has(req[q].name)
           \/ ResolveContainer(q)
           \/ CountSlots(q) /\ ~(CountAccountsByWorker(req[q].box) < MaxPerContainer)
           \/ ListHosted(q) \/ GetAccount(q) \/ ListCandidates(q)
           \/ Assign(q) /\ ~(Has(req[q].name) /\ Hostable(req[q].name, req[q].box))
    PROVE  \E r : LetsGo(q, r)
<1>1. /\ req[q].kind = "create"
      /\ req[q].stage \in {"insert", "resolve", "count", "hosted", "get", "cands", "assign"}
      /\ UNCHANGED <<acc, box, asked, budget, laundered, net>>
  BY DEF Insert, ResolveContainer, CountSlots, ListHosted, GetAccount, ListCandidates, Assign, At
<1>2. /\ ReqsFit /\ CreateShape(req[q]) /\ req[q].name \in Names
      /\ req[q].pick \in Boxes \cup {Nobody} /\ req[q].cands \subseteq Boxes
      /\ ~At(q, "pause", "release")
  BY <1>1, Creating
<1>3. CASE Done(q)
  BY <1>1, <1>2, <1>3, DoneLets, Idles
<1>4. CASE req[q].stage # "insert" /\ NotFree(q)
  BY <1>1, <1>2, <1>4, NotFreeLets, Idles
<1>5. ASSUME NEW C \in SUBSET Boxes, req[q].stage # "insert", Walk(q, C) PROVE \E r : LetsGo(q, r)
  BY <1>1, <1>2, <1>5, WalkLets, Idles
<1>6. CASE req[q].stage = "resolve" /\ Stage(q, "count")
  <2>1. \A r \in Requests :
          /\ r.stage = "count" /\ r.kind = req[q].kind /\ r.name = req[q].name
          /\ r.pick = req[q].pick /\ r.arg = req[q].arg /\ r.snap = req[q].snap
          /\ r.box = req[q].box /\ r.cands = req[q].cands
          => Shape(r) /\ Quiet(q, r)
    BY <1>1, <1>2, <1>6 DEF Shape, CreateShape, CreateStages, SlotStages, Edits, Quiet
  <2>2. "count" \in ReqStages
    BY DEF ReqStages
  <2> QED BY <1>1, <1>2, <1>6, <2>1, <2>2, StageLets, Idles
<1>7. ASSUME NEW s \in {"get", "assign"}, req[q].stage = "hosted", Stage(q, s)
      PROVE  \E r : LetsGo(q, r)
  <2>1. \A r \in Requests :
          /\ r.stage = s /\ r.kind = req[q].kind /\ r.name = req[q].name
          /\ r.pick = req[q].pick /\ r.arg = req[q].arg /\ r.snap = req[q].snap
          /\ r.box = req[q].box /\ r.cands = req[q].cands
          => Shape(r) /\ Quiet(q, r)
    BY <1>1, <1>2, <1>7 DEF Shape, CreateShape, CreateStages, SlotStages, Edits, Quiet
  <2>2. s \in ReqStages
    BY DEF ReqStages
  <2> QED BY <1>1, <1>2, <1>7, <2>1, <2>2, StageLets, Idles
<1>8. ASSUME NEW s \in {"resolve", "cands"}, req[q].stage = "get", req[q].box \in Boxes \/ s = "cands",
             Put(q, [req[q] EXCEPT !.snap = acc[req[q].name], !.stage = s])
      PROVE  \E r : LetsGo(q, r)
  <2>1. PICK e, a : e = req[q] /\ a = acc[req[q].name]
    OBVIOUS
  <2>2. e \in Requests /\ a \in AccountRow
    BY <1>2, <2>1 DEF AccInv, TablesTyped, ReqsFit
  <2>3. PICK r : r = [e EXCEPT !.snap = a, !.stage = s]
    OBVIOUS
  <2>4. /\ r \in Requests /\ r.stage = s /\ r.kind = e.kind /\ r.name = e.name
        /\ r.pick = e.pick /\ r.box = e.box /\ r.cands = e.cands
    BY <2>2, <2>3 DEF Requests, ReqStages
  <2>5. Shape(r)
    BY <1>1, <1>2, <1>8, <2>1, <2>4 DEF Shape, CreateShape, CreateStages, SlotStages, Edits
  <2>6. Quiet(q, r)
    BY <1>1, <1>8, <2>1, <2>4 DEF Quiet
  <2>7. Put(q, r)
    BY <1>8, <2>1, <2>3
  <2> QED BY <1>1, <1>2, <2>4, <2>5, <2>6, <2>7, Idles DEF Moves
<1>9. CASE Insert(q) /\ Has(req[q].name)
  BY <1>3, <1>9 DEF Insert
<1>10. CASE ResolveContainer(q)
  BY <1>3, <1>6, <1>10 DEF ResolveContainer, At
<1>11. CASE CountSlots(q) /\ ~(CountAccountsByWorker(req[q].box) < MaxPerContainer)
  BY <1>4, <1>11 DEF CountSlots, At
<1>12. CASE ListHosted(q)
  BY <1>4, <1>7, <1>12 DEF ListHosted, At, SlotFree
<1>13. CASE GetAccount(q)
  <2>1. CASE Put(q, [req[q] EXCEPT !.snap = acc[req[q].name],
                                   !.stage = IF Picked(q) THEN "resolve" ELSE "cands"])
    <3>1. PICK s : s = IF Picked(q) THEN "resolve" ELSE "cands"
      OBVIOUS
    <3>2. s \in {"resolve", "cands"} /\ (s = "resolve" => req[q].pick # Nobody)
      BY <3>1 DEF Picked
    <3>3. req[q].stage = "get"
      BY <1>13 DEF GetAccount, At
    <3>4. req[q].box \in Boxes \/ s = "cands"
      BY <1>2, <3>2, <3>3 DEF CreateShape
    <3> QED BY <1>8, <2>1, <3>1, <3>2, <3>3, <3>4
  <2> QED BY <1>3, <1>13, <2>1 DEF GetAccount
<1>14. CASE ListCandidates(q)
  <2>1. {b \in Boxes : Stands(b) /\ box[b].desired = "RUNNING"} \in SUBSET Boxes
    OBVIOUS
  <2> QED BY <1>5, <1>14, <2>1 DEF ListCandidates, At
<1>15. CASE Assign(q) /\ ~(Has(req[q].name) /\ Hostable(req[q].name, req[q].box))
  BY <1>2, <1>3, <1>5, <1>15 DEF Assign, At
<1> QED BY <1>9, <1>10, <1>11, <1>12, <1>13, <1>14, <1>15

LEMMA EditLets ==
    ASSUME AccInv, NEW q \in Reqs, UNCHANGED net,
           \/ AllocatePort(q) /\ Done(q)
           \/ ReadRow(q) /\ Done(q)
           \/ PublishLogin(q)
           \/ WriteRow(q) /\ ~Writable(req[q].name, Edited(q))
           \/ CloseLists(q)
    PROVE  \E r : LetsGo(q, r)
<1>1. ReqsFit /\ req[q] \in Requests /\ Shape(req[q]) /\ asked \subseteq Names
      /\ budget \in [ops : 0 .. MaxOps, aborts : 0 .. MaxAborts]
  BY DEF AccInv, ReqsFit, TablesTyped
<1>2. CASE AllocatePort(q) /\ Done(q)
  <2>1. ~At(q, "pause", "release") /\ UNCHANGED <<acc, box, asked, budget, laundered>>
    BY <1>2 DEF AllocatePort, At
  <2> QED BY <1>1, <1>2, <2>1, DoneLets, Idles
<1>3. CASE ReadRow(q) /\ Done(q)
  <2>1. ~At(q, "pause", "release") /\ UNCHANGED <<acc, box, asked, budget, laundered>>
    BY <1>3 DEF ReadRow, At
  <2> QED BY <1>1, <1>3, <2>1, DoneLets, Idles
<1>4. CASE PublishLogin(q)
  <2>1. req[q].kind = "login" /\ req[q].stage = "publish" /\ UNCHANGED <<acc, box, budget, laundered>>
    BY <1>4 DEF PublishLogin, At
  <2>2. req[q].name \in Names /\ EditShape(req[q]) /\ ~At(q, "pause", "release")
    BY <1>1, <2>1 DEF Shape, Edits, EditShape, At
  <2>3. asked' \subseteq Names
    BY <1>1, <1>4, <2>2 DEF PublishLogin
  <2>4. CASE Done(q)
    <3>1. PICK r : Moves(q, r) /\ Quiet(q, r)
      BY <1>1, <2>4, DoneLets
    <3> QED BY <1>1, <2>1, <2>2, <2>3, <3>1, OnlyMoves
  <2>5. CASE Stage(q, "write")
    <3>1. \A r \in Requests :
            /\ r.stage = "write" /\ r.kind = req[q].kind /\ r.name = req[q].name
            /\ r.pick = req[q].pick /\ r.arg = req[q].arg /\ r.snap = req[q].snap
            /\ r.box = req[q].box /\ r.cands = req[q].cands
            => Shape(r) /\ Quiet(q, r)
      BY <2>1, <2>2 DEF Shape, EditShape, Edits, Quiet
    <3>2. "write" \in ReqStages
      BY DEF ReqStages
    <3>3. PICK r : Moves(q, r) /\ Quiet(q, r)
      BY <1>1, <2>5, <3>1, <3>2, StageLets
    <3> QED BY <1>1, <2>1, <2>2, <2>3, <3>3, OnlyMoves
  <2> QED BY <1>4, <2>4, <2>5 DEF PublishLogin
<1>5. CASE WriteRow(q) /\ ~Writable(req[q].name, Edited(q))
  <2>1. ~At(q, "pause", "release") /\ UNCHANGED <<acc, box, asked, budget, laundered>> /\ Done(q)
    BY <1>5 DEF WriteRow, At
  <2> QED BY <1>1, <2>1, DoneLets, Idles
<1>6. CASE CloseLists(q)
  <2>1. /\ req[q].kind = "close" /\ UNCHANGED <<acc, box, asked, budget, laundered>>
        /\ ~At(q, "pause", "release")
    BY <1>6 DEF CloseLists, At
  <2>2. CASE Done(q)
    BY <1>1, <2>1, <2>2, DoneLets, Idles
  <2>3. CASE Put(q, [req[q] EXCEPT !.stage = "empty", !.todo = ListAccountsByWorker(req[q].box)])
    <3>1. PICK e, T : e = req[q] /\ T = ListAccountsByWorker(req[q].box)
      OBVIOUS
    <3>2. T \subseteq Names
      BY <3>1 DEF ListAccountsByWorker
    <3>3. PICK r : r = [e EXCEPT !.stage = "empty", !.todo = T]
      OBVIOUS
    <3>4. r \in Requests /\ r.stage = "empty" /\ r.kind = e.kind /\ r.name = e.name /\ r.box = e.box
      BY <1>1, <3>1, <3>2, <3>3 DEF Requests, ReqStages
    <3>5. Shape(r) /\ Quiet(q, r)
      BY <1>1, <2>1, <3>1, <3>4 DEF Shape, CloseShape, Edits, Quiet
    <3>6. Put(q, r)
      BY <2>3, <3>1, <3>3
    <3> QED BY <1>1, <2>1, <3>4, <3>5, <3>6, Idles DEF Moves
  <2> QED BY <1>6, <2>2, <2>3 DEF CloseLists
<1> QED BY <1>2, <1>3, <1>4, <1>5, <1>6

\* An account loses its container, or its row.
LEMMA Unassigned ==
    ASSUME TablesTyped, NEW q, NEW n \in Names, UNCHANGED box,
           UNCHANGED acc \/ UnassignAccount(n)
             \/ (req[q].kind = "remove" /\ n = req[q].name /\ DeleteAccount(n))
    PROVE  /\ acc' \in [Names -> AccountRow] /\ Unplaces(q)
           /\ \A m \in Names : acc'[m].box # Nobody => box'[acc'[m].box].phase = "live"
           /\ UnassignAccount(n) => acc'[n].box = Nobody
           /\ box' \in [Boxes -> BoxRow]
           /\ \A b \in Boxes : Stands(b)' => Stands(b) /\ box'[b].port = box[b].port
<1>1. /\ acc \in [Names -> AccountRow] /\ box \in [Boxes -> BoxRow]
      /\ \A m \in Names : acc[m].box # Nobody => box[acc[m].box].phase = "live"
  BY DEF TablesTyped, Stands
<1>2. \A b \in Boxes : Stands(b)' => Stands(b) /\ box'[b].port = box[b].port
  BY DEF Stands
<1>3. CASE UNCHANGED acc
  <2>1. UnassignAccount(n) => acc'[n].box = Nobody
    BY <1>1 DEF UnassignAccount, AccountRow
  <2> QED BY <1>1, <1>2, <1>3, <2>1 DEF Unplaces
<1>4. CASE UnassignAccount(n)
  <2>1. PICK e, f : e = acc[n] /\ f = [acc[n] EXCEPT !.box = Nobody]
    OBVIOUS
  <2>2. e \in AccountRow /\ f = [e EXCEPT !.box = Nobody]
    BY <1>1, <2>1
  <2>3. f \in AccountRow /\ f.box = Nobody
    BY <2>2 DEF AccountRow
  <2>4. acc' = [acc EXCEPT ![n] = f]
    BY <1>1, <1>4, <2>1 DEF UnassignAccount
  <2>5. acc' \in [Names -> AccountRow] /\ acc'[n] = f /\ \A m \in Names : m # n => acc'[m] = acc[m]
    BY <1>1, <2>3, <2>4
  <2>6. Unplaces(q)
    BY <2>1, <2>5 DEF Unplaces
  <2>7. \A m \in Names : acc'[m].box # Nobody => box'[acc'[m].box].phase = "live"
    BY <1>1, <2>3, <2>5
  <2> QED BY <1>1, <1>2, <2>3, <2>5, <2>6, <2>7
<1>5. CASE req[q].kind = "remove" /\ n = req[q].name /\ DeleteAccount(n)
  <2>1. PICK f : f = [NoAccount EXCEPT !.phase = "gone"]
    OBVIOUS
  <2>2. f \in AccountRow /\ f.box = Nobody
    BY <2>1, FreshRow
  <2>3. acc' = [acc EXCEPT ![n] = f]
    BY <1>5, <2>1 DEF DeleteAccount
  <2>4. acc' \in [Names -> AccountRow] /\ acc'[n] = f /\ \A m \in Names : m # n => acc'[m] = acc[m]
    BY <1>1, <2>2, <2>3
  <2>5. Unplaces(q)
    BY <1>5, <2>1, <2>4 DEF Unplaces
  <2>6. \A m \in Names : acc'[m].box # Nobody => box'[acc'[m].box].phase = "live"
    BY <1>1, <2>2, <2>4
  <2> QED BY <1>1, <1>2, <2>2, <2>4, <2>5, <2>6
<1> QED BY <1>3, <1>4, <1>5

LEMMA ReleaseLets ==
    ASSUME AccInv, NEW q \in Reqs, UNCHANGED net,
           Release(q) \/ RemoveReleases(q) \/ RemoveDeletes(q) \/ CloseReleases(q)
    PROVE  \E r : LetsGo(q, r)
<1>1. /\ ReqsFit /\ TablesTyped /\ req[q] \in Requests /\ Shape(req[q]) /\ asked \subseteq Names
      /\ budget \in [ops : 0 .. MaxOps, aborts : 0 .. MaxAborts]
      /\ UNCHANGED <<box, asked, budget, laundered>>
  BY DEF AccInv, ReqsFit, TablesTyped, Release, RemoveReleases, RemoveDeletes, CloseReleases
<1>2. CASE Release(q)
  <2>1. req[q].kind = "pause" /\ req[q].stage = "release" /\ Done(q)
    BY <1>2 DEF Release, At
  <2>2. req[q].name \in Names
    BY <1>1, <2>1 DEF Shape, EditShape, Edits
  <2>3. IF Has(req[q].name) THEN UnassignAccount(req[q].name) ELSE UNCHANGED acc
    BY <1>2 DEF Release
  <2>4. PICK r : Moves(q, r) /\ Quiet(q, r)
    BY <1>1, <2>1, DoneLets
  <2>5. /\ acc' \in [Names -> AccountRow] /\ Unplaces(q)
        /\ \A m \in Names : acc'[m].box # Nobody => box'[acc'[m].box].phase = "live"
        /\ UnassignAccount(req[q].name) => acc'[req[q].name].box = Nobody
        /\ box' \in [Boxes -> BoxRow]
        /\ \A b \in Boxes : Stands(b)' => Stands(b) /\ box'[b].port = box[b].port
    BY <1>1, <2>2, <2>3, Unassigned
  <2>6. acc'[req[q].name].phase = "live" => acc'[req[q].name].box = Nobody
    BY <2>3, <2>5 DEF Has
  <2> QED BY <1>1, <2>4, <2>5, <2>6 DEF LetsGo
<1>3. CASE RemoveReleases(q) \/ RemoveDeletes(q)
  <2>1. req[q].kind = "remove" /\ ~At(q, "pause", "release")
    BY <1>3 DEF RemoveReleases, RemoveDeletes, At
  <2>2. req[q].name \in Names
    BY <1>1, <2>1 DEF Shape
  <2>3. PICK r : Moves(q, r) /\ Quiet(q, r)
    <3>1. CASE Done(q)
      BY <1>1, <3>1, DoneLets
    <3>2. CASE Stage(q, "delete")
      <4>1. \A r \in Requests :
              /\ r.stage = "delete" /\ r.kind = req[q].kind /\ r.name = req[q].name
              /\ r.pick = req[q].pick /\ r.arg = req[q].arg /\ r.snap = req[q].snap
              /\ r.box = req[q].box /\ r.cands = req[q].cands
              => Shape(r) /\ Quiet(q, r)
        BY <2>1, <2>2 DEF Shape, Edits, Quiet
      <4>2. "delete" \in ReqStages
        BY DEF ReqStages
      <4> QED BY <1>1, <3>2, <4>1, <4>2, StageLets
    <3> QED BY <1>3, <3>1, <3>2 DEF RemoveReleases, RemoveDeletes
  <2>4. UNCHANGED acc \/ UnassignAccount(req[q].name) \/ DeleteAccount(req[q].name)
    BY <1>3 DEF RemoveReleases, RemoveDeletes
  <2>5. /\ acc' \in [Names -> AccountRow] /\ Unplaces(q)
        /\ \A m \in Names : acc'[m].box # Nobody => box'[acc'[m].box].phase = "live"
        /\ box' \in [Boxes -> BoxRow]
        /\ \A b \in Boxes : Stands(b)' => Stands(b) /\ box'[b].port = box[b].port
    BY <1>1, <2>1, <2>2, <2>4, Unassigned
  <2> QED BY <1>1, <2>1, <2>3, <2>5 DEF LetsGo
<1>4. CASE CloseReleases(q)
  <2>1. req[q].kind = "close" /\ req[q].stage = "empty" /\ ~At(q, "pause", "release")
    BY <1>4 DEF CloseReleases, At
  <2>2. PICK n \in req[q].todo :
          /\ UNCHANGED acc \/ UnassignAccount(n)
          /\ Put(q, [req[q] EXCEPT !.todo = @ \ {n}])
    BY <1>4 DEF CloseReleases
  <2>3. n \in Names /\ req[q].todo \ {n} \subseteq Names
    BY <1>1, <2>2 DEF Requests
  <2>4. PICK e, r : e = req[q] /\ r = [req[q] EXCEPT !.todo = req[q].todo \ {n}]
    OBVIOUS
  <2>5. r \in Requests /\ r.stage = "empty" /\ r.kind = e.kind /\ r.name = e.name /\ r.box = e.box
    BY <1>1, <2>1, <2>3, <2>4 DEF Requests
  <2>6. Shape(r) /\ Quiet(q, r) /\ Put(q, r)
    BY <1>1, <2>1, <2>2, <2>4, <2>5 DEF Shape, CloseShape, Edits, Quiet
  <2>7. /\ acc' \in [Names -> AccountRow] /\ Unplaces(q)
        /\ \A m \in Names : acc'[m].box # Nobody => box'[acc'[m].box].phase = "live"
        /\ box' \in [Boxes -> BoxRow]
        /\ \A b \in Boxes : Stands(b)' => Stands(b) /\ box'[b].port = box[b].port
    BY <1>1, <2>2, <2>3, Unassigned
  <2> QED BY <1>1, <2>1, <2>5, <2>6, <2>7 DEF LetsGo, Moves
<1> QED BY <1>2, <1>3, <1>4

\* A container stops, or is dropped, and with it the slots it gave.
LEMMA CloseLets ==
    ASSUME AccInv, NEW q \in Reqs, UNCHANGED net, CloseStops(q) \/ CloseDrops(q)
    PROVE  \E r : LetsGo(q, r)
<1>1. /\ ReqsFit /\ TablesTyped /\ req[q] \in Requests /\ Shape(req[q]) /\ asked \subseteq Names
      /\ budget \in [ops : 0 .. MaxOps, aborts : 0 .. MaxAborts]
      /\ UNCHANGED <<asked, budget, laundered>>
      /\ req[q].kind = "close" /\ ~At(q, "pause", "release")
      /\ acc \in [Names -> AccountRow] /\ box \in [Boxes -> BoxRow]
      /\ \A m \in Names : acc[m].box # Nobody => box[acc[m].box].phase = "live"
  BY DEF AccInv, ReqsFit, TablesTyped, CloseStops, CloseDrops, At, Stands
<1>2. PICK c \in Boxes : c = req[q].box
  BY <1>1 DEF Shape, CloseShape
<1>3. PICK r : Moves(q, r) /\ Quiet(q, r)
  <2>1. CASE Done(q)
    BY <1>1, <2>1, DoneLets
  <2>2. CASE Stage(q, "drop")
    <3>1. \A r \in Requests :
            /\ r.stage = "drop" /\ r.kind = req[q].kind /\ r.name = req[q].name
            /\ r.pick = req[q].pick /\ r.arg = req[q].arg /\ r.snap = req[q].snap
            /\ r.box = req[q].box /\ r.cands = req[q].cands
            => Shape(r) /\ Quiet(q, r)
      BY <1>1 DEF Shape, CloseShape, Edits, Quiet
    <3>2. "drop" \in ReqStages
      BY DEF ReqStages
    <3> QED BY <1>1, <2>2, <3>1, <3>2, StageLets
  <2> QED BY <2>1, <2>2 DEF CloseStops, CloseDrops
<1>4. /\ acc' \in [Names -> AccountRow] /\ Unplaces(q)
      /\ \A m \in Names : acc'[m].box # Nobody => box'[acc'[m].box].phase = "live"
      /\ box' \in [Boxes -> BoxRow]
      /\ \A b \in Boxes : Stands(b)' => Stands(b) /\ box'[b].port = box[b].port
  <2>1. CASE UNCHANGED <<acc, box>>
    BY <1>1, <2>1 DEF Unplaces, Stands
  <2>2. CASE UNCHANGED acc /\ box' = [box EXCEPT ![c].desired = "STOPPED"]
    <3>1. PICK e, f : e = box[c] /\ f = [box[c] EXCEPT !.desired = "STOPPED"]
      OBVIOUS
    <3>2. f \in BoxRow /\ f.phase = e.phase /\ f.port = e.port
      BY <1>1, <3>1 DEF BoxRow, DesiredStates
    <3>3. box' = [box EXCEPT ![c] = f]
      BY <1>1, <2>2, <3>1
    <3>4. /\ box' \in [Boxes -> BoxRow]
          /\ \A b \in Boxes : box'[b].phase = box[b].phase /\ box'[b].port = box[b].port
      BY <1>1, <3>1, <3>2, <3>3
    <3>5. \A m \in Names : acc[m].box # Nobody => acc[m].box \in Boxes
      BY <1>1 DEF AccountRow
    <3> QED BY <1>1, <2>2, <3>4, <3>5 DEF Unplaces, Stands
  <2>3. CASE DeleteBox(c)
    <3>1. PICK e : e = [NoBox EXCEPT !.phase = "gone"]
      OBVIOUS
    <3>2. e \in BoxRow /\ e.phase = "gone"
      BY <3>1 DEF NoBox, BoxRow, WorkerSources, DesiredStates
    <3>3. box' = [box EXCEPT ![c] = e]
      BY <2>3, <3>1 DEF DeleteBox
    <3>4. box' \in [Boxes -> BoxRow] /\ box'[c] = e /\ \A b \in Boxes : b # c => box'[b] = box[b]
      BY <1>1, <3>2, <3>3
    <3>5. \A n \in Names :
            /\ acc[n].box = c => acc'[n] = [acc[n] EXCEPT !.box = Nobody]
            /\ acc[n].box # c => acc'[n] = acc[n]
      BY <2>3 DEF DeleteBox
    <3>6. ASSUME NEW n \in Names
          PROVE  /\ acc'[n] \in AccountRow /\ acc'[n].box # c
                 /\ acc'[n].box # Nobody => acc'[n].box = acc[n].box
      <4>1. PICK x, y : x = acc[n] /\ y = acc'[n]
        OBVIOUS
      <4>2. x \in AccountRow /\ (x.box = c => y = [x EXCEPT !.box = Nobody]) /\ (x.box # c => y = x)
        BY <1>1, <3>5, <4>1
      <4>3. y \in AccountRow /\ y.box # c /\ (y.box # Nobody => y.box = x.box)
        BY <1>2, <4>2, AccountBounds DEF AccountRow
      <4> QED BY <4>1, <4>3
    <3>7. acc' \in [Names -> AccountRow]
      <4>1. \E g : acc' = [n \in Names |-> g[n]]
        BY <2>3 DEF DeleteBox
      <4> QED BY <3>6, <4>1
    <3>8. Unplaces(q)
      BY <3>5 DEF Unplaces
    <3>9. \A m \in Names : acc'[m].box # Nobody => box'[acc'[m].box].phase = "live"
      BY <1>1, <3>4, <3>6 DEF AccountRow
    <3>10. \A b \in Boxes : Stands(b)' => Stands(b) /\ box'[b].port = box[b].port
      BY <3>2, <3>4 DEF Stands
    <3> QED BY <3>4, <3>7, <3>8, <3>9, <3>10
  <2> QED BY <1>2, <2>1, <2>2, <2>3 DEF CloseStops, CloseDrops
<1> QED BY <1>1, <1>3, <1>4 DEF LetsGo

-----------------------------------------------------------------------------
(***************************************************************************)
(* The other steps.                                                        *)
(***************************************************************************)
\* A container is found to have room.
LEMMA CountsOne ==
    ASSUME AccInv, NEW q \in Reqs, CountSlots(q), CountAccountsByWorker(req[q].box) < MaxPerContainer
    PROVE  /\ req[q].kind = "create" /\ req[q].stage = "count" /\ req[q].box \in Boxes
           /\ UNCHANGED <<acc, box, asked, budget, laundered>>
           /\ \E r : /\ Moves(q, r) /\ r.kind = "create" /\ r.stage = "hosted"
                     /\ r.name = req[q].name /\ r.box = req[q].box
<1>1. /\ req[q].kind = "create" /\ req[q].stage = "count" /\ Stage(q, "hosted")
      /\ UNCHANGED <<acc, box, asked, budget, laundered>>
  BY DEF CountSlots, At
<1>2. ReqsFit /\ CreateShape(req[q]) /\ req[q].box \in Boxes /\ req[q].cands \subseteq Boxes
  BY <1>1, Creating DEF SlotStages
<1>3. PICK r : r = [req[q] EXCEPT !.stage = "hosted"]
  OBVIOUS
<1>4. /\ r \in Requests /\ r.stage = "hosted" /\ r.kind = req[q].kind /\ r.name = req[q].name
      /\ r.pick = req[q].pick /\ r.box = req[q].box /\ r.cands = req[q].cands
  BY <1>2, <1>3, Staged DEF ReqStages
<1>5. Shape(r)
  BY <1>1, <1>2, <1>4 DEF Shape, CreateShape, CreateStages, SlotStages, Edits
<1>6. Moves(q, r)
  BY <1>1, <1>3, <1>4, <1>5 DEF Moves, Stage
<1> QED BY <1>1, <1>2, <1>4, <1>6

\* A port is found.
LEMMA PortFound ==
    ASSUME AccInv, NEW q \in Reqs, AllocatePort(q), ~Done(q)
    PROVE  /\ UNCHANGED <<acc, box, asked, budget, laundered>>
           /\ req[q].kind \in {"create", "open"} /\ req[q].stage = "port"
           /\ \E r : /\ Moves(q, r) /\ r.stage = "spawn" /\ r.kind = req[q].kind
                     /\ r.name = req[q].name
                     /\ \A p \in Ports : p \in r.cands => p \notin UsedPorts
<1>1. /\ UNCHANGED <<acc, box, asked, budget, laundered>>
      /\ req[q].kind \in {"create", "open"} /\ req[q].stage = "port"
  BY DEF AllocatePort
<1>2. PICK asks : asks = IF req[q].kind = "open" THEN req[q].pick ELSE Nobody
  OBVIOUS
<1>3. PICK found : found = PickPort(asks)
  OBVIOUS
<1>4. Put(q, [req[q] EXCEPT !.stage = "spawn", !.cands = found])
  BY <1>2, <1>3 DEF AllocatePort
<1>5. PICK e : e = req[q]
  OBVIOUS
<1>6. e \in Requests /\ Shape(e)
  BY <1>5 DEF AccInv, ReqsFit
<1>7. asks \in Ports \cup {Nobody}
  BY <1>1, <1>2, <1>5, <1>6 DEF Shape, OpenShape
<1>8. found \subseteq Ports /\ \A p \in found : p \notin UsedPorts
  BY <1>3, <1>7 DEF PickPort
<1>9. PICK r : r = [e EXCEPT !.stage = "spawn", !.cands = found]
  OBVIOUS
<1>10. /\ r \in Requests /\ r.stage = "spawn" /\ r.kind = e.kind /\ r.name = e.name
       /\ r.pick = e.pick /\ r.box = e.box /\ r.cands = found
  BY <1>6, <1>8, <1>9 DEF Requests, ReqStages
<1>11. Shape(r)
  BY <1>1, <1>5, <1>6, <1>8, <1>10
     DEF Shape, CreateShape, OpenShape, CreateStages, SlotStages, Edits
<1>12. Moves(q, r)
  BY <1>4, <1>5, <1>9, <1>10, <1>11 DEF Moves
<1> QED BY <1>1, <1>5, <1>8, <1>10, <1>12

\* A container is inserted on its port, for the request to use or not.
LEMMA Spawns ==
    ASSUME AccInv, NEW q \in Reqs, CreateWorker(q)
    PROVE  /\ UNCHANGED <<acc, asked, budget, laundered>>
           /\ req[q].kind \in {"create", "open"} /\ req[q].stage = "spawn"
           /\ \E b \in Boxes, p \in Ports : \E r :
                /\ p \in req[q].cands /\ box[b].phase = "none"
                /\ box' \in [Boxes -> BoxRow] /\ box'[b].phase = "live" /\ box'[b].port = p
                /\ \A c \in Boxes : c # b => box'[c] = box[c]
                /\ Moves(q, r)
                /\ \/ Settled(r)
                   \/ /\ req[q].kind = "create"
                      /\ r.kind = "create" /\ r.stage = "assign" /\ r.box = b /\ r.name = req[q].name
<1>1. req[q].stage = "spawn" /\ UNCHANGED <<acc, asked, budget, laundered>>
  BY DEF CreateWorker
<1>2. PICK e : e = req[q]
  OBVIOUS
<1>3. e \in Requests /\ Shape(e) /\ ReqsFit /\ box \in [Boxes -> BoxRow]
  BY <1>2 DEF AccInv, ReqsFit, TablesTyped
<1>4. e.kind \in {"create", "open"} /\ e.cands \subseteq Ports
  BY <1>1, <1>2, <1>3 DEF Shape, CreateShape, OpenShape, CloseShape, EditShape, Kinds, Edits, Requests
<1>5. PICK b \in NextBox, p \in req[q].cands :
        /\ InsertBox(b, IF req[q].kind = "open" THEN "MANUAL" ELSE "AUTO", p)
        /\ IF req[q].kind = "open" THEN Done(q)
           ELSE Put(q, [req[q] EXCEPT !.stage = "assign", !.box = b, !.cands = {b}])
  BY DEF CreateWorker
<1>6. b \in Boxes /\ box[b].phase = "none" /\ p \in Ports
  BY <1>2, <1>4, <1>5 DEF NextBox
<1>7. PICK s, row : /\ s = IF req[q].kind = "open" THEN "MANUAL" ELSE "AUTO"
                    /\ row = [phase |-> "live", source |-> s, desired |-> "RUNNING", port |-> p]
  OBVIOUS
<1>8. s \in WorkerSources
  BY <1>7 DEF WorkerSources
<1>9. row \in BoxRow /\ row.phase = "live" /\ row.port = p
  BY <1>6, <1>7, <1>8 DEF BoxRow, DesiredStates
<1>10. box' = [box EXCEPT ![b] = row]
  BY <1>5, <1>7 DEF InsertBox
<1>11. /\ box' \in [Boxes -> BoxRow] /\ box'[b].phase = "live" /\ box'[b].port = p
       /\ \A c \in Boxes : c # b => box'[c] = box[c]
  BY <1>3, <1>6, <1>9, <1>10
<1>12. CASE req[q].kind = "open"
  <2>1. PICK r : Moves(q, r) /\ Settled(r)
    BY <1>3, <1>5, <1>12, DoneMoves
  <2> QED BY <1>1, <1>5, <1>6, <1>11, <1>12, <2>1
<1>13. CASE req[q].kind = "create"
  <2>1. PICK r : r = [e EXCEPT !.stage = "assign", !.box = b, !.cands = {b}]
    OBVIOUS
  <2>2. /\ r \in Requests /\ r.stage = "assign" /\ r.kind = "create" /\ r.name = e.name
        /\ r.pick = e.pick /\ r.box = b /\ r.cands = {b}
    BY <1>2, <1>3, <1>6, <1>13, <2>1 DEF Requests, ReqStages
  <2>3. Shape(r)
    BY <1>2, <1>3, <1>6, <1>13, <2>2 DEF Shape, CreateShape, CreateStages, SlotStages, Edits
  <2>4. Put(q, r)
    BY <1>2, <1>5, <1>13, <2>1
  <2> QED BY <1>1, <1>2, <1>5, <1>6, <1>11, <1>13, <2>2, <2>3, <2>4 DEF Moves
<1> QED BY <1>2, <1>4, <1>12, <1>13

\* A row is inserted, and its request goes on to pack it.
LEMMA InsertsRow ==
    ASSUME AccInv, NEW q \in Reqs, Insert(q), ~Has(req[q].name)
    PROVE  /\ UNCHANGED <<box, asked, budget, laundered>>
           /\ req[q].kind = "create" /\ req[q].stage = "insert" /\ req[q].name \in Names
           /\ acc' = [acc EXCEPT ![req[q].name] = Fresh]
           /\ \E r : /\ Moves(q, r) /\ r.kind = "create" /\ r.stage \in {"resolve", "get"}
                     /\ r.name = req[q].name
<1>1. /\ UNCHANGED <<box, asked, budget, laundered>>
      /\ req[q].kind = "create" /\ req[q].stage = "insert"
      /\ acc' = [acc EXCEPT ![req[q].name] = Fresh]
  BY DEF Insert, At, InsertAccount
<1>2. PICK e : e = req[q]
  OBVIOUS
<1>3. e \in Requests /\ ReqsFit /\ CreateShape(e) /\ e.name \in Names /\ e.cands \subseteq Boxes
  BY <1>1, <1>2, Creating DEF ReqsFit
<1>4. CASE Picked(q)
  <2>1. PICK r : r = [e EXCEPT !.stage = "resolve", !.box = e.pick]
    OBVIOUS
  <2>2. e.pick \in Boxes
    BY <1>2, <1>3, <1>4 DEF Picked, CreateShape
  <2>3. /\ r \in Requests /\ r.stage = "resolve" /\ r.kind = e.kind /\ r.name = e.name
        /\ r.pick = e.pick /\ r.box = e.pick /\ r.cands = e.cands
    BY <1>3, <2>1, <2>2 DEF Requests, ReqStages
  <2>4. Shape(r)
    BY <1>1, <1>2, <1>3, <2>2, <2>3 DEF Shape, CreateShape, CreateStages, SlotStages, Edits
  <2>5. Put(q, r)
    BY <1>2, <1>4, <2>1 DEF Insert
  <2> QED BY <1>1, <1>2, <1>3, <2>3, <2>4, <2>5 DEF Moves
<1>5. CASE ~Picked(q)
  <2>1. PICK r : r = [req[q] EXCEPT !.stage = "get"]
    OBVIOUS
  <2>2. /\ r \in Requests /\ r.stage = "get" /\ r.kind = e.kind /\ r.name = e.name
        /\ r.pick = e.pick /\ r.cands = e.cands
    BY <1>2, <1>3, <2>1, Staged DEF ReqStages
  <2>3. Shape(r)
    BY <1>1, <1>2, <1>3, <1>5, <2>2 DEF Shape, CreateShape, CreateStages, SlotStages, Edits, Picked
  <2>4. Put(q, r)
    BY <1>5, <2>1 DEF Insert, Stage
  <2> QED BY <1>1, <1>2, <1>3, <2>2, <2>3, <2>4 DEF Moves
<1> QED BY <1>4, <1>5

\* An account gets its container.
LEMMA AssignsOne ==
    ASSUME AccInv, NEW q \in Reqs, Assign(q), Has(req[q].name), Hostable(req[q].name, req[q].box)
    PROVE  /\ UNCHANGED <<box, asked, budget, laundered>>
           /\ req[q].kind = "create" /\ req[q].stage = "assign" /\ req[q].name \in Names
           /\ req[q].box \in Boxes
           /\ acc' = [acc EXCEPT ![req[q].name].box = req[q].box]
           /\ \E r : Moves(q, r) /\ Settled(r)
<1>1. /\ UNCHANGED <<box, asked, budget, laundered>>
      /\ req[q].kind = "create" /\ req[q].stage = "assign" /\ Done(q)
      /\ acc' = [acc EXCEPT ![req[q].name].box = req[q].box]
  BY DEF Assign, At, AssignAccount
<1>2. ReqsFit /\ req[q].name \in Names /\ req[q].box \in Boxes
  BY <1>1, Creating DEF SlotStages
<1> QED BY <1>1, <1>2, DoneMoves

\* A row is read, to be written back.
LEMMA ReadsRow ==
    ASSUME AccInv, NEW q \in Reqs, ReadRow(q), ~Done(q)
    PROVE  /\ UNCHANGED <<acc, box, asked, budget, laundered>>
           /\ req[q].kind \in Edits /\ req[q].stage = "read" /\ req[q].name \in Names
           /\ Has(req[q].name)
           /\ \E r : /\ Moves(q, r) /\ r.kind = req[q].kind /\ r.name = req[q].name
                     /\ r.stage \in {"publish", "write"} /\ r.snap = acc[req[q].name]
<1>1. /\ UNCHANGED <<acc, box, asked, budget, laundered>>
      /\ req[q].kind \in Edits /\ req[q].stage = "read"
      /\ Has(req[q].name)
      /\ req[q].kind = "resume" => acc[req[q].name].status \in {"PAUSED", "QUARANTINED"}
      /\ Put(q, [req[q] EXCEPT !.snap = acc[req[q].name],
                               !.stage = IF req[q].kind = "login" THEN "publish" ELSE "write"])
  BY DEF ReadRow
<1>2. PICK e, a, s : /\ e = req[q] /\ a = acc[req[q].name]
                     /\ s = IF req[q].kind = "login" THEN "publish" ELSE "write"
  OBVIOUS
<1>3. e \in Requests /\ Shape(e) /\ EditShape(e)
  BY <1>1, <1>2 DEF AccInv, ReqsFit, Shape
<1>4. e.name \in Names /\ a \in AccountRow /\ a.phase = "live"
  BY <1>1, <1>2, <1>3 DEF AccInv, TablesTyped, EditShape, Has
<1>5. s \in {"publish", "write"} /\ (s = "publish" => e.kind = "login")
  BY <1>2
<1>6. PICK r : r = [e EXCEPT !.snap = a, !.stage = s]
  OBVIOUS
<1>7. /\ r \in Requests /\ r.stage = s /\ r.kind = e.kind /\ r.name = e.name
      /\ r.arg = e.arg /\ r.snap = a
  BY <1>3, <1>4, <1>5, <1>6 DEF Requests, ReqStages
<1>8. Shape(r)
  BY <1>1, <1>2, <1>3, <1>4, <1>5, <1>7 DEF Shape, EditShape, Edits
<1>9. Put(q, r)
  BY <1>1, <1>2, <1>6
<1> QED BY <1>1, <1>2, <1>4, <1>5, <1>7, <1>8, <1>9 DEF Moves

LEMMA ScoreTyped ==
    ASSUME NEW s \in 0 .. ScoreMax, NEW v \in Verdicts
    PROVE  Scored(s, v) \in 0 .. ScoreMax
<1>1. Penalty(v) \in Nat
  BY AccountBounds DEF Penalty
<1>2. PICK x : x = IF v = "SUCCESS" THEN s + RecoverBonus ELSE s - Penalty(v)
  OBVIOUS
<1>3. x \in Int
  BY <1>1, <1>2, AccountBounds
<1>4. ClampScore(x) \in 0 .. ScoreMax
  BY <1>3, AccountBounds DEF ClampScore
<1> QED BY <1>2, <1>4 DEF Scored

\* What an edit makes of a row: its container stays, and unless it judges or
\* resumes the account so does its score.
LEMMA EditMakes ==
    ASSUME AccInv, NEW q \in Reqs, req[q].kind \in Edits, req[q].stage = "write"
    PROVE  /\ req[q].name \in Names /\ req[q].snap \in AccountRow
           /\ Edited(q) \in AccountRow /\ Edited(q).phase = "live"
           /\ Edited(q).box = req[q].snap.box
           /\ Edited(q).status = "PAUSED" => req[q].kind = "pause" \/ req[q].snap.status = "PAUSED"
           /\ Healthy(req[q].snap) /\ (req[q].kind = "pause" => IsPackable(req[q].snap)) =>
                Healthy(Edited(q))
<1>1. PICK e : e = req[q].snap
  OBVIOUS
<1>2. e \in AccountRow /\ e.phase = "live" /\ req[q].name \in Names /\ EditShape(req[q])
  BY <1>1 DEF AccInv, ReqsFit, Requests, Shape, EditShape
<1>3. /\ e.score \in 0 .. ScoreMax /\ e.status \in Statuses
      /\ ScoreMax \in 0 .. ScoreMax /\ ScoreMax >= QuarantineThreshold
  BY <1>2, AccountBounds DEF AccountRow
<1>4. PICK f : f = Edited(q)
  OBVIOUS
<1>5. CASE req[q].kind = "pause"
  <2>1. f = [e EXCEPT !.status = "PAUSED"]
    BY <1>1, <1>4, <1>5 DEF Edited
  <2>2. f \in AccountRow /\ f.phase = "live" /\ f.box = e.box /\ f.score = e.score
    BY <1>2, <2>1 DEF AccountRow, Statuses
  <2>3. IsPackable(e) /\ Healthy(e) => Healthy(f)
    BY <1>3, <2>2 DEF IsPackable, Healthy, Statuses
  <2> QED BY <1>1, <1>2, <1>4, <1>5, <2>2, <2>3
<1>6. CASE req[q].kind = "resume"
  <2>1. PICK s : s = IF e.status = "QUARANTINED" THEN ScoreMax ELSE e.score
    OBVIOUS
  <2>2. s \in 0 .. ScoreMax
    BY <1>3, <2>1
  <2>3. f = [e EXCEPT !.status = "ACTIVE", !.score = s]
    BY <1>1, <1>4, <1>6, <2>1 DEF Edited, Resumed
  <2>4. f \in AccountRow /\ f.phase = "live" /\ f.box = e.box /\ f.score = s /\ f.status = "ACTIVE"
    BY <1>2, <2>2, <2>3 DEF AccountRow, Statuses
  <2>5. Healthy(e) => Healthy(f)
    <3>1. e.status \in {"PAUSED", "QUARANTINED"}
      BY <1>1, <1>2, <1>6 DEF EditShape
    <3> QED BY <1>3, <2>1, <2>4, <3>1, AccountBounds DEF Healthy
  <2> QED BY <1>1, <1>2, <1>4, <1>6, <2>4, <2>5
<1>7. CASE req[q].kind \in {"login", "outcome"}
  <2>1. PICK u : u = IF req[q].kind = "login" THEN "AUTHENTICATING" ELSE req[q].arg
    OBVIOUS
  <2>2. u \in AuthStates
    BY <1>2, <1>7, <2>1 DEF EditShape, AuthStates
  <2>3. f = [e EXCEPT !.auth = u]
    BY <1>1, <1>4, <1>7, <2>1 DEF Edited
  <2>4. f \in AccountRow /\ f.phase = "live" /\ f.box = e.box /\ f.score = e.score /\ f.status = e.status
    BY <1>2, <2>2, <2>3 DEF AccountRow
  <2> QED BY <1>1, <1>2, <1>4, <1>7, <2>4 DEF Healthy
<1>8. CASE req[q].kind = "verdict"
  <2>1. PICK v, s : v = req[q].arg /\ s = Scored(e.score, v)
    OBVIOUS
  <2>2. v \in Verdicts /\ s \in 0 .. ScoreMax
    BY <1>2, <1>3, <1>8, <2>1, ScoreTyped DEF EditShape
  <2>3. PICK x : x = IF IsTerminal(v) THEN "DEAD"
                     ELSE IF ShouldQuarantine(s, v) THEN "QUARANTINED" ELSE e.status
    OBVIOUS
  <2>4. x \in Statuses
    BY <1>3, <2>3 DEF Statuses
  <2>5. f = [e EXCEPT !.score = s, !.status = x]
    BY <1>1, <1>4, <1>8, <2>1, <2>3 DEF Edited, Judged
  <2>6. f \in AccountRow /\ f.phase = "live" /\ f.box = e.box /\ f.score = s /\ f.status = x
    BY <1>2, <2>2, <2>4, <2>5 DEF AccountRow
  <2>7. x = "PAUSED" => e.status = "PAUSED"
    BY <2>3
  <2>8. Healthy(f)
    BY <2>2, <2>3, <2>6, AccountBounds DEF Healthy, ShouldQuarantine
  <2> QED BY <1>1, <1>2, <1>4, <1>8, <2>6, <2>7, <2>8
<1> QED BY <1>5, <1>6, <1>7, <1>8 DEF Edits

\* A row is written back.
LEMMA WritesRow ==
    ASSUME AccInv, NEW q \in Reqs, WriteRow(q), Writable(req[q].name, Edited(q))
    PROVE  /\ UNCHANGED <<box, asked, budget>>
           /\ req[q].kind \in Edits /\ req[q].stage = "write"
           /\ acc' = [acc EXCEPT ![req[q].name] = Edited(q)]
           /\ laundered' = IF req[q].kind = "pause" /\ ~IsPackable(req[q].snap)
                           THEN laundered \cup {req[q].name} ELSE laundered
           /\ \E r : /\ Moves(q, r)
                     /\ IF req[q].kind = "pause"
                        THEN r.kind = "pause" /\ r.stage = "release" /\ r.name = req[q].name
                        ELSE Settled(r)
<1>1. /\ UNCHANGED <<box, asked, budget>>
      /\ req[q].kind \in Edits /\ req[q].stage = "write"
      /\ acc' = [acc EXCEPT ![req[q].name] = Edited(q)]
      /\ laundered' = IF req[q].kind = "pause" /\ ~IsPackable(req[q].snap)
                      THEN laundered \cup {req[q].name} ELSE laundered
      /\ IF req[q].kind = "pause" THEN Stage(q, "release") ELSE Done(q)
  BY DEF WriteRow, UpdateAccount
<1>2. ReqsFit /\ EditShape(req[q])
  BY <1>1 DEF AccInv, ReqsFit, Shape
<1>3. CASE req[q].kind = "pause"
  <2>1. PICK r : r = [req[q] EXCEPT !.stage = "release"]
    OBVIOUS
  <2>2. r \in Requests /\ r.stage = "release" /\ r.kind = req[q].kind /\ r.name = req[q].name
    BY <1>2, <2>1, Staged DEF ReqStages
  <2>3. Shape(r)
    BY <1>2, <1>3, <2>2 DEF Shape, EditShape, Edits
  <2> QED BY <1>1, <1>3, <2>1, <2>2, <2>3 DEF Moves, Stage
<1>4. CASE req[q].kind # "pause"
  BY <1>1, <1>2, <1>4, DoneMoves
<1> QED BY <1>1, <1>3, <1>4

\* Every step of a request is one of these.
LEMMA StepKinds ==
    ASSUME AccInv, NEW q \in Reqs, Arrives(q) \/ Advances(q), UNCHANGED net
    PROVE  \/ \E r : LetsGo(q, r)
           \/ CountSlots(q) /\ CountAccountsByWorker(req[q].box) < MaxPerContainer
           \/ AllocatePort(q) /\ ~Done(q)
           \/ CreateWorker(q)
           \/ Insert(q) /\ ~Has(req[q].name)
           \/ Assign(q) /\ Has(req[q].name) /\ Hostable(req[q].name, req[q].box)
           \/ ReadRow(q) /\ ~Done(q)
           \/ WriteRow(q) /\ Writable(req[q].name, Edited(q))
BY ArriveLets, PackLets, EditLets, ReleaseLets, CloseLets DEF Advances

-----------------------------------------------------------------------------
(***************************************************************************)
(* The types.                                                              *)
(***************************************************************************)
LEMMA AccountsTypes == AccInv => AccountsTypeOK
<1> SUFFICES ASSUME AccInv PROVE AccountsTypeOK
  OBVIOUS
<1>1. /\ net \in Networks /\ acc \in [Names -> AccountRow] /\ box \in [Boxes -> BoxRow]
      /\ asked \subseteq Names /\ disturbed \subseteq Names /\ laundered \subseteq Names
      /\ budget \in [ops : 0 .. MaxOps, aborts : 0 .. MaxAborts]
      /\ \A n \in Names : acc[n].box # Nobody => Has(n) /\ Stands(acc[n].box)
      /\ \A n, m \in Names :
           acc[n].box = acc[m].box /\ net[n] = net[m] /\ acc[n].box # Nobody => n = m
  BY DEF AccInv, TablesTyped
<1>2. req \in [Reqs -> Requests]
  BY DEF AccInv, ReqsFit
<1> QED BY <1>1, <1>2 DEF AccountsTypeOK, BoxRow, Requests, Kinds, ReqStages

LEMMA InitAccounts == AccountsInit => AccInv
<1> SUFFICES ASSUME AccountsInit PROVE AccInv
  OBVIOUS
<1>1. acc \in [Names -> AccountRow] /\ \A n \in Names : acc[n].box = Nobody
  BY FreshRow DEF AccountsInit
<1>2. PICK e : e = NoBox
  OBVIOUS
<1>3. e \in BoxRow
  BY <1>2 DEF NoBox, BoxRow, WorkerSources, DesiredStates
<1>4. box \in [Boxes -> BoxRow]
  BY <1>2, <1>3 DEF AccountsInit
<1>5. ReqsFit
  BY WaitingFits DEF AccountsInit, ReqsFit
<1>6. budget \in [ops : 0 .. MaxOps, aborts : 0 .. MaxAborts]
  BY AccountBounds DEF AccountsInit
<1>7. TablesTyped
  BY <1>1, <1>4, <1>6 DEF AccountsInit, TablesTyped
<1> QED BY <1>5, <1>7 DEF AccInv

LEMMA ReqsKept ==
    ASSUME ReqsFit, NEW q \in Reqs, NEW r, Moves(q, r)
    PROVE  /\ ReqsFit' /\ req'[q] = r
           /\ \A p \in Reqs : p # q => req'[p] = req[p]
<1>1. /\ req' \in [Reqs -> Requests] /\ req'[q] = r
      /\ \A p \in Reqs : p # q => req'[p] = req[p]
  BY DEF ReqsFit, Moves, Put
<1>2. \A p \in Reqs : Shape(req'[p])
  BY <1>1 DEF ReqsFit, Moves
<1>3. \A p \in Reqs : Shape(req[p])'
  BY <1>2 DEF Shape, CreateShape, OpenShape, CloseShape, EditShape
<1> QED BY <1>1, <1>3 DEF ReqsFit

\* A step that puts account n, if any, where the table lets it.
LEMMA TypesKept ==
    ASSUME AccInv, NEW q \in Reqs, NEW r, Moves(q, r), UNCHANGED net,
           asked' \subseteq Names, disturbed' \subseteq Names, laundered' \subseteq Names,
           budget' \in [ops : 0 .. MaxOps, aborts : 0 .. MaxAborts],
           acc' \in [Names -> AccountRow], box' \in [Boxes -> BoxRow],
           \A m \in Names : acc'[m].box # Nobody =>
             acc'[m].phase = "live" /\ box'[acc'[m].box].phase = "live",
           NEW n, \A m \in Names : m # n /\ acc'[m].box # Nobody => acc'[m].box = acc[m].box,
           n \in Names /\ acc'[n].box # Nobody => Hostable(n, acc'[n].box)
    PROVE  AccInv'
<1>1. ReqsFit'
  BY ReqsKept DEF AccInv
<1>2. \A m \in Names : acc'[m].box # Nobody => Has(m)' /\ box'[acc'[m].box].phase = "live"
  BY DEF Has
<1>3. \A m, k \in Names : acc[m].box = acc[k].box /\ net[m] = net[k] /\ acc[m].box # Nobody => m = k
  BY DEF AccInv, TablesTyped
<1>4. \A m \in Names : acc[m].box # Nobody => Has(m)
  BY DEF AccInv, TablesTyped
<1>5. ASSUME n \in Names, NEW m \in Names, m # n, acc'[m].box = acc'[n].box, acc'[n].box # Nobody
      PROVE  net[m] # net[n]
  <2>1. acc[m].box = acc'[n].box /\ Has(m)
    BY <1>4, <1>5
  <2>2. m \in ListAccountsByWorker(acc'[n].box) \ {n}
    BY <1>5, <2>1 DEF ListAccountsByWorker
  <2> QED BY <1>5, <2>2 DEF Hostable
<1>6. \A m, k \in Names :
        acc'[m].box = acc'[k].box /\ net[m] = net[k] /\ acc'[m].box # Nobody => m = k
  BY <1>3, <1>5
<1>7. TablesTyped'
  <2>1. \A m \in Names : (acc[m].box)' # Nobody => Has(m)' /\ Stands(acc[m].box)'
    BY <1>2 DEF Stands
  <2>2. net' \in Networks
    BY DEF AccInv, TablesTyped
  <2> QED BY <1>6, <2>1, <2>2 DEF TablesTyped
<1> QED BY <1>1, <1>7 DEF AccInv

LEMMA LetsTyped ==
    ASSUME AccInv, NEW q \in Reqs, NEW r, LetsGo(q, r), disturbed' \subseteq Names
    PROVE  AccInv'
<1>1. acc \in [Names -> AccountRow] /\ laundered \subseteq Names
  BY DEF AccInv, TablesTyped
<1>2. \A n \in Names : acc[n].box # Nobody => acc[n].phase = "live"
  BY DEF AccInv, TablesTyped, Has
<1>3. ASSUME NEW m \in Names, acc'[m].box # Nobody
      PROVE  acc'[m] = acc[m]
  <2>1. PICK x, y, z : x = acc[m] /\ y = [acc[m] EXCEPT !.box = Nobody]
                       /\ z = [NoAccount EXCEPT !.phase = "gone"]
    OBVIOUS
  <2>2. x \in AccountRow /\ y = [x EXCEPT !.box = Nobody] /\ z.box = Nobody
    BY <1>1, <2>1, FreshRow
  <2>3. y.box = Nobody
    BY <2>2 DEF AccountRow
  <2>4. acc'[m] \in {x, y, z}
    BY <2>1 DEF LetsGo, Unplaces
  <2> QED BY <1>3, <2>1, <2>2, <2>3, <2>4
<1>4. \A m \in Names : acc'[m].box # Nobody =>
         acc'[m].phase = "live" /\ box'[acc'[m].box].phase = "live"
  BY <1>2, <1>3 DEF LetsGo
<1>5. /\ \A m \in Names : m # Nobody /\ acc'[m].box # Nobody => acc'[m].box = acc[m].box
      /\ ~(Nobody \in Names)
  BY <1>3, AccountBounds
<1>6. /\ Moves(q, r) /\ UNCHANGED net /\ asked' \subseteq Names /\ laundered' \subseteq Names
      /\ budget' \in [ops : 0 .. MaxOps, aborts : 0 .. MaxAborts]
      /\ acc' \in [Names -> AccountRow] /\ box' \in [Boxes -> BoxRow]
  BY <1>1 DEF LetsGo
<1> QED BY <1>4, <1>5, <1>6, TypesKept

\* The steps that leave the accounts as they are.
LEMMA SameTyped ==
    ASSUME AccInv, NEW q \in Reqs, NEW r, Moves(q, r), UNCHANGED <<net, acc, asked, laundered>>,
           budget' \in [ops : 0 .. MaxOps, aborts : 0 .. MaxAborts],
           disturbed' \subseteq Names, box' \in [Boxes -> BoxRow],
           \A b \in Boxes : Stands(b) => Stands(b)'
    PROVE  AccInv'
<1>1. /\ acc \in [Names -> AccountRow] /\ laundered \subseteq Names /\ asked \subseteq Names
      /\ \A n \in Names : acc[n].box # Nobody => acc[n].phase = "live" /\ Stands(acc[n].box)
  BY DEF AccInv, TablesTyped, Has
<1>2. \A m \in Names : acc'[m].box # Nobody =>
         acc'[m].phase = "live" /\ box'[acc'[m].box].phase = "live"
  BY <1>1 DEF AccountRow, Stands
<1>3. /\ \A m \in Names : m # Nobody /\ acc'[m].box # Nobody => acc'[m].box = acc[m].box
      /\ ~(Nobody \in Names)
  BY AccountBounds
<1>4. asked' \subseteq Names /\ laundered' \subseteq Names /\ acc' \in [Names -> AccountRow]
  BY <1>1
<1> QED BY <1>2, <1>3, <1>4, TypesKept

\* The steps that write the row of one account.
LEMMA RowTyped ==
    ASSUME AccInv, NEW q \in Reqs, NEW r, Moves(q, r), UNCHANGED <<net, box, asked, budget>>,
           disturbed' \subseteq Names, laundered' \subseteq Names,
           NEW n \in Names, NEW row \in AccountRow, acc' = [acc EXCEPT ![n] = row],
           row.phase = "live", Hostable(n, row.box)
    PROVE  AccInv'
<1>1. /\ acc \in [Names -> AccountRow] /\ asked \subseteq Names /\ box \in [Boxes -> BoxRow]
      /\ budget \in [ops : 0 .. MaxOps, aborts : 0 .. MaxAborts]
      /\ \A m \in Names : acc[m].box # Nobody => acc[m].phase = "live" /\ box[acc[m].box].phase = "live"
  BY DEF AccInv, TablesTyped, Has, Stands
<1>2. /\ acc' \in [Names -> AccountRow] /\ acc'[n] = row
      /\ \A m \in Names : m # n => acc'[m] = acc[m]
  BY <1>1
<1>3. row.box # Nobody => box[row.box].phase = "live"
  BY DEF Hostable, Stands
<1>4. \A m \in Names : acc'[m].box # Nobody =>
         acc'[m].phase = "live" /\ box'[acc'[m].box].phase = "live"
  BY <1>1, <1>2, <1>3
<1>5. /\ \A m \in Names : m # n /\ acc'[m].box # Nobody => acc'[m].box = acc[m].box
      /\ acc'[n].box # Nobody => Hostable(n, acc'[n].box)
  BY <1>2
<1>6. /\ asked' \subseteq Names /\ box' \in [Boxes -> BoxRow]
      /\ budget' \in [ops : 0 .. MaxOps, aborts : 0 .. MaxAborts]
  BY <1>1
<1> QED BY <1>2, <1>4, <1>5, <1>6, TypesKept

\* What Assign writes is a row too.
LEMMA Placed ==
    ASSUME AccInv, NEW n \in Names, NEW b \in Boxes, Has(n)
    PROVE  \E row \in AccountRow :
             /\ row.phase = "live" /\ row.box = b
             /\ row.status = acc[n].status /\ row.score = acc[n].score
             /\ [acc EXCEPT ![n].box = b] = [acc EXCEPT ![n] = row]
<1>1. PICK e, f : e = acc[n] /\ f = [acc[n] EXCEPT !.box = b]
  OBVIOUS
<1>2. e \in AccountRow /\ e.phase = "live" /\ acc \in [Names -> AccountRow]
  BY <1>1 DEF AccInv, TablesTyped, Has
<1>3. f = [e EXCEPT !.box = b]
  BY <1>1
<1>4. /\ f \in AccountRow /\ f.phase = "live" /\ f.box = b /\ f.status = e.status
      /\ f.score = e.score
  BY <1>2, <1>3 DEF AccountRow
<1>5. [acc EXCEPT ![n].box = b] = [acc EXCEPT ![n] = f]
  BY <1>1, <1>2
<1> QED BY <1>1, <1>4, <1>5

LEMMA AbortMoves ==
    ASSUME AccInv, NEW q \in Reqs, Aborts(q)
    PROVE  /\ UNCHANGED <<acc, box, asked, laundered>>
           /\ budget' \in [ops : 0 .. MaxOps, aborts : 0 .. MaxAborts]
           /\ disturbed' = disturbed \cup Touched(q) /\ Touched(q) \subseteq Names
           /\ Moves(q, Waiting)
<1>1. budget \in [ops : 0 .. MaxOps, aborts : 0 .. MaxAborts] /\ req[q] \in Requests
  BY DEF AccInv, TablesTyped, ReqsFit
<1>2. budget' \in [ops : 0 .. MaxOps, aborts : 0 .. MaxAborts]
  BY <1>1, AccountBounds DEF Aborts
<1>3. Touched(q) \subseteq Names
  BY <1>1 DEF Touched, Requests
<1> QED BY <1>2, <1>3, WaitingFits DEF Aborts, Moves

LEMMA AccStep ==
    ASSUME AccInv, [AccountsNext]_accountVars
    PROVE  AccInv'
<1>1. disturbed \subseteq Names /\ laundered \subseteq Names
      /\ budget \in [ops : 0 .. MaxOps, aborts : 0 .. MaxAborts] /\ box \in [Boxes -> BoxRow]
  BY DEF AccInv, TablesTyped
<1>2. ASSUME NEW q \in Reqs, Arrives(q) \/ Advances(q), disturbed' = disturbed \cup Met',
             UNCHANGED net
      PROVE  AccInv'
  <2>1. disturbed' \subseteq Names
    BY <1>1, <1>2 DEF Met
  <2>2. CASE \E r : LetsGo(q, r)
    BY <2>1, <2>2, LetsTyped
  <2>3. CASE CountSlots(q) /\ CountAccountsByWorker(req[q].box) < MaxPerContainer
    <3>1. UNCHANGED <<acc, box, asked, budget, laundered>> /\ \E r : Moves(q, r)
      BY <2>3, CountsOne
    <3> QED BY <1>1, <1>2, <2>1, <3>1, SameTyped DEF Stands
  <2>4. CASE AllocatePort(q) /\ ~Done(q)
    <3>1. UNCHANGED <<acc, box, asked, budget, laundered>> /\ \E r : Moves(q, r)
      BY <2>4, PortFound
    <3> QED BY <1>1, <1>2, <2>1, <3>1, SameTyped DEF Stands
  <2>5. CASE CreateWorker(q)
    <3>1. UNCHANGED <<acc, asked, budget, laundered>>
      BY <2>5, Spawns
    <3>2. PICK b \in Boxes, p \in Ports : \E r :
            /\ box[b].phase = "none"
            /\ box' \in [Boxes -> BoxRow] /\ box'[b].phase = "live"
            /\ \A c \in Boxes : c # b => box'[c] = box[c]
            /\ Moves(q, r)
      BY <2>5, Spawns
    <3>3. \A c \in Boxes : Stands(c) => Stands(c)'
      BY <3>2 DEF Stands
    <3> QED BY <1>1, <1>2, <2>1, <3>1, <3>2, <3>3, SameTyped
  <2>6. CASE Insert(q) /\ ~Has(req[q].name)
    <3>1. /\ UNCHANGED <<box, asked, budget, laundered>> /\ req[q].name \in Names
          /\ acc' = [acc EXCEPT ![req[q].name] = Fresh] /\ \E r : Moves(q, r)
      BY <2>6, InsertsRow
    <3>2. Hostable(req[q].name, Fresh.box) /\ Fresh \in AccountRow /\ Fresh.phase = "live"
      BY FreshRow DEF Hostable
    <3> QED BY <1>1, <1>2, <2>1, <3>1, <3>2, RowTyped
  <2>7. CASE Assign(q) /\ Has(req[q].name) /\ Hostable(req[q].name, req[q].box)
    <3>1. /\ UNCHANGED <<box, asked, budget, laundered>>
          /\ req[q].name \in Names /\ req[q].box \in Boxes
          /\ acc' = [acc EXCEPT ![req[q].name].box = req[q].box]
          /\ \E r : Moves(q, r)
      BY <2>7, AssignsOne
    <3>2. PICK n \in Names, b \in Boxes : n = req[q].name /\ b = req[q].box
      BY <3>1
    <3>3. Has(n) /\ Hostable(n, b) /\ acc' = [acc EXCEPT ![n].box = b]
      BY <2>7, <3>1, <3>2
    <3>4. PICK row \in AccountRow :
            /\ row.phase = "live" /\ row.box = b
            /\ row.status = acc[n].status /\ row.score = acc[n].score
            /\ [acc EXCEPT ![n].box = b] = [acc EXCEPT ![n] = row]
      BY <3>3, Placed
    <3>5. acc' = [acc EXCEPT ![n] = row] /\ Hostable(n, row.box)
      BY <3>3, <3>4
    <3>6. PICK r : Moves(q, r)
      BY <3>1
    <3>7. laundered' \subseteq Names
      BY <1>1, <3>1
    <3> QED BY <1>2, <2>1, <3>1, <3>4, <3>5, <3>6, <3>7, RowTyped
  <2>8. CASE ReadRow(q) /\ ~Done(q)
    <3>1. UNCHANGED <<acc, box, asked, budget, laundered>> /\ \E r : Moves(q, r)
      BY <2>8, ReadsRow
    <3> QED BY <1>1, <1>2, <2>1, <3>1, SameTyped DEF Stands
  <2>9. CASE WriteRow(q) /\ Writable(req[q].name, Edited(q))
    <3>1. /\ UNCHANGED <<box, asked, budget>>
          /\ req[q].kind \in Edits /\ req[q].stage = "write"
          /\ acc' = [acc EXCEPT ![req[q].name] = Edited(q)]
          /\ laundered' = IF req[q].kind = "pause" /\ ~IsPackable(req[q].snap)
                          THEN laundered \cup {req[q].name} ELSE laundered
          /\ \E r : Moves(q, r)
      BY <2>9, WritesRow
    <3>2. /\ req[q].name \in Names /\ Edited(q) \in AccountRow /\ Edited(q).phase = "live"
          /\ Hostable(req[q].name, Edited(q).box)
      BY <2>9, <3>1, EditMakes DEF Writable
    <3>3. laundered' \subseteq Names
      BY <1>1, <3>1, <3>2
    <3> QED BY <1>1, <1>2, <2>1, <3>1, <3>2, <3>3, RowTyped
  <2> QED BY <1>2, <2>2, <2>3, <2>4, <2>5, <2>6, <2>7, <2>8, <2>9, StepKinds
<1>3. ASSUME NEW q \in Reqs, Aborts(q), UNCHANGED net PROVE AccInv'
  <2>1. /\ UNCHANGED <<acc, box, asked, laundered>> /\ Moves(q, Waiting)
        /\ budget' \in [ops : 0 .. MaxOps, aborts : 0 .. MaxAborts] /\ disturbed' \subseteq Names
    BY <1>1, <1>3, AbortMoves
  <2> QED BY <1>1, <1>3, <2>1, SameTyped DEF Stands
<1>4. CASE UNCHANGED accountVars
  <2>1. UNCHANGED <<net, acc, box, req, asked, budget, disturbed, laundered>>
    BY <1>4 DEF accountVars
  <2>2. TablesTyped'
    BY <2>1 DEF AccInv, TablesTyped, Has, Stands
  <2>3. ReqsFit'
    BY <2>1 DEF AccInv, ReqsFit, Shape, CreateShape, OpenShape, CloseShape, EditShape
  <2> QED BY <2>2, <2>3 DEF AccInv
<1> QED BY <1>2, <1>3, <1>4 DEF AccountsNext

\* The rows keep their columns' types whatever the requests do side by side:
\* no account is ever on a container that does not stand, nor on one with
\* another account of its platform (AssignAccount, UpdateAccount, DeleteBox).
THEOREM AccountsTypeCorrect == AccountsSpec => []AccountsTypeOK
<1>1. AccountsInit => AccInv
  BY InitAccounts
<1>2. AccInv /\ [AccountsNext]_accountVars => AccInv'
  BY AccStep
<1>3. AccInv => AccountsTypeOK
  BY AccountsTypes
<1> QED BY <1>1, <1>2, <1>3, PTL DEF AccountsSpec

-----------------------------------------------------------------------------
(***************************************************************************)
(* Ports.                                                                  *)
(***************************************************************************)
LEMMA PortSets ==
    ASSUME NEW S \in SUBSET Boxes, NEW R \in SUBSET Reqs
    PROVE  /\ IsFiniteSet(S) /\ Cardinality(S) \in Nat
           /\ IsFiniteSet(R) /\ Cardinality(R) \in Nat
           /\ Cardinality(Reqs) \in Nat /\ Cardinality(R) <= Cardinality(Reqs)
<1>1. IsFiniteSet(Boxes)
  BY AccountBounds, FS_Interval DEF Boxes
<1>2. IsFiniteSet(Reqs)
  BY AccountBounds
<1> QED BY <1>1, <1>2, FS_Subset, FS_CardinalityType

\* A step that lets no request race, and moves no standing container.
LEMMA PortKeeps ==
    ASSUME AccInv, PortInv, NEW q \in Reqs, NEW r, Moves(q, r), r.stage # "spawn",
           \A b \in Boxes : Stands(b)' => Stands(b) /\ box'[b].port = box[b].port
    PROVE  PortInv'
<1> SUFFICES ASSUME NEW p \in Ports
             PROVE  Cardinality(Sharers(p)') + Cardinality(Racers(p)') <= Cardinality(Reqs)
  BY DEF PortInv
<1>1. Sharers(p)' \subseteq Sharers(p) /\ Sharers(p) \subseteq Boxes
  BY DEF Sharers
<1>2. req'[q] = r /\ \A x \in Reqs : x # q => req'[x] = req[x]
  BY ReqsKept DEF AccInv
<1>3. Racers(p)' \subseteq Racers(p) /\ Racers(p) \subseteq Reqs
  BY <1>2 DEF Racers
<1>4. Cardinality(Sharers(p)') <= Cardinality(Sharers(p))
      /\ Cardinality(Racers(p)') <= Cardinality(Racers(p))
  BY <1>1, <1>3, PortSets, FS_Subset
<1>5. /\ Cardinality(Sharers(p)') \in Nat /\ Cardinality(Racers(p)') \in Nat
      /\ Cardinality(Sharers(p)) \in Nat /\ Cardinality(Racers(p)) \in Nat
      /\ Cardinality(Reqs) \in Nat
  BY <1>1, <1>3, PortSets
<1> QED BY <1>4, <1>5 DEF PortInv

\* Who finds a port found it free: however many race, none has it yet.
LEMMA PortRaces ==
    ASSUME AccInv, PortInv, NEW q \in Reqs, AllocatePort(q), ~Done(q)
    PROVE  PortInv'
<1> SUFFICES ASSUME NEW p \in Ports
             PROVE  Cardinality(Sharers(p)') + Cardinality(Racers(p)') <= Cardinality(Reqs)
  BY DEF PortInv
<1>1. PICK r : /\ UNCHANGED box /\ Moves(q, r) /\ r.stage = "spawn"
               /\ p \in r.cands => p \notin UsedPorts
  BY PortFound
<1>2. req'[q] = r /\ \A x \in Reqs : x # q => req'[x] = req[x]
  BY <1>1, ReqsKept DEF AccInv
<1>3. Sharers(p)' = Sharers(p) /\ Sharers(p) \subseteq Boxes
  BY <1>1 DEF Sharers, Stands
<1>4. Racers(p) \subseteq Reqs /\ Racers(p)' \subseteq Reqs
  BY DEF Racers
<1>5. /\ Cardinality(Sharers(p)) \in Nat /\ Cardinality(Racers(p)) \in Nat
      /\ Cardinality(Racers(p)') \in Nat /\ Cardinality(Racers(p)') <= Cardinality(Reqs)
      /\ Cardinality(Reqs) \in Nat /\ IsFiniteSet(Racers(p))
  BY <1>3, <1>4, PortSets
<1>6. CASE p \in r.cands
  <2>1. Sharers(p) = {}
    BY <1>1, <1>6, AccountBounds DEF Sharers, UsedPorts
  <2>2. Cardinality(Sharers(p)) = 0
    BY <2>1, FS_EmptySet
  <2> QED BY <1>3, <1>5, <2>2
<1>7. CASE p \notin r.cands
  <2>1. Racers(p)' \subseteq Racers(p)
    BY <1>2, <1>7 DEF Racers
  <2>2. Cardinality(Racers(p)') <= Cardinality(Racers(p))
    BY <1>5, <2>1, FS_Subset
  <2> QED BY <1>3, <1>5, <2>2 DEF PortInv
<1> QED BY <1>6, <1>7

\* Who inserts a container no longer races for its port.
LEMMA PortTaken ==
    ASSUME AccInv, PortInv, NEW q \in Reqs, CreateWorker(q)
    PROVE  PortInv'
<1> SUFFICES ASSUME NEW p \in Ports
             PROVE  Cardinality(Sharers(p)') + Cardinality(Racers(p)') <= Cardinality(Reqs)
  BY DEF PortInv
<1>1. PICK b \in Boxes, o \in Ports : \E r :
        /\ o \in req[q].cands /\ box[b].phase = "none"
        /\ box' \in [Boxes -> BoxRow] /\ box'[b].phase = "live" /\ box'[b].port = o
        /\ \A c \in Boxes : c # b => box'[c] = box[c]
        /\ Moves(q, r)
        /\ \/ Settled(r)
           \/ r.kind = "create" /\ r.stage = "assign" /\ r.box = b /\ r.name = req[q].name
  BY Spawns
<1>2. PICK r : /\ Moves(q, r)
               /\ \/ Settled(r)
                  \/ r.kind = "create" /\ r.stage = "assign"
  BY <1>1
<1>3. /\ o \in req[q].cands /\ box[b].phase = "none" /\ box'[b].phase = "live" /\ box'[b].port = o
      /\ \A c \in Boxes : c # b => box'[c] = box[c]
  BY <1>1
<1>4. req'[q] = r /\ \A x \in Reqs : x # q => req'[x] = req[x]
  BY <1>2, ReqsKept DEF AccInv
<1>5. r.stage # "spawn" /\ req[q].stage = "spawn"
  BY <1>2, Spawns DEF Settled, Moves, Shape
<1>6. Sharers(p) \subseteq Boxes /\ Racers(p) \subseteq Reqs /\ Sharers(p)' \subseteq Boxes
      /\ Racers(p)' \subseteq Reqs
  BY DEF Sharers, Racers
<1>7. /\ Cardinality(Sharers(p)) \in Nat /\ Cardinality(Racers(p)) \in Nat
      /\ Cardinality(Racers(p)') \in Nat /\ Cardinality(Sharers(p)') \in Nat
      /\ Cardinality(Reqs) \in Nat /\ IsFiniteSet(Racers(p)) /\ IsFiniteSet(Sharers(p))
  BY <1>6, PortSets
<1>8. CASE p = o
  <2>1. b \notin Sharers(p) /\ Sharers(p)' = Sharers(p) \cup {b}
    BY <1>3, <1>8 DEF Sharers, Stands
  <2>2. q \in Racers(p) /\ Racers(p)' = Racers(p) \ {q}
    BY <1>3, <1>4, <1>5, <1>8 DEF Racers
  <2>3. Cardinality(Sharers(p)') = Cardinality(Sharers(p)) + 1
    BY <1>7, <2>1, FS_AddElement
  <2>4. Cardinality(Racers(p)') = Cardinality(Racers(p)) - 1
    BY <1>7, <2>2, FS_RemoveElement
  <2> QED BY <1>7, <2>3, <2>4 DEF PortInv
<1>9. CASE p # o
  <2>1. Sharers(p)' \subseteq Sharers(p)
    BY <1>3, <1>9 DEF Sharers, Stands
  <2>2. Racers(p)' \subseteq Racers(p)
    BY <1>4, <1>5 DEF Racers
  <2>3. Cardinality(Sharers(p)') <= Cardinality(Sharers(p))
        /\ Cardinality(Racers(p)') <= Cardinality(Racers(p))
    BY <1>7, <2>1, <2>2, FS_Subset
  <2> QED BY <1>7, <2>3 DEF PortInv
<1> QED BY <1>8, <1>9

LEMMA PortStep ==
    ASSUME AccInv, PortInv, [AccountsNext]_accountVars
    PROVE  PortInv'
<1>1. ASSUME NEW q \in Reqs, Arrives(q) \/ Advances(q), UNCHANGED net
      PROVE  PortInv'
  <2>1. ASSUME UNCHANGED box, NEW r, Moves(q, r), r.stage # "spawn"
        PROVE  PortInv'
    <3>1. \A b \in Boxes : Stands(b)' => Stands(b) /\ box'[b].port = box[b].port
      BY <2>1 DEF Stands
    <3> QED BY <2>1, <3>1, PortKeeps
  <2>2. ASSUME NEW r, LetsGo(q, r) PROVE PortInv'
    BY <2>2, PortKeeps DEF LetsGo, Quiet
  <2>3. CASE CountSlots(q) /\ CountAccountsByWorker(req[q].box) < MaxPerContainer
    BY <2>1, <2>3, CountsOne
  <2>4. CASE AllocatePort(q) /\ ~Done(q)
    BY <2>4, PortRaces
  <2>5. CASE CreateWorker(q)
    BY <2>5, PortTaken
  <2>6. CASE Insert(q) /\ ~Has(req[q].name)
    BY <2>1, <2>6, InsertsRow
  <2>7. CASE Assign(q) /\ Has(req[q].name) /\ Hostable(req[q].name, req[q].box)
    <3>1. PICK r : Moves(q, r) /\ Settled(r) /\ UNCHANGED box
      BY <2>7, AssignsOne
    <3>2. r.stage # "spawn"
      BY <3>1 DEF Moves, Settled, Shape
    <3> QED BY <2>1, <3>1, <3>2
  <2>8. CASE ReadRow(q) /\ ~Done(q)
    BY <2>1, <2>8, ReadsRow
  <2>9. CASE WriteRow(q) /\ Writable(req[q].name, Edited(q))
    <3>1. PICK r : Moves(q, r) /\ (Settled(r) \/ r.stage = "release") /\ UNCHANGED box
      BY <2>9, WritesRow
    <3>2. r.stage # "spawn"
      BY <3>1 DEF Moves, Settled, Shape
    <3> QED BY <2>1, <3>1, <3>2
  <2> QED BY <1>1, <2>2, <2>3, <2>4, <2>5, <2>6, <2>7, <2>8, <2>9, StepKinds
<1>2. ASSUME NEW q \in Reqs, Aborts(q) PROVE PortInv'
  <2>1. UNCHANGED box /\ Moves(q, Waiting)
    BY <1>2, AbortMoves
  <2>2. Waiting.stage # "spawn"
    BY WaitingFits
  <2>3. \A b \in Boxes : Stands(b)' => Stands(b) /\ box'[b].port = box[b].port
    BY <2>1 DEF Stands
  <2> QED BY <2>1, <2>2, <2>3, PortKeeps
<1>3. CASE UNCHANGED accountVars
  BY <1>3 DEF accountVars, PortInv, Sharers, Racers, Stands
<1> QED BY <1>1, <1>2, <1>3 DEF AccountsNext

LEMMA PortInit == AccountsInit => PortInv
<1> SUFFICES ASSUME AccountsInit, NEW p \in Ports
             PROVE  Cardinality(Sharers(p)) + Cardinality(Racers(p)) <= Cardinality(Reqs)
  BY DEF PortInv
<1>1. Racers(p) = {}
  BY WaitingFits DEF AccountsInit, Racers
<1>2. PICK e : e = NoBox
  OBVIOUS
<1>3. e.phase # "live"
  BY <1>2 DEF NoBox
<1>4. Sharers(p) = {}
  BY <1>2, <1>3 DEF AccountsInit, Sharers, Stands
<1> QED BY <1>1, <1>4, FS_EmptySet, PortSets

\* Handlers may read the same port as free and insert it more than once, but
\* never in more containers than handlers run at once: a port that a row names
\* is not found again (AllocatePort, CreateWorker).
THEOREM PortSharersAreBounded == AccountsSpec => []PortSharersBounded
<1>1. AccountsInit => AccInv /\ PortInv
  BY InitAccounts, PortInit
<1>2. AccInv /\ PortInv /\ [AccountsNext]_accountVars => (AccInv /\ PortInv)'
  BY AccStep, PortStep
<1>3. PortInv => PortSharersBounded
  <2> SUFFICES ASSUME PortInv, NEW p \in Ports PROVE Cardinality(Sharers(p)) <= Cardinality(Reqs)
    BY DEF PortSharersBounded, Sharers
  <2>1. Sharers(p) \subseteq Boxes /\ Racers(p) \subseteq Reqs
    BY DEF Sharers, Racers
  <2>2. /\ Cardinality(Sharers(p)) \in Nat /\ Cardinality(Racers(p)) \in Nat
        /\ Cardinality(Reqs) \in Nat
    BY <2>1, PortSets
  <2> QED BY <2>2 DEF PortInv
<1> QED BY <1>1, <1>2, <1>3, PTL DEF AccountsSpec

-----------------------------------------------------------------------------
(***************************************************************************)
(* The cap of a container.                                                 *)
(***************************************************************************)
LEMMA NamesFinite ==
    ASSUME NEW S \in SUBSET Names
    PROVE  /\ IsFiniteSet(S) /\ Cardinality(S) \in Nat /\ Cardinality(Reqs) \in Nat
           /\ \A T \in SUBSET S : Cardinality(T) <= Cardinality(S)
<1>1. IsFiniteSet(Names) /\ IsFiniteSet(Reqs)
  BY AccountBounds
<1>2. IsFiniteSet(S)
  BY <1>1, FS_Subset
<1> QED BY <1>1, <1>2, FS_Subset, FS_CardinalityType

\* As many names at most as requests.
LEMMA NamedByReqs ==
    ASSUME NEW R
    PROVE  \E T : /\ IsFiniteSet(T) /\ Cardinality(T) <= Cardinality(Reqs)
                  /\ \A q \in Reqs : R[q].name \in T
<1>1. PICK T, f : T = {R[q].name : q \in Reqs} /\ f = [q \in Reqs |-> R[q].name]
  OBVIOUS
<1>2. f \in [Reqs -> T]
  BY <1>1
<1>3. \A t \in T : \E q \in Reqs : f[q] = t
  BY <1>1
<1>4. f \in Surjection(Reqs, T)
  BY <1>2, <1>3 DEF Surjection
<1>5. IsFiniteSet(T) /\ Cardinality(T) <= Cardinality(Reqs)
  BY <1>4, AccountBounds, FS_Surjection
<1> QED BY <1>1, <1>5

\* A container with room, and one account more for each request.
LEMMA CapRoom ==
    ASSUME NEW R, NEW S \in SUBSET Names, Cardinality(S) < MaxPerContainer,
           NEW H \in SUBSET Names, \A n \in H : n \in S \/ \E q \in Reqs : R[q].name = n
    PROVE  Cardinality(H) < MaxPerContainer + Cardinality(Reqs)
<1>1. PICK T : /\ IsFiniteSet(T) /\ Cardinality(T) <= Cardinality(Reqs)
               /\ \A q \in Reqs : R[q].name \in T
  BY NamedByReqs
<1>2. H \subseteq S \cup T
  BY <1>1
<1>3. IsFiniteSet(S) /\ IsFiniteSet(H) /\ Cardinality(S) \in Nat /\ Cardinality(Reqs) \in Nat
      /\ Cardinality(H) \in Nat
  BY NamesFinite
<1>4. /\ IsFiniteSet(S \cup T)
      /\ Cardinality(S \cup T) = Cardinality(S) + Cardinality(T) - Cardinality(S \cap T)
  BY <1>1, <1>3, FS_Union
<1>5. Cardinality(H) <= Cardinality(S \cup T)
  BY <1>2, <1>4, FS_Subset
<1>6. Cardinality(S \cap T) \in Nat /\ Cardinality(T) \in Nat /\ Cardinality(S \cup T) \in Nat
  <2>1. IsFiniteSet(S \cap T)
    BY <1>3, FS_Subset
  <2> QED BY <1>1, <1>4, <2>1, FS_CardinalityType
<1> QED BY <1>1, <1>3, <1>4, <1>5, <1>6, AccountBounds

\* Who could hold a slot of b after the step could hold one before.
LEMMA CapKeeps ==
    ASSUME CapInv, NEW b \in Boxes, Claimants(b)' \subseteq Claimants(b)
    PROVE  Cardinality(Claimants(b)') < MaxPerContainer + Cardinality(Reqs)
<1>1. Claimants(b) \in SUBSET Names
  BY DEF Claimants, ListAccountsByWorker
<1>2. Claimants(b)' \in SUBSET Claimants(b) /\ Claimants(b)' \in SUBSET Names
  BY <1>1
<1>3. Cardinality(Claimants(b)') <= Cardinality(Claimants(b))
  BY <1>1, <1>2, NamesFinite
<1>4. Cardinality(Claimants(b)) \in Nat /\ Cardinality(Claimants(b)') \in Nat /\ Cardinality(Reqs) \in Nat
  BY <1>1, <1>2, NamesFinite
<1> QED BY <1>3, <1>4, AccountBounds DEF CapInv

\* The accounts on b were on b, or their request was about to put them there;
\* and the request that moved aims at b only for an account that holds it.
LEMMA CapStays ==
    ASSUME AccInv, NEW q \in Reqs, NEW r, Moves(q, r), NEW b \in Boxes,
           \A n \in Names : acc'[n].phase = "live" /\ acc'[n].box = b => n \in Claimants(b),
           Aims(r, b) => r.name \in Claimants(b)
    PROVE  Claimants(b)' \subseteq Claimants(b)
<1>1. req'[q] = r /\ \A x \in Reqs : x # q => req'[x] = req[x]
  BY ReqsKept DEF AccInv
<1>2. ASSUME NEW n \in Names, NEW x \in Reqs, Aims(req'[x], b), req'[x].name = n
      PROVE  n \in Claimants(b)
  BY <1>1, <1>2 DEF Claimants
<1>3. \A n \in Claimants(b)' :
        n \in Names /\ (\/ acc'[n].phase = "live" /\ acc'[n].box = b
                        \/ \E x \in Reqs : Aims(req'[x], b) /\ req'[x].name = n)
  BY DEF Claimants, ListAccountsByWorker, Has, Aims
<1> QED BY <1>2, <1>3

\* The row of one account is written, for a container its request aimed at.
LEMMA CapWrites ==
    ASSUME AccInv, CapInv, NEW q \in Reqs, NEW r, Moves(q, r), NEW n \in Names,
           NEW row \in AccountRow, acc' = [acc EXCEPT ![n] = row],
           req[q].name = n, row.box = Nobody \/ Aims(req[q], row.box),
           \A b \in Boxes : ~Aims(r, b)
    PROVE  CapInv'
<1> SUFFICES ASSUME NEW b \in Boxes
             PROVE  Cardinality(Claimants(b)') < MaxPerContainer + Cardinality(Reqs)
  BY DEF CapInv
<1>1. acc'[n] = row /\ \A m \in Names : m # n => acc'[m] = acc[m]
  BY DEF AccInv, TablesTyped
<1>2. row.box = b => n \in Claimants(b)
  BY AccountBounds DEF Claimants
<1>3. \A m \in Names : acc[m].phase = "live" /\ acc[m].box = b => m \in Claimants(b)
  BY DEF Claimants, ListAccountsByWorker, Has
<1> QED BY <1>1, <1>2, <1>3, CapStays, CapKeeps

\* The accounts stay where they are, or nowhere.
LEMMA CapLets ==
    ASSUME AccInv, CapInv, NEW q \in Reqs, NEW r, Moves(q, r),
           \A n \in Names : acc'[n].box # Nobody => acc'[n] = acc[n],
           \A b \in Boxes : Aims(r, b) => r.name \in Claimants(b)
    PROVE  CapInv'
<1> SUFFICES ASSUME NEW b \in Boxes
             PROVE  Cardinality(Claimants(b)') < MaxPerContainer + Cardinality(Reqs)
  BY DEF CapInv
<1>1. \A n \in Names : acc'[n].phase = "live" /\ acc'[n].box = b => n \in Claimants(b)
  BY AccountBounds DEF Claimants, ListAccountsByWorker, Has
<1> QED BY <1>1, CapStays, CapKeeps

\* The request that moved found room in container c, and aims at no other.
LEMMA CapFound ==
    ASSUME AccInv, CapInv, NEW q \in Reqs, NEW r, Moves(q, r), UNCHANGED acc,
           NEW c \in Boxes, Cardinality(ListAccountsByWorker(c)) < MaxPerContainer,
           \A b \in Boxes : Aims(r, b) => b = c
    PROVE  CapInv'
<1> SUFFICES ASSUME NEW b \in Boxes
             PROVE  Cardinality(Claimants(b)') < MaxPerContainer + Cardinality(Reqs)
  BY DEF CapInv
<1>1. CASE b = c
  <2>1. PICK S, R : S = ListAccountsByWorker(c) /\ R = req'
    OBVIOUS
  <2>2. S \in SUBSET Names /\ Cardinality(S) < MaxPerContainer
    BY <2>1 DEF ListAccountsByWorker
  <2>3. Claimants(b)' \in SUBSET Names
    BY DEF Claimants, ListAccountsByWorker
  <2>4. \A n \in Claimants(b)' : n \in S \/ \E x \in Reqs : R[x].name = n
    BY <1>1, <2>1 DEF Claimants, ListAccountsByWorker, Has
  <2> QED BY <2>2, <2>3, <2>4, CapRoom
<1>2. CASE b # c
  <2>1. ~Aims(r, b)
    BY <1>2
  <2>2. \A n \in Names : acc'[n].phase = "live" /\ acc'[n].box = b => n \in Claimants(b)
    BY DEF Claimants, ListAccountsByWorker, Has
  <2> QED BY <2>1, <2>2, CapStays, CapKeeps
<1> QED BY <1>1, <1>2

LEMMA CapStep ==
    ASSUME AccInv, CapInv, [AccountsNext]_accountVars
    PROVE  CapInv'
<1>1. acc \in [Names -> AccountRow] /\ req \in [Reqs -> Requests]
      /\ \A n \in Names : acc[n].box # Nobody => Has(n) /\ Stands(acc[n].box)
  BY DEF AccInv, TablesTyped, ReqsFit
<1>2. ASSUME NEW r, Settled(r) PROVE \A b \in Boxes : ~Aims(r, b)
  BY <1>2 DEF Settled, Aims, Edits
<1>3. ASSUME NEW q \in Reqs, NEW r, Moves(q, r), UNCHANGED acc, \A b \in Boxes : ~Aims(r, b)
      PROVE  CapInv'
  BY <1>3, CapLets
<1>4. ASSUME NEW q \in Reqs, Arrives(q) \/ Advances(q), UNCHANGED net
      PROVE  CapInv'
  <2>1. ASSUME NEW r, LetsGo(q, r) PROVE CapInv'
    <3>1. Moves(q, r) /\ Quiet(q, r) /\ Unplaces(q)
      BY <2>1 DEF LetsGo
    <3>2. ASSUME NEW m \in Names, acc'[m].box # Nobody
          PROVE  acc'[m] = acc[m]
      <4>1. PICK x, y, z : x = acc[m] /\ y = [acc[m] EXCEPT !.box = Nobody]
                           /\ z = [NoAccount EXCEPT !.phase = "gone"]
        OBVIOUS
      <4>2. x \in AccountRow /\ y = [x EXCEPT !.box = Nobody] /\ z.box = Nobody
        BY <1>1, <4>1, FreshRow
      <4>3. y.box = Nobody
        BY <4>2 DEF AccountRow
      <4>4. acc'[m] \in {x, y, z}
        BY <3>1, <4>1 DEF Unplaces
      <4> QED BY <3>2, <4>1, <4>2, <4>3, <4>4
    <3>3. ASSUME NEW b \in Boxes, Aims(r, b) PROVE r.name \in Claimants(b)
      <4>1. Aims(req[q], b) /\ r.name = req[q].name
        BY <3>1, <3>3 DEF Quiet, Aims
      <4>2. req[q].name \in Names
        BY <4>1 DEF AccInv, ReqsFit, Shape, CreateShape, EditShape, Aims
      <4> QED BY <4>1, <4>2 DEF Claimants
    <3> QED BY <3>1, <3>2, <3>3, CapLets
  <2>2. CASE CountSlots(q) /\ CountAccountsByWorker(req[q].box) < MaxPerContainer
    <3>1. UNCHANGED acc /\ req[q].box \in Boxes
      BY <2>2, CountsOne
    <3>2. PICK r : Moves(q, r) /\ r.kind = "create" /\ r.box = req[q].box
      BY <2>2, CountsOne
    <3>3. \A b \in Boxes : Aims(r, b) => b = req[q].box
      BY <3>2 DEF Aims, Edits
    <3>4. PICK c \in Boxes : c = req[q].box
      BY <3>1
    <3>5. Cardinality(ListAccountsByWorker(c)) < MaxPerContainer
      BY <2>2, <3>4 DEF CountAccountsByWorker
    <3> QED BY <3>1, <3>2, <3>3, <3>4, <3>5, CapFound
  <2>3. CASE AllocatePort(q) /\ ~Done(q)
    <3>1. PICK r : Moves(q, r) /\ r.stage = "spawn" /\ UNCHANGED acc
      BY <2>3, PortFound
    <3>2. \A b \in Boxes : ~Aims(r, b)
      BY <3>1 DEF Aims
    <3> QED BY <1>3, <3>1, <3>2
  <2>4. CASE CreateWorker(q)
    <3>1. PICK b \in Boxes, p \in Ports : \E r :
            /\ box[b].phase = "none" /\ Moves(q, r)
            /\ \/ Settled(r)
               \/ r.kind = "create" /\ r.stage = "assign" /\ r.box = b
      BY <2>4, Spawns
    <3>2. PICK r : /\ Moves(q, r)
                   /\ \/ Settled(r)
                      \/ r.kind = "create" /\ r.stage = "assign" /\ r.box = b
      BY <3>1
    <3>3. UNCHANGED acc
      BY <2>4, Spawns
    <3>4. ListAccountsByWorker(b) = {}
      BY <1>1, <3>1, AccountBounds DEF ListAccountsByWorker, Stands
    <3>5. Cardinality(ListAccountsByWorker(b)) < MaxPerContainer
      BY <3>4, FS_EmptySet, AccountBounds
    <3>6. \A c \in Boxes : Aims(r, c) => c = b
      BY <1>2, <3>2 DEF Aims, Edits
    <3> QED BY <3>2, <3>3, <3>5, <3>6, CapFound
  <2>5. CASE Insert(q) /\ ~Has(req[q].name)
    <3>1. req[q].name \in Names /\ acc' = [acc EXCEPT ![req[q].name] = Fresh]
      BY <2>5, InsertsRow
    <3>2. PICK r : Moves(q, r) /\ r.kind = "create" /\ r.stage \in {"resolve", "get"}
      BY <2>5, InsertsRow
    <3>3. PICK n \in Names, f \in AccountRow : n = req[q].name /\ f = Fresh
      BY <3>1, FreshRow
    <3>4. f.box = Nobody /\ acc' = [acc EXCEPT ![n] = f]
      BY <3>1, <3>3, FreshRow
    <3>5. \A b \in Boxes : ~Aims(r, b)
      BY <3>2 DEF Aims, Edits
    <3> QED BY <3>2, <3>3, <3>4, <3>5, CapWrites
  <2>6. CASE Assign(q) /\ Has(req[q].name) /\ Hostable(req[q].name, req[q].box)
    <3>1. /\ req[q].kind = "create" /\ req[q].stage = "assign"
          /\ req[q].name \in Names /\ req[q].box \in Boxes
          /\ acc' = [acc EXCEPT ![req[q].name].box = req[q].box]
      BY <2>6, AssignsOne
    <3>2. PICK r : Moves(q, r) /\ Settled(r)
      BY <2>6, AssignsOne
    <3>3. PICK n \in Names, b \in Boxes : n = req[q].name /\ b = req[q].box
      BY <3>1
    <3>4. Has(n) /\ acc' = [acc EXCEPT ![n].box = b]
      BY <2>6, <3>1, <3>3
    <3>5. PICK row \in AccountRow :
            /\ row.phase = "live" /\ row.box = b
            /\ row.status = acc[n].status /\ row.score = acc[n].score
            /\ [acc EXCEPT ![n].box = b] = [acc EXCEPT ![n] = row]
      BY <3>4, Placed
    <3>6. Aims(req[q], row.box) /\ acc' = [acc EXCEPT ![n] = row]
      BY <3>1, <3>3, <3>4, <3>5 DEF Aims
    <3>7. \A c \in Boxes : ~Aims(r, c)
      BY <1>2, <3>2
    <3> QED BY <3>2, <3>3, <3>6, <3>7, CapWrites
  <2>7. CASE ReadRow(q) /\ ~Done(q)
    <3>1. UNCHANGED acc /\ req[q].name \in Names /\ Has(req[q].name)
      BY <2>7, ReadsRow
    <3>2. PICK r : /\ Moves(q, r) /\ r.kind = req[q].kind /\ r.name = req[q].name
                   /\ r.stage \in {"publish", "write"} /\ r.snap = acc[req[q].name]
      BY <2>7, ReadsRow
    <3>3. \A b \in Boxes : Aims(r, b) => r.name \in Claimants(b)
      BY <3>1, <3>2 DEF Aims, Claimants, ListAccountsByWorker
    <3> QED BY <3>1, <3>2, <3>3, CapLets
  <2>8. CASE WriteRow(q) /\ Writable(req[q].name, Edited(q))
    <3>1. /\ req[q].kind \in Edits /\ req[q].stage = "write"
          /\ acc' = [acc EXCEPT ![req[q].name] = Edited(q)]
      BY <2>8, WritesRow
    <3>2. PICK r : Moves(q, r) /\ (Settled(r) \/ (r.kind = "pause" /\ r.stage = "release"))
      BY <2>8, WritesRow
    <3>3. /\ req[q].name \in Names /\ Edited(q) \in AccountRow
          /\ Edited(q).box = req[q].snap.box
      BY <3>1, EditMakes
    <3>4. PICK n \in Names, row \in AccountRow : n = req[q].name /\ row = Edited(q)
      BY <3>3
    <3>5. acc' = [acc EXCEPT ![n] = row] /\ Aims(req[q], row.box)
      BY <3>1, <3>3, <3>4 DEF Aims
    <3>6. \A b \in Boxes : ~Aims(r, b)
      BY <1>2, <3>2 DEF Aims
    <3> QED BY <3>2, <3>4, <3>5, <3>6, CapWrites
  <2> QED BY <1>4, <2>1, <2>2, <2>3, <2>4, <2>5, <2>6, <2>7, <2>8, StepKinds
<1>5. ASSUME NEW q \in Reqs, Aborts(q) PROVE CapInv'
  <2>1. UNCHANGED acc /\ Moves(q, Waiting)
    BY <1>5, AbortMoves
  <2>2. Settled(Waiting)
    BY WaitingFits DEF Settled
  <2> QED BY <1>2, <1>3, <2>1, <2>2
<1>6. CASE UNCHANGED accountVars
  <2>1. acc' = acc /\ req' = req
    BY <1>6 DEF accountVars
  <2>2. \A b \in Boxes : Claimants(b)' = Claimants(b)
    BY <2>1 DEF Claimants, ListAccountsByWorker, Has, Aims
  <2> QED BY <2>2 DEF CapInv
<1> QED BY <1>4, <1>5, <1>6 DEF AccountsNext

LEMMA CapInit == AccountsInit => CapInv
<1> SUFFICES ASSUME AccountsInit, NEW b \in Boxes
             PROVE  Cardinality(Claimants(b)) < MaxPerContainer + Cardinality(Reqs)
  BY DEF CapInv
<1>1. \A q \in Reqs : req[q].kind = "none"
  BY WaitingFits DEF AccountsInit
<1>2. Claimants(b) = {}
  BY <1>1, FreshRow DEF AccountsInit, Claimants, ListAccountsByWorker, Has, Aims, Edits
<1>3. Cardinality(Reqs) \in Nat
  BY NamesFinite
<1> QED BY <1>2, <1>3, FS_EmptySet, AccountBounds

\* The cap is read before the slot is taken, so requests that race can pass
\* it; but with n handlers a container hosts less than the cap plus n
\* accounts, for any cap and any n, however late each of them writes the row
\* it read (CountSlots, Assign, WriteRow).
THEOREM CapOverrunIsBounded == AccountsSpec => []CapOverrunBounded
<1>1. AccountsInit => AccInv /\ CapInv
  BY InitAccounts, CapInit
<1>2. AccInv /\ CapInv /\ [AccountsNext]_accountVars => (AccInv /\ CapInv)'
  BY AccStep, CapStep
<1>3. CapInv => CapOverrunBounded
  <2> SUFFICES ASSUME CapInv, NEW b \in Boxes
               PROVE  CountAccountsByWorker(b) < MaxPerContainer + Cardinality(Reqs)
    BY DEF CapOverrunBounded
  <2>1. Claimants(b) \in SUBSET Names /\ ListAccountsByWorker(b) \in SUBSET Claimants(b)
    BY DEF Claimants, ListAccountsByWorker
  <2>2. ListAccountsByWorker(b) \in SUBSET Names
    BY <2>1
  <2>3. /\ Cardinality(ListAccountsByWorker(b)) <= Cardinality(Claimants(b))
        /\ Cardinality(ListAccountsByWorker(b)) \in Nat /\ Cardinality(Claimants(b)) \in Nat
        /\ Cardinality(Reqs) \in Nat
    BY <2>1, <2>2, NamesFinite
  <2>4. Cardinality(Claimants(b)) < MaxPerContainer + Cardinality(Reqs)
    BY DEF CapInv
  <2> QED BY <2>3, <2>4, AccountBounds DEF CountAccountsByWorker
<1> QED BY <1>1, <1>2, <1>3, PTL DEF AccountsSpec

-----------------------------------------------------------------------------
(***************************************************************************)
(* The accounts no two requests have met on.                               *)
(***************************************************************************)
\* A step leaves what the requests know of account n as it is.
Alike(n) ==
    /\ acc'[n].phase = acc[n].phase /\ acc'[n].status = acc[n].status
    /\ acc'[n].score = acc[n].score /\ acc'[n].box \in {acc[n].box, Nobody}

LEMMA Toucher ==
    ASSUME AccInv, NEW p \in Reqs, req[p].name \in Names
    PROVE  req[p].name \in Touched(p)
<1>1. req[p].kind # "close"
  BY AccountBounds DEF AccInv, ReqsFit, Shape, CloseShape
<1> QED BY <1>1, AccountBounds DEF Touched

LEMMA Alone ==
    ASSUME AccInv, MeetInv, NEW p \in Reqs, NEW q \in Reqs, p # q,
           req[p].name \in Names \ disturbed
    PROVE  req[p].name \notin Touched(q)
BY Toucher DEF MeetInv, Met

\* What holds of the accounts the step of q does not touch holds after it, and
\* what does of the others is up to q.
LEMMA MeetLifts ==
    ASSUME AccInv, MeetInv, NEW q \in Reqs, NEW r, Moves(q, r),
           Met' \subseteq disturbed', disturbed \subseteq disturbed', laundered \subseteq laundered',
           \A n \in Names : n \in Touched(q) \/ Alike(n),
           r.name \in Names \ disturbed' => Knows(r)',
           \A n \in Touched(q) \ disturbed' :
             Released(n)' /\ (n \in laundered' \/ ~Has(n)' \/ Healthy(acc'[n]))
    PROVE  MeetInv'
<1>1. req'[q] = r /\ \A p \in Reqs : p # q => req'[p] = req[p]
  BY ReqsKept DEF AccInv
<1>2. ASSUME NEW p \in Reqs, req'[p].name \in Names \ disturbed'
      PROVE  Knows(req[p])'
  <2>1. CASE p = q
    <3>1. r.name \in Names \ disturbed'
      BY <1>1, <1>2, <2>1
    <3> QED BY <1>1, <2>1, <3>1 DEF Knows, Has
  <2>2. CASE p # q
    <3>1. PICK n, x : n = req[p].name /\ x = req[p]
      OBVIOUS
    <3>2. n \in Names \ disturbed' /\ req'[p] = x
      BY <1>1, <1>2, <2>2, <3>1
    <3>3. Knows(x) /\ n \notin Touched(q)
      BY <2>2, <3>1, <3>2, Alone DEF MeetInv
    <3>4. Alike(n) /\ n = x.name
      BY <3>1, <3>2, <3>3
    <3> QED BY <3>1, <3>2, <3>3, <3>4 DEF Knows, Has, Alike
  <2> QED BY <2>1, <2>2
<1>3. ASSUME NEW n \in Names \ disturbed', n \notin Touched(q)
      PROVE  /\ Released(n)'
             /\ n \notin laundered' /\ Has(n)' => Healthy(acc'[n])
  <2>1. Alike(n) /\ Released(n) /\ (n \notin laundered /\ Has(n) => Healthy(acc[n]))
    BY <1>3 DEF MeetInv
  <2>2. ASSUME NEW p \in Reqs, At(p, "pause", "release"), req[p].name = n
        PROVE  At(p, "pause", "release")' /\ req'[p].name = n
    <3>1. p # q
      BY <1>3, <2>2, Toucher
    <3> QED BY <1>1, <2>2, <3>1 DEF At
  <2>3. Released(n)'
    BY <2>1, <2>2 DEF Released, Alike, Has
  <2> QED BY <2>1, <2>3 DEF Alike, Has, Healthy
<1>4. \A n \in Names \ disturbed' : Released(n)'
  BY <1>3
<1>5. \A n \in Names \ (disturbed' \cup laundered') : Has(n)' => Healthy(acc'[n])
  BY <1>3
<1> QED BY <1>2, <1>4, <1>5 DEF MeetInv, Healthy

\* The accounts stay as they are, and no release ends.
LEMMA MeetMoves ==
    ASSUME AccInv, MeetInv, NEW q \in Reqs, NEW r, Moves(q, r), UNCHANGED acc,
           ~At(q, "pause", "release"), laundered' = laundered, disturbed' = disturbed \cup Met',
           r.name \in Names \ disturbed => Knows(r)
    PROVE  MeetInv'
<1>1. req'[q] = r /\ \A p \in Reqs : p # q => req'[p] = req[p]
  BY ReqsKept DEF AccInv
<1>2. \A n \in Names : Alike(n)
  BY DEF Alike
<1>3. r.name \in Names \ disturbed' => Knows(r)'
  BY DEF Knows, Has
<1>4. ASSUME NEW n \in Touched(q) \ disturbed'
      PROVE  Released(n)' /\ (n \in laundered' \/ ~Has(n)' \/ Healthy(acc'[n]))
  <2>1. n \in Names
    BY DEF AccInv, ReqsFit, Requests, Touched
  <2>2. Released(n) /\ (n \in laundered \/ ~Has(n) \/ Healthy(acc[n]))
    BY <2>1 DEF MeetInv
  <2>3. ASSUME NEW p \in Reqs, At(p, "pause", "release"), req[p].name = n
        PROVE  At(p, "pause", "release")' /\ req'[p].name = n
    BY <1>1, <2>3 DEF At
  <2>4. Released(n)'
    BY <2>2, <2>3 DEF Released, Has
  <2> QED BY <2>2, <2>4 DEF Has
<1> QED BY <1>2, <1>3, <1>4, MeetLifts

\* The row of the account q works on is written.
LEMMA MeetWrites ==
    ASSUME AccInv, MeetInv, NEW q \in Reqs, NEW r, Moves(q, r),
           NEW n \in Names, NEW row \in AccountRow, acc' = [acc EXCEPT ![n] = row],
           req[q].name = n, row.phase = "live",
           laundered \subseteq laundered', disturbed' = disturbed \cup Met',
           ~(r.kind \in Edits /\ r.stage \in {"publish", "write"}),
           r.kind = "create" /\ r.stage # "insert" => r.name = n /\ row.status = "ACTIVE",
           n \notin disturbed /\ row.status = "PAUSED" /\ row.box # Nobody =>
             r.kind = "pause" /\ r.stage = "release" /\ r.name = n,
           n \notin disturbed \cup laundered' => Healthy(row)
    PROVE  MeetInv'
<1>1. req'[q] = r
  BY ReqsKept DEF AccInv
<1>2. acc'[n] = row /\ \A m \in Names : m # n => acc'[m] = acc[m]
  BY DEF AccInv, TablesTyped
<1>3. n \in Touched(q) /\ Touched(q) \subseteq {n}
  <2>1. n \in Touched(q)
    BY Toucher
  <2>2. req[q].kind # "close"
    BY AccountBounds DEF AccInv, ReqsFit, Shape, CloseShape
  <2> QED BY <2>1, <2>2 DEF Touched
<1>4. \A m \in Names : m \in Touched(q) \/ Alike(m)
  BY <1>2, <1>3 DEF Alike
<1>5. Knows(r)'
  BY <1>2 DEF Knows
<1>6. n \notin disturbed' => Released(n)'
  <2>1. n \notin disturbed' /\ row.status = "PAUSED" /\ row.box # Nobody =>
          At(q, "pause", "release")' /\ req'[q].name = n
    BY <1>1 DEF At
  <2> QED BY <1>2, <2>1 DEF Released
<1>7. n \notin disturbed' => n \in laundered' \/ Healthy(acc'[n])
  BY <1>2
<1> QED BY <1>3, <1>4, <1>5, <1>6, <1>7, MeetLifts

\* Accounts lose their containers, and the one q removes its row.
LEMMA MeetLets ==
    ASSUME AccInv, MeetInv, NEW q \in Reqs, NEW r, LetsGo(q, r), disturbed' = disturbed \cup Met'
    PROVE  MeetInv'
<1>1. Moves(q, r) /\ Quiet(q, r) /\ Unplaces(q) /\ laundered' = laundered
  BY DEF LetsGo
<1>2. req'[q] = r /\ \A p \in Reqs : p # q => req'[p] = req[p]
  BY <1>1, ReqsKept DEF AccInv
<1>3. ASSUME NEW n \in Names
      PROVE  \/ Alike(n) /\ (acc'[n].box # Nobody => acc'[n] = acc[n])
             \/ req[q].kind = "remove" /\ n = req[q].name /\ acc'[n].phase = "gone"
  <2>1. PICK x, y, z, w : /\ x = acc[n] /\ y = [acc[n] EXCEPT !.box = Nobody]
                          /\ z = [NoAccount EXCEPT !.phase = "gone"] /\ w = acc'[n]
    OBVIOUS
  <2>2. x \in AccountRow /\ y = [x EXCEPT !.box = Nobody] /\ z.phase = "gone"
    BY <2>1, FreshRow DEF AccInv, TablesTyped
  <2>3. y.phase = x.phase /\ y.status = x.status /\ y.score = x.score /\ y.box = Nobody
    BY <2>2 DEF AccountRow
  <2>4. w = x \/ w = y \/ (req[q].kind = "remove" /\ n = req[q].name /\ w = z)
    BY <1>1, <2>1 DEF Unplaces
  <2> QED BY <2>1, <2>2, <2>3, <2>4 DEF Alike
<1>4. \A n \in Names : n \in Touched(q) \/ Alike(n)
  BY <1>3, Toucher
<1>5. ASSUME r.name \in Names \ disturbed' PROVE Knows(r)'
  <2>1. PICK n \in Names \ disturbed : n = r.name
    BY <1>5
  <2>2. CASE r.kind \in Edits /\ r.stage \in {"publish", "write"}
    <3>1. /\ req[q].kind = r.kind /\ req[q].name = r.name /\ req[q].snap = r.snap
          /\ req[q].stage = "publish"
      BY <1>1, <2>2 DEF Quiet
    <3>2. Knows(req[q])
      BY <2>1, <3>1 DEF MeetInv
    <3>3. Alike(n) /\ r.kind # "create"
      BY <1>3, <2>2, <3>1 DEF Edits
    <3> QED BY <2>1, <2>2, <3>1, <3>2, <3>3 DEF Knows, Has, Alike
  <2>3. CASE r.kind = "create" /\ r.stage # "insert"
    <3>1. req[q].kind = "create" /\ req[q].stage # "insert" /\ r.name = req[q].name
      BY <1>1, <2>3 DEF Quiet
    <3>2. Knows(req[q])
      BY <2>1, <3>1 DEF MeetInv
    <3>3. Alike(n) /\ r.kind \notin Edits
      BY <1>3, <2>3, <3>1 DEF Edits
    <3> QED BY <2>1, <2>3, <3>1, <3>2, <3>3 DEF Knows, Has, Alike
  <2> QED BY <2>2, <2>3 DEF Knows
<1>6. ASSUME NEW n \in Touched(q) \ disturbed'
      PROVE  Released(n)' /\ (n \in laundered' \/ ~Has(n)' \/ Healthy(acc'[n]))
  <2>1. n \in Names
    BY DEF AccInv, ReqsFit, Requests, Touched
  <2>2. Released(n) /\ (n \in laundered \/ ~Has(n) \/ Healthy(acc[n]))
    BY <2>1 DEF MeetInv
  <2>3. n \in laundered' \/ ~Has(n)' \/ Healthy(acc'[n])
    BY <1>1, <1>3, <2>1, <2>2 DEF Has, Healthy, Alike
  <2>4. ASSUME Has(n)', acc'[n].status = "PAUSED", acc'[n].box # Nobody
        PROVE  \E p \in Reqs : At(p, "pause", "release")' /\ req'[p].name = n
    <3>1. acc'[n] = acc[n]
      BY <1>3, <2>1, <2>4 DEF Has
    <3>2. PICK p \in Reqs : At(p, "pause", "release") /\ req[p].name = n
      BY <2>2, <2>4, <3>1 DEF Released, Has
    <3>3. p # q
      BY <2>4, <3>2 DEF LetsGo, Has
    <3> QED BY <1>2, <3>2, <3>3 DEF At
  <2> QED BY <2>3, <2>4 DEF Released
<1> QED BY <1>1, <1>4, <1>5, <1>6, MeetLifts

LEMMA MeetStep ==
    ASSUME AccInv, MeetInv, [AccountsNext]_accountVars
    PROVE  MeetInv'
<1>1. ASSUME NEW r, Settled(r) PROVE Knows(r) /\ r.kind \notin Edits
  BY <1>1 DEF Settled, Knows, Edits
<1>2. ASSUME NEW q \in Reqs, Arrives(q) \/ Advances(q), UNCHANGED net,
             disturbed' = disturbed \cup Met'
      PROVE  MeetInv'
  <2>1. CASE \E r : LetsGo(q, r)
    BY <1>2, <2>1, MeetLets
  <2>2. CASE CountSlots(q) /\ CountAccountsByWorker(req[q].box) < MaxPerContainer
    <3>1. PICK r : /\ Moves(q, r) /\ r.kind = "create" /\ r.stage = "hosted"
                   /\ r.name = req[q].name
      BY <2>2, CountsOne
    <3>2. UNCHANGED <<acc, laundered>> /\ req[q].kind = "create" /\ req[q].stage = "count"
      BY <2>2, CountsOne
    <3>3. r.name \in Names \ disturbed => Knows(req[q])
      BY <3>1 DEF MeetInv
    <3>4. r.name \in Names \ disturbed => Knows(r)
      BY <3>1, <3>2, <3>3 DEF Knows, Edits
    <3> QED BY <1>2, <3>1, <3>2, <3>4, MeetMoves DEF At
  <2>3. CASE AllocatePort(q) /\ ~Done(q)
    <3>1. PICK r : /\ Moves(q, r) /\ r.stage = "spawn" /\ r.kind = req[q].kind
                   /\ r.name = req[q].name
      BY <2>3, PortFound
    <3>2. UNCHANGED <<acc, laundered>> /\ req[q].kind \in {"create", "open"} /\ req[q].stage = "port"
      BY <2>3, PortFound
    <3>3. r.name \in Names \ disturbed => Knows(req[q])
      BY <3>1 DEF MeetInv
    <3>4. r.name \in Names \ disturbed => Knows(r)
      BY <3>1, <3>2, <3>3 DEF Knows, Edits
    <3> QED BY <1>2, <3>1, <3>2, <3>4, MeetMoves DEF At
  <2>4. CASE CreateWorker(q)
    <3>1. PICK b \in Boxes, p \in Ports : \E r :
            /\ Moves(q, r)
            /\ \/ Settled(r)
               \/ /\ req[q].kind = "create"
                  /\ r.kind = "create" /\ r.stage = "assign" /\ r.name = req[q].name
      BY <2>4, Spawns
    <3>2. PICK r : /\ Moves(q, r)
                   /\ \/ Settled(r)
                      \/ /\ req[q].kind = "create"
                         /\ r.kind = "create" /\ r.stage = "assign" /\ r.name = req[q].name
      BY <3>1
    <3>3. UNCHANGED <<acc, laundered>> /\ req[q].stage = "spawn"
      BY <2>4, Spawns
    <3>4. r.name \in Names \ disturbed => Knows(r)
      <4>1. CASE Settled(r)
        BY <1>1, <4>1
      <4>2. CASE req[q].kind = "create" /\ r.kind = "create" /\ r.name = req[q].name
        <5>1. r.name \in Names \ disturbed => Knows(req[q])
          BY <4>2 DEF MeetInv
        <5> QED BY <3>3, <4>2, <5>1 DEF Knows, Edits
      <4> QED BY <3>2, <4>1, <4>2
    <3> QED BY <1>2, <3>2, <3>3, <3>4, MeetMoves DEF At
  <2>5. CASE Insert(q) /\ ~Has(req[q].name)
    <3>1. /\ req[q].name \in Names /\ acc' = [acc EXCEPT ![req[q].name] = Fresh]
          /\ UNCHANGED laundered
      BY <2>5, InsertsRow
    <3>2. PICK r : /\ Moves(q, r) /\ r.kind = "create" /\ r.stage \in {"resolve", "get"}
                   /\ r.name = req[q].name
      BY <2>5, InsertsRow
    <3>3. PICK n \in Names, f \in AccountRow : n = req[q].name /\ f = Fresh
      BY <3>1, FreshRow
    <3>4. /\ f.box = Nobody /\ f.phase = "live" /\ f.status = "ACTIVE" /\ f.score = ScoreMax
          /\ acc' = [acc EXCEPT ![n] = f]
      BY <3>1, <3>3, FreshRow
    <3>5. Healthy(f) /\ laundered \subseteq laundered' /\ r.kind \notin Edits
      BY <3>1, <3>2, <3>4, AccountBounds DEF Healthy, Edits
    <3> QED BY <1>2, <3>2, <3>3, <3>4, <3>5, MeetWrites
  <2>6. CASE Assign(q) /\ Has(req[q].name) /\ Hostable(req[q].name, req[q].box)
    <3>1. /\ req[q].kind = "create" /\ req[q].stage = "assign" /\ UNCHANGED laundered
          /\ req[q].name \in Names /\ req[q].box \in Boxes
          /\ acc' = [acc EXCEPT ![req[q].name].box = req[q].box]
      BY <2>6, AssignsOne
    <3>2. PICK r : Moves(q, r) /\ Settled(r)
      BY <2>6, AssignsOne
    <3>3. PICK n \in Names, b \in Boxes : n = req[q].name /\ b = req[q].box
      BY <3>1
    <3>4. Has(n) /\ acc' = [acc EXCEPT ![n].box = b]
      BY <2>6, <3>1, <3>3
    <3>5. PICK row \in AccountRow :
            /\ row.phase = "live" /\ row.box = b
            /\ row.status = acc[n].status /\ row.score = acc[n].score
            /\ [acc EXCEPT ![n].box = b] = [acc EXCEPT ![n] = row]
      BY <3>4, Placed
    <3>6. acc' = [acc EXCEPT ![n] = row] /\ laundered \subseteq laundered'
      BY <3>1, <3>4, <3>5
    <3>7. n \notin disturbed => row.status = "ACTIVE"
      <4>1. n \notin disturbed => Knows(req[q])
        BY <3>3 DEF MeetInv
      <4> QED BY <3>1, <3>3, <3>4, <3>5, <4>1 DEF Knows
    <3>8. n \notin disturbed \cup laundered' => Healthy(row)
      <4>1. n \notin disturbed \cup laundered => Healthy(acc[n])
        BY <3>4 DEF MeetInv
      <4> QED BY <3>5, <3>6, <4>1 DEF Healthy
    <3>9. r.kind \notin Edits /\ ~(r.kind = "create" /\ r.stage # "insert")
      BY <1>1, <3>2 DEF Settled
    <3> QED BY <1>2, <3>2, <3>3, <3>5, <3>6, <3>7, <3>8, <3>9, MeetWrites
  <2>7. CASE ReadRow(q) /\ ~Done(q)
    <3>1. /\ UNCHANGED <<acc, laundered>> /\ req[q].name \in Names /\ Has(req[q].name)
          /\ req[q].kind \in Edits /\ req[q].stage = "read"
      BY <2>7, ReadsRow
    <3>2. PICK r : /\ Moves(q, r) /\ r.kind = req[q].kind /\ r.name = req[q].name
                   /\ r.stage \in {"publish", "write"} /\ r.snap = acc[req[q].name]
      BY <2>7, ReadsRow
    <3>3. PICK n \in Names : n = req[q].name
      BY <3>1
    <3>4. n \notin disturbed /\ acc[n].status = "PAUSED" => acc[n].box = Nobody
      <4>1. SUFFICES ASSUME n \notin disturbed, acc[n].status = "PAUSED", acc[n].box # Nobody
                     PROVE  FALSE
        OBVIOUS
      <4>2. PICK p \in Reqs : At(p, "pause", "release") /\ req[p].name = n
        BY <3>1, <3>3, <4>1 DEF MeetInv, Released
      <4>3. p # q
        BY <3>1, <4>2 DEF At
      <4> QED BY <3>3, <4>1, <4>2, <4>3, Alone, Toucher
    <3>5. r.name \in Names \ disturbed => Knows(r)
      BY <3>1, <3>2, <3>3, <3>4 DEF Knows, Edits
    <3> QED BY <1>2, <3>1, <3>2, <3>5, MeetMoves DEF At
  <2>8. CASE WriteRow(q) /\ Writable(req[q].name, Edited(q))
    <3>1. /\ req[q].kind \in Edits /\ req[q].stage = "write"
          /\ acc' = [acc EXCEPT ![req[q].name] = Edited(q)]
          /\ laundered' = IF req[q].kind = "pause" /\ ~IsPackable(req[q].snap)
                          THEN laundered \cup {req[q].name} ELSE laundered
      BY <2>8, WritesRow
    <3>2. PICK r : /\ Moves(q, r)
                   /\ IF req[q].kind = "pause"
                      THEN r.kind = "pause" /\ r.stage = "release" /\ r.name = req[q].name
                      ELSE Settled(r)
      BY <2>8, WritesRow
    <3>3. /\ req[q].name \in Names
          /\ Edited(q) \in AccountRow /\ Edited(q).phase = "live"
          /\ Edited(q).box = req[q].snap.box
          /\ Edited(q).status = "PAUSED" => req[q].kind = "pause" \/ req[q].snap.status = "PAUSED"
          /\ Healthy(req[q].snap) /\ (req[q].kind = "pause" => IsPackable(req[q].snap)) =>
               Healthy(Edited(q))
      BY <3>1, EditMakes
    <3>4. PICK n \in Names, row \in AccountRow, s \in AccountRow :
            n = req[q].name /\ row = Edited(q) /\ s = req[q].snap
      BY <3>1, <3>3, EditMakes
    <3>5. acc' = [acc EXCEPT ![n] = row] /\ row.phase = "live" /\ laundered \subseteq laundered'
      BY <3>1, <3>3, <3>4
    <3>6. ~(r.kind \in Edits /\ r.stage \in {"publish", "write"})
          /\ ~(r.kind = "create" /\ r.stage # "insert")
      BY <1>1, <3>2 DEF Settled
    <3>7. n \notin disturbed => Has(n) /\ s.status = acc[n].status /\ s.score = acc[n].score
                                /\ (s.status = "PAUSED" => s.box = Nobody)
      BY <3>1, <3>4 DEF MeetInv, Knows
    <3>8. n \notin disturbed /\ row.status = "PAUSED" /\ row.box # Nobody =>
            r.kind = "pause" /\ r.stage = "release" /\ r.name = n
      BY <3>2, <3>3, <3>4, <3>7
    <3>9. n \notin disturbed \cup laundered' => Healthy(row)
      <4>1. n \notin disturbed \cup laundered => Healthy(acc[n])
        BY <3>7 DEF MeetInv
      <4>2. n \notin disturbed \cup laundered => Healthy(s)
        BY <3>7, <4>1 DEF Healthy
      <4> QED BY <3>1, <3>3, <3>4, <3>5, <4>2
    <3> QED BY <1>2, <3>2, <3>4, <3>5, <3>6, <3>8, <3>9, MeetWrites
  <2> QED BY <1>2, <2>1, <2>2, <2>3, <2>4, <2>5, <2>6, <2>7, <2>8, StepKinds
<1>3. ASSUME NEW q \in Reqs, Aborts(q), UNCHANGED net PROVE MeetInv'
  <2>1. /\ UNCHANGED <<acc, laundered>> /\ disturbed' = disturbed \cup Touched(q)
        /\ Touched(q) \subseteq Names /\ Moves(q, Waiting)
    BY <1>3, AbortMoves
  <2>2. req'[q] = Waiting /\ \A p \in Reqs : p # q => req'[p] = req[p]
    BY <2>1, ReqsKept DEF AccInv
  <2>3. Touched(q)' = {}
    BY <2>2, WaitingFits DEF Touched
  <2>4. \A p \in Reqs : p # q => Touched(p)' = Touched(p)
    BY <2>2 DEF Touched
  <2>5. Met' \subseteq Met
    BY <2>3, <2>4 DEF Met
  <2>6. Met' \subseteq disturbed' /\ disturbed \subseteq disturbed' /\ laundered \subseteq laundered'
    BY <2>1, <2>5 DEF MeetInv
  <2>7. \A n \in Names : Alike(n)
    BY <2>1 DEF Alike
  <2>8. Waiting.name \notin Names /\ Touched(q) \ disturbed' = {}
    BY <2>1, WaitingFits, AccountBounds
  <2> QED BY <2>1, <2>6, <2>7, <2>8, MeetLifts
<1>4. CASE UNCHANGED accountVars
  BY <1>4 DEF accountVars, MeetInv, Met, Touched, Knows, Released, Has, At
<1> QED BY <1>2, <1>3, <1>4 DEF AccountsNext

LEMMA MeetInit == AccountsInit => MeetInv
<1> SUFFICES ASSUME AccountsInit PROVE MeetInv
  OBVIOUS
<1>1. \A q \in Reqs : req[q].kind = "none" /\ req[q].name = Nobody
  BY WaitingFits DEF AccountsInit
<1>2. \A n \in Names : ~Has(n)
  BY FreshRow DEF AccountsInit, Has
<1>3. Met = {}
  BY <1>1 DEF Met, Touched
<1> QED BY <1>1, <1>2, <1>3, AccountBounds DEF MeetInv, Knows, Released, Edits

\* A paused account holds no slot for longer than its pause takes to release
\* it, unless two requests worked on it at once or one died half-way on it
\* (WriteRow, Release, Assign).
THEOREM PausedAreReleased == AccountsSpec => []PausedIsReleased
<1>1. AccountsInit => AccInv /\ MeetInv
  BY InitAccounts, MeetInit
<1>2. AccInv /\ MeetInv /\ [AccountsNext]_accountVars => (AccInv /\ MeetInv)'
  BY AccStep, MeetStep
<1>3. MeetInv => PausedIsReleased
  BY DEF MeetInv, PausedIsReleased, Released
<1> QED BY <1>1, <1>2, <1>3, PTL DEF AccountsSpec

\* No verdict leaves an ACTIVE account below the threshold, and no edit of one
\* request alone puts it back there, except a pause of an account that was
\* held back (Judged, Resumed).
THEOREM LowScoresArePulled == AccountsSpec => []LowScoreIsPulled
<1>1. AccountsInit => AccInv /\ MeetInv
  BY InitAccounts, MeetInit
<1>2. AccInv /\ MeetInv /\ [AccountsNext]_accountVars => (AccInv /\ MeetInv)'
  BY AccStep, MeetStep
<1>3. MeetInv => LowScoreIsPulled
  BY DEF MeetInv, LowScoreIsPulled, Healthy
<1> QED BY <1>1, <1>2, <1>3, PTL DEF AccountsSpec

=============================================================================
