---------------------------- MODULE SessionRelay ----------------------------
(***************************************************************************)
(* Browser sessions on their way between an operator and a container: the  *)
(* control messages auth-export, auth-import and auth-input, which Redis   *)
(* drops when nobody listens and the worker handles side by side, and the  *)
(* callback that answers an export, tried again when its acknowledgement   *)
(* is lost.  A container keeps one session file per platform, whichever    *)
(* account is on it; one platform is modelled.                             *)
(***************************************************************************)
EXTENDS Integers, FiniteSets

CONSTANTS
    Exports,     \* requests of the operator; an export is known by its request id
    Logins,      \* accounts
    Holders,     \* containers
    MaxVersions, \* bound: sessions are numbered 1 .. MaxVersions, 0 is no file
    MaxPosts,    \* attempts of the worker's callback
    MaxMoves,    \* bound: accounts change their container so often
    NoHolder     \* no container, no account

ASSUME SessionRelayConstants ==
    /\ IsFiniteSet(Exports) /\ IsFiniteSet(Logins) /\ IsFiniteSet(Holders)
    /\ MaxVersions \in Nat \ {0} /\ MaxPosts \in Nat \ {0} /\ MaxMoves \in Nat
    /\ NoHolder \notin Holders \cup Logins

VARIABLES
    place,   \* account.worker_id
    login,   \* account.auth_status
    file,    \* the session each container keeps
    request, \* the requests
    exports, \* the ids that wait for a session, AccountService.exports
    wire,    \* control messages on their way
    dumps,   \* session callbacks on their way
    deliver, \* the callback handler, between its lookup and its send
    newest,  \* the newest session there is
    moves,   \* moves made so far
    kept     \* history: what the container has kept since a request asked it

relayVars == <<place, login, file, request, exports, wire, dumps, deliver, newest, moves, kept>>

Versions == 0 .. MaxVersions
Awaiting == {"AUTHENTICATING", "NEEDS_INPUT"}
NoRequest == [kind |-> "new", stage |-> "new", login |-> NoHolder, holder |-> NoHolder,
           chan |-> {}, answer |-> {}]
NoDelivery == [id |-> NoHolder, session |-> 0]

RelayInit ==
    /\ place \in [Logins -> Holders \cup {NoHolder}]
    /\ \A a, b \in Logins : place[a] = place[b] /\ place[a] # NoHolder => a = b
    /\ login = [a \in Logins |-> "NEEDS_INPUT"]
    /\ file \in [Holders -> {0, 1}] \* the volume outlives the container
    /\ request = [r \in Exports |-> NoRequest]
    /\ exports = {} /\ wire = {} /\ dumps = {}
    /\ deliver = NoDelivery
    /\ newest = 1 /\ moves = 0
    /\ kept = [r \in Exports |-> {}]

-----------------------------------------------------------------------------
(***************************************************************************)
(* Requests: read the account's row, then publish to its container.        *)
(***************************************************************************)
\* GetByID.  An account without a container is a conflict, and so is input
\* for a login that does not wait for it.
Read(r, kind, a) ==
    /\ request[r].stage = "new"
    /\ request' = [request EXCEPT ![r] =
          [NoRequest EXCEPT !.kind = kind, !.login = a, !.holder = place[a],
             !.stage = IF place[a] = NoHolder \/ (kind = "input" /\ login[a] \notin Awaiting)
                       THEN "failed" ELSE "publish"]]
    /\ UNCHANGED <<place, login, file, exports, wire, dumps, deliver, newest, moves, kept>>

ExportSession(r) == \E a \in Logins : Read(r, "export", a)
ImportSession(r) == \E a \in Logins : Read(r, "import", a)
SubmitInput(r) == \E a \in Logins : Read(r, "input", a)

registerExport(r) == exports' = exports \cup {r}
unregisterExport(r) == exports' = exports \ {r}

controlMessage(r, session) ==
    [kind |-> request[r].kind, id |-> r, login |-> request[r].login, holder |-> request[r].holder,
     session |-> session]

\* PublishControl: Redis may refuse the message, or deliver it to nobody.
PublishControl(r, session) ==
    \/ wire' = wire \cup {controlMessage(r, session)}
    \/ UNCHANGED wire

AskExport(r) ==
    /\ request[r].kind = "export" /\ request[r].stage = "publish"
    /\ registerExport(r)
    /\ PublishControl(r, 0)
    /\ request' = [request EXCEPT ![r].stage = "waiting"]
    /\ kept' = [kept EXCEPT ![r] = {file[request[r].holder]}]
    /\ UNCHANGED <<place, login, file, dumps, deliver, newest, moves>>

\* The operator hands in a session of its own, or any text at all; a body
\* that is no JSON object does not come this far.
AskImport(r) ==
    /\ request[r].kind = "import" /\ request[r].stage = "publish"
    /\ newest < MaxVersions
    /\ newest' = newest + 1
    /\ PublishControl(r, newest + 1)
    /\ request' = [request EXCEPT ![r].stage = "answered"]
    /\ UNCHANGED <<place, login, file, exports, dumps, deliver, moves, kept>>

AskInput(r) ==
    /\ request[r].kind = "input" /\ request[r].stage = "publish"
    /\ PublishControl(r, 0)
    /\ request' = [request EXCEPT ![r].stage = "answered"]
    /\ UNCHANGED <<place, login, file, exports, dumps, deliver, newest, moves, kept>>

Failed(r) ==
    /\ request' = [request EXCEPT ![r].stage = "failed"]
    /\ unregisterExport(r)

\* Redis is down, the 20 s are over, or the operator has gone.
GiveUp(r) ==
    /\ request[r].stage \in {"publish", "waiting"}
    /\ Failed(r)
    /\ UNCHANGED <<place, login, file, wire, dumps, deliver, newest, moves, kept>>

\* An empty payload says that the container keeps no session.
Receive(r) ==
    /\ request[r].stage = "waiting"
    /\ \E v \in request[r].chan :
        IF v = 0 THEN Failed(r)
        ELSE /\ request' = [request EXCEPT ![r].stage = "answered", ![r].answer = {v}]
             /\ unregisterExport(r)
    /\ UNCHANGED <<place, login, file, wire, dumps, deliver, newest, moves, kept>>

-----------------------------------------------------------------------------
(***************************************************************************)
(* The worker, which handles its control messages side by side.            *)
(***************************************************************************)
\* A session is written over the one before: a write that fails leaves that one,
\* or a file that cannot be read, which counts as none.
Keep(h, session) ==
    \E v \in {session, 0, file[h]} :
        /\ file' = [file EXCEPT ![h] = v]
        /\ kept' = [r \in Exports |-> IF request[r].stage = "waiting" /\ request[r].holder = h
                                      THEN kept[r] \cup {v} ELSE kept[r]]

\* So does a file that is being written.
DumpSession(m) ==
    /\ m.kind = "export"
    /\ \E v \in {file[m.holder], 0} :
        dumps' = dumps \cup {[id |-> m.id, session |-> v, left |-> MaxPosts]}
    /\ wire' = wire \ {m}
    /\ UNCHANGED <<place, login, file, request, exports, deliver, newest, moves, kept>>

AdoptSession(m) ==
    /\ m.kind = "import"
    /\ Keep(m.holder, m.session)
    /\ wire' = wire \ {m}
    /\ UNCHANGED <<place, login, request, exports, dumps, deliver, newest, moves>>

\* The code is right, whether the new session can be kept or not, or wrong, or
\* not enough; the verdict's callback is in Accounts.
TryInput(m) ==
    /\ m.kind = "input"
    /\ wire' = wire \ {m}
    /\ \/ /\ newest < MaxVersions
          /\ newest' = newest + 1
          /\ Keep(m.holder, newest + 1)
          /\ login' = [login EXCEPT ![m.login] = "AUTHENTICATED"]
       \/ /\ \E s \in {"FAILED", "NEEDS_INPUT"} : login' = [login EXCEPT ![m.login] = s]
          /\ UNCHANGED <<file, newest, kept>>
    /\ UNCHANGED <<place, request, exports, dumps, deliver, moves>>

\* The packer moves an account (Accounts).
Relocate(a) ==
    /\ moves < MaxMoves
    /\ moves' = moves + 1
    /\ \E h \in (Holders \cup {NoHolder}) \ {place[a]} :
        /\ h # NoHolder => \A b \in Logins : place[b] # h
        /\ place' = [place EXCEPT ![a] = h]
    /\ UNCHANGED <<login, file, request, exports, wire, dumps, deliver, newest, kept>>

-----------------------------------------------------------------------------
(***************************************************************************)
(* POST /internal/session-export.                                          *)
(***************************************************************************)
\* An attempt that got no answer is made again, up to MaxPosts.
Attempted(d) ==
    \/ dumps' = dumps \ {d}
    \/ /\ d.left > 1
       /\ dumps' = (dumps \ {d}) \cup {[d EXCEPT !.left = @ - 1]}

\* Mutant: the waiting request is found by its account.
LookUpByLogin(d) ==
    /\ deliver = NoDelivery
    /\ Attempted(d)
    /\ LET w == {r \in exports : request[r].login = request[d.id].login} IN
       IF w = {} THEN UNCHANGED deliver
       ELSE \E r \in w : deliver' = [id |-> r, session |-> d.session]
    /\ UNCHANGED <<place, login, file, request, exports, wire, newest, moves, kept>>

\* An id nobody waits for is dropped.
LookUp(d) ==
    /\ deliver = NoDelivery
    /\ Attempted(d)
    /\ deliver' = IF d.id \in exports THEN [id |-> d.id, session |-> d.session] ELSE NoDelivery
    /\ UNCHANGED <<place, login, file, request, exports, wire, newest, moves, kept>>

\* The channel holds one session; the waiter may have left meanwhile.
DeliverExportedSession ==
    /\ deliver # NoDelivery
    /\ request' = [request EXCEPT ![deliver.id].chan = IF @ = {} THEN {deliver.session} ELSE @]
    /\ deliver' = NoDelivery
    /\ UNCHANGED <<place, login, file, exports, wire, dumps, newest, moves, kept>>

RelayNext ==
    \/ \E r \in Exports :
        \/ ExportSession(r) \/ ImportSession(r) \/ SubmitInput(r)
        \/ AskExport(r) \/ AskImport(r) \/ AskInput(r) \/ GiveUp(r) \/ Receive(r)
    \/ \E m \in wire : DumpSession(m) \/ AdoptSession(m) \/ TryInput(m)
    \/ \E a \in Logins : Relocate(a)
    \/ \E d \in dumps : LookUp(d)
    \/ DeliverExportedSession

RelaySpec == RelayInit /\ [][RelayNext]_relayVars

-----------------------------------------------------------------------------
(***************************************************************************)
(* Properties.                                                             *)
(***************************************************************************)

\* The table names exactly the exports that still wait, and a container has
\* one account of the platform at a time.
RelayTypeOK ==
    /\ place \in [Logins -> Holders \cup {NoHolder}]
    /\ \A a, b \in Logins : place[a] = place[b] /\ place[a] # NoHolder => a = b
    /\ login \in [Logins -> Awaiting \cup {"AUTHENTICATED", "FAILED"}]
    /\ file \in [Holders -> Versions] /\ kept \in [Exports -> SUBSET Versions]
    /\ request \in [Exports -> [kind : {"new", "export", "import", "input"},
                             stage : {"new", "publish", "waiting", "answered", "failed"},
                             login : Logins \cup {NoHolder}, holder : Holders \cup {NoHolder},
                             chan : SUBSET Versions, answer : SUBSET Versions]]
    /\ exports = {r \in Exports : request[r].kind = "export" /\ request[r].stage = "waiting"}
    /\ wire \subseteq [kind : {"export", "import", "input"}, id : Exports, login : Logins,
                       holder : Holders, session : Versions]
    /\ dumps \subseteq [id : Exports, session : Versions, left : 1 .. MaxPosts]
    /\ deliver \in [id : Exports \cup {NoHolder}, session : Versions]
    /\ newest \in Versions /\ moves \in 0 .. MaxMoves

\* "requestId correlates the dump with the waiting export request": what the
\* operator is handed is a session its container kept while the request was
\* waiting, never what a late or repeated answer to an earlier request says,
\* nor one an import or a login has replaced before it asked (LookUp,
\* DeliverExportedSession, GiveUp).
ExportIsOwn == \A r \in Exports : request[r].answer \subseteq kept[r] \ {0}

=============================================================================
