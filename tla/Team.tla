-------------------------------- MODULE Team --------------------------------
(***************************************************************************)
(* Who may do what.  A login or a refresh starts a session: a row of       *)
(* auth_session behind the refresh cookie, and an access token that carries *)
(* the role its user had.  An owner adds, changes and removes users; every *)
(* statement is one step, so the requests interleave between them.  The    *)
(* audit middleware writes a row once the handler has returned.            *)
(***************************************************************************)
EXTENDS Integers, FiniteSets

CONSTANTS
    Users,       \* ids of app_user
    TeamCalls,   \* HTTP requests, each made once
    MaxSessions, \* bound: rows of auth_session
    MaxStumbles, \* bound: so many statements fail
    NoUser       \* no user

ASSUME TeamConstants ==
    /\ IsFiniteSet(Users) /\ IsFiniteSet(TeamCalls) /\ NoUser \notin Users
    /\ MaxSessions \in Nat /\ MaxStumbles \in Nat

\* The role enum; STRATEGIST and ANALYST are as OPERATOR here: no administrators.
Roles == {"OWNER", "OPERATOR"}

\* The auth_session_revoked_reason enum.
RevokedReasons == {"logout", "rotated", "reuse"}

Sessions == 1 .. MaxSessions

VARIABLES
    member,  \* app_user: the role of each user, "none" before, "gone" after
    session, \* auth_session, and the role in the access token made with it
    call,    \* the requests and how far they are
    trail,   \* audit_log: the outcome recorded for each request
    trouble, \* store failures left, and the requests whose audit row failed
    crossed  \* history: two requests that may unmake an owner were in progress at once

teamVars == <<member, session, call, trail, trouble, crossed>>

NoSession == [user |-> NoUser, role |-> "none", live |-> FALSE]
NoCall == [op |-> "none", by |-> NoUser, user |-> NoUser, role |-> "same", had |-> "none",
           id |-> 0, at |-> "idle", done |-> FALSE]

Owners == {u \in Users : member[u] = "OWNER"}
Exist(u) == member[u] \in Roles

\* A team at rest: the seeded owner at least, any of them logged in.
TeamInit ==
    /\ member \in [Users -> Roles \cup {"none"}] /\ Owners # {}
    /\ \E n \in 0 .. MaxSessions : \E who \in [1 .. n -> {u \in Users : Exist(u)}] :
        session = [s \in Sessions |->
            IF s > n THEN NoSession ELSE [user |-> who[s], role |-> member[who[s]], live |-> TRUE]]
    /\ call = [c \in TeamCalls |-> NoCall]
    /\ trail = [c \in TeamCalls |-> "none"]
    /\ trouble = [left |-> MaxStumbles, lost |-> {}]
    /\ crossed = FALSE

Stumble(who) ==
    trouble.left > 0 /\ trouble' = [left |-> trouble.left - 1, lost |-> trouble.lost \cup who]
Steady == UNCHANGED trouble

\* The routes the audit middleware sees.
Audited == {"create", "update", "remove"}

Enter(c, op, u, had, id, at) ==
    call' = [call EXCEPT ![c] = [NoCall EXCEPT !.op = op, !.user = u, !.had = had, !.id = id,
                                               !.at = at]]
GoTo(c, at) == call' = [call EXCEPT ![c].at = at]

\* The handler returns, with an error or done.
Return(c, done) ==
    call' = [call EXCEPT ![c].done = done,
                         ![c].at = IF call[c].op \in Audited THEN "audit" ELSE "over"]

-----------------------------------------------------------------------------
(***************************************************************************)
(* The statements.                                                         *)
(***************************************************************************)
insertUser(u, role) == member' = [member EXCEPT ![u] = role]
updateUser(u, role) == member' = [member EXCEPT ![u] = role]

\* His sessions go with him.
deleteUser(u) ==
    /\ member' = [member EXCEPT ![u] = "gone"]
    /\ session' = [s \in Sessions |-> IF session[s].user = u THEN [session[s] EXCEPT !.live = FALSE]
                                                              ELSE session[s]]

insertAuthSession(u, role) ==
    \E s \in Sessions :
        /\ session[s] = NoSession
        /\ session' = [session EXCEPT ![s] = [user |-> u, role |-> role, live |-> TRUE]]

\* The actor of a row is a user there is.
insertAuditLog(c, outcome) ==
    IF Exist(call[c].by) THEN trail' = [trail EXCEPT ![c] = outcome] ELSE UNCHANGED trail

-----------------------------------------------------------------------------
(***************************************************************************)
(* Sessions.                                                               *)
(***************************************************************************)
Login(c, u) ==
    /\ call[c].at = "idle" /\ Exist(u)
    /\ Enter(c, "login", u, member[u], 0, "mint")
    /\ UNCHANGED <<member, session, trail, trouble, crossed>>

Active(s) == session[s].live

\* The user is read with the session, as he is now.
Refresh(c, s) ==
    /\ call[c].at = "idle" /\ Active(s)
    /\ Enter(c, "refresh", session[s].user, member[session[s].user], s, "rotate")
    /\ UNCHANGED <<member, session, trail, trouble, crossed>>

Revoke(s) == session' = [session EXCEPT ![s].live = FALSE]

\* A session revoked meanwhile is no error: two refreshes of one cookie both go on.
Rotate(c) ==
    /\ call[c].at = "rotate"
    /\ \/ Revoke(call[c].id) /\ GoTo(c, "mint") /\ Steady
       \/ Return(c, FALSE) /\ Stumble({}) /\ UNCHANGED session
    /\ UNCHANGED <<member, trail, crossed>>

\* A removed user has no row to refer to.
CreateSession(c) ==
    /\ call[c].at = "mint"
    /\ \/ /\ Exist(call[c].user) /\ Steady
          /\ insertAuthSession(call[c].user, call[c].had)
          /\ Return(c, TRUE)
       \/ /\ UNCHANGED session /\ Return(c, FALSE)
          /\ IF Exist(call[c].user) THEN Stumble({}) ELSE Steady
    /\ UNCHANGED <<member, trail, crossed>>

Logout(c, s) ==
    /\ call[c].at = "idle" /\ session[s].user # NoUser
    /\ Enter(c, "logout", session[s].user, "none", s, "over")
    /\ Revoke(s)
    /\ UNCHANGED <<member, trail, trouble, crossed>>

-----------------------------------------------------------------------------
(***************************************************************************)
(* Users.  The permission is the token's, whatever became of its user: an  *)
(* access token is good for a day, here for as long as it takes.           *)
(***************************************************************************)
Claims(by) == [user |-> session[by].user, role |-> session[by].role]
MayAdminister(by) == Claims(by).role = "OWNER"

Deciding(c) == call[c].at \in {"count", "write"}

Begin(c) == crossed' = (crossed \/ \E d \in TeamCalls \ {c} : Deciding(d))

\* The id is new: an email in use is a conflict.
CreateUser(c, by, u, role) ==
    /\ call[c].at = "idle" /\ MayAdminister(by) /\ member[u] # "gone"
    /\ call' = [call EXCEPT ![c] = [NoCall EXCEPT !.op = "create", !.by = Claims(by).user,
                                !.user = u, !.at = "audit", !.done = member[u] = "none"]]
    /\ IF member[u] = "none" THEN insertUser(u, role) ELSE UNCHANGED member
    /\ UNCHANGED <<session, trail, trouble, crossed>>

TeamAsk(c, by, op, u, role, at) ==
    call' = [call EXCEPT ![c] = [op |-> op, by |-> Claims(by).user, user |-> u, role |-> role,
                                 had |-> member[u], id |-> 0, at |-> at, done |-> FALSE]]

\* The row as it is, and the last-owner check when the change demotes an owner.
ReadForUpdate(c, by, u, role) ==
    /\ call[c].at = "idle" /\ MayAdminister(by) /\ member[u] # "none"
    /\ TeamAsk(c, by, "update", u, role,
           IF ~ Exist(u) THEN "audit"
           ELSE IF member[u] = "OWNER" /\ role \notin {"same", "OWNER"} THEN "count"
           ELSE "write")
    /\ Begin(c)
    /\ UNCHANGED <<member, session, trail, trouble>>

\* Not himself; an owner only when he is not the last.
ReadForRemove(c, by, u) ==
    /\ call[c].at = "idle" /\ MayAdminister(by) /\ member[u] # "none"
    /\ TeamAsk(c, by, "remove", u, "same",
           IF u = Claims(by).user \/ ~ Exist(u) THEN "audit"
           ELSE IF member[u] = "OWNER" THEN "count"
           ELSE "write")
    /\ Begin(c)
    /\ UNCHANGED <<member, session, trail, trouble>>

\* Mutant: the user himself is counted.
CountOwners(u) == Cardinality(Owners)

CountOwnersExcept(u) == Cardinality(Owners \ {u})

\* A count that fails counts as none.
CheckLastOwner(c) ==
    /\ call[c].at = "count"
    /\ \/ CountOwnersExcept(call[c].user) # 0 /\ GoTo(c, "write") /\ Steady
       \/ CountOwnersExcept(call[c].user) = 0 /\ Return(c, FALSE) /\ Steady
       \/ Return(c, FALSE) /\ Stumble({})
    /\ UNCHANGED <<member, session, trail, crossed>>

\* Name and role are written as read, changed or not.
UpdateUser(c) ==
    LET r == call[c] IN
    /\ r.at = "write" /\ r.op = "update"
    /\ \/ /\ Exist(r.user) /\ Steady
          /\ updateUser(r.user, IF r.role = "same" THEN r.had ELSE r.role)
          /\ IF r.role \in {"same", r.had} THEN Return(c, TRUE)
             ELSE call' = [call EXCEPT ![c].at = "revoke", ![c].done = TRUE]
       \/ /\ UNCHANGED member /\ Return(c, FALSE)
          /\ IF Exist(r.user) THEN Stumble({}) ELSE Steady
    /\ UNCHANGED <<session, trail, crossed>>

RevokeAll(u, reason) ==
    IF reason \in RevokedReasons
    THEN session' = [s \in Sessions |->
                        IF session[s].user = u THEN [session[s] EXCEPT !.live = FALSE]
                        ELSE session[s]]
    ELSE UNCHANGED session

\* What it returns is only logged.
EndSessions(c) ==
    /\ call[c].at = "revoke"
    /\ Return(c, TRUE)
    /\ RevokeAll(call[c].user, "role_changed")
    /\ UNCHANGED <<member, trail, trouble, crossed>>

\* A user who is gone already is no error.
DeleteUser(c) ==
    LET r == call[c] IN
    /\ r.at = "write" /\ r.op = "remove"
    /\ \/ deleteUser(r.user) /\ Return(c, TRUE) /\ Steady
       \/ UNCHANGED <<member, session>> /\ Return(c, FALSE) /\ Stumble({})
    /\ UNCHANGED <<trail, crossed>>

-----------------------------------------------------------------------------
Outcome(c) == IF call[c].done THEN "ok" ELSE "error"

\* Mutant: the outcome is taken before the handler has run.
RecordOk(c) ==
    /\ call[c].at = "audit"
    /\ GoTo(c, "over")
    /\ \/ insertAuditLog(c, "ok") /\ Steady
       \/ trail' = trail /\ Stumble({c})
    /\ UNCHANGED <<member, session, crossed>>

\* The middleware, after the handler; a row it cannot write is only logged.
Record(c) ==
    /\ call[c].at = "audit"
    /\ GoTo(c, "over")
    /\ \/ insertAuditLog(c, Outcome(c)) /\ Steady
       \/ trail' = trail /\ Stumble({c})
    /\ UNCHANGED <<member, session, crossed>>

Auth(c) ==
    \/ \E u \in Users : Login(c, u)
    \/ \E s \in Sessions : Refresh(c, s) \/ Logout(c, s)
    \/ Rotate(c) \/ CreateSession(c)

Administer(c) ==
    \/ \E by \in Sessions, u \in Users : \E role \in Roles : CreateUser(c, by, u, role)
    \/ \E by \in Sessions, u \in Users :
        \/ \E role \in Roles \cup {"same"} : ReadForUpdate(c, by, u, role)
        \/ ReadForRemove(c, by, u)
    \/ CheckLastOwner(c) \/ UpdateUser(c) \/ EndSessions(c) \/ DeleteUser(c) \/ Record(c)

TeamNext == \E c \in TeamCalls : Auth(c) \/ Administer(c)

TeamSpec == TeamInit /\ [][TeamNext]_teamVars

-----------------------------------------------------------------------------
(***************************************************************************)
(* Properties.                                                             *)
(***************************************************************************)
\* The shape of the rows and requests: among others a live session has a user
\* who exists, and a request that writes has a user it has read.
TeamTypeOK ==
    /\ member \in [Users -> Roles \cup {"none", "gone"}]
    /\ session \in [Sessions -> [user : Users \cup {NoUser}, role : Roles \cup {"none"},
                                 live : BOOLEAN]]
    /\ \A s \in Sessions : session[s].live => session[s].user # NoUser /\ Exist(session[s].user)
    /\ call \in [TeamCalls -> [op : Audited \cup {"none", "login", "refresh", "logout"},
                               by : Users \cup {NoUser}, user : Users \cup {NoUser},
                               role : Roles \cup {"same"}, had : Roles \cup {"none", "gone"},
                               id : Sessions \cup {0},
                               at : {"idle", "mint", "rotate", "count", "write", "revoke",
                                     "audit", "over"}, done : BOOLEAN]]
    /\ \A c \in TeamCalls : Deciding(c) => call[c].user # NoUser /\ call[c].had \in Roles
    /\ trail \in [TeamCalls -> {"none", "ok", "error"}]
    /\ trouble \in [left : 0 .. MaxStumbles, lost : SUBSET TeamCalls]
    /\ crossed \in BOOLEAN

\* Update and Remove refuse to leave the team without an owner.  The check and
\* the write are two statements, and a change of name writes the role back as it
\* was read: the team keeps an owner as long as no two such requests cross.
OwnersLeft == crossed \/ Owners # {}

\* The audit trail says ok of what was done and of nothing else.  It misses the
\* rows the store refused, and what a removed user did with the access token he
\* still had: such a row has no actor to refer to (insertAuditLog, Record).
TrailIsTrue ==
    \A c \in TeamCalls :
        /\ trail[c] = "ok" => call[c].done
        /\ trail[c] = "error" => ~ call[c].done
        /\ call[c].op \in Audited /\ call[c].at = "over" /\ call[c].done =>
              trail[c] = "ok" \/ c \in trouble.lost \/ ~ Exist(call[c].by)

\* "A role change revokes that user's refresh sessions so the new role is
\* enforced on the next login": with nobody else at it, no session outlives it.
SessionsFollowRole ==
    \/ \E c \in TeamCalls : call[c].at \notin {"idle", "over"}
    \/ \A s \in Sessions : Active(s) => session[s].role = member[session[s].user]
=============================================================================
