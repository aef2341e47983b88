------------------------------ MODULE Sessions ------------------------------
(***************************************************************************)
(* Sessions, and who is recorded as the author of a row.  A request is one *)
(* transaction that carries the digest of its credential, never an Actor:  *)
(* every statement that writes resolves the credential again, on what is   *)
(* committed at that moment.  So a logout, an expiry or a deactivation     *)
(* also bites the requests that had begun before it.  A trigger that runs  *)
(* after the row is in place resolves it last; one that runs before it     *)
(* resolves it ahead of the wait for a unique index.                       *)
(***************************************************************************)
EXTENDS Integers

CONSTANTS
    User,      \* each with its HUMAN Actor
    Session, Request,
    MaxWrite   \* bound on the writing statements of a request

ASSUME SessionsAssumption == MaxWrite \in Nat /\ "nobody" \notin User

VARIABLES
    users,     \* users and their actors: known, and the two active flags
    sessions,  \* the committed rows of sessions
    expired,   \* the sessions whose expires_at has passed
    requests,  \* what every request is doing
    authored,  \* ghost: the committed rows, with the truth about their statement
    loggedOut  \* ghost: the sessions whose logout has committed

sessionVars == <<users, sessions, expired, requests, authored, loggedOut>>

\* A user and its Actor, as far as anything here depends on them.
Account == [known : {TRUE}, active : BOOLEAN, actorActive : BOOLEAN]

Stranger == [known |-> FALSE, active |-> FALSE, actorActive |-> FALSE]
NoSession == [user |-> "nobody", active |-> FALSE]
Closed == [phase |-> "closed"]

Enabled(p) == users[p].active /\ users[p].actorActive

Issued == {s \in Session : sessions[s] # NoSession}

SessionsInit ==
    /\ users = [p \in User |-> Stranger]
    /\ sessions = [s \in Session |-> NoSession]
    /\ expired = {}
    /\ requests = [r \in Request |-> Closed]
    /\ authored = {} /\ loggedOut = {}

-----------------------------------------------------------------------------
\* bootstrap_user: under its advisory lock, and only while there is no user.
BootstrapUser(p) ==
    /\ \A q \in User : users[q] = Stranger
    /\ users' = [users EXCEPT ![p] = [known |-> TRUE, active |-> TRUE, actorActive |-> TRUE]]
    /\ UNCHANGED <<sessions, expired, requests, authored, loggedOut>>

\* An administrator disables a user or an Actor, or enables them again; the
\* service itself never does.
Administer(p, account) ==
    /\ users[p].known
    /\ users' = [users EXCEPT ![p] = account]
    /\ requests' = [r \in Request |->
           IF /\ requests[r].phase = "stated" /\ sessions[requests[r].session].user = p
              /\ account.active /\ account.actorActive
              /\ requests[r].session \notin loggedOut
           THEN [requests[r] EXCEPT !.entitled = TRUE] ELSE requests[r]]
    /\ UNCHANGED <<sessions, expired, authored, loggedOut>>

Expire(s) ==
    /\ s \in Issued \ expired
    /\ expired' = expired \cup {s}
    /\ UNCHANGED <<users, sessions, requests, authored, loggedOut>>

\* login: the password is verified against what is read now ...
VerifyPassword(r, p) ==
    /\ requests[r] = Closed
    /\ Enabled(p)
    /\ requests' = [requests EXCEPT ![r] = [phase |-> "verified", user |-> p]]
    /\ UNCHANGED <<users, sessions, expired, authored, loggedOut>>

\* uq_sessions_token_digest: a new token names no session, committed or not.
Unissued(s) ==
    /\ s \notin Issued
    /\ \A q \in Request : requests[q].phase = "issued" => requests[q].session # s

\* ... and issue_session looks at the identity again.
IssueSession(r, s) ==
    /\ requests[r].phase = "verified"
    /\ Enabled(requests[r].user)
    /\ Unissued(s)
    /\ requests' = [requests EXCEPT ![r] = [phase |-> "issued", user |-> @.user, session |-> s]]
    /\ UNCHANGED <<users, sessions, expired, authored, loggedOut>>

CommitLogin(r) ==
    /\ requests[r].phase = "issued"
    /\ sessions' = [sessions EXCEPT ![requests[r].session] =
                        [user |-> requests[r].user, active |-> TRUE]]
    /\ requests' = [requests EXCEPT ![r] = Closed]
    /\ UNCHANGED <<users, expired, authored, loggedOut>>

\* resolve_session; inTime says that the statement began before the expiry.
ResolveSession(s, inTime) ==
    s \in Issued /\ sessions[s].active /\ inTime /\ Enabled(sessions[s].user)

\* authenticated(): the transaction of a request opens with its credential.
OpenRequest(r, s) ==
    /\ requests[r] = Closed
    /\ ResolveSession(s, s \notin expired)
    /\ requests' = [requests EXCEPT ![r] =
           [phase |-> "open", session |-> s, inTime |-> TRUE, entitled |-> TRUE,
            rows |-> {}, writes |-> 0]]
    /\ UNCHANGED <<users, sessions, expired, authored, loggedOut>>

\* statement_timestamp() is fixed here, before the statement may wait.  The ghost
\* `entitled` says that at some moment of the statement, up to its check, its session
\* had not been logged out and its user and Actor were enabled.
BeginStatement(r) ==
    LET s == requests[r].session IN
    /\ requests[r].phase = "open"
    /\ requests' = [requests EXCEPT ![r].phase = "stated",
           ![r].inTime = s \notin expired,
           ![r].entitled = s \notin loggedOut /\ Enabled(sessions[s].user)]
    /\ UNCHANGED <<users, sessions, expired, authored, loggedOut>>

CurrentAuthenticatedActor_AtOpen(r) == TRUE

\* current_authenticated_actor(), which the triggers of every attributed table call.
CurrentAuthenticatedActor(r) == ResolveSession(requests[r].session, requests[r].inTime)

\* The row of a statement, and whether it was its author's to write.
Written(r, timely) ==
    /\ requests[r].writes < MaxWrite
    /\ requests' = [requests EXCEPT ![r].phase = "open", ![r].writes = @ + 1,
           ![r].rows = @ \cup {[session |-> requests[r].session, timely |-> timely]}]
    /\ UNCHANGED <<users, sessions, expired, authored, loggedOut>>

\* An AFTER INSERT trigger checks a row that waits for nothing any more, and a
\* BEFORE UPDATE trigger one whose lock is held: the check is the last thing.
WriteRow(r) ==
    LET s == requests[r].session IN
    /\ requests[r].phase = "stated"
    /\ CurrentAuthenticatedActor(r)
    /\ Written(r, requests[r].inTime /\ s \notin loggedOut /\ Enabled(sessions[s].user))

\* A BEFORE INSERT trigger, and revoke_current_session, check first ...
CheckWriter(r) ==
    /\ requests[r].phase = "stated"
    /\ CurrentAuthenticatedActor(r)
    /\ requests' = [requests EXCEPT ![r].phase = "checked"]
    /\ UNCHANGED <<users, sessions, expired, authored, loggedOut>>

\* ... and the row is inserted when the unique index lets it, with no other look.
\* A statement whose row ON CONFLICT drops leaves nothing behind and is no step.
InsertChecked(r) ==
    /\ requests[r].phase = "checked"
    /\ Written(r, requests[r].inTime /\ requests[r].entitled)

\* revoke_current_session: its update waits for another one of the same row and
\* then finds it inactive, which refuses the second logout.
RevokeCurrentSession(r) ==
    LET s == requests[r].session IN
    /\ requests[r].phase = "checked"
    /\ sessions[s].active
    /\ \A q \in Request : requests[q].phase = "revoking" => requests[q].session # s
    /\ requests' = [requests EXCEPT ![r].phase = "revoking"]
    /\ UNCHANGED <<users, sessions, expired, authored, loggedOut>>

CommitRequest(r) ==
    LET s == requests[r].session
        revokes == requests[r].phase = "revoking" IN
    /\ requests[r].phase \in {"open", "revoking"}
    /\ sessions' = IF revokes THEN [sessions EXCEPT ![s].active = FALSE] ELSE sessions
    /\ loggedOut' = IF revokes THEN loggedOut \cup {s} ELSE loggedOut
    /\ authored' = authored \cup requests[r].rows
    /\ requests' = [requests EXCEPT ![r] = Closed]
    /\ UNCHANGED <<users, expired>>

\* A refused statement ends the transaction, and so does a lost connection.
RollbackRequest(r) ==
    /\ requests[r] # Closed
    /\ requests' = [requests EXCEPT ![r] = Closed]
    /\ UNCHANGED <<users, sessions, expired, authored, loggedOut>>

SessionsNext ==
    \/ \E p \in User : BootstrapUser(p) \/ \E account \in Account : Administer(p, account)
    \/ \E s \in Session : Expire(s)
    \/ \E r \in Request :
           \/ CommitLogin(r) \/ BeginStatement(r) \/ WriteRow(r)
           \/ CheckWriter(r) \/ InsertChecked(r) \/ RevokeCurrentSession(r)
           \/ CommitRequest(r) \/ RollbackRequest(r)
           \/ \E p \in User : VerifyPassword(r, p)
           \/ \E s \in Session : IssueSession(r, s) \/ OpenRequest(r, s)

SessionsSpec == SessionsInit /\ [][SessionsNext]_sessionVars

-----------------------------------------------------------------------------
\* ADR-006: no committed row comes from a statement that began after the session
\* of its author was logged out or had expired, or throughout which its user or
\* Actor was disabled, even if the request was accepted long before; where the
\* check is the last thing, the same holds at the moment of the write itself.
\* And a session that has been logged out never opens a request again.
WritesPrecedeRevocation ==
    /\ \A row \in authored : row.timely
    /\ \A s \in loggedOut : ~ ResolveSession(s, TRUE)
=============================================================================
