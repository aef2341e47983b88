--------------------------- MODULE ServicesProofs ---------------------------
(***************************************************************************)
(* Proofs about the small components that keep something outside the row   *)
(* they decide about - a session that others may end, a file, bytes, an    *)
(* event list, a parent row - for any number of requests, jobs, uploads,   *)
(* conflicts and locations.                                                *)
(***************************************************************************)
EXTENDS Sessions, Labels, Evidence, SyncConflicts, Space,
        FiniteSetTheorems, WellFoundedInduction, TLAPS

-----------------------------------------------------------------------------
(***************************************************************************)
(* Sessions.  A row that a request has written and not committed yet is    *)
(* timely already, a session that somebody is about to issue is not issued *)
(* yet and belongs to one login only, and a logged out one is inactive.    *)
(***************************************************************************)
AuthoredRow == [session : Session, timely : BOOLEAN]

LoginState ==
    [phase : {"closed"}] \cup [phase : {"verified"}, user : User]
    \cup [phase : {"issued"}, user : User, session : Session]

OpenState ==
    [phase : {"open", "stated", "checked", "revoking"}, session : Session, inTime : BOOLEAN,
     entitled : BOOLEAN, rows : SUBSET AuthoredRow, writes : Nat]

SessionRow == [user : User, active : BOOLEAN]

SessionsShape ==
    /\ sessions \in [Session -> SessionRow \cup {NoSession}]
    /\ requests \in [Request -> LoginState \cup OpenState]
    /\ loggedOut \subseteq Session

Begun(r) == requests[r].phase \in {"open", "stated", "checked", "revoking"}

PendingTimely ==
    \A r \in Request : Begun(r) =>
        requests[r].session \in Issued /\ \A row \in requests[r].rows : row.timely

TokensNew ==
    /\ \A r \in Request : requests[r].phase = "issued" => requests[r].session \notin Issued
    /\ \A r, q \in Request :
           requests[r].phase = "issued" /\ requests[q].phase = "issued"
           /\ requests[r].session = requests[q].session => r = q

LoggedOutInactive == \A s \in loggedOut : s \in Issued /\ ~ sessions[s].active

SessionsInv ==
    /\ SessionsShape /\ PendingTimely /\ TokensNew /\ LoggedOutInactive
    /\ \A row \in authored : row.timely

(***************************************************************************)
(* A statement whose session and author are good now has been entitled at  *)
(* some moment since it began, and one that is checked stays entitled.     *)
(***************************************************************************)
Author(r) == sessions[requests[r].session].user

Entitled(r) ==
    /\ Begun(r) => users[Author(r)].known
    /\ requests[r].phase = "stated" =>
           (requests[r].session \notin loggedOut /\ Enabled(Author(r)) => requests[r].entitled)
    /\ requests[r].phase = "checked" => requests[r].inTime /\ requests[r].entitled

EntitledInv ==
    /\ users \in [User -> Account \cup {Stranger}]
    /\ \A r \in Request : Entitled(r)

\* Every step of a login, a request, an administrator or the clock keeps it.
LEMMA SessionsInductive ==
    ASSUME SessionsInv, EntitledInv, [SessionsNext]_sessionVars PROVE SessionsInv'
<1> USE SessionsAssumption
    DEF SessionsInv, SessionsShape, PendingTimely, TokensNew, LoggedOutInactive, Issued,
        Begun, Closed, NoSession, LoginState, OpenState, SessionRow
<1>1. ASSUME NEW p \in User, BootstrapUser(p) PROVE SessionsInv'
  BY <1>1 DEF BootstrapUser
<1>2. ASSUME NEW p \in User, NEW account \in Account, Administer(p, account) PROVE SessionsInv'
  <2>1. ASSUME NEW q \in Request
        PROVE  /\ requests'[q] \in LoginState \cup OpenState
               /\ requests'[q].phase = requests[q].phase
               /\ requests[q].phase = "issued" => requests'[q] = requests[q]
               /\ Begun(q) => /\ requests'[q].session = requests[q].session
                              /\ requests'[q].rows = requests[q].rows
    <3>1. CASE requests[q].phase # "stated"
      BY <1>2, <3>1 DEF Administer
    <3>2. CASE requests[q].phase = "stated"
      <4>1. requests[q] \in OpenState
        BY <3>2
      <4>2. \/ requests'[q] = requests[q]
            \/ requests'[q] = [requests[q] EXCEPT !.entitled = TRUE]
        BY <1>2, Zenon DEF Administer
      <4> QED
        BY <3>2, <4>1, <4>2
    <3> QED
      BY <3>1, <3>2
  <2>2. UNCHANGED <<sessions, authored, loggedOut>> /\ requests' = [q \in Request |-> requests'[q]]
    BY <1>2 DEF Administer
  <2> HIDE DEF OpenState, LoginState, SessionRow, NoSession
  <2>3. SessionsShape'
    BY <2>1, <2>2
  <2> QED
    BY <2>1, <2>2, <2>3
<1>3. ASSUME NEW s \in Session, Expire(s) PROVE SessionsInv'
  BY <1>3 DEF Expire
<1>4. ASSUME NEW r \in Request, CommitLogin(r) PROVE SessionsInv'
  BY <1>4 DEF CommitLogin
<1>5. ASSUME NEW r \in Request, BeginStatement(r) PROVE SessionsInv'
  <2>1. requests[r] \in OpenState /\ requests[r].phase = "open"
    BY <1>5 DEF BeginStatement
  <2>2. /\ \A q \in Request : q # r => requests'[q] = requests[q]
        /\ requests' = [q \in Request |-> requests'[q]]
        /\ UNCHANGED <<sessions, authored, loggedOut>>
    BY <1>5 DEF BeginStatement
  <2>3. /\ requests'[r] \in OpenState /\ requests'[r].phase = "stated"
        /\ requests'[r].session = requests[r].session /\ requests'[r].rows = requests[r].rows
    BY <2>1, <1>5 DEF BeginStatement
  <2> HIDE DEF OpenState, LoginState, SessionRow, NoSession
  <2>4. SessionsShape'
    BY <2>2, <2>3
  <2> QED
    BY <2>1, <2>2, <2>3, <2>4
<1>6. ASSUME NEW r \in Request, WriteRow(r) PROVE SessionsInv'
  BY <1>6 DEF WriteRow, Written, CurrentAuthenticatedActor, ResolveSession, AuthoredRow, Enabled
<1>7. ASSUME NEW r \in Request, RevokeCurrentSession(r) PROVE SessionsInv'
  BY <1>7 DEF RevokeCurrentSession
<1>8. ASSUME NEW r \in Request, CommitRequest(r) PROVE SessionsInv'
  <2> DEFINE s == requests[r].session
  <2>1. /\ requests[r] \in OpenState /\ s \in Issued
        /\ \A q \in Request : q # r => requests'[q] = requests[q]
        /\ requests'[r] = Closed /\ requests' = [q \in Request |-> requests'[q]]
        /\ authored' = authored \cup requests[r].rows
    BY <1>8 DEF CommitRequest
  <2>2. CASE requests[r].phase = "revoking"
    <3> DEFINE ended == [sessions[s] EXCEPT !.active = FALSE]
    <3>1. sessions[s] \in SessionRow
      BY <2>1
    <3>2. sessions' = [sessions EXCEPT ![s] = ended] /\ loggedOut' = loggedOut \cup {s}
      BY <2>2, <1>8, Zenon DEF CommitRequest
    <3>3. ended \in SessionRow /\ ended.user = sessions[s].user /\ ~ ended.active
      BY <3>1
    <3> HIDE DEF ended
    <3>4. ended # NoSession
      BY <3>1, <3>3
    <3> QED
      BY <2>1, <3>2, <3>3, <3>4
  <2>3. CASE requests[r].phase # "revoking"
    BY <2>1, <2>3, <1>8 DEF CommitRequest
  <2> QED
    BY <2>2, <2>3
<1>9. ASSUME NEW r \in Request, RollbackRequest(r) PROVE SessionsInv'
  BY <1>9 DEF RollbackRequest
<1>10. ASSUME NEW r \in Request, NEW p \in User, VerifyPassword(r, p) PROVE SessionsInv'
  BY <1>10 DEF VerifyPassword
<1>11. ASSUME NEW r \in Request, NEW s \in Session, IssueSession(r, s) PROVE SessionsInv'
  BY <1>11 DEF IssueSession, Unissued
<1>12. ASSUME NEW r \in Request, NEW s \in Session, OpenRequest(r, s) PROVE SessionsInv'
  BY <1>12 DEF OpenRequest, ResolveSession
<1>13. ASSUME NEW r \in Request, CheckWriter(r) PROVE SessionsInv'
  BY <1>13 DEF CheckWriter
<1>14. ASSUME NEW r \in Request, InsertChecked(r) PROVE SessionsInv'
  BY <1>14 DEF InsertChecked, Written, AuthoredRow, EntitledInv, Entitled
<1>15. CASE UNCHANGED sessionVars
  BY <1>15 DEF sessionVars
<1> QED
  BY <1>1, <1>2, <1>3, <1>4, <1>5, <1>6, <1>7, <1>8, <1>9, <1>10, <1>11, <1>12, <1>13, <1>14,
     <1>15 DEF SessionsNext

\* A request that no longer does anything, or still does what it did.
LEMMA EntitledKept ==
    ASSUME NEW q \in Request, Entitled(q), requests'[q] = requests[q], UNCHANGED users,
           Begun(q) => sessions'[requests[q].session].user = sessions[requests[q].session].user,
           loggedOut \subseteq loggedOut'
    PROVE  Entitled(q)'
BY DEF Entitled, Begun, Author, Enabled

\* And the credential of every statement is described as it was.
LEMMA EntitledInductive ==
    ASSUME SessionsInv, EntitledInv, [SessionsNext]_sessionVars PROVE EntitledInv'
<1> USE DEF EntitledInv
<1>1. ASSUME NEW p \in User, BootstrapUser(p) PROVE EntitledInv'
  <2>1. /\ users[p] = Stranger /\ UNCHANGED <<sessions, requests, loggedOut>>
        /\ users' \in [User -> Account \cup {Stranger}]
    BY <1>1 DEF BootstrapUser, Account
  <2>2. ASSUME NEW q \in Request, Begun(q) PROVE FALSE
    <3>1. requests[q].session \in Issued /\ users[Author(q)].known
      BY <2>2 DEF SessionsInv, PendingTimely, Entitled
    <3>2. Author(q) \in User
      BY <3>1 DEF Author, Issued, SessionsInv, SessionsShape, SessionRow
    <3> QED
      BY <1>1, <3>1, <3>2 DEF BootstrapUser, Stranger
  <2> QED
    BY <2>1, <2>2 DEF Entitled, Begun
<1>2. ASSUME NEW p \in User, NEW account \in Account, Administer(p, account) PROVE EntitledInv'
  <2>1. users' \in [User -> Account \cup {Stranger}]
    BY <1>2 DEF Administer
  <2>2. ASSUME NEW q \in Request PROVE Entitled(q)'
    <3> DEFINE s == requests[q].session
    <3>1. /\ users' = [users EXCEPT ![p] = account] /\ UNCHANGED <<sessions, loggedOut>>
          /\ account.known
      BY <1>2 DEF Administer, Account
    <3>2. CASE /\ requests[q].phase = "stated" /\ Author(q) = p
               /\ account.active /\ account.actorActive /\ s \notin loggedOut
      <4>1. requests'[q] = [requests[q] EXCEPT !.entitled = TRUE] /\ requests[q] \in OpenState
        BY <1>2, <3>2 DEF Administer, Author, SessionsInv, SessionsShape, LoginState
      <4>2. requests'[q].phase = "stated" /\ requests'[q].entitled /\ requests'[q].session = s
        BY <3>2, <4>1 DEF OpenState
      <4> QED
        BY <3>1, <3>2, <4>2 DEF Entitled, Begun, Author
    <3>3. CASE ~ (/\ requests[q].phase = "stated" /\ Author(q) = p
                  /\ account.active /\ account.actorActive /\ s \notin loggedOut)
      <4>1. requests'[q] = requests[q]
        BY <1>2, <3>3 DEF Administer, Author
      <4>2. \A u : users[u].known => users'[u].known
        BY <3>1
      <4> QED
        BY <3>1, <3>3, <4>1, <4>2 DEF Entitled, Begun, Author, Enabled
    <3> QED
      BY <3>2, <3>3
  <2> QED
    BY <2>1, <2>2
<1>3. ASSUME NEW r \in Request, UNCHANGED <<users, sessions, loggedOut>>,
             requests' = [requests EXCEPT ![r] = requests'[r]], Entitled(r)'
      PROVE  EntitledInv'
  BY <1>3, EntitledKept DEF SessionsInv, SessionsShape
<1>4. ASSUME NEW r \in Request, CommitLogin(r) PROVE EntitledInv'
  BY <1>4, EntitledKept DEF CommitLogin, SessionsInv, SessionsShape, TokensNew, PendingTimely,
     Closed, Entitled, Begun
<1>5. ASSUME NEW r \in Request, BeginStatement(r) PROVE EntitledInv'
  <2>1. requests[r] \in OpenState /\ requests[r].phase = "open" /\ Entitled(r)
    BY <1>5 DEF BeginStatement, SessionsInv, SessionsShape, LoginState
  <2>2. /\ requests'[r].phase = "stated" /\ requests'[r].session = requests[r].session
        /\ requests'[r].entitled = (requests[r].session \notin loggedOut /\ Enabled(Author(r)))
    BY <2>1, <1>5 DEF BeginStatement, OpenState, SessionsInv, SessionsShape, Author
  <2>3. /\ UNCHANGED <<users, sessions, loggedOut>>
        /\ requests' = [requests EXCEPT ![r] = requests'[r]]
    BY <1>5 DEF BeginStatement, SessionsInv, SessionsShape
  <2>4. Entitled(r)'
    BY <2>1, <2>2, <2>3 DEF Entitled, Begun, Author, Enabled
  <2> QED
    BY <2>3, <2>4, <1>3
<1>6. ASSUME NEW r \in Request, WriteRow(r) \/ InsertChecked(r) PROVE EntitledInv'
  <2>1. requests[r] \in OpenState /\ requests[r].phase \in {"stated", "checked"} /\ Entitled(r)
    BY <1>6 DEF WriteRow, InsertChecked, SessionsInv, SessionsShape, LoginState
  <2>2. PICK timely : Written(r, timely)
    BY <1>6 DEF WriteRow, InsertChecked
  <2>3. /\ UNCHANGED <<users, sessions, loggedOut>>
        /\ requests' = [requests EXCEPT ![r] = requests'[r]]
        /\ requests'[r].phase = "open" /\ requests'[r].session = requests[r].session
    BY <2>1, <2>2 DEF Written, OpenState, SessionsInv, SessionsShape
  <2>4. Entitled(r)'
    BY <2>1, <2>3 DEF Entitled, Begun, Author
  <2> QED
    BY <2>3, <2>4, <1>3
<1>7. ASSUME NEW r \in Request, CheckWriter(r) PROVE EntitledInv'
  <2>1. requests[r] \in OpenState /\ requests[r].phase = "stated" /\ Entitled(r)
    BY <1>7 DEF CheckWriter, SessionsInv, SessionsShape, LoginState
  <2>2. /\ requests[r].inTime /\ Enabled(Author(r)) /\ requests[r].session \notin loggedOut
    BY <1>7 DEF CheckWriter, CurrentAuthenticatedActor, ResolveSession, Author, SessionsInv,
       LoggedOutInactive
  <2>3. /\ requests'[r].phase = "checked" /\ requests'[r].session = requests[r].session
        /\ requests'[r].inTime = requests[r].inTime
        /\ requests'[r].entitled = requests[r].entitled
    BY <2>1, <1>7 DEF CheckWriter, OpenState, SessionsInv, SessionsShape
  <2>4. /\ UNCHANGED <<users, sessions, loggedOut>>
        /\ requests' = [requests EXCEPT ![r] = requests'[r]]
    BY <1>7 DEF CheckWriter, SessionsInv, SessionsShape
  <2>5. Entitled(r)'
    BY <2>1, <2>2, <2>3, <2>4 DEF Entitled, Begun, Author
  <2> QED
    BY <2>4, <2>5, <1>3
<1>8. ASSUME NEW r \in Request, RevokeCurrentSession(r) PROVE EntitledInv'
  <2>1. requests[r] \in OpenState /\ requests[r].phase = "checked" /\ Entitled(r)
    BY <1>8 DEF RevokeCurrentSession, SessionsInv, SessionsShape, LoginState
  <2>2. requests'[r].phase = "revoking" /\ requests'[r].session = requests[r].session
    BY <2>1, <1>8 DEF RevokeCurrentSession, OpenState, SessionsInv, SessionsShape
  <2>3. /\ UNCHANGED <<users, sessions, loggedOut>>
        /\ requests' = [requests EXCEPT ![r] = requests'[r]]
    BY <1>8 DEF RevokeCurrentSession, SessionsInv, SessionsShape
  <2>4. Entitled(r)'
    BY <2>1, <2>2, <2>3 DEF Entitled, Begun, Author
  <2> QED
    BY <2>3, <2>4, <1>3
<1>9. ASSUME NEW r \in Request, CommitRequest(r) PROVE EntitledInv'
  BY <1>9, EntitledKept DEF CommitRequest, SessionsInv, SessionsShape, Closed, Entitled, Begun
<1>10. ASSUME NEW r \in Request, RollbackRequest(r) PROVE EntitledInv'
  BY <1>3, <1>10 DEF RollbackRequest, Closed, Entitled, Begun, SessionsInv, SessionsShape
<1>11. ASSUME NEW r \in Request,
              \/ \E p \in User : VerifyPassword(r, p)
              \/ \E s \in Session : IssueSession(r, s)
       PROVE  EntitledInv'
  <2>1. /\ UNCHANGED <<users, sessions, loggedOut>>
        /\ requests' = [requests EXCEPT ![r] = requests'[r]]
        /\ requests'[r].phase \in {"verified", "issued"}
    BY <1>11 DEF VerifyPassword, IssueSession, SessionsInv, SessionsShape
  <2>2. Entitled(r)'
    BY <2>1 DEF Entitled, Begun
  <2> QED
    BY <2>1, <2>2, <1>3
<1>12. ASSUME NEW r \in Request, NEW s \in Session, OpenRequest(r, s) PROVE EntitledInv'
  <2>1. /\ UNCHANGED <<users, sessions, loggedOut>>
        /\ requests' = [requests EXCEPT ![r] = requests'[r]]
        /\ requests'[r].phase = "open" /\ requests'[r].session = s
    BY <1>12 DEF OpenRequest, SessionsInv, SessionsShape
  <2>2. s \in Issued /\ users[sessions[s].user].active
    BY <1>12 DEF OpenRequest, ResolveSession, Enabled
  <2>3. sessions[s].user \in User
    BY <2>2 DEF Issued, SessionRow, SessionsInv, SessionsShape, NoSession
  <2>4. users[sessions[s].user].known
    <3>1. users[sessions[s].user] # Stranger
      BY <2>2 DEF Stranger
    <3>2. users[sessions[s].user] \in Account
      BY <2>3, <3>1
    <3> QED
      BY <3>2 DEF Account
  <2>5. Entitled(r)'
    BY <2>1, <2>4 DEF Entitled, Begun, Author
  <2> QED
    BY <2>1, <2>5, <1>3
<1>13. CASE UNCHANGED <<users, sessions, requests, loggedOut>>
  BY <1>13, EntitledKept
<1>14. ASSUME NEW s \in Session, Expire(s) PROVE EntitledInv'
  BY <1>13, <1>14 DEF Expire
<1>15. CASE UNCHANGED sessionVars
  BY <1>13, <1>15 DEF sessionVars
<1>16. CASE SessionsNext
  <2>1. CASE \E p \in User : BootstrapUser(p) \/ \E account \in Account : Administer(p, account)
    BY <2>1, <1>1, <1>2
  <2>2. CASE \E s \in Session : Expire(s)
    BY <2>2, <1>14
  <2>3. ASSUME NEW r \in Request,
               \/ CommitLogin(r) \/ BeginStatement(r) \/ WriteRow(r)
               \/ CheckWriter(r) \/ InsertChecked(r) \/ RevokeCurrentSession(r)
               \/ CommitRequest(r) \/ RollbackRequest(r)
               \/ \E p \in User : VerifyPassword(r, p)
               \/ \E s \in Session : IssueSession(r, s) \/ OpenRequest(r, s)
        PROVE  EntitledInv'
    BY <2>3, <1>4, <1>5, <1>6, <1>7, <1>8, <1>9, <1>10, <1>11, <1>12
  <2> QED
    BY <1>16, <2>1, <2>2, <2>3 DEF SessionsNext
<1> QED
  BY <1>15, <1>16

\* ADR-006: no committed row comes from a statement that began after the end of
\* its session or throughout which its author was disabled, whichever of the two
\* kinds of trigger checked it; and a logged out session opens nothing.
THEOREM WritesPrecedeRevocationProven ==
    SessionsSpec => []WritesPrecedeRevocation
<1>1. SessionsInit => SessionsInv /\ EntitledInv
  BY DEF SessionsInit, SessionsInv, SessionsShape, PendingTimely, TokensNew, LoggedOutInactive,
         Closed, LoginState, Begun, EntitledInv, Entitled
<1>2. SessionsInv => WritesPrecedeRevocation
  BY DEF SessionsInv, LoggedOutInactive, WritesPrecedeRevocation, ResolveSession
<1> QED
  BY <1>1, <1>2, SessionsInductive, EntitledInductive, PTL DEF SessionsSpec

-----------------------------------------------------------------------------
(***************************************************************************)
(* Labels.  A dispatch in progress holds the lock of its job, which has    *)
(* not succeeded; so the file that it has published, or found, is still    *)
(* there when it records the success, and stays for ever after.            *)
(***************************************************************************)
Snapshot == [asset : Labelled, description : Text, template : Template]

Bytes == [found : {TRUE}, snapshot : Snapshot, format : Format, renderer : Int]

JobRow ==
    [status : {"PENDING", "SUCCEEDED", "FAILED"}, adapter : {"ZPL", "FILE"}, format : Format,
     attempts : Nat, snapshot : Snapshot, digest : Bytes \cup {NoFile}]

DispatchState ==
    {Waiting} \cup [phase : {"locked"}, job : Job]
    \cup [phase : {"decided"}, job : Job, status : {"SUCCEEDED", "FAILED"},
          digest : Bytes \cup {NoFile}]

LabelsShape ==
    /\ description \in [Labelled -> Text]
    /\ jobs \in [Job -> JobRow \cup {NoJob}]
    /\ jobLock \in [Job -> Dispatcher \cup {Unlocked}]
    /\ output \in [Job -> Bytes \cup {NoFile}]
    /\ renderer \in Nat
    /\ dispatches \in [Dispatcher -> DispatchState]
    /\ templates \subseteq Template

\* A file that goes with a job: the label that was asked for.
Fits(j, file) == file \in Bytes /\ file.snapshot = jobs[j].snapshot

DispatchesLocked ==
    \A d \in Dispatcher : dispatches[d] # Waiting =>
        LET j == dispatches[d].job IN
        j \in Queued /\ jobLock[j] = d /\ jobs[j].status # "SUCCEEDED"

DecisionsKept ==
    \A d \in Dispatcher :
        dispatches[d].phase = "decided" /\ dispatches[d].status = "SUCCEEDED" =>
            LET j == dispatches[d].job IN
            /\ Fits(j, dispatches[d].digest)
            /\ j \notin tampered => output[j] = dispatches[d].digest

SuccessesKept ==
    \A j \in Job : jobs[j].status = "SUCCEEDED" =>
        Fits(j, jobs[j].digest) /\ (j \notin tampered => output[j] = jobs[j].digest)

ServedRecorded ==
    \A s \in served : s.job \in Job /\ jobs[s.job].status = "SUCCEEDED"
                       /\ s.file = jobs[s.job].digest

LabelsInv ==
    LabelsShape /\ DispatchesLocked /\ DecisionsKept /\ SuccessesKept /\ ServedRecorded

\* What a dispatch would draw is the label of its job.
LEMMA DrawnFits ==
    ASSUME LabelsShape, NEW j \in Queued
    PROVE  Drawn(jobs[j]) \in Bytes /\ Drawn(jobs[j]).snapshot = jobs[j].snapshot
<1>1. jobs[j] \in JobRow
  BY DEF LabelsShape, Queued
<1>2. renderer \in Int
  BY DEF LabelsShape
<1> QED
  BY <1>1, <1>2 DEF Drawn, File, JobRow, Bytes

\* What the trigger stores for a new job.
LEMMA RequestedRow ==
    ASSUME LabelsShape, NEW a \in Labelled, NEW t \in templates, NEW f \in Format
    PROVE  Requested(a, t, f) \in JobRow /\ Requested(a, t, f).status = "PENDING"
<1>1. description[a] \in Text /\ t \in Template
  BY DEF LabelsShape
<1>2. [asset |-> a, description |-> description[a], template |-> t] \in Snapshot
  BY <1>1 DEF Snapshot
<1>3. AdapterFor(f) \in {"ZPL", "FILE"}
  BY DEF AdapterFor
<1> QED
  BY <1>2, <1>3 DEF Requested, JobRow

\* New jobs disturb nobody: no dispatch, success or download names them.
LEMMA QueueStep ==
    ASSUME LabelsInv, NEW S \in SUBSET (Job \ Queued), jobs' \in [Job -> JobRow \cup {NoJob}],
           \A j \in S : jobs'[j] \in JobRow /\ jobs'[j].status = "PENDING",
           \A j \in Job \ S : jobs'[j] = jobs[j],
           UNCHANGED <<description, templates, jobLock, output, renderer, dispatches, served, tampered>>
    PROVE  LabelsInv'
<1> USE DEF LabelsInv
<1>1. \A j \in Queued : jobs'[j] = jobs[j] /\ j \in Queued'
  BY DEF Queued
<1>2. \A j \in Job : jobs[j].status = "SUCCEEDED" => j \in Queued
  BY DEF Queued, NoJob
<1>3. \A j \in Job : jobs'[j].status = "SUCCEEDED" => jobs'[j] = jobs[j]
  OBVIOUS
<1>4. LabelsShape'
  BY DEF LabelsShape
<1>5. DispatchesLocked'
  BY <1>1 DEF DispatchesLocked
<1>6. DecisionsKept'
  BY <1>1 DEF DecisionsKept, DispatchesLocked, Fits, Waiting
<1>7. SuccessesKept' /\ ServedRecorded'
  BY <1>1, <1>2, <1>3 DEF SuccessesKept, ServedRecorded, Fits
<1> QED
  BY <1>4, <1>5, <1>6, <1>7

\* The two ways in which jobs are queued.
LEMMA EnqueueStep ==
    ASSUME LabelsInv, NEW t \in Template, NEW f \in Format, NEW j \in Job, NEW a \in Labelled,
           Enqueue(j, a, t, f)
    PROVE  LabelsInv'
<1>1. Requested(a, t, f) \in JobRow /\ Requested(a, t, f).status = "PENDING"
  BY RequestedRow DEF Enqueue, LabelsInv
<1>2. /\ jobs' = [jobs EXCEPT ![j] = Requested(a, t, f)] /\ {j} \in SUBSET (Job \ Queued)
      /\ UNCHANGED <<description, templates, jobLock, output, renderer, dispatches, served, tampered>>
  BY DEF Enqueue
<1>3. jobs \in [Job -> JobRow \cup {NoJob}]
  BY DEF LabelsInv, LabelsShape
<1> QED
  BY <1>1, <1>2, <1>3, QueueStep

LEMMA EnqueueReceiptStep ==
    ASSUME LabelsInv, NEW t \in Template, NEW f \in Format, EnqueueReceipt(t, f)
    PROVE  LabelsInv'
<1>1. PICK id \in [ReceivedUnits -> Job \ Queued] :
        jobs' = [j \in Job |->
                    IF \E a \in ReceivedUnits : id[a] = j
                    THEN Requested(CHOOSE a \in ReceivedUnits : id[a] = j, t, f) ELSE jobs[j]]
  BY DEF EnqueueReceipt
<1> DEFINE S == {j \in Job : \E a \in ReceivedUnits : id[a] = j}
<1>2. S \in SUBSET (Job \ Queued)
  OBVIOUS
<1>3. ASSUME NEW j \in S PROVE jobs'[j] \in JobRow /\ jobs'[j].status = "PENDING"
  <2>1. (CHOOSE a \in ReceivedUnits : id[a] = j) \in Labelled
    BY LabelsAssumption
  <2>2. t \in templates
    BY DEF EnqueueReceipt
  <2>3. jobs'[j] = Requested(CHOOSE a \in ReceivedUnits : id[a] = j, t, f)
    BY <1>1
  <2> QED
    BY <2>1, <2>2, <2>3, RequestedRow DEF LabelsInv
<1>4. \A j \in Job \ S : jobs'[j] = jobs[j]
  BY <1>1
<1>5. jobs' \in [Job -> JobRow \cup {NoJob}]
  <2>1. jobs \in [Job -> JobRow \cup {NoJob}]
    BY DEF LabelsInv, LabelsShape
  <2>2. \A j \in Job : jobs'[j] \in JobRow \cup {NoJob}
    BY <2>1, <1>3, <1>4
  <2>3. jobs' = [j \in Job |-> jobs'[j]]
    BY <1>1
  <2> QED
    BY <2>2, <2>3
<1>6. UNCHANGED <<description, templates, jobLock, output, renderer, dispatches, served, tampered>>
  BY DEF EnqueueReceipt
<1> HIDE DEF S
<1> QED
  BY <1>2, <1>3, <1>4, <1>5, <1>6, QueueStep

\* A dispatch takes the row lock of a job that has not succeeded.
LEMMA BeginDispatchStep ==
    ASSUME LabelsInv, NEW d \in Dispatcher, NEW j \in Job, BeginDispatch(d, j)
    PROVE  LabelsInv'
<1> USE LabelsAssumption DEF LabelsInv
<1>1. /\ dispatches' = [dispatches EXCEPT ![d] = [phase |-> "locked", job |-> j]]
      /\ jobLock' = [jobLock EXCEPT ![j] = d] /\ jobLock[j] = Unlocked
      /\ j \in Queued /\ jobs[j].status # "SUCCEEDED" /\ dispatches[d] = Waiting
      /\ UNCHANGED <<description, templates, jobs, output, renderer, served, tampered>>
  BY DEF BeginDispatch
<1>2. LabelsShape'
  BY <1>1 DEF LabelsShape, DispatchState
<1>3. /\ dispatches'[d] = [phase |-> "locked", job |-> j]
      /\ \A e \in Dispatcher : e # d => dispatches'[e] = dispatches[e]
      /\ jobLock'[j] = d /\ \A i \in Job : i # j => jobLock'[i] = jobLock[i]
      /\ Queued' = Queued
  BY <1>1 DEF LabelsShape, Queued
<1>4. DispatchesLocked'
  BY <1>1, <1>3 DEF DispatchesLocked, Unlocked
<1>5. DecisionsKept'
  BY <1>1, <1>3 DEF DecisionsKept, Fits
<1>6. SuccessesKept' /\ ServedRecorded'
  BY <1>1 DEF SuccessesKept, ServedRecorded, Fits
<1> QED
  BY <1>2, <1>4, <1>5, <1>6

\* Two dispatches never work on one job.
LEMMA DispatchAlone ==
    ASSUME LabelsInv, NEW d \in Dispatcher, NEW e \in Dispatcher,
           dispatches[d] # Waiting, dispatches[e] # Waiting, dispatches[d].job = dispatches[e].job
    PROVE  d = e
BY DEF LabelsInv, DispatchesLocked

\* A dispatch decides: it alone may write the file of its job, and it says that
\* it succeeded only if its own bytes are there.
LEMMA DecideStep ==
    ASSUME LabelsInv, NEW d \in Dispatcher, dispatches[d].phase = "locked",
           NEW status \in {"SUCCEEDED", "FAILED"}, NEW digest \in Bytes \cup {NoFile},
           NEW file \in Bytes \cup {NoFile},
           output' = [output EXCEPT ![dispatches[d].job] = file],
           status = "SUCCEEDED" =>
               file = digest /\ digest \in Bytes /\ digest.snapshot = jobs[dispatches[d].job].snapshot,
           Decided(d, status, digest),
           UNCHANGED <<description, templates, jobs, jobLock, renderer, served, tampered>>
    PROVE  LabelsInv'
<1> USE DEF LabelsInv
<1> DEFINE j == dispatches[d].job
           now == [phase |-> "decided", job |-> j, status |-> status, digest |-> digest]
<1>1. j \in Queued /\ j \in Job /\ jobLock[j] = d /\ jobs[j].status # "SUCCEEDED"
      /\ dispatches[d] # Waiting
  BY DEF DispatchesLocked, Queued, Waiting
<1>2. dispatches' = [dispatches EXCEPT ![d] = now]
  BY DEF Decided
<1>3. now \in DispatchState
  BY <1>1 DEF DispatchState
<1>4. /\ dispatches'[d] = now /\ now # Waiting
      /\ \A e \in Dispatcher : e # d => dispatches'[e] = dispatches[e]
  BY <1>2 DEF LabelsShape, Waiting
<1>5. Queued' = Queued
  BY DEF Queued
<1>6. output'[j] = file /\ \A i \in Job : i # j => output'[i] = output[i]
  BY <1>1 DEF LabelsShape
<1>7. LabelsShape'
  BY <1>2, <1>3 DEF LabelsShape
<1>8. DispatchesLocked'
  BY <1>1, <1>4, <1>5 DEF DispatchesLocked
<1>9. DecisionsKept'
  <2>1. ASSUME NEW e \in Dispatcher, dispatches'[e].phase = "decided",
               dispatches'[e].status = "SUCCEEDED"
        PROVE  /\ dispatches'[e].digest \in Bytes
               /\ dispatches'[e].digest.snapshot = jobs[dispatches'[e].job].snapshot
               /\ dispatches'[e].job \notin tampered
                      => output'[dispatches'[e].job] = dispatches'[e].digest
    <3>1. CASE e = d
      <4>1. /\ dispatches'[e].job = j /\ dispatches'[e].digest = digest
            /\ dispatches'[e].status = status
        BY <3>1, <1>4
      <4>2. file = digest /\ digest \in Bytes /\ digest.snapshot = jobs[j].snapshot
        BY <2>1, <4>1
      <4> HIDE DEF j
      <4> QED
        BY <4>1, <4>2, <1>6
    <3>2. CASE e # d
      <4>1. dispatches[e] = dispatches'[e] /\ dispatches[e] # Waiting
        BY <2>1, <3>2, <1>4 DEF Waiting
      <4>2. dispatches[e].job # j /\ dispatches[e].job \in Job
        BY <4>1, <3>2, <1>1, DispatchAlone DEF DispatchesLocked, Queued
      <4>3. output'[dispatches[e].job] = output[dispatches[e].job]
        BY <4>2, <1>6
      <4> QED
        BY <2>1, <4>1, <4>3 DEF DecisionsKept, Fits
    <3> QED
      BY <3>1, <3>2
  <2> QED
    BY <2>1 DEF DecisionsKept, Fits
<1>10. SuccessesKept' /\ ServedRecorded'
  BY <1>1, <1>6 DEF SuccessesKept, ServedRecorded, Fits
<1> QED
  BY <1>7, <1>8, <1>9, <1>10

\* The two ways in which a dispatch decides.
LEMMA PublishStep ==
    ASSUME LabelsInv, NEW d \in Dispatcher, Publish(d) \/ FailToPublish(d)
    PROVE  LabelsInv'
<1> DEFINE j == dispatches[d].job
           file == Drawn(jobs[j])
<1>1. /\ dispatches[d].phase = "locked"
      /\ UNCHANGED <<description, templates, jobs, jobLock, renderer, served, tampered>>
  BY DEF Publish, FailToPublish
<1>2. j \in Queued /\ j \in Job /\ output[j] \in Bytes \cup {NoFile} /\ output = [output EXCEPT ![j] = @]
  BY <1>1 DEF LabelsInv, LabelsShape, DispatchesLocked, Queued, Waiting
<1>3. file \in Bytes /\ file.snapshot = jobs[j].snapshot
  BY <1>2, DrawnFits DEF LabelsInv
<1> HIDE DEF file
<1>4. CASE Publish(d)
  <2>1. output' = [output EXCEPT ![j] = file] /\ Decided(d, "SUCCEEDED", file)
    BY <1>4, <1>2 DEF Publish, Reusable, file
  <2> QED
    BY <1>1, <1>3, <2>1, DecideStep
<1>5. CASE FailToPublish(d)
  <2>1. PICK bytes \in Bytes \cup {NoFile} : output' = [output EXCEPT ![j] = bytes]
    <3>1. CASE UNCHANGED output
      BY <3>1, <1>2
    <3>2. CASE output' = [output EXCEPT ![j] = file]
      BY <3>2, <1>3
    <3> QED
      BY <1>5, <3>1, <3>2 DEF FailToPublish, file
  <2>2. Decided(d, "FAILED", NoFile)
    BY <1>5 DEF FailToPublish
  <2> QED
    BY <1>1, <2>1, <2>2, DecideStep
<1> QED
  BY <1>4, <1>5

\* A dispatch ends and its locks go; other dispatches keep theirs.
LEMMA EndDispatch ==
    ASSUME LabelsInv, NEW d \in Dispatcher, dispatches[d] # Waiting,
           jobLock' = Unlock(d), dispatches' = [dispatches EXCEPT ![d] = Waiting]
    PROVE  /\ jobLock' \in [Job -> Dispatcher \cup {Unlocked}]
           /\ dispatches' \in [Dispatcher -> DispatchState]
           /\ dispatches'[d] = Waiting
           /\ \A e \in Dispatcher \ {d} :
                  /\ dispatches'[e] = dispatches[e]
                  /\ dispatches[e] # Waiting =>
                         /\ dispatches[e].job # dispatches[d].job
                         /\ dispatches[e].job \in Queued /\ jobLock'[dispatches[e].job] = e
<1>1. jobLock' \in [Job -> Dispatcher \cup {Unlocked}]
  BY DEF Unlock, LabelsInv, LabelsShape
<1>2. dispatches' \in [Dispatcher -> DispatchState] /\ dispatches'[d] = Waiting
  BY DEF LabelsInv, LabelsShape, DispatchState, Waiting
<1>3. \A e \in Dispatcher \ {d} : dispatches'[e] = dispatches[e]
  BY DEF LabelsInv, LabelsShape
<1>4. ASSUME NEW e \in Dispatcher \ {d}, dispatches[e] # Waiting
      PROVE  /\ dispatches[e].job # dispatches[d].job
             /\ dispatches[e].job \in Queued /\ jobLock'[dispatches[e].job] = e
  <2>1. dispatches[e].job # dispatches[d].job
    BY <1>4, DispatchAlone
  <2>2. dispatches[e].job \in Queued /\ dispatches[e].job \in Job /\ jobLock[dispatches[e].job] = e
    BY <1>4 DEF LabelsInv, DispatchesLocked, Queued
  <2> QED
    BY <2>1, <2>2 DEF Unlock
<1> QED
  BY <1>1, <1>2, <1>3, <1>4

LEMMA CrashDispatchStep ==
    ASSUME LabelsInv, NEW d \in Dispatcher, CrashDispatch(d)
    PROVE  LabelsInv'
<1> USE DEF LabelsInv
<1>1. /\ dispatches[d] # Waiting /\ jobLock' = Unlock(d)
      /\ dispatches' = [dispatches EXCEPT ![d] = Waiting]
      /\ UNCHANGED <<description, templates, jobs, output, renderer, served, tampered>>
  BY DEF CrashDispatch
<1>2. Queued' = Queued
  BY <1>1 DEF Queued
<1>3. /\ jobLock' \in [Job -> Dispatcher \cup {Unlocked}]
      /\ dispatches' \in [Dispatcher -> DispatchState]
      /\ dispatches'[d] = Waiting
      /\ \A e \in Dispatcher \ {d} :
             /\ dispatches'[e] = dispatches[e]
             /\ dispatches[e] # Waiting =>
                    dispatches[e].job \in Queued /\ jobLock'[dispatches[e].job] = e
  BY <1>1, EndDispatch
<1>4. LabelsShape'
  BY <1>1, <1>3 DEF LabelsShape
<1>5. DispatchesLocked'
  BY <1>1, <1>2, <1>3 DEF DispatchesLocked
<1>6. DecisionsKept'
  BY <1>1, <1>3 DEF DecisionsKept, Fits, Waiting
<1>7. SuccessesKept' /\ ServedRecorded'
  BY <1>1 DEF SuccessesKept, ServedRecorded, Fits
<1> QED
  BY <1>4, <1>5, <1>6, <1>7

\* A row with an outcome is a row of the same label.
WithOutcome(r, s, g) == [r EXCEPT !.status = s, !.digest = g, !.attempts = @ + 1]

LEMMA OutcomeRow ==
    ASSUME NEW r \in JobRow, NEW s \in {"SUCCEEDED", "FAILED"}, NEW g \in Bytes \cup {NoFile}
    PROVE  /\ WithOutcome(r, s, g) \in JobRow
           /\ WithOutcome(r, s, g).status = s /\ WithOutcome(r, s, g).digest = g
           /\ WithOutcome(r, s, g).snapshot = r.snapshot
<1>1. r.attempts + 1 \in Nat
  BY DEF JobRow
<1> QED
  BY <1>1 DEF JobRow, WithOutcome

\* The outcome is committed to a row that nobody else works on.
LEMMA RecordOutcomeStep ==
    ASSUME LabelsInv, NEW d \in Dispatcher, RecordOutcome(d)
    PROVE  LabelsInv'
<1> DEFINE j == dispatches[d].job
           row == [jobs[j] EXCEPT !.status = dispatches[d].status,
                                  !.digest = dispatches[d].digest, !.attempts = @ + 1]
<1>1. /\ dispatches[d].phase = "decided" /\ dispatches[d] # Waiting
      /\ jobLock' = Unlock(d) /\ jobs' = [jobs EXCEPT ![j] = row]
      /\ dispatches' = [dispatches EXCEPT ![d] = Waiting]
      /\ UNCHANGED <<description, templates, output, renderer, served, tampered>>
  BY DEF RecordOutcome, Waiting
<1>2. j \in Queued /\ j \in Job /\ jobs[j].status # "SUCCEEDED"
  BY <1>1 DEF LabelsInv, DispatchesLocked, Queued
<1>3. jobs[j] \in JobRow
  BY <1>2 DEF LabelsInv, LabelsShape, Queued
<1>4. dispatches[d].status \in {"SUCCEEDED", "FAILED"} /\ dispatches[d].digest \in Bytes \cup {NoFile}
  BY <1>1 DEF LabelsInv, LabelsShape, DispatchState, Waiting
<1>5. /\ row \in JobRow /\ row.status = dispatches[d].status
      /\ row.digest = dispatches[d].digest /\ row.snapshot = jobs[j].snapshot
  <2>1. row = WithOutcome(jobs[j], dispatches[d].status, dispatches[d].digest)
    BY Zenon DEF WithOutcome
  <2> HIDE DEF row, j
  <2> QED
    BY <2>1, <1>3, <1>4, OutcomeRow
<1>6. row # NoJob
  BY <1>4, <1>5 DEF NoJob
<1> HIDE DEF row
<1>7. jobs'[j] = row /\ \A i \in Job : i # j => jobs'[i] = jobs[i]
  BY <1>1, <1>2 DEF LabelsInv, LabelsShape
<1>8. /\ jobLock' \in [Job -> Dispatcher \cup {Unlocked}]
      /\ dispatches' \in [Dispatcher -> DispatchState]
      /\ dispatches'[d] = Waiting
      /\ \A e \in Dispatcher \ {d} :
             /\ dispatches'[e] = dispatches[e]
             /\ dispatches[e] # Waiting =>
                    /\ dispatches[e].job # j
                    /\ dispatches[e].job \in Queued /\ jobLock'[dispatches[e].job] = e
  BY <1>1, EndDispatch
<1>9. LabelsShape'
  <2>1. jobs' \in [Job -> JobRow \cup {NoJob}]
    BY <1>1, <1>5 DEF LabelsInv, LabelsShape
  <2> QED
    BY <2>1, <1>1, <1>8 DEF LabelsInv, LabelsShape
<1>10. \A i \in Queued : i \in Queued' /\ (i # j => jobs'[i] = jobs[i])
  BY <1>6, <1>7 DEF Queued
<1> HIDE DEF j
<1>11. DispatchesLocked'
  <2>1. ASSUME NEW e \in Dispatcher, dispatches'[e] # Waiting
        PROVE  /\ dispatches'[e].job \in Queued' /\ jobLock'[dispatches'[e].job] = e
               /\ jobs'[dispatches'[e].job].status # "SUCCEEDED"
    <3>1. e # d /\ dispatches'[e] = dispatches[e] /\ dispatches[e] # Waiting
      BY <2>1, <1>8
    <3>2. jobs[dispatches[e].job].status # "SUCCEEDED"
      BY <3>1 DEF DispatchesLocked, LabelsInv
    <3> QED
      BY <3>1, <3>2, <1>8, <1>10
  <2> QED
    BY <2>1 DEF DispatchesLocked
<1>12. DecisionsKept'
  <2>1. ASSUME NEW e \in Dispatcher, dispatches'[e].phase = "decided",
               dispatches'[e].status = "SUCCEEDED"
        PROVE  /\ dispatches'[e] = dispatches[e]
               /\ jobs'[dispatches[e].job] = jobs[dispatches[e].job]
    BY <2>1, <1>8, <1>10 DEF Waiting
  <2> QED
    BY <2>1, <1>1 DEF DecisionsKept, Fits, LabelsInv
<1>13. SuccessesKept'
  <2>1. ASSUME row.status = "SUCCEEDED"
        PROVE  /\ row.digest \in Bytes /\ row.digest.snapshot = row.snapshot
               /\ j \notin tampered => output[j] = row.digest
    BY <2>1, <1>1, <1>5 DEF DecisionsKept, Fits, LabelsInv, j
  <2>2. ASSUME NEW i \in Job, jobs'[i].status = "SUCCEEDED"
        PROVE  /\ jobs'[i].digest \in Bytes /\ jobs'[i].digest.snapshot = jobs'[i].snapshot
               /\ i \notin tampered => output[i] = jobs'[i].digest
    <3>1. CASE i = j
      BY <2>1, <2>2, <3>1, <1>7
    <3>2. CASE i # j
      BY <2>2, <3>2, <1>7 DEF SuccessesKept, Fits, LabelsInv
    <3> QED
      BY <3>1, <3>2
  <2> QED
    BY <2>2, <1>1 DEF SuccessesKept, Fits
<1>14. ServedRecorded'
  BY <1>1, <1>2, <1>7 DEF ServedRecorded, LabelsInv
<1> QED
  BY <1>9, <1>11, <1>12, <1>13, <1>14 DEF LabelsInv

LEMMA AlteredFile ==
    ASSUME NEW B, NEW N, NEW F, NEW file \in [found : B, snapshot : N, format : F, renderer : Int]
    PROVE  [file EXCEPT !.renderer = 0] \in [found : B, snapshot : N, format : F, renderer : Int]
OBVIOUS

\* The host touches a file, and is remembered for it.
LEMMA TouchOutputStep ==
    ASSUME LabelsInv, NEW j \in Job, TouchOutput(j)
    PROVE  LabelsInv'
<1> USE DEF LabelsInv
<1>1. output[j] \in Bytes
  BY DEF TouchOutput, LabelsShape
<1>2. [output[j] EXCEPT !.renderer = 0] \in Bytes
  BY <1>1, AlteredFile, Zenon DEF Bytes
<1> DEFINE altered == [output[j] EXCEPT !.renderer = 0]
<1>3. PICK file \in {NoFile, altered} \cup {output[i] : i \in Job} :
           output' = [output EXCEPT ![j] = file]
  BY Zenon DEF TouchOutput
<1>0. altered \in Bytes
  BY <1>2
<1> HIDE DEF altered
<1>10. file \in Bytes \cup {NoFile}
  BY <1>0 DEF LabelsShape
<1>4. /\ tampered' = tampered \cup {j}
      /\ UNCHANGED <<description, templates, jobs, jobLock, renderer, dispatches, served>>
  BY DEF TouchOutput
<1>5. \A i \in Job \ tampered' : output'[i] = output[i]
  BY <1>3, <1>4 DEF LabelsShape
<1>6. LabelsShape'
  BY <1>3, <1>10, <1>4 DEF LabelsShape
<1>7. DispatchesLocked'
  BY <1>4 DEF DispatchesLocked, Queued
<1>8. DecisionsKept'
  <2>1. \A d \in Dispatcher : dispatches[d].phase = "decided" => dispatches[d].job \in Job
    BY DEF DispatchesLocked, Queued, Waiting
  <2> QED
    BY <2>1, <1>4, <1>5 DEF DecisionsKept, Fits
<1>9. SuccessesKept' /\ ServedRecorded'
  BY <1>4, <1>5 DEF SuccessesKept, ServedRecorded, Fits
<1> QED
  BY <1>6, <1>7, <1>8, <1>9

LEMMA DownloadStep ==
    ASSUME LabelsInv, NEW j \in Job, Download(j)
    PROVE  LabelsInv'
<1> USE DEF LabelsInv
<1>1. /\ jobs[j].status = "SUCCEEDED" /\ output[j] = jobs[j].digest
      /\ served' = served \cup {[job |-> j, file |-> output[j]]}
      /\ UNCHANGED <<description, templates, jobs, jobLock, output, renderer, dispatches, tampered>>
  BY DEF Download, Verified
<1>2. LabelsShape' /\ DispatchesLocked'
  BY <1>1 DEF LabelsShape, DispatchesLocked, Queued
<1>3. DecisionsKept' /\ SuccessesKept'
  BY <1>1 DEF DecisionsKept, SuccessesKept, Fits
<1>4. ServedRecorded'
  BY <1>1 DEF ServedRecorded
<1> QED
  BY <1>2, <1>3, <1>4

LEMMA LabelsInductive == LabelsInv /\ [LabelsNext]_labelVars => LabelsInv'
<1> SUFFICES ASSUME LabelsInv, [LabelsNext]_labelVars PROVE LabelsInv'
  OBVIOUS
<1>1. ASSUME /\ renderer' \in Nat /\ description' \in [Labelled -> Text]
             /\ templates' \subseteq Template
             /\ UNCHANGED <<jobs, jobLock, output, dispatches, served, tampered>>
      PROVE  LabelsInv'
  <2>1. LabelsShape' /\ DispatchesLocked'
    BY <1>1 DEF LabelsInv, LabelsShape, DispatchesLocked, Queued
  <2>2. DecisionsKept' /\ SuccessesKept' /\ ServedRecorded'
    BY <1>1 DEF LabelsInv, DecisionsKept, SuccessesKept, ServedRecorded, Fits
  <2> QED
    BY <2>1, <2>2 DEF LabelsInv
<1>2. ASSUME NEW a \in Labelled, NEW text \in Text, PatchDescription(a, text) PROVE LabelsInv'
  BY <1>1, <1>2 DEF PatchDescription, LabelsInv, LabelsShape
<1>3. ASSUME NEW t \in Template, CreateTemplate(t) PROVE LabelsInv'
  BY <1>1, <1>3 DEF CreateTemplate, LabelsInv, LabelsShape
<1>4. CASE DeployRenderer
  BY <1>1, <1>4 DEF DeployRenderer, LabelsInv, LabelsShape
<1>5. CASE UNCHANGED labelVars
  BY <1>1, <1>5 DEF labelVars, LabelsInv, LabelsShape
<1> QED
  BY <1>2, <1>3, <1>4, <1>5, EnqueueStep, EnqueueReceiptStep, BeginDispatchStep, PublishStep,
     RecordOutcomeStep, CrashDispatchStep, DownloadStep, TouchOutputStep DEF LabelsNext

LEMMA LabelsInvHolds == LabelsSpec => []LabelsInv
<1>1. LabelsInit => LabelsInv
  BY DEF LabelsInit, LabelsInv, LabelsShape, DispatchesLocked, DecisionsKept, SuccessesKept,
         ServedRecorded, DispatchState, Waiting, NoJob
<1> QED
  BY <1>1, LabelsInductive, PTL DEF LabelsSpec

\* Every download of a job, at any time, is the label that was asked for and
\* the same bytes, for any number of jobs, dispatches, crashes and releases.
THEOREM ServedAsRequestedProven == LabelsSpec => []ServedAsRequested
<1>1. LabelsInv => ServedAsRequested
  BY DEF LabelsInv, ServedRecorded, SuccessesKept, Fits, ServedAsRequested
<1> QED
  BY <1>1, LabelsInvHolds, PTL

\* A job that says it succeeded has the file it recorded, whichever attempt
\* published the file and whichever one recorded it.
THEOREM ArtifactMatchesRecordProven == LabelsSpec => []ArtifactMatchesRecord
<1>1. LabelsInv => ArtifactMatchesRecord
  BY DEF LabelsInv, SuccessesKept, ArtifactMatchesRecord, Queued
<1> QED
  BY <1>1, LabelsInvHolds, PTL

-----------------------------------------------------------------------------
(***************************************************************************)
(* Evidence.  An upload that has inserted its row is the only one for its  *)
(* bytes, which nobody has captured, and names an earlier capture or none: *)
(* so a commit adds a row that no other one can point at yet, and changes  *)
(* none that is there.                                                     *)
(***************************************************************************)
UploadState ==
    {Resting} \cup [phase : {"checked", "stored", "inserted", "lost", "adopted"},
                    digest : Digest, parent : Digest \cup {NoParent}]

AttachmentRow == [captured_by : Uploader, supersedes : Digest \cup {NoParent}]

EvidenceShape ==
    /\ attachments \in [Digest -> AttachmentRow \cup {NoRow}]
    /\ store \in [Digest -> {"absent", "intact", "damaged"}]
    /\ uploads \in [Uploader -> UploadState]

\* Bytes that were there stay there, unless the host touched them.
Kept(d) == d \in touched \/ Readable(d)

UploadsOrdered ==
    \A u \in Uploader :
        /\ uploads[u].phase \in {"stored", "inserted", "lost", "adopted"} => Kept(uploads[u].digest)
        /\ uploads[u].phase = "inserted" =>
               /\ uploads[u].digest \notin Captured
               /\ uploads[u].parent \in Captured \cup {NoParent}
               /\ Inserting(uploads[u].digest) = {u}
        /\ uploads[u].phase \in {"lost", "adopted"} => uploads[u].digest \in Captured
        /\ uploads[u].phase = "adopted" =>
               SameProvenance(attachments[uploads[u].digest], uploads[u].parent)

RowsRooted ==
    /\ \A d \in Captured : Kept(d) /\ attachments[d].supersedes \in Captured \cup {NoParent}
    /\ \A S \in (SUBSET Captured) \ {{}} : \E d \in S : attachments[d].supersedes \notin S

AnswersKept ==
    \A a \in answers :
        /\ a.digest \in Captured /\ attachments[a.digest] = a.row
        /\ a.parent # NoParent => a.row.supersedes = a.parent

EvidenceInv == EvidenceShape /\ UploadsOrdered /\ RowsRooted /\ AnswersKept

\* What an upload in progress looks like.
LEMMA UploadShape ==
    ASSUME EvidenceInv, NEW u \in Uploader,
           uploads[u].phase \in {"checked", "stored", "inserted", "lost", "adopted"}
    PROVE  uploads[u].digest \in Digest /\ uploads[u].parent \in Digest \cup {NoParent}
BY DEF EvidenceInv, EvidenceShape, UploadState, Resting

\* A step of one upload that commits nothing and takes no bytes away.
LEMMA UploadStep ==
    ASSUME EvidenceInv, NEW u \in Uploader, NEW now \in UploadState,
           uploads' = [uploads EXCEPT ![u] = now],
           store' \in [Digest -> {"absent", "intact", "damaged"}],
           \A d \in Digest : store[d] = "intact" => store'[d] = "intact",
           now.phase \in {"stored", "inserted", "lost", "adopted"} =>
               now.digest \in touched \/ store'[now.digest] = "intact",
           now.phase = "inserted" =>
               /\ now.digest \notin Captured /\ now.parent \in Captured \cup {NoParent}
               /\ Inserting(now.digest) = {},
           now.phase \in {"lost", "adopted"} => now.digest \in Captured,
           now.phase = "adopted" => SameProvenance(attachments[now.digest], now.parent),
           UNCHANGED <<attachments, answers, touched>>
    PROVE  EvidenceInv'
<1> USE DEF EvidenceInv
<1>1. EvidenceShape'
  BY DEF EvidenceShape
<1>2. Captured' = Captured
  BY DEF Captured
<1>3. uploads'[u] = now /\ \A v \in Uploader : v # u => uploads'[v] = uploads[v]
  BY DEF EvidenceShape
<1>4. \A d \in Digest : Kept(d) => Kept(d)'
  BY DEF Kept, Readable
<1>5. RowsRooted'
  BY <1>2, <1>4 DEF RowsRooted, Captured
<1>6. AnswersKept'
  BY <1>2 DEF AnswersKept
<1>7. UploadsOrdered'
  <2>1. ASSUME NEW v \in Uploader, v # u, uploads[v].phase = "inserted"
        PROVE  Inserting(uploads[v].digest)' = {v}
    <3>1. Inserting(uploads[v].digest) = {v}
      BY <2>1 DEF UploadsOrdered
    <3>2. now.phase = "inserted" => now.digest # uploads[v].digest
      BY <3>1, <2>1
    <3> QED
      BY <2>1, <3>1, <3>2, <1>3 DEF Inserting
  <2>2. ASSUME NEW v \in Uploader, v # u
        PROVE  UploadsOrdered!(v)'
    <3>1. uploads[v].phase \in {"stored", "inserted", "lost", "adopted"} => uploads[v].digest \in Digest
      BY UploadShape
    <3> QED
      BY <2>1, <2>2, <3>1, <1>2, <1>3, <1>4 DEF UploadsOrdered
  <2>3. UploadsOrdered!(u)'
    <3>1. now.phase = "inserted" => Inserting(now.digest)' = {u}
      BY <1>3 DEF Inserting
    <3> QED
      BY <3>1, <1>2, <1>3 DEF Kept, Readable, SameProvenance
  <2> QED
    BY <2>2, <2>3 DEF UploadsOrdered
<1> QED
  BY <1>1, <1>5, <1>6, <1>7

\* Every step of an upload short of its commit.
LEMMA UploadProgress ==
    ASSUME EvidenceInv, NEW u \in Uploader,
           \/ Put(u) \/ PutLate(u) \/ InsertAttachment(u) \/ AdoptWinner(u) \/ AbortUpload(u)
           \/ \E d \in Digest, p \in Digest \cup {NoParent} : BeginUpload(u, d, p)
    PROVE  EvidenceInv'
<1> DEFINE d == uploads[u].digest
           at(phase) == [phase |-> phase, digest |-> d, parent |-> uploads[u].parent]
<1>1. Resting \in UploadState /\ Resting.phase = "resting"
  BY DEF UploadState, Resting
<1>2. ASSUME uploads[u].phase \in {"checked", "stored", "lost"}, NEW phase \in {"stored", "inserted", "lost", "adopted"}
      PROVE  at(phase) \in UploadState /\ [uploads[u] EXCEPT !.phase = phase] = at(phase)
  BY <1>2 DEF EvidenceInv, EvidenceShape, UploadState, Resting
<1>3. store \in [Digest -> {"absent", "intact", "damaged"}]
  BY DEF EvidenceInv, EvidenceShape
<1>4. CASE Put(u)
  <2>1. uploads' = [uploads EXCEPT ![u] = at("stored")]
    BY <1>4, <1>2, Zenon DEF Put
  <2>2. /\ store' = [store EXCEPT ![d] = "intact"] /\ d \in Digest
        /\ UNCHANGED <<attachments, answers, touched>>
    BY <1>4, UploadShape DEF Put
  <2>3. at("stored") \in UploadState
    BY <1>2, <1>4 DEF Put
  <2> QED
    BY <1>3, <2>1, <2>2, <2>3, UploadStep
<1>5. CASE PutLate(u)
  <2>1. /\ store' = [store EXCEPT ![d] = "intact"] /\ d \in Digest
        /\ uploads' = [uploads EXCEPT ![u] = Resting]
        /\ UNCHANGED <<attachments, answers, touched>>
    BY <1>5, UploadShape DEF PutLate
  <2> QED
    BY <1>1, <1>3, <2>1, UploadStep
<1>6. CASE InsertAttachment(u)
  <2> DEFINE phase == IF d \in Captured THEN "lost" ELSE "inserted"
  <2>1. uploads' = [uploads EXCEPT ![u] = at(phase)]
    BY <1>6, <1>2, Zenon DEF InsertAttachment
  <2>2. /\ UNCHANGED <<attachments, store, answers, touched>>
        /\ Inserting(d) = {} /\ uploads[u].parent \in Captured \cup {NoParent}
        /\ Kept(d)
    BY <1>6 DEF InsertAttachment, ParentAccepted, EvidenceInv, UploadsOrdered
  <2>3. at(phase) \in UploadState
    BY <1>2, <1>6 DEF InsertAttachment
  <2> QED
    BY <1>3, <2>1, <2>2, <2>3, UploadStep DEF Kept, Readable
<1>7. CASE AdoptWinner(u)
  <2>1. uploads' = [uploads EXCEPT ![u] = at("adopted")]
    BY <1>7, <1>2, Zenon DEF AdoptWinner
  <2>2. /\ UNCHANGED <<attachments, store, answers, touched>>
        /\ SameProvenance(attachments[d], uploads[u].parent) /\ d \in Captured /\ Readable(d)
    BY <1>7 DEF AdoptWinner, EvidenceInv, UploadsOrdered
  <2>3. at("adopted") \in UploadState
    BY <1>2, <1>7 DEF AdoptWinner
  <2> QED
    BY <1>3, <2>1, <2>2, <2>3, UploadStep DEF Readable
<1>8. CASE AbortUpload(u)
  BY <1>1, <1>3, <1>8, UploadStep DEF AbortUpload
<1>9. ASSUME NEW b \in Digest, NEW p \in Digest \cup {NoParent}, BeginUpload(u, b, p)
      PROVE  EvidenceInv'
  <2>1. [phase |-> "checked", digest |-> b, parent |-> p] \in UploadState
    BY DEF UploadState
  <2> QED
    BY <1>3, <1>9, <2>1, UploadStep DEF BeginUpload
<1> QED
  BY <1>4, <1>5, <1>6, <1>7, <1>8, <1>9

\* An upload that ends leaves the others as they are.
LEMMA UploadEnds ==
    ASSUME EvidenceInv, NEW u \in Uploader, uploads' = [uploads EXCEPT ![u] = Resting]
    PROVE  /\ uploads' \in [Uploader -> UploadState]
           /\ \A v \in Uploader : IF v = u THEN uploads'[v].phase = "resting"
                                           ELSE uploads'[v] = uploads[v]
           /\ \A v \in Uploader : uploads'[v].phase = "inserted" =>
                  v # u /\ Inserting(uploads[v].digest)' = {v}
<1>1. Resting \in UploadState /\ Resting.phase = "resting"
  BY DEF UploadState, Resting
<1>2. /\ uploads' \in [Uploader -> UploadState]
      /\ \A v \in Uploader : IF v = u THEN uploads'[v].phase = "resting"
                                      ELSE uploads'[v] = uploads[v]
  BY <1>1 DEF EvidenceInv, EvidenceShape
<1>3. ASSUME NEW v \in Uploader, uploads'[v].phase = "inserted"
      PROVE  v # u /\ Inserting(uploads[v].digest)' = {v}
  <2>1. v # u /\ uploads'[v] = uploads[v]
    BY <1>2, <1>3
  <2>2. Inserting(uploads[v].digest) = {v}
    BY <1>3, <2>1 DEF EvidenceInv, UploadsOrdered
  <2>3. \A w \in Uploader :
            (uploads'[w].phase = "inserted" /\ uploads'[w].digest = uploads'[v].digest) <=> w = v
    BY <1>2, <1>3, <2>1, <2>2 DEF Inserting
  <2> QED
    BY <2>1, <2>3 DEF Inserting
<1> QED
  BY <1>2, <1>3

\* The commit of an upload that lost the race changes no row.
LEMMA CommitAdopted ==
    ASSUME EvidenceInv, NEW u \in Uploader, CommitUpload(u), uploads[u].phase = "adopted"
    PROVE  EvidenceInv'
<1> DEFINE d == uploads[u].digest
<1>1. d \in Captured /\ d \in Digest /\ SameProvenance(attachments[d], uploads[u].parent)
  BY UploadShape DEF EvidenceInv, UploadsOrdered
<1>2. Row(u) = attachments[d]
  BY DEF Row
<1>3. UNCHANGED <<attachments, store, touched>>
  BY <1>1, <1>2 DEF CommitUpload, EvidenceInv, EvidenceShape
<1>4. uploads' = [uploads EXCEPT ![u] = Resting]
  BY DEF CommitUpload
<1>5. /\ uploads' \in [Uploader -> UploadState]
      /\ \A v \in Uploader : IF v = u THEN uploads'[v].phase = "resting"
                                      ELSE uploads'[v] = uploads[v]
      /\ \A v \in Uploader : uploads'[v].phase = "inserted" =>
             v # u /\ Inserting(uploads[v].digest)' = {v}
  BY <1>4, UploadEnds
<1>6. EvidenceShape'
  BY <1>3, <1>5 DEF EvidenceInv, EvidenceShape
<1>8. Captured' = Captured /\ \A b : Kept(b)' <=> Kept(b)
  BY <1>3 DEF Captured, Kept, Readable
<1>10. UploadsOrdered'
  <2>1. ASSUME NEW v \in Uploader PROVE UploadsOrdered!(v)'
    <3>1. CASE v = u
      BY <3>1, <1>5
    <3>2. CASE v # u
      BY <3>2, <1>3, <1>5, <1>8 DEF EvidenceInv, UploadsOrdered, SameProvenance
    <3> QED
      BY <3>1, <3>2
  <2> QED
    BY <2>1 DEF UploadsOrdered
<1>11. RowsRooted'
  BY <1>3, <1>8 DEF EvidenceInv, RowsRooted
<1>12. answers' = answers \cup {[digest |-> d, parent |-> uploads[u].parent, row |-> attachments[d]]}
  BY <1>2 DEF CommitUpload
<1>13. AnswersKept'
  BY <1>1, <1>3, <1>8, <1>12 DEF EvidenceInv, AnswersKept, SameProvenance
<1> QED
  BY <1>6, <1>10, <1>11, <1>13 DEF EvidenceInv

\* A new capture points back at an earlier one or at none, and no row points at
\* it: whatever circle-free set it joins stays so.
LEMMA CaptureRooted ==
    ASSUME EvidenceInv, NEW d \in Digest \ Captured, NEW parent \in Captured \cup {NoParent},
           Captured' = Captured \cup {d}, attachments'[d].supersedes = parent,
           \A c \in Captured : attachments'[c] = attachments[c]
    PROVE  \A S \in (SUBSET Captured') \ {{}} : \E c \in S : attachments'[c].supersedes \notin S
<1> SUFFICES ASSUME NEW S \in (SUBSET Captured') \ {{}}
             PROVE  \E c \in S : attachments'[c].supersedes \notin S
  OBVIOUS
<1> DEFINE T == S \ {d}
<1>1. NoParent \notin Digest /\ Captured \subseteq Digest
  BY EvidenceAssumption DEF NoParent, Captured
<1>2. CASE T = {}
  <2>1. S # {} /\ \A c \in S : c = d
    BY <1>2
  <2> QED
    BY <2>1, <1>1
<1>3. CASE T # {}
  <2>1. T \in (SUBSET Captured) \ {{}}
    BY <1>3
  <2>2. PICK c \in T : attachments[c].supersedes \notin T
    BY <2>1 DEF EvidenceInv, RowsRooted
  <2>3. attachments[c].supersedes \in Captured \cup {NoParent}
    BY <2>1, <2>2 DEF EvidenceInv, RowsRooted
  <2>4. attachments'[c] = attachments[c] /\ c \in S
    BY <2>1, <2>2
  <2> QED
    BY <2>2, <2>3, <2>4, <1>1
<1> QED
  BY <1>2, <1>3

\* The commit of the upload that won.
LEMMA CommitInserted ==
    ASSUME EvidenceInv, NEW u \in Uploader, CommitUpload(u), uploads[u].phase = "inserted"
    PROVE  EvidenceInv'
<1> DEFINE d == uploads[u].digest
           parent == uploads[u].parent
           row == [captured_by |-> u, supersedes |-> parent]
<1>1. /\ d \in Digest \ Captured /\ parent \in Captured \cup {NoParent}
      /\ parent \in Digest \cup {NoParent} /\ Inserting(d) = {u} /\ Kept(d)
  BY UploadShape DEF EvidenceInv, UploadsOrdered
<1>2. /\ attachments' = [attachments EXCEPT ![d] = row]
      /\ answers' = answers \cup {[digest |-> d, parent |-> parent, row |-> row]}
      /\ uploads' = [uploads EXCEPT ![u] = Resting]
      /\ UNCHANGED <<store, touched>>
  BY DEF CommitUpload, Row
<1>3. row \in AttachmentRow /\ row # NoRow /\ row.supersedes = parent
  BY <1>1 DEF AttachmentRow, NoRow
<1> HIDE DEF row
<1>4. /\ attachments'[d] = row /\ \A c \in Digest : c # d => attachments'[c] = attachments[c]
      /\ attachments' \in [Digest -> AttachmentRow \cup {NoRow}]
  BY <1>1, <1>2, <1>3 DEF EvidenceInv, EvidenceShape
<1>5. Captured' = Captured \cup {d}
  BY <1>1, <1>3, <1>4 DEF Captured
<1>6. \A b : Kept(b)' <=> Kept(b)
  BY <1>2 DEF Kept, Readable
<1>7. /\ uploads' \in [Uploader -> UploadState]
      /\ \A v \in Uploader : IF v = u THEN uploads'[v].phase = "resting"
                                      ELSE uploads'[v] = uploads[v]
      /\ \A v \in Uploader : uploads'[v].phase = "inserted" =>
             v # u /\ Inserting(uploads[v].digest)' = {v}
  BY <1>2, UploadEnds
<1>8. EvidenceShape'
  BY <1>2, <1>4, <1>7 DEF EvidenceInv, EvidenceShape
<1>12. UploadsOrdered'
  <2>1. ASSUME NEW v \in Uploader PROVE UploadsOrdered!(v)'
    <3>1. CASE v = u
      BY <3>1, <1>7
    <3>2. CASE v # u
      <4>1. uploads'[v] = uploads[v]
        BY <3>2, <1>7
      <4>2. uploads[v].phase = "inserted" => uploads[v].digest # d
        BY <3>2, <1>1 DEF Inserting
      <4>3. uploads[v].phase \in {"lost", "adopted"} =>
                attachments'[uploads[v].digest] = attachments[uploads[v].digest]
        BY <1>1, <1>4 DEF EvidenceInv, UploadsOrdered, Captured
      <4> HIDE DEF d
      <4> QED
        BY <4>1, <4>2, <4>3, <1>5, <1>6, <1>7 DEF EvidenceInv, UploadsOrdered, SameProvenance
    <3> QED
      BY <3>1, <3>2
  <2> QED
    BY <2>1 DEF UploadsOrdered
<1>13. \A c \in Captured : attachments'[c] = attachments[c]
  BY <1>1, <1>4 DEF Captured
<1>14. RowsRooted'
  <2>1. \A S \in (SUBSET Captured') \ {{}} : \E c \in S : attachments'[c].supersedes \notin S
    BY <1>1, <1>3, <1>4, <1>5, <1>13, CaptureRooted
  <2>2. \A c \in Captured' : Kept(c)' /\ attachments'[c].supersedes \in Captured' \cup {NoParent}
    BY <1>1, <1>3, <1>4, <1>5, <1>6, <1>13 DEF EvidenceInv, RowsRooted
  <2> QED
    BY <2>1, <2>2 DEF RowsRooted
<1>15. AnswersKept'
  BY <1>2, <1>3, <1>4, <1>5, <1>13 DEF EvidenceInv, AnswersKept
<1> QED
  BY <1>8, <1>12, <1>14, <1>15 DEF EvidenceInv

LEMMA TouchStoreStep ==
    ASSUME EvidenceInv, NEW d \in Digest, NEW bytes \in {"absent", "damaged"}, TouchStore(d, bytes)
    PROVE  EvidenceInv'
<1> USE DEF EvidenceInv
<1>1. /\ store' = [store EXCEPT ![d] = bytes] /\ touched' = touched \cup {d}
      /\ UNCHANGED <<attachments, uploads, answers>>
  BY DEF TouchStore
<1>2. EvidenceShape'
  BY <1>1 DEF EvidenceShape
<1>3. Captured' = Captured /\ Captured \subseteq Digest /\ \A b : Inserting(b)' = Inserting(b)
  BY <1>1 DEF Captured, Inserting
<1>4. \A b \in Digest : Kept(b) => Kept(b)'
  BY <1>1 DEF Kept, Readable, EvidenceShape
<1>5. UploadsOrdered'
  <2>1. \A u \in Uploader : uploads[u].phase \in {"stored", "inserted", "lost", "adopted"}
                                => uploads[u].digest \in Digest
    BY UploadShape
  <2> QED
    BY <1>1, <1>3, <1>4, <2>1 DEF UploadsOrdered, SameProvenance
<1>6. RowsRooted' /\ AnswersKept'
  BY <1>1, <1>3, <1>4 DEF RowsRooted, AnswersKept
<1> QED
  BY <1>2, <1>5, <1>6

LEMMA EvidenceInductive == EvidenceInv /\ [EvidenceNext]_evidenceVars => EvidenceInv'
<1> SUFFICES ASSUME EvidenceInv, [EvidenceNext]_evidenceVars PROVE EvidenceInv'
  OBVIOUS
<1>1. ASSUME UNCHANGED <<attachments, store, uploads, answers, touched>> PROVE EvidenceInv'
  BY <1>1 DEF EvidenceInv, EvidenceShape, UploadsOrdered, RowsRooted, AnswersKept, Captured,
              Kept, Readable, Inserting, SameProvenance
<1>2. ASSUME NEW u \in Uploader, CommitUpload(u) PROVE EvidenceInv'
  BY <1>2, CommitInserted, CommitAdopted DEF CommitUpload
<1>3. ASSUME NEW d \in Digest, NEW t \in EntityType, NEW r \in LinkRole, Link(d, t, r)
      PROVE  EvidenceInv'
  BY <1>1, <1>3 DEF Link
<1>4. CASE UNCHANGED evidenceVars
  BY <1>1, <1>4 DEF evidenceVars
<1> QED
  BY <1>2, <1>3, <1>4, UploadProgress, TouchStoreStep DEF EvidenceNext

\* Every answer to an upload stays true, every row keeps its bytes unless the
\* host takes them, and supersession never runs in a circle - for any number of
\* uploads of any contents, racing and failing in any order.
THEOREM AnswersTrueProven == EvidenceSpec => []AnswersTrue
<1>1. EvidenceInit => EvidenceInv
  <2> SUFFICES ASSUME EvidenceInit PROVE EvidenceInv
    OBVIOUS
  <2>1. Captured = {}
    BY DEF EvidenceInit, Captured
  <2>2. \A u \in Uploader : uploads[u].phase = "resting"
    BY DEF EvidenceInit, Resting
  <2>3. RowsRooted
    <3>1. ASSUME NEW S \in (SUBSET Captured) \ {{}} PROVE FALSE
      <4>1. S # {} /\ S \subseteq {}
        BY <2>1
      <4> QED
        BY <4>1
    <3> QED
      BY <2>1, <3>1, Zenon DEF RowsRooted
  <2>4. UploadsOrdered /\ AnswersKept
    BY <2>2 DEF EvidenceInit, UploadsOrdered, AnswersKept
  <2> QED
    BY <2>3, <2>4 DEF EvidenceInit, EvidenceInv, EvidenceShape, UploadState
<1>2. EvidenceInv => AnswersTrue
  BY DEF EvidenceInv, RowsRooted, AnswersKept, Kept, AnswersTrue
<1> QED
  BY <1>1, <1>2, EvidenceInductive, PTL DEF EvidenceSpec

-----------------------------------------------------------------------------
(***************************************************************************)
(* Sync conflicts.  Whoever has inserted an event and not committed it     *)
(* holds the lock of the conflict, so its event still follows the others   *)
(* when it is committed; a conflict that was not opened has no events.     *)
(***************************************************************************)
ConflictEvent == [from : E!Status, to : E!Status, by : Handler]

HandlingState ==
    {Idle} \cup [phase : {"asked"}, change : Change]
    \cup [phase : {"numbered", "inserted"}, change : Change, seq : Nat]

ConflictsShape ==
    /\ DOMAIN conflictRows \subseteq Conflict
    /\ conflictEvents \in [Conflict -> Seq(ConflictEvent)]
    /\ conflictLock \in [Conflict -> Handler \cup {NoHandler}]
    /\ handling \in [Handler -> HandlingState]

EventsFollow ==
    /\ \A c \in Conflict : c \notin DOMAIN conflictRows => conflictEvents[c] = <<>>
    /\ \A h \in Handler : handling[h] # Idle => handling[h].change.conflict \in DOMAIN conflictRows
    /\ \A h \in Handler : handling[h].phase = "inserted" =>
           /\ conflictLock[handling[h].change.conflict] = h
           /\ Follows(handling[h].change, handling[h].seq)

ConflictsInv == ConflictsShape /\ EventsFollow

\* The status that the events of a conflict lead to.
LEMMA StatusTyped ==
    ConflictsInv => \A c \in Conflict : ConflictStatus(c) \in E!Status \cup {"UNOPENED"}
<1> SUFFICES ASSUME ConflictsInv, NEW c \in Conflict
             PROVE  ConflictStatus(c) \in E!Status \cup {"UNOPENED"}
  OBVIOUS
<1>1. conflictEvents[c] \in Seq(ConflictEvent)
  BY DEF ConflictsInv, ConflictsShape
<1>2. conflictEvents[c] # <<>> => Last(conflictEvents[c]) \in ConflictEvent
  BY <1>1 DEF Last
<1> QED
  BY <1>2 DEF ConflictStatus, E!Status, ConflictEvent

\* A request in progress.
LEMMA HandlingShape ==
    ASSUME ConflictsInv, NEW h \in Handler, handling[h].phase \in {"asked", "numbered", "inserted"}
    PROVE  /\ handling[h].change \in Change /\ handling[h].change.conflict \in DOMAIN conflictRows
           /\ handling[h].change.conflict \in Conflict
           /\ handling[h].phase # "asked" => handling[h].seq \in Nat
BY DEF ConflictsInv, ConflictsShape, EventsFollow, HandlingState, Idle

\* A step of one request that appends nothing: it may take the lock of a
\* conflict that nobody else holds, or give its own locks back.
LEMMA HandlingStep ==
    ASSUME ConflictsInv, NEW h \in Handler, NEW now \in HandlingState,
           handling' = [handling EXCEPT ![h] = now],
           now # Idle => now.change.conflict \in DOMAIN conflictRows,
           conflictLock' \in [Conflict -> Handler \cup {NoHandler}],
           \A c \in Conflict : conflictLock[c] \notin {NoHandler, h} => conflictLock'[c] = conflictLock[c],
           now.phase = "inserted" =>
               conflictLock'[now.change.conflict] = h /\ Follows(now.change, now.seq),
           UNCHANGED <<conflictRows, conflictEvents>>
    PROVE  ConflictsInv' /\ \A c \in Conflict : ConflictStatus(c)' = ConflictStatus(c)
<1> USE DEF ConflictsInv
<1>1. ConflictsShape'
  BY DEF ConflictsShape
<1>2. \A c : ConflictStatus(c)' = ConflictStatus(c)
  BY DEF ConflictStatus
<1>3. \A change, seq : Follows(change, seq)' <=> Follows(change, seq)
  BY <1>2 DEF Follows
<1>4. handling'[h] = now /\ \A k \in Handler : k # h => handling'[k] = handling[k]
  BY DEF ConflictsShape
<1>5. ASSUME NEW k \in Handler, k # h, handling[k].phase = "inserted"
      PROVE  conflictLock'[handling[k].change.conflict] = k
  <2>1. handling[k].change.conflict \in Conflict /\ conflictLock[handling[k].change.conflict] = k
    BY <1>5, HandlingShape DEF EventsFollow
  <2>2. k # NoHandler
    BY SyncConflictsAssumption DEF NoHandler
  <2> QED
    BY <1>5, <2>1, <2>2
<1>6. EventsFollow'
  BY <1>3, <1>4, <1>5 DEF EventsFollow
<1> QED
  BY <1>1, <1>2, <1>6

\* Everything that a request does before it commits.
LEMMA HandlingProgress ==
    ASSUME ConflictsInv, NEW h \in Handler,
           \/ LockConflict(h) \/ InsertEvent(h) \/ AbandonChange(h)
           \/ \E change \in Change :
                  \/ AskChange(h, change)
                  \/ \E seq \in EventSeq : InsertDirectly(h, change, seq)
    PROVE  ConflictsInv' /\ \A c \in Conflict : ConflictStatus(c)' = ConflictStatus(c)
<1> DEFINE change == handling[h].change
           c == change.conflict
<1>1. conflictLock \in [Conflict -> Handler \cup {NoHandler}]
  BY DEF ConflictsInv, ConflictsShape
<1>2. CASE LockConflict(h)
  <2> DEFINE now == [phase |-> "numbered", change |-> change, seq |-> Len(conflictEvents[c]) + 1]
  <2>1. change \in Change /\ c \in DOMAIN conflictRows /\ c \in Conflict
    BY <1>2, HandlingShape DEF LockConflict
  <2>2. conflictEvents[c] \in Seq(ConflictEvent)
    BY <2>1 DEF ConflictsInv, ConflictsShape
  <2>3. now \in HandlingState /\ now # Idle /\ now.phase = "numbered"
    BY <2>1, <2>2 DEF HandlingState, Idle
  <2>4. /\ handling' = [handling EXCEPT ![h] = now]
        /\ conflictLock[c] = NoHandler /\ conflictLock' = [conflictLock EXCEPT ![c] = h]
        /\ UNCHANGED <<conflictRows, conflictEvents>>
    BY <1>2 DEF LockConflict
  <2>5. now.change.conflict \in DOMAIN conflictRows
    BY <2>1
  <2> HIDE DEF now, c
  <2> QED
    BY <1>1, <2>1, <2>3, <2>4, <2>5, HandlingStep
<1>3. CASE InsertEvent(h)
  <2> DEFINE now == [phase |-> "inserted", change |-> change, seq |-> handling[h].seq]
  <2>1. change \in Change /\ c \in DOMAIN conflictRows /\ c \in Conflict /\ handling[h].seq \in Nat
    BY <1>3, HandlingShape DEF InsertEvent
  <2>2. now \in HandlingState /\ now.change = change /\ now.seq = handling[h].seq
    BY <2>1 DEF HandlingState
  <2>3. [handling[h] EXCEPT !.phase = "inserted"] = now
    BY <1>3 DEF InsertEvent, ConflictsInv, ConflictsShape, HandlingState, Idle
  <2>4. /\ handling' = [handling EXCEPT ![h] = now]
        /\ conflictLock[c] \in {NoHandler, h} /\ conflictLock' = [conflictLock EXCEPT ![c] = h]
        /\ Follows(change, handling[h].seq)
        /\ UNCHANGED <<conflictRows, conflictEvents>>
    BY <1>3, <2>3, Zenon DEF InsertEvent
  <2> HIDE DEF now
  <2>5. now.change.conflict \in DOMAIN conflictRows
    BY <2>1, <2>2
  <2> HIDE DEF change
  <2> QED
    BY <1>1, <2>1, <2>2, <2>4, <2>5, HandlingStep
<1>4. CASE AbandonChange(h)
  <2>1. Idle \in HandlingState /\ Idle.phase # "inserted"
    BY DEF HandlingState, Idle
  <2>2. /\ handling' = [handling EXCEPT ![h] = Idle]
        /\ conflictLock' \in [Conflict -> Handler \cup {NoHandler}]
        /\ \A d \in Conflict : conflictLock[d] # h => conflictLock'[d] = conflictLock[d]
        /\ UNCHANGED <<conflictRows, conflictEvents>>
    BY <1>1, <1>4 DEF AbandonChange, Released
  <2> QED
    BY <2>1, <2>2, HandlingStep
<1>5. ASSUME NEW ch \in Change, AskChange(h, ch)
      PROVE  ConflictsInv' /\ \A d \in Conflict : ConflictStatus(d)' = ConflictStatus(d)
  <2>1. [phase |-> "asked", change |-> ch] \in HandlingState
    BY DEF HandlingState
  <2> QED
    BY <1>1, <1>5, <2>1, HandlingStep DEF AskChange
<1>6. ASSUME NEW ch \in Change, NEW seq \in EventSeq, InsertDirectly(h, ch, seq)
      PROVE  ConflictsInv' /\ \A d \in Conflict : ConflictStatus(d)' = ConflictStatus(d)
  <2>1. [phase |-> "numbered", change |-> ch, seq |-> seq] \in HandlingState
    BY DEF HandlingState, EventSeq
  <2> QED
    BY <1>1, <1>6, <2>1, HandlingStep DEF InsertDirectly
<1> QED
  BY <1>2, <1>3, <1>4, <1>5, <1>6

\* The last event is the one appended.
LEMMA AppendedLast ==
    ASSUME NEW S, NEW s \in Seq(S), NEW e \in S
    PROVE  Append(s, e) \in Seq(S) /\ Append(s, e) # <<>> /\ Last(Append(s, e)) = e
<1>1. Append(s, e) \in Seq(S) /\ Len(Append(s, e)) = Len(s) + 1 /\ Append(s, e)[Len(s) + 1] = e
  OBVIOUS
<1>2. Append(s, e) # <<>>
  BY <1>1
<1> QED
  BY <1>1, <1>2 DEF Last

\* The commit: the event that is appended is the next one, along an edge of
\* WORKFLOW from where the conflict stands.
LEMMA CommitEventStep ==
    ASSUME ConflictsInv, NEW h \in Handler, CommitEvent(h)
    PROVE  /\ ConflictsInv'
           /\ \A c \in Conflict :
                  \/ ConflictStatus(c)' = ConflictStatus(c)
                  \/ /\ ConflictStatus(c) \in E!Status
                     /\ ConflictStatus(c)' \in E!WORKFLOW[ConflictStatus(c)]
<1> DEFINE change == handling[h].change
           c == change.conflict
           event == [from |-> change.from, to |-> change.to, by |-> h]
<1>1. /\ handling[h].phase = "inserted"
      /\ conflictEvents' = [conflictEvents EXCEPT ![c] = Append(@, event)]
      /\ conflictLock' = Released(h) /\ handling' = [handling EXCEPT ![h] = Idle]
      /\ conflictRows' = conflictRows
  BY DEF CommitEvent
<1>2. /\ change \in Change /\ c \in DOMAIN conflictRows /\ c \in Conflict
      /\ conflictLock[c] = h /\ change.from = ConflictStatus(c)
  BY <1>1, HandlingShape DEF ConflictsInv, EventsFollow, Follows
<1>3. event \in ConflictEvent /\ event.to = change.to /\ change.from \in E!Status
      /\ change.to \in E!WORKFLOW[change.from]
  BY <1>2 DEF Change, ConflictEvent
<1> HIDE DEF event
<1>4. conflictEvents \in [Conflict -> Seq(ConflictEvent)]
  BY DEF ConflictsInv, ConflictsShape
<1>5. /\ conflictEvents'[c] \in Seq(ConflictEvent) /\ conflictEvents'[c] # <<>>
      /\ Last(conflictEvents'[c]) = event
  <2>1. conflictEvents[c] \in Seq(ConflictEvent) /\ conflictEvents'[c] = Append(conflictEvents[c], event)
    BY <1>1, <1>2, <1>4
  <2> QED
    BY <2>1, <1>3, AppendedLast
<1>6. \A d \in Conflict : d # c => conflictEvents'[d] = conflictEvents[d]
  BY <1>1, <1>4
<1>7. \A d \in Conflict : d # c => ConflictStatus(d)' = ConflictStatus(d)
  BY <1>1, <1>6 DEF ConflictStatus
<1>8. \A d \in Conflict : d = c => ConflictStatus(d)' = change.to
  BY <1>1, <1>2, <1>3, <1>5 DEF ConflictStatus
<1>9. /\ handling'[h] = Idle /\ \A k \in Handler : k # h => handling'[k] = handling[k]
      /\ Idle \in HandlingState /\ Idle.phase # "inserted"
  BY <1>1 DEF ConflictsInv, ConflictsShape, HandlingState, Idle
<1>10. ConflictsShape'
  <2>1. conflictLock' \in [Conflict -> Handler \cup {NoHandler}]
    BY <1>1 DEF Released, ConflictsInv, ConflictsShape
  <2>2. conflictEvents' \in [Conflict -> Seq(ConflictEvent)]
    <3>1. \A d \in Conflict : conflictEvents'[d] \in Seq(ConflictEvent)
      BY <1>4, <1>5, <1>6
    <3>2. conflictEvents' = [d \in Conflict |-> conflictEvents'[d]]
      BY <1>1, <1>4
    <3> QED
      BY <3>1, <3>2
  <2>3. handling' \in [Handler -> HandlingState]
    BY <1>1, <1>9 DEF ConflictsInv, ConflictsShape
  <2> QED
    BY <1>1, <2>1, <2>2, <2>3 DEF ConflictsInv, ConflictsShape
<1>11. ASSUME NEW k \in Handler, k # h, handling[k].phase = "inserted"
       PROVE  /\ conflictLock'[handling[k].change.conflict] = k
              /\ Follows(handling[k].change, handling[k].seq)'
  <2> DEFINE d == handling[k].change.conflict
  <2>1. d \in Conflict /\ conflictLock[d] = k /\ Follows(handling[k].change, handling[k].seq)
    BY <1>11, HandlingShape DEF ConflictsInv, EventsFollow
  <2>2. d # c
    BY <2>1, <1>2, <1>11
  <2>3. handling'[k] = handling[k] /\ conflictLock'[d] = k
    BY <2>1, <1>1, <1>9, <1>11 DEF Released
  <2>4. PICK b \in Conflict : b = d
    BY <2>1
  <2>5. conflictEvents'[b] = conflictEvents[b] /\ ConflictStatus(b)' = ConflictStatus(b)
    BY <2>2, <2>4, <1>6, <1>7
  <2>6. /\ handling[k].change.from = ConflictStatus(b)'
        /\ handling[k].seq = Len(conflictEvents'[b]) + 1
    BY <2>1, <2>4, <2>5 DEF Follows
  <2> QED
    BY <2>3, <2>4, <2>6 DEF Follows
<1>12. EventsFollow'
  BY <1>1, <1>2, <1>6, <1>9, <1>11 DEF ConflictsInv, EventsFollow
<1> QED
  BY <1>2, <1>3, <1>7, <1>8, <1>10, <1>12 DEF ConflictsInv

\* A conflict opens with no events.
LEMMA OpenConflictStep ==
    ASSUME ConflictsInv, NEW c \in Conflict, NEW v, OpenConflict(c, v)
    PROVE  /\ ConflictsInv'
           /\ ConflictStatus(c) = "UNOPENED" /\ ConflictStatus(c)' = "OPEN"
           /\ \A d \in Conflict : d # c => ConflictStatus(d)' = ConflictStatus(d)
<1>1. /\ c \notin DOMAIN conflictRows /\ DOMAIN conflictRows' = DOMAIN conflictRows \cup {c}
      /\ UNCHANGED <<conflictEvents, conflictLock, handling>>
  <2>1. ASSUME NEW D, NEW f(_), conflictRows' = [d \in D |-> f(d)] PROVE DOMAIN conflictRows' = D
    BY <2>1
  <2> QED
    BY <2>1 DEF OpenConflict
<1>2. conflictEvents[c] = <<>>
  BY <1>1 DEF ConflictsInv, EventsFollow
<1>3. ConflictStatus(c) = "UNOPENED" /\ ConflictStatus(c)' = "OPEN"
  BY <1>1, <1>2 DEF ConflictStatus
<1>4. \A d \in Conflict : d # c => ConflictStatus(d)' = ConflictStatus(d)
  BY <1>1 DEF ConflictStatus
<1>5. ConflictsShape'
  BY <1>1 DEF ConflictsInv, ConflictsShape
<1>6. EventsFollow'
  <2>1. ASSUME NEW h \in Handler, handling[h].phase = "inserted"
        PROVE  Follows(handling[h].change, handling[h].seq)'
    <3>1. PICK d \in Conflict : d = handling[h].change.conflict
      BY <2>1, HandlingShape
    <3>2. d # c /\ Follows(handling[h].change, handling[h].seq)
      BY <2>1, <3>1, <1>1, HandlingShape DEF ConflictsInv, EventsFollow
    <3>3. ConflictStatus(d)' = ConflictStatus(d)
      BY <3>2, <1>4
    <3> QED
      BY <3>1, <3>2, <3>3, <1>1 DEF Follows
  <2> QED
    BY <2>1, <1>1 DEF ConflictsInv, EventsFollow
<1> QED
  BY <1>3, <1>4, <1>5, <1>6 DEF ConflictsInv

LEMMA ConflictsStep ==
    ASSUME ConflictsInv, [SyncConflictsNext]_conflictVars
    PROVE  /\ ConflictsInv'
           /\ \A c \in Conflict :
                  \/ ConflictStatus(c)' = ConflictStatus(c)
                  \/ ConflictStatus(c) = "UNOPENED" /\ ConflictStatus(c)' = "OPEN"
                  \/ /\ ConflictStatus(c) \in E!Status
                     /\ ConflictStatus(c)' \in E!WORKFLOW[ConflictStatus(c)]
<1> DEFINE Promise ==
      \A c \in Conflict :
          \/ ConflictStatus(c)' = ConflictStatus(c)
          \/ ConflictStatus(c) = "UNOPENED" /\ ConflictStatus(c)' = "OPEN"
          \/ /\ ConflictStatus(c) \in E!Status
             /\ ConflictStatus(c)' \in E!WORKFLOW[ConflictStatus(c)]
<1>1. ASSUME UNCHANGED <<conflictRows, conflictEvents, conflictLock, handling>>
      PROVE  ConflictsInv' /\ Promise
  BY <1>1 DEF ConflictsInv, ConflictsShape, EventsFollow, Follows, ConflictStatus
<1>2. ASSUME NEW c \in Conflict, NEW v \in 1..MaxAssetVersion, OpenConflict(c, v)
      PROVE  ConflictsInv' /\ Promise
  BY <1>2, OpenConflictStep
<1>3. ASSUME NEW h \in Handler, CommitEvent(h) PROVE ConflictsInv' /\ Promise
  BY <1>3, CommitEventStep
<1>4. ASSUME NEW h \in Handler,
             \/ LockConflict(h) \/ InsertEvent(h) \/ AbandonChange(h)
             \/ \E change \in Change :
                    \/ AskChange(h, change)
                    \/ \E seq \in EventSeq : InsertDirectly(h, change, seq)
      PROVE  ConflictsInv' /\ Promise
  BY <1>4, HandlingProgress
<1>5. ASSUME AdvanceAsset \/ UNCHANGED conflictVars PROVE ConflictsInv' /\ Promise
  BY <1>1, <1>5 DEF AdvanceAsset, conflictVars
<1> HIDE DEF Promise
<1>6. ConflictsInv' /\ Promise
  <2>1. CASE \E c \in Conflict, v \in 1..MaxAssetVersion : OpenConflict(c, v)
    BY <1>2, <2>1
  <2>2. ASSUME NEW h \in Handler,
               \/ LockConflict(h) \/ InsertEvent(h) \/ CommitEvent(h) \/ AbandonChange(h)
               \/ \E change \in Change :
                      \/ AskChange(h, change)
                      \/ \E seq \in EventSeq : InsertDirectly(h, change, seq)
        PROVE  ConflictsInv' /\ Promise
    BY <1>3, <1>4, <2>2
  <2> QED
    BY <1>5, <2>1, <2>2 DEF SyncConflictsNext
<1> QED
  BY <1>6 DEF Promise

\* Sync conflicts implement the exception workflow: whatever requests, direct
\* statements and crashes do to the numbered events, a conflict opens once and
\* moves along the edges of WORKFLOW, for any number of conflicts and requests.
THEOREM SyncConflictsFollowProven == SyncConflictsSpec => SyncConflictsFollow
<1>1. SyncConflictsInit => ConflictsInv /\ E!Init
  <2> SUFFICES ASSUME SyncConflictsInit PROVE ConflictsInv /\ E!Init
    OBVIOUS
  <2>1. DOMAIN conflictRows = {}
    BY DEF SyncConflictsInit
  <2>2. ConflictsInv
    BY <2>1 DEF SyncConflictsInit, ConflictsInv, ConflictsShape, EventsFollow, HandlingState, Idle
  <2>3. \A c \in Conflict : ConflictStatus(c) = "UNOPENED"
    BY <2>1 DEF ConflictStatus
  <2>4. [c \in Conflict |-> ConflictStatus(c)] \in [Conflict -> {"UNOPENED", "OPEN"}]
    BY <2>3
  <2> QED
    BY <2>2, <2>4, Zenon DEF E!Init
<1>2. ConflictsInv /\ [SyncConflictsNext]_conflictVars => ConflictsInv' /\ E!Next
  <2> SUFFICES ASSUME ConflictsInv, [SyncConflictsNext]_conflictVars PROVE ConflictsInv' /\ E!Next
    OBVIOUS
  <2>1. ConflictsInv'
    BY ConflictsStep
  <2>2. \A c \in Conflict : ConflictStatus(c)' \in E!Status \cup {"UNOPENED"}
    <3>1. (ConflictsInv => \A c \in Conflict : ConflictStatus(c) \in E!Status \cup {"UNOPENED"})'
      BY StatusTyped, PTL
    <3> QED
      BY <2>1, <3>1
  <2>3. \A c \in Conflict : E!Step(c)
    BY ConflictsStep DEF E!Step
  <2> QED
    BY <2>1, <2>2, <2>3 DEF E!Next
<1> QED
  BY <1>1, <1>2, PTL DEF SyncConflictsSpec, SyncConflictsFollow, E!Spec
-----------------------------------------------------------------------------
(***************************************************************************)
(* Space.  The walk of path() is a recursive function; that its recursion  *)
(* equations hold is proved by induction, from the least counterexample.   *)
(* Then: every location's parent is present and in the same facility, and  *)
(* no set of locations has all its parents among its own, so that a walk   *)
(* visits a location once, and with finitely many of them comes to the     *)
(* root.  Both survive every insertion that the cycle check lets through,  *)
(* in the committed rows and in what each open transaction sees.           *)
(***************************************************************************)
\* A set of natural numbers has a least element.
LEMMA Least ==
    ASSUME NEW S, S \subseteq Nat, S # {}
    PROVE  \E m \in S : \A n \in S : m <= n
<1> DEFINE R == OpToRel(<, Nat)
<1>1. PICK m \in S : \A n \in S : ~ (<<n, m>> \in R)
  <2>1. IsWellFoundedOn(R, Nat)
    BY NatLessThanWellFounded
  <2> HIDE DEF R
  <2> QED
    BY <2>1, WFMin
<1>2. \A n \in S : ~ (n < m)
  BY <1>1 DEF OpToRel
<1> QED
  BY <1>2

\* What holds of 0 and is passed on holds of every natural number.
LEMMA EveryNatural ==
    ASSUME NEW S, 0 \in S, \A n \in Nat : n \in S => n + 1 \in S
    PROVE  Nat \subseteq S
<1> SUFFICES ASSUME Nat \ S # {} PROVE FALSE
  OBVIOUS
<1>1. PICK m \in Nat \ S : \A n \in Nat \ S : m <= n
  BY Least
<1>2. m # 0 /\ m - 1 \in Nat
  BY <1>1
<1>3. m - 1 \in S
  BY <1>1, <1>2
<1> QED
  BY <1>1, <1>2, <1>3

\* f repeats step from a.
Repeats(f, S, a, step) ==
    f \in [Nat -> S] /\ f[0] = a /\ \A n \in Nat : f[n + 1] = step[f[n]]

\* A function on a set can be repeated from any of its elements.
LEMMA Repeated ==
    ASSUME NEW S, NEW a \in S, NEW step \in [S -> S]
    PROVE  \E f : Repeats(f, S, a, step)
<1> DEFINE Partial(n) == {g \in [0..n -> S] : g[0] = a /\ \A i \in 1..n : g[i] = step[g[i - 1]]}
           Good == {n \in Nat : Partial(n) # {}}
<1>1. 0 \in Good
  <2>1. [i \in 0..0 |-> a] \in Partial(0)
    OBVIOUS
  <2> QED
    BY <2>1
<1>2. ASSUME NEW n \in Nat, n \in Good PROVE n + 1 \in Good
  <2>1. PICK g \in Partial(n) : TRUE
    BY <1>2
  <2> DEFINE h == [i \in 0..(n + 1) |-> IF i = n + 1 THEN step[g[n]] ELSE g[i]]
  <2>2. h \in [0..(n + 1) -> S] /\ h[0] = a
    BY <2>1
  <2>3. \A i \in 1..(n + 1) : h[i] = step[h[i - 1]]
    BY <2>1
  <2> QED
    BY <2>2, <2>3
<1>3. Nat \subseteq Good
  <2> HIDE DEF Good
  <2> QED
    BY <1>1, <1>2, EveryNatural
<1> DEFINE p == [n \in Nat |-> CHOOSE g : g \in Partial(n)]
           f == [n \in Nat |-> p[n][n]]
<1>4. \A n \in Nat : p[n] \in Partial(n)
  BY <1>3
<1> HIDE DEF p
<1>5. ASSUME NEW n \in Nat PROVE f[n + 1] = step[f[n]]
  <2> DEFINE Same == {i \in Nat : i <= n => p[n][i] = p[n + 1][i]}
  <2>1. 0 \in Same
    BY <1>4
  <2>2. ASSUME NEW i \in Nat, i \in Same PROVE i + 1 \in Same
    <3>1. CASE i + 1 <= n
      <4>1. p[n][i + 1] = step[p[n][i]] /\ p[n + 1][i + 1] = step[p[n + 1][i]]
        BY <1>4, <3>1
      <4> QED
        BY <4>1, <2>2, <3>1
    <3> QED
      BY <3>1
  <2>3. Nat \subseteq Same
    <3> HIDE DEF Same
    <3> QED
      BY <2>1, <2>2, EveryNatural
  <2>4. p[n][n] = p[n + 1][n]
    BY <2>3
  <2>5. p[n + 1][n + 1] = step[p[n + 1][n]]
    BY <1>4
  <2> QED
    BY <2>4, <2>5
<1>6. f \in [Nat -> S] /\ f[0] = a
  BY <1>4
<1> QED
  BY <1>5, <1>6 DEF Repeats

-----------------------------------------------------------------------------
\* The walk of Ancestry goes no further than w.
Stops(rows, l, w) ==
    \/ IsCycle(w)
    \/ rows[Last(w)].parent \notin Rows(rows)
    \/ rows[rows[Last(w)].parent].facility # rows[l].facility

Further(rows, l, w) == IF Stops(rows, l, w) THEN w ELSE Append(w, rows[Last(w)].parent)

\* Ancestry is what its recursion says.
LEMMA WalkDefined ==
    ASSUME NEW rows, NEW l \in Rows(rows)
    PROVE  \E walk : /\ walk[0] = <<l>>
                     /\ \A n \in Nat : walk[n + 1] = Further(rows, l, walk[n])
                     /\ Ancestry(rows, l) = walk[Cardinality(Location)]
<1> DEFINE Def(g) == [n \in Nat |->
                         IF n = 0 THEN <<l>>
                         ELSE LET below == g[n - 1]
                                  parent == rows[Last(below)].parent IN
                              IF \/ IsCycle(below)
                                 \/ parent \notin Rows(rows)
                                 \/ rows[parent].facility # rows[l].facility
                              THEN below ELSE Append(below, parent)]
           S == Seq(Rows(rows))
           step == [w \in S |-> Further(rows, l, w)]
           walk == CHOOSE g : g = Def(g)
<1>1. Ancestry(rows, l) = walk[Cardinality(Location)]
  BY DEF Ancestry
<1>2. step \in [S -> S] /\ <<l>> \in S
  BY DEF Further, Stops
<1>3. PICK f : Repeats(f, S, <<l>>, step)
  <2> HIDE DEF S, step
  <2> QED
    BY <1>2, Repeated
<1>4. f \in [Nat -> S] /\ f[0] = <<l>> /\ \A n \in Nat : f[n + 1] = step[f[n]]
  BY <1>3 DEF Repeats
<1>5. f = Def(f)
  <2>1. ASSUME NEW n \in Nat PROVE f[n] = Def(f)[n]
    <3>1. CASE n = 0
      BY <3>1, <1>4
    <3>2. CASE n # 0
      <4>1. n - 1 \in Nat /\ (n - 1) + 1 = n
        BY <3>2
      <4>2. f[n] = Further(rows, l, f[n - 1])
        BY <4>1, <1>4
      <4> QED
        BY <4>2, <3>2 DEF Further, Stops
    <3> QED
      BY <3>1, <3>2
  <2> HIDE DEF Def
  <2>2. DOMAIN Def(f) = Nat /\ Def(f) = [n \in Nat |-> Def(f)[n]]
    BY DEF Def
  <2> QED
    BY <2>1, <2>2, <1>4
<1>6. walk = Def(walk)
  <2> HIDE DEF Def
  <2> QED
    BY <1>5
<1> HIDE DEF walk
<1>7. walk[0] = <<l>>
  BY <1>6
<1>8. ASSUME NEW n \in Nat PROVE walk[n + 1] = Further(rows, l, walk[n])
  <2>1. n + 1 \in Nat /\ n + 1 # 0 /\ (n + 1) - 1 = n
    OBVIOUS
  <2> QED
    BY <2>1, <1>6 DEF Further, Stops
<1> QED
  BY <1>1, <1>7, <1>8

\* A walk from l upwards within its facility, in which only the last place may
\* have been visited before.
Walk(rows, l, w) ==
    /\ w \in Seq(Rows(rows)) /\ Len(w) >= 1 /\ w[1] = l
    /\ \A i \in 1..(Len(w) - 1) : w[i + 1] = rows[w[i]].parent
    /\ \A i, j \in 1..(Len(w) - 1) : w[i] = w[j] => i = j
    /\ \A i \in 1..Len(w) : rows[w[i]].facility = rows[l].facility

LEMMA FurtherWalks ==
    ASSUME NEW rows, NEW l \in Rows(rows), NEW w, Walk(rows, l, w)
    PROVE  Walk(rows, l, Further(rows, l, w))
<1>1. CASE Stops(rows, l, w)
  BY <1>1 DEF Further
<1>2. CASE ~ Stops(rows, l, w)
  <2> DEFINE p == rows[Last(w)].parent
             v == Append(w, p)
  <2>1. Further(rows, l, w) = v
    BY <1>2 DEF Further
  <2>2. /\ w \in Seq(Rows(rows)) /\ Len(w) \in Nat /\ Len(w) >= 1 /\ w[1] = l
        /\ Last(w) = w[Len(w)] /\ p \in Rows(rows) /\ rows[p].facility = rows[l].facility
        /\ \A i \in 1..(Len(w) - 1) : w[i] # w[Len(w)]
    BY <1>2 DEF Walk, Stops, IsCycle, Last
  <2>3. /\ v \in Seq(Rows(rows)) /\ Len(v) = Len(w) + 1
        /\ \A i \in 1..Len(w) : v[i] = w[i]
        /\ v[Len(w) + 1] = p
    BY <2>2
  <2> HIDE DEF v
  <2>4. \A i \in 1..(Len(v) - 1) : v[i + 1] = rows[v[i]].parent
    <3> SUFFICES ASSUME NEW i \in 1..Len(w) PROVE v[i + 1] = rows[v[i]].parent
      BY <2>2, <2>3
    <3>1. CASE i = Len(w)
      BY <3>1, <2>2, <2>3
    <3>2. CASE i # Len(w)
      BY <3>2, <2>2, <2>3 DEF Walk
    <3> QED
      BY <3>1, <3>2
  <2>5. \A i, j \in 1..(Len(v) - 1) : v[i] = v[j] => i = j
    BY <2>2, <2>3 DEF Walk
  <2>6. \A i \in 1..Len(v) : rows[v[i]].facility = rows[l].facility
    BY <2>2, <2>3 DEF Walk
  <2> QED
    BY <2>1, <2>2, <2>3, <2>4, <2>5, <2>6 DEF Walk
<1> QED
  BY <1>1, <1>2

\* The walk has ended after as many steps as there are locations, because it
\* meets no location twice.
LEMMA AncestryEnds ==
    ASSUME NEW rows, NEW l \in Rows(rows)
    PROVE  /\ Walk(rows, l, Ancestry(rows, l))
           /\ Stops(rows, l, Ancestry(rows, l))
<1>1. PICK walk : /\ walk[0] = <<l>>
                  /\ \A n \in Nat : walk[n + 1] = Further(rows, l, walk[n])
                  /\ Ancestry(rows, l) = walk[Cardinality(Location)]
  BY WalkDefined
<1> DEFINE N == Cardinality(Location)
           Good == {n \in Nat : /\ Walk(rows, l, walk[n])
                                /\ Stops(rows, l, walk[n]) \/ Len(walk[n]) = n + 1}
<1>2. N \in Nat
  BY SpaceAssumption, FS_CardinalityType
<1>3. 0 \in Good
  <2>1. walk[0] \in Seq(Rows(rows)) /\ Len(walk[0]) = 1 /\ walk[0][1] = l
    BY <1>1
  <2>2. Walk(rows, l, walk[0])
    BY <2>1 DEF Walk
  <2> QED
    BY <2>1, <2>2
<1>4. ASSUME NEW n \in Nat, n \in Good PROVE n + 1 \in Good
  <2>1. Walk(rows, l, walk[n + 1])
    BY <1>1, <1>4, FurtherWalks
  <2>2. CASE Stops(rows, l, walk[n])
    BY <2>1, <2>2, <1>1 DEF Further
  <2>3. CASE ~ Stops(rows, l, walk[n])
    <3>1. walk[n] \in Seq(Rows(rows)) /\ Len(walk[n]) = n + 1
      BY <1>4, <2>3 DEF Walk
    <3>2. walk[n + 1] = Append(walk[n], rows[Last(walk[n])].parent)
      BY <1>1, <2>3 DEF Further
    <3>3. rows[Last(walk[n])].parent \in Rows(rows)
      BY <2>3 DEF Stops
    <3>4. Len(walk[n + 1]) = (n + 1) + 1
      BY <3>1, <3>2, <3>3
    <3> QED
      BY <2>1, <3>4
  <2> QED
    BY <2>2, <2>3
<1>5. Nat \subseteq Good
  <2> HIDE DEF Good
  <2> QED
    BY <1>3, <1>4, EveryNatural
<1> DEFINE w == walk[N]
<1>6. Walk(rows, l, w) /\ (Stops(rows, l, w) \/ Len(w) = N + 1)
  BY <1>2, <1>5
<1>7. ASSUME ~ Stops(rows, l, w) PROVE FALSE
  <2> HIDE DEF w, N
  <2>1. Len(w) = N + 1 /\ w \in Seq(Rows(rows)) /\ ~ IsCycle(w)
    BY <1>6, <1>7 DEF Stops, Walk
  <2>2. \A i, j \in 1..(N + 1) : w[i] = w[j] => i = j
    BY <2>1, <1>2, <1>6 DEF Walk, IsCycle, Last
  <2>3. w \in [1..(N + 1) -> Location]
    BY <2>1, <1>2 DEF Rows
  <2>4. IsFiniteSet(1..(N + 1)) /\ Cardinality(1..(N + 1)) = N + 1
    BY <1>2, FS_Interval
  <2>5. Cardinality(Location) < Cardinality(1..(N + 1))
    BY <1>2, <2>4 DEF N
  <2>6. \E i, j \in 1..(N + 1) : i # j /\ w[i] = w[j]
    BY <2>3, <2>4, <2>5, SpaceAssumption, FS_PigeonHole
  <2> QED
    BY <2>2, <2>6
<1> QED
  BY <1>1, <1>6, <1>7

-----------------------------------------------------------------------------
\* Every parent is there and in the facility of its child.
ParentsPresent(rows) ==
    \A l \in Rows(rows) :
        \/ rows[l].parent = Root
        \/ /\ rows[l].parent \in Rows(rows)
           /\ rows[rows[l].parent].facility = rows[l].facility

\* No set of locations has all its parents in itself.
Grounded(rows) ==
    \A S \in SUBSET Rows(rows) : S # {} => \E l \in S : rows[l].parent \notin S

Hierarchy(rows) == ParentsPresent(rows) /\ Grounded(rows)

\* A walk does not leave a set that contains the parents of its members.
LEMMA WalkStays ==
    ASSUME NEW rows, NEW l, NEW w, Walk(rows, l, w),
           NEW S, l \in S, \A m \in S : rows[m].parent # Root => rows[m].parent \in S
    PROVE  \A i \in 1..Len(w) : w[i] \in S
<1> DEFINE Stayed == {n \in Nat : n + 1 <= Len(w) => w[n + 1] \in S}
<1>1. 0 \in Stayed
  BY DEF Walk
<1>2. ASSUME NEW n \in Nat, n \in Stayed PROVE n + 1 \in Stayed
  <2> SUFFICES ASSUME (n + 1) + 1 <= Len(w) PROVE w[(n + 1) + 1] \in S
    OBVIOUS
  <2>1. Len(w) \in Nat /\ n + 1 \in 1..(Len(w) - 1) /\ (n + 1) + 1 \in 1..Len(w)
    BY DEF Walk
  <2>2. w[(n + 1) + 1] = rows[w[n + 1]].parent /\ w[(n + 1) + 1] \in Location
    BY <2>1 DEF Walk, Rows
  <2>3. w[n + 1] \in S
    BY <2>1, <1>2
  <2>4. rows[w[n + 1]].parent # Root
    BY <2>2, SpaceAssumption DEF Root
  <2> QED
    BY <2>2, <2>3, <2>4
<1>3. Nat \subseteq Stayed
  <2> HIDE DEF Stayed
  <2> QED
    BY <1>1, <1>2, EveryNatural
<1> QED
  <2> SUFFICES ASSUME NEW i \in 1..Len(w) PROVE w[i] \in S
    OBVIOUS
  <2>1. i - 1 \in Nat /\ (i - 1) + 1 = i /\ i <= Len(w)
    BY DEF Walk
  <2>2. i - 1 \in Stayed
    BY <2>1, <1>3
  <2> QED
    BY <2>1, <2>2

\* In a hierarchy the ancestry of a location never ends in a circle, so it ends
\* at a root.
LEMMA AncestryRooted ==
    ASSUME NEW rows, Hierarchy(rows), NEW l \in Rows(rows), NEW w, w = Ancestry(rows, l)
    PROVE  Walk(rows, l, w) /\ ~ IsCycle(w) /\ rows[Last(w)].parent = Root
<1>1. Walk(rows, l, w) /\ Stops(rows, l, w)
  BY AncestryEnds
<1>2. /\ w \in Seq(Rows(rows)) /\ Len(w) \in Nat /\ Len(w) >= 1 /\ Last(w) = w[Len(w)]
      /\ \A i \in 1..Len(w) : w[i] \in Rows(rows)
      /\ Last(w) \in Rows(rows) /\ rows[Last(w)].facility = rows[l].facility
  BY <1>1 DEF Walk, Last
<1>3. ASSUME IsCycle(w) PROVE FALSE
  <2>1. PICK i \in 1..(Len(w) - 1) : w[i] = w[Len(w)]
    BY <1>2, <1>3 DEF IsCycle
  <2> DEFINE S == {w[j] : j \in i..Len(w)}
  <2>2. S \in SUBSET Rows(rows) /\ S # {}
    BY <1>2, <2>1
  <2>3. ASSUME NEW j \in i..Len(w) PROVE rows[w[j]].parent \in S
    <3>1. CASE j = Len(w)
      <4>1. rows[w[j]].parent = w[i + 1] /\ i + 1 \in i..Len(w)
        BY <3>1, <2>1, <1>1, <1>2 DEF Walk
      <4> QED
        BY <4>1
    <3>2. CASE j # Len(w)
      <4>1. rows[w[j]].parent = w[j + 1] /\ j + 1 \in i..Len(w)
        BY <3>2, <2>1, <1>1, <1>2 DEF Walk
      <4> QED
        BY <4>1
    <3> QED
      BY <3>1, <3>2
  <2>4. \A m \in S : rows[m].parent \in S
    BY <2>3
  <2> QED
    BY <2>2, <2>4 DEF Hierarchy, Grounded
<1>4. rows[Last(w)].parent = Root
  BY <1>1, <1>2, <1>3 DEF Stops, Hierarchy, ParentsPresent
<1> QED
  BY <1>1, <1>3, <1>4

\* The path of a location, read from the root down, is the set of its ancestors.
LEMMA PathComplete ==
    ASSUME NEW rows, Hierarchy(rows), NEW l \in Rows(rows), NEW path, path = LocationPath(rows, l)
    PROVE  /\ PathValid(rows, l)
           /\ Range(path) = Above(rows, l) /\ Len(path) = Cardinality(Range(path))
           /\ \A i \in DOMAIN path : rows[path[i]].facility = rows[l].facility
<1> DEFINE w == Ancestry(rows, l)
           n == Len(w)
<1>1. Walk(rows, l, w) /\ ~ IsCycle(w) /\ rows[Last(w)].parent = Root
  BY AncestryRooted
<1>2. path = [i \in 1..n |-> w[(n - i) + 1]]
  BY DEF LocationPath, Reverse
<1>3. PathValid(rows, l)
  BY <1>1 DEF PathValid
<1> HIDE DEF w
<1>4. /\ w \in Seq(Rows(rows)) /\ n \in Nat /\ n >= 1 /\ w[1] = l /\ Last(w) = w[n]
      /\ \A i \in 1..n : w[i] \in Rows(rows)
      /\ \A i, j \in 1..n : w[i] = w[j] => i = j
  BY <1>1 DEF Walk, IsCycle, Last
<1> HIDE DEF n
<1> DEFINE R == {w[i] : i \in 1..n}
<1>5. DOMAIN path = 1..n /\ Len(path) = n /\ \A i \in 1..n : path[i] = w[(n - i) + 1] /\ (n - i) + 1 \in 1..n
  BY <1>2, <1>4
<1>6. Range(path) = R
  <2>1. ASSUME NEW i \in 1..n PROVE w[i] \in Range(path)
    <3>1. (n - i) + 1 \in 1..n /\ (n - ((n - i) + 1)) + 1 = i
      BY <1>4
    <3>2. path[(n - i) + 1] = w[i]
      BY <3>1, <1>5
    <3> QED
      BY <3>1, <3>2, <1>5 DEF Range
  <2>2. Range(path) \subseteq R
    BY <1>5 DEF Range
  <2> QED
    BY <2>1, <2>2
<1>7. Cardinality(R) = n
  <2>1. w \in [1..n -> R]
    BY <1>4 DEF n
  <2>2. w \in Bijection(1..n, R)
    BY <1>4, <2>1 DEF Bijection, Injection, Surjection, IsInjective
  <2>3. IsFiniteSet(1..n) /\ Cardinality(1..n) = n
    BY <1>4, FS_Interval
  <2> HIDE DEF R
  <2> QED
    BY <2>2, <2>3, FS_Bijection DEF ExistsBijection
<1>8. R \subseteq Above(rows, l)
  <2> SUFFICES ASSUME NEW i \in 1..n, NEW S \in SUBSET Rows(rows), l \in S,
                      \A m \in S : rows[m].parent # Root => rows[m].parent \in S
               PROVE  w[i] \in S
    BY <1>4 DEF Above, Rows
  <2> QED
    BY <1>1, WalkStays DEF n
<1>9. Above(rows, l) \subseteq R
  <2>1. R \in SUBSET Rows(rows) /\ l \in R
    BY <1>4
  <2>2. ASSUME NEW i \in 1..n, rows[w[i]].parent # Root PROVE rows[w[i]].parent \in R
    <3>1. i \in 1..(n - 1) /\ i + 1 \in 1..n
      BY <1>1, <1>4, <2>2
    <3>2. rows[w[i]].parent = w[i + 1]
      BY <1>1, <3>1 DEF Walk, n
    <3> QED
      BY <3>1, <3>2
  <2>3. \A m \in R : rows[m].parent # Root => rows[m].parent \in R
    BY <2>2
  <2> HIDE DEF R
  <2> QED
    BY <2>1, <2>3 DEF Above
<1>10. \A i \in DOMAIN path : rows[path[i]].facility = rows[l].facility
  <2>1. \A i \in 1..n : rows[w[i]].facility = rows[l].facility
    BY <1>1 DEF Walk, n
  <2>2. ASSUME NEW i \in DOMAIN path PROVE rows[path[i]].facility = rows[l].facility
    <3>1. PICK j \in 1..n : path[i] = w[j]
      BY <1>5
    <3> QED
      BY <2>1, <3>1
  <2> QED
    BY <2>2
<1> QED
  BY <1>3, <1>5, <1>6, <1>7, <1>8, <1>9, <1>10

-----------------------------------------------------------------------------
LEMMA OverRows ==
    ASSUME NEW upper, NEW lower
    PROVE  /\ Rows(Over(upper, lower)) = Rows(upper) \cup Rows(lower)
           /\ \A l \in Rows(upper) : Over(upper, lower)[l] = upper[l]
           /\ \A l \in Location \ Rows(upper) : Over(upper, lower)[l] = lower[l]
BY DEF Over, Rows

\* New rows whose parents are there, over a hierarchy.
Extends(upper, lower, rows) ==
    /\ Hierarchy(lower) /\ Rows(upper) \cap Rows(lower) = {} /\ rows = Over(upper, lower)
    /\ \A l \in Rows(upper) :
           \/ upper[l].parent = Root
           \/ /\ upper[l].parent \in Rows(rows)
              /\ rows[upper[l].parent].facility = upper[l].facility

LEMMA ExtendedClosed ==
    ASSUME NEW upper, NEW lower, NEW rows, Extends(upper, lower, rows)
    PROVE  /\ Rows(rows) = Rows(upper) \cup Rows(lower)
           /\ \A l \in Rows(upper) : rows[l] = upper[l]
           /\ \A l \in Rows(lower) : rows[l] = lower[l]
           /\ ParentsPresent(rows)
<1>1. Rows(lower) \subseteq Location \ Rows(upper)
  BY DEF Rows, Extends
<1>2. /\ Rows(rows) = Rows(upper) \cup Rows(lower)
      /\ \A l \in Rows(upper) : rows[l] = upper[l]
      /\ \A l \in Rows(lower) : rows[l] = lower[l]
  BY <1>1, OverRows DEF Extends
<1> QED
  BY <1>2 DEF ParentsPresent, Hierarchy, Extends

\* They are a hierarchy together when no set with a new row has all its parents
\* in itself.
LEMMA ExtendedHierarchy ==
    ASSUME NEW upper, NEW lower, NEW rows, Extends(upper, lower, rows),
           \A S \in SUBSET Rows(rows) :
               S \cap Rows(upper) # {} => \E l \in S : rows[l].parent \notin S
    PROVE  Hierarchy(rows)
<1>1. /\ Rows(rows) = Rows(upper) \cup Rows(lower)
      /\ \A l \in Rows(lower) : rows[l] = lower[l]
      /\ ParentsPresent(rows)
  BY ExtendedClosed
<1> SUFFICES ASSUME NEW S \in SUBSET Rows(rows), S # {} PROVE \E l \in S : rows[l].parent \notin S
  BY <1>1 DEF Grounded, Hierarchy
<1>2. CASE S \cap Rows(upper) # {}
  BY <1>2
<1>3. CASE S \cap Rows(upper) = {}
  <2>1. S \in SUBSET Rows(lower)
    BY <1>3, <1>1
  <2>2. PICK l \in S : lower[l].parent \notin S
    BY <2>1 DEF Hierarchy, Grounded, Extends
  <2> QED
    BY <2>1, <2>2, <1>1
<1> QED
  BY <1>2, <1>3

\* What the trigger accepts: no new row is on a circle, nor hangs from one.
LEMMA AcceptedHierarchy ==
    ASSUME NEW upper, NEW lower, NEW rows, Extends(upper, lower, rows),
           \A l \in Rows(upper) : upper[l].parent # Root => ~ IsCycle(Ancestry(rows, l))
    PROVE  Hierarchy(rows)
<1>1. /\ Rows(rows) = Rows(upper) \cup Rows(lower)
      /\ \A l \in Rows(upper) : rows[l] = upper[l]
      /\ ParentsPresent(rows)
  BY ExtendedClosed
<1>2. ASSUME NEW S \in SUBSET Rows(rows), S \cap Rows(upper) # {},
             \A m \in S : rows[m].parent \in S
      PROVE  FALSE
  <2>1. PICK l \in S : l \in Rows(upper)
    BY <1>2
  <2> DEFINE w == Ancestry(rows, l)
  <2>2. l \in Rows(rows) /\ upper[l].parent # Root
    BY <1>1, <1>2, <2>1, SpaceAssumption DEF Root, Rows
  <2>3. Walk(rows, l, w) /\ Stops(rows, l, w) /\ ~ IsCycle(w)
    BY <2>1, <2>2, AncestryEnds
  <2> HIDE DEF w
  <2>4. \A i \in 1..Len(w) : w[i] \in S
    BY <1>2, <2>3, WalkStays
  <2>5. Last(w) \in S /\ rows[Last(w)].facility = rows[l].facility
    BY <2>3, <2>4 DEF Last, Walk
  <2>6. rows[Last(w)].parent \in Rows(rows) /\ rows[Last(w)].parent # Root
    BY <1>2, <2>5, SpaceAssumption DEF Root, Rows
  <2>7. rows[rows[Last(w)].parent].facility = rows[l].facility
    BY <1>1, <2>5, <2>6 DEF ParentsPresent
  <2> QED
    BY <2>3, <2>6, <2>7 DEF Stops
<1> QED
  BY <1>2, ExtendedHierarchy

-----------------------------------------------------------------------------
Apart ==
    /\ \A c \in Clerk : Rows(inserted[c]) \cap Rows(locations) = {}
    /\ \A c, d \in Clerk : c # d => Rows(inserted[c]) \cap Rows(inserted[d]) = {}

SpaceInv ==
    /\ DOMAIN inserted = Clerk /\ inserted = [c \in Clerk |-> inserted[c]]
    /\ Apart
    /\ Hierarchy(locations) /\ \A c \in Clerk : Hierarchy(Visible(c))

LEMMA EmptyOver ==
    ASSUME NEW lower, Hierarchy(lower) PROVE Hierarchy(Over(NoRows, lower))
<1>1. Rows(NoRows) = {}
  BY DEF Rows, NoRows
<1> QED
  BY <1>1, ExtendedHierarchy DEF Extends

LEMMA InsertKeeps ==
    ASSUME SpaceInv, NEW c \in Clerk, NEW batch, Rows(batch) \subseteq Unused,
           InsertLocations(c, batch)
    PROVE  SpaceInv'
<1> DEFINE rows == Over(batch, Visible(c))
<1>1. /\ inserted' = [inserted EXCEPT ![c] = Over(batch, inserted[c])]
      /\ locations' = locations
      /\ \A l \in Rows(batch) :
             batch[l].parent # Root =>
                 /\ batch[l].parent \in Rows(rows)
                 /\ rows[batch[l].parent].facility = batch[l].facility
                 /\ ~ IsCycle(Ancestry(rows, l))
  BY DEF InsertLocations, Seen
<1>2. /\ DOMAIN inserted' = Clerk /\ inserted' = [d \in Clerk |-> inserted'[d]]
      /\ inserted'[c] = Over(batch, inserted[c])
      /\ \A d \in Clerk : d # c => inserted'[d] = inserted[d]
  BY <1>1 DEF SpaceInv
<1>3. Rows(inserted'[c]) = Rows(batch) \cup Rows(inserted[c])
  BY <1>2, OverRows
<1>4. /\ Rows(batch) \cap Rows(locations) = {}
      /\ \A d \in Clerk : Rows(batch) \cap Rows(inserted[d]) = {}
  BY DEF Unused
<1>5. Apart'
  <2>1. \A d \in Clerk : Rows(inserted'[d]) \cap Rows(locations') = {}
    BY <1>1, <1>2, <1>3, <1>4 DEF SpaceInv, Apart
  <2>2. \A d, e \in Clerk : d # e => Rows(inserted'[d]) \cap Rows(inserted'[e]) = {}
    BY <1>2, <1>3, <1>4 DEF SpaceInv, Apart
  <2> QED
    BY <2>1, <2>2 DEF Apart, Rows
<1>6. Visible(c)' = rows
  <2>1. Over(Over(batch, inserted[c]), locations) = Over(batch, Over(inserted[c], locations))
    BY DEF Over, Rows
  <2> QED
    BY <1>1, <1>2, <2>1 DEF Visible, Over, Rows
<1>7. Extends(batch, Visible(c), rows)
  <2>1. Rows(Visible(c)) = Rows(inserted[c]) \cup Rows(locations)
    BY OverRows DEF Visible
  <2>2. Rows(batch) \cap Rows(Visible(c)) = {} /\ Hierarchy(Visible(c))
    BY <1>4, <2>1 DEF SpaceInv
  <2> HIDE DEF rows
  <2>3. rows = Over(batch, Visible(c))
    BY DEF rows
  <2> QED
    BY <1>1, <2>2, <2>3 DEF Extends
<1>8. Hierarchy(rows)
  <2> HIDE DEF rows
  <2> QED
    BY <1>1, <1>7, AcceptedHierarchy
<1>9. \A d \in Clerk : Hierarchy(Visible(d)')
  <2>1. \A d \in Clerk : d # c => Visible(d)' = Visible(d)
    BY <1>1, <1>2 DEF Visible, Over, Rows
  <2> QED
    BY <1>6, <1>8, <2>1 DEF SpaceInv
<1>10. Hierarchy(locations')
  BY <1>1 DEF SpaceInv
<1> QED
  BY <1>2, <1>5, <1>9, <1>10 DEF SpaceInv, Hierarchy, ParentsPresent, Grounded, Rows

LEMMA CommitKeeps ==
    ASSUME SpaceInv, NEW c \in Clerk, CommitSpace(c)
    PROVE  SpaceInv'
<1>1. /\ locations' = Visible(c)
      /\ DOMAIN inserted' = Clerk /\ inserted' = [d \in Clerk |-> inserted'[d]]
      /\ inserted'[c] = NoRows
      /\ \A d \in Clerk : d # c => inserted'[d] = inserted[d]
  BY DEF CommitSpace, Visible, SpaceInv
<1>2. Rows(locations') = Rows(inserted[c]) \cup Rows(locations) /\ Rows(NoRows) = {}
  <2>1. Rows(NoRows) = {}
    BY DEF Rows, NoRows
  <2> QED
    BY <1>1, <2>1, OverRows DEF Visible
<1>3. Apart'
  <2>1. \A d \in Clerk : Rows(inserted'[d]) \cap Rows(locations') = {}
    BY <1>1, <1>2 DEF SpaceInv, Apart
  <2>2. \A d, e \in Clerk : d # e => Rows(inserted'[d]) \cap Rows(inserted'[e]) = {}
    BY <1>1, <1>2 DEF SpaceInv, Apart
  <2> QED
    BY <2>1, <2>2 DEF Apart, Rows
<1>4. Hierarchy(locations')
  BY <1>1 DEF SpaceInv
<1>5. ASSUME NEW d \in Clerk PROVE Hierarchy(Visible(d)')
  <2>1. CASE d = c
    <3>1. Visible(d)' = Over(NoRows, locations')
      BY <1>1, <2>1 DEF Visible, Over, Rows
    <3> QED
      BY <3>1, <1>4, EmptyOver
  <2>2. CASE d # c
    <3> DEFINE upper == inserted[d]
               lower == locations'
               rows == Over(upper, lower)
               before == Visible(d)
    <3>1. Visible(d)' = rows
      BY <1>1, <2>2 DEF Visible, Over, Rows
    <3>2. Rows(upper) \cap Rows(locations) = {} /\ Rows(upper) \cap Rows(lower) = {}
      BY <1>2, <2>2 DEF SpaceInv, Apart
    <3>3. /\ Rows(before) = Rows(upper) \cup Rows(locations)
          /\ \A l \in Rows(upper) : before[l] = upper[l] /\ rows[l] = upper[l]
          /\ Rows(rows) = Rows(upper) \cup Rows(lower)
      BY OverRows DEF Visible
    <3>4. \A l \in Rows(locations) : before[l] = locations[l] /\ rows[l] = locations[l]
      <4>1. Rows(locations) \subseteq Location \ Rows(upper)
        BY <3>2 DEF Rows
      <4>2. Rows(locations) \subseteq Location \ Rows(inserted[c])
        BY DEF SpaceInv, Apart, Rows
      <4>3. \A l \in Rows(locations) : lower[l] = locations[l]
        BY <1>1, <4>2, OverRows DEF Visible
      <4>4. \A l \in Rows(locations) : before[l] = locations[l] /\ rows[l] = lower[l]
        BY <4>1, OverRows DEF Visible
      <4> QED
        BY <4>3, <4>4
    <3>5. Hierarchy(before)
      BY DEF SpaceInv
    <3> HIDE DEF before, upper
    <3>6. Extends(upper, lower, rows)
      <4>1. ASSUME NEW l \in Rows(upper), upper[l].parent # Root
            PROVE  /\ upper[l].parent \in Rows(rows)
                   /\ rows[upper[l].parent].facility = upper[l].facility
        <5>1. /\ upper[l].parent \in Rows(before)
              /\ before[upper[l].parent].facility = upper[l].facility
          BY <4>1, <3>3, <3>5 DEF Hierarchy, ParentsPresent
        <5> QED
          BY <5>1, <3>3, <3>4, <1>2
      <4> QED
        BY <4>1, <3>2, <1>4 DEF Extends
    <3> HIDE DEF rows
    <3>7. ASSUME NEW S \in SUBSET Rows(rows), S \cap Rows(upper) # {},
                 \A l \in S : rows[l].parent \in S
          PROVE  FALSE
      <4>1. S \cap Rows(upper) \in SUBSET Rows(before)
        BY <3>3
      <4>2. PICK l \in S \cap Rows(upper) : before[l].parent \notin S \cap Rows(upper)
        BY <3>5, <3>7, <4>1 DEF Hierarchy, Grounded
      <4>3. S \cap Rows(lower) # {}
        BY <3>3, <3>7, <4>2
      <4>4. S \cap Rows(lower) \in SUBSET Rows(lower)
        OBVIOUS
      <4>5. PICK m \in S \cap Rows(lower) : lower[m].parent \notin S \cap Rows(lower)
        BY <1>4, <4>3, <4>4 DEF Hierarchy, Grounded
      <4>6. rows[m] = lower[m]
        BY <3>6, ExtendedClosed, <4>5
      <4>7. lower[m].parent \in S /\ lower[m].parent # Root
        BY <3>7, <4>5, <4>6, SpaceAssumption DEF Rows, Root
      <4>8. lower[m].parent \in Rows(lower)
        BY <1>4, <4>5, <4>7 DEF Hierarchy, ParentsPresent
      <4> QED
        BY <4>5, <4>7, <4>8
    <3> QED
      BY <3>1, <3>6, <3>7, ExtendedHierarchy
  <2> QED
    BY <2>1, <2>2
<1> QED
  BY <1>1, <1>3, <1>4, <1>5 DEF SpaceInv, Hierarchy, ParentsPresent, Grounded, Rows

LEMMA RollbackKeeps ==
    ASSUME SpaceInv, NEW c \in Clerk, RollbackSpace(c)
    PROVE  SpaceInv'
<1>1. /\ locations' = locations
      /\ DOMAIN inserted' = Clerk /\ inserted' = [d \in Clerk |-> inserted'[d]]
      /\ inserted'[c] = NoRows
      /\ \A d \in Clerk : d # c => inserted'[d] = inserted[d]
  BY DEF RollbackSpace, SpaceInv
<1>2. Rows(NoRows) = {}
  BY DEF Rows, NoRows
<1>3. Apart'
  <2>1. \A d \in Clerk : Rows(inserted'[d]) \cap Rows(locations') = {}
    BY <1>1, <1>2 DEF SpaceInv, Apart
  <2>2. \A d, e \in Clerk : d # e => Rows(inserted'[d]) \cap Rows(inserted'[e]) = {}
    BY <1>1, <1>2 DEF SpaceInv, Apart
  <2> QED
    BY <2>1, <2>2 DEF Apart, Rows
<1>4. ASSUME NEW d \in Clerk PROVE Hierarchy(Visible(d)')
  <2>1. CASE d = c
    <3>1. Visible(d)' = Over(NoRows, locations)
      BY <1>1, <2>1 DEF Visible, Over, Rows
    <3> QED
      BY <3>1, EmptyOver DEF SpaceInv
  <2>2. CASE d # c
    <3>1. Visible(d)' = Visible(d)
      BY <1>1, <2>2 DEF Visible, Over, Rows
    <3> QED
      BY <3>1 DEF SpaceInv
  <2> QED
    BY <2>1, <2>2
<1>5. Hierarchy(locations')
  BY <1>1 DEF SpaceInv
<1> QED
  BY <1>1, <1>3, <1>4, <1>5 DEF SpaceInv, Hierarchy, ParentsPresent, Grounded, Rows

LEMMA SpaceInductive ==
    ASSUME SpaceInv, [SpaceNext]_spaceVars PROVE SpaceInv'
<1>1. CASE UNCHANGED <<locations, inserted>>
  <2>1. \A c \in Clerk : Visible(c)' = Visible(c)
    BY <1>1 DEF Visible, Over, Rows
  <2>2. locations' = locations /\ inserted' = inserted
    BY <1>1
  <2> QED
    BY <2>1, <2>2 DEF SpaceInv, Apart, Hierarchy, ParentsPresent, Grounded, Rows
<1>2. ASSUME NEW c \in Clerk, NEW ids \in SUBSET Unused, NEW batch \in [ids -> LocationRow],
             InsertLocations(c, [l \in Location |-> IF l \in ids THEN batch[l] ELSE Nowhere])
      PROVE  SpaceInv'
  <2> DEFINE table == [l \in Location |-> IF l \in ids THEN batch[l] ELSE Nowhere]
  <2>1. Rows(table) \subseteq Unused
    BY DEF Rows
  <2> HIDE DEF table
  <2>2. InsertLocations(c, table)
    BY <1>2 DEF table
  <2> QED
    BY <2>1, <2>2, InsertKeeps
<1>3. ASSUME NEW c \in Clerk, CommitSpace(c) PROVE SpaceInv'
  BY <1>3, CommitKeeps
<1>4. ASSUME NEW c \in Clerk, RollbackSpace(c) PROVE SpaceInv'
  BY <1>4, RollbackKeeps
<1>5. ASSUME NEW f \in Facility, CreateFacility(f) PROVE UNCHANGED <<locations, inserted>>
  BY <1>5 DEF CreateFacility
<1>6. ASSUME NEW l \in Location, ReadPath(l) PROVE UNCHANGED <<locations, inserted>>
  BY <1>6 DEF ReadPath, spaceVars
<1>7. ASSUME UNCHANGED spaceVars PROVE UNCHANGED <<locations, inserted>>
  BY <1>7 DEF spaceVars
<1> QED
  BY <1>1, <1>2, <1>3, <1>4, <1>5, <1>6, <1>7 DEF SpaceNext

\* domain/space.py, location_path: for any facilities, locations and number of
\* concurrent clerks, and any statements that insert several locations at once,
\* the path of every committed location runs from a root of its facility down to
\* it and names every ancestor once.
THEOREM PathsCompleteProven == SpaceSpec => []PathsComplete
<1>1. SpaceInit => SpaceInv
  <2> SUFFICES ASSUME SpaceInit PROVE SpaceInv
    OBVIOUS
  <2>1. Rows(NoRows) = {} /\ locations = NoRows /\ inserted = [c \in Clerk |-> NoRows]
    BY DEF SpaceInit, Rows, NoRows
  <2>2. Hierarchy(locations)
    BY <2>1 DEF Hierarchy, ParentsPresent, Grounded
  <2>3. \A c \in Clerk : Hierarchy(Visible(c))
    BY <2>1, <2>2, EmptyOver DEF Visible
  <2> QED
    BY <2>1, <2>2, <2>3 DEF SpaceInv, Apart
<1>2. SpaceInv => PathsComplete
  BY PathComplete DEF SpaceInv, PathsComplete
<1> QED
  BY <1>1, <1>2, SpaceInductive, PTL DEF SpaceSpec
=============================================================================
