----------------------------- MODULE Credentials -----------------------------
(***************************************************************************)
(* The users' rows as AuthService and UserService write them: sign-up, the *)
(* sign-in through a directory or an identity provider that registers its  *)
(* user on the first visit, the life of a reset code and of its ticket,    *)
(* the two ways to a new password, the change of an address, and the mails *)
(* these operations put into the queue.                                    *)
(*                                                                         *)
(* As in BoardMembership, each awaited call is one atomic step.  signIn    *)
(* and logout write nothing.  Names of users are not kept: another row may *)
(* hold a name, or an identity of the provider, whenever one is asked for. *)
(***************************************************************************)
EXTENDS Naturals, Sequences, FiniteSets

CONSTANTS
    Users,       \* ids of rows, each used once
    Emails,      \* addresses
    Passwords,   \* passwords; a row keeps the hash of one
    Codes,       \* reset codes, each drawn once
    Requests,    \* request slots of the server
    None,        \* null, for a row, an address, a password or a code
    Unborn, Deleted, \* what a row is before it is inserted, after it is deleted
    MaxJobs      \* no request that sends a mail starts behind so many jobs

ASSUME NoneIsNone == None \notin Users \cup Emails \cup Passwords \cup Codes
ASSUME MaxJobsIsNatural == MaxJobs \in Nat

VARIABLES
    user,      \* user[u]: the row u, or what u is when there is none
    ticketed,  \* the rows for which a reset ticket is good (the JWT, 15 minutes)
    expired,   \* codes whose 15 minutes are over
    stored,    \* stored[c]: the row and the address code c was stored under
    honoured,  \* honoured[c]: how many tickets were given for code c
    clients,   \* bound connections to the directory
    req,       \* req[r]: the local state of the handler in slot r
    jobs,      \* the queue of mails, the oldest first
    mailed     \* the codes mailed, in this order

rows == <<user, ticketed, expired, stored, honoured>>
mails == <<jobs, mailed>>
vars == <<user, ticketed, expired, stored, honoured, clients, req,
          jobs, mailed>>

-----------------------------------------------------------------------------
(* Rows *)

AuthProvider == {"LOCAL", "EXTERNAL"}  \* GOOGLE, MICROSOFT and LDAP are alike

Row == [email : Emails, authProvider : AuthProvider,
        passwordHash : Passwords \cup {None}, resetToken : Codes \cup {None}]

ASSUME NoRowIsNoRow == Unborn \notin Row /\ Deleted \notin Row /\ Unborn # Deleted

Live == {u \in Users : user[u] \notin {Unborn, Deleted}}

\* findUserByEmail: the column is unique.
ByEmail(e) == {u \in Live : user[u].email = e}

\* Mutant: the row of the first code found.
AnyResetToken(c) == {u \in Live : user[u].resetToken # None}

\* findUserByResetToken
ByResetToken(c) == {u \in Live : user[u].resetToken = c}

(* Requests: the call a handler waits for next, and what it holds.         *)

Handler == {"none", "signUp", "signInWithProvider", "forgotPassword",
            "verifyResetCode", "resetPassword", "changePassword", "updateUser"}

Call == {"idle", "bindAdmin", "searchDn", "bindUser", "bindAdminAgain",
         "searchUser", "findUserByEmail", "findUserByUsername", "createUser",
         "updateUserResetToken", "findUserByResetToken", "clearUserResetToken",
         "findUserById", "updateUserPassword", "updateUser", "add"}

Request ==
    [handler : Handler, call : Call, user : Users \cup {None},
     email : Emails \cup {None}, old : Passwords \cup {None},
     new : Passwords \cup {None}, code : Codes \cup {None}]

Idle == [handler |-> "none", call |-> "idle", user |-> None, email |-> None,
         old |-> None, new |-> None, code |-> None]

(* Mails: a code goes with the mails of forgotPassword only.               *)

Job == [email : Emails, code : Codes \cup {None}, stalled : BOOLEAN]

RecordsOK ==
    /\ user \in [Users -> Row \cup {Unborn, Deleted}]
    /\ ticketed \subseteq Users
    /\ expired \subseteq Codes
    /\ stored \in [Codes -> [user : Users \cup {None}, email : Emails \cup {None}]]
    /\ honoured \in [Codes -> Nat]
    /\ req \in [Requests -> Request]
    /\ jobs \in Seq(Job)
    /\ mailed \in Seq(Codes)

TypeOK == RecordsOK /\ clients \in Nat

Init ==
    /\ user = [u \in Users |-> Unborn]
    /\ ticketed = {}
    /\ expired = {}
    /\ stored = [c \in Codes |-> [user |-> None, email |-> None]]
    /\ honoured = [c \in Codes |-> 0]
    /\ clients = 0
    /\ req = [r \in Requests |-> Idle]
    /\ jobs = <<>>
    /\ mailed = <<>>

-----------------------------------------------------------------------------

At(r, call) == req[r].call = call
By(r, handler) == req[r].handler = handler
Continue(r, call) == req' = [req EXCEPT ![r].call = call]
Finish(r) == req' = [req EXCEPT ![r] = Idle]
Refuse(r) == Finish(r) /\ UNCHANGED <<rows, clients, mails>>

Start(r, record) ==
    /\ req[r] = Idle
    /\ Len(jobs) < MaxJobs
    /\ req' = [req EXCEPT ![r] = record]
    /\ UNCHANGED <<rows, clients, mails>>

\* eventEmitter.emit, then the listener's add: the job is in the queue.
Announce(r) ==
    /\ At(r, "add")
    /\ jobs' = Append(jobs, [email |-> req[r].email, code |-> req[r].code,
                             stalled |-> FALSE])
    /\ Finish(r)
    /\ UNCHANGED <<rows, clients, mailed>>

-----------------------------------------------------------------------------
(* POST /auth/signup *)

RequestSignUp(r) ==
    \E e \in Emails, p \in Passwords :
        Start(r, [Idle EXCEPT !.handler = "signUp", !.call = "findUserByEmail",
                              !.email = e, !.new = p])

SignUpFindUserByEmail(r) ==
    /\ At(r, "findUserByEmail") /\ By(r, "signUp")
    /\ IF ByEmail(req[r].email) # {} THEN Finish(r)
                                     ELSE Continue(r, "findUserByUsername")
    /\ UNCHANGED <<rows, clients, mails>>

\* The name is free, or it is another row's.
FindUserByUsername(r) ==
    /\ At(r, "findUserByUsername")
    /\ \/ Continue(r, "createUser")
       \/ Finish(r)
    /\ UNCHANGED <<rows, clients, mails>>

\* Mutant: a column that is not unique.
InsertUnchecked(r) == TRUE

\* The insert meets the unique columns.
CanInsert(r) == ByEmail(req[r].email) = {}

CreateUser(r) ==
    /\ At(r, "createUser")
    /\ \/ /\ CanInsert(r)
          /\ \E u \in Users :
                /\ user[u] = Unborn
                /\ user' = [user EXCEPT ![u] =
                      [email |-> req[r].email,
                       authProvider |-> IF By(r, "signUp") THEN "LOCAL"
                                                           ELSE "EXTERNAL",
                       passwordHash |-> req[r].new,
                       resetToken |-> None]]
          /\ IF By(r, "signUp") THEN Continue(r, "add") ELSE Finish(r)
          /\ UNCHANGED <<ticketed, expired, stored, honoured, clients, mails>>
       \/ Refuse(r)

-----------------------------------------------------------------------------
(* POST /auth/signin-ldap, GET /auth/google/callback and its like          *)

\* A provider's callback knows the address at once; LDAP asks the directory.
RequestProvider(r) ==
    \E e \in Emails :
        Start(r, [Idle EXCEPT !.handler = "signInWithProvider",
                              !.call = "findUserByEmail", !.email = e])

RequestLdap(r) ==
    Start(r, [Idle EXCEPT !.handler = "signInWithProvider", !.call = "bindAdmin"])

\* getBoundAdminClient, of findUserDn and again of getUserAttributes.
BindAdmin(r) ==
    /\ \/ At(r, "bindAdmin") /\ Continue(r, "searchDn")
       \/ At(r, "bindAdminAgain") /\ Continue(r, "searchUser")
    /\ clients' = clients + 1
    /\ UNCHANGED <<rows, mails>>

\* Mutant: the admin's client is unbound in the try and again in the finally.
SearchDnUnbindsTwice(r) ==
    /\ At(r, "searchDn")
    /\ \/ Continue(r, "bindUser")
       \/ Finish(r)
    /\ clients' = clients - 2
    /\ UNCHANGED <<rows, mails>>

\* Mutant: the admin's client stays bound when nobody is found.
SearchDnKeepsClient(r) ==
    /\ At(r, "searchDn")
    /\ \/ Continue(r, "bindUser") /\ clients' = clients - 1
       \/ Finish(r) /\ UNCHANGED clients
    /\ UNCHANGED <<rows, mails>>

\* findUserDn: the admin's client is unbound whatever the search brings.
SearchDn(r) ==
    /\ At(r, "searchDn")
    /\ \/ Continue(r, "bindUser")
       \/ Finish(r)
    /\ clients' = clients - 1
    /\ UNCHANGED <<rows, mails>>

\* The user's client is bound, or refused and unbound.
BindUser(r) ==
    /\ At(r, "bindUser")
    /\ \/ Continue(r, "bindAdminAgain") /\ clients' = clients + 1
       \/ Finish(r) /\ UNCHANGED clients
    /\ UNCHANGED <<rows, mails>>

\* The attributes bring the address; both clients are unbound.
SearchUser(r) ==
    /\ At(r, "searchUser")
    /\ \/ \E e \in Emails :
             req' = [req EXCEPT ![r].call = "findUserByEmail", ![r].email = e]
       \/ Finish(r)
    /\ clients' = clients - 2
    /\ UNCHANGED <<rows, mails>>

\* The connections a handler holds: an error on its way unbinds them.
Held(r) ==
    CASE At(r, "searchDn") \/ At(r, "bindAdminAgain") -> 1
      [] At(r, "searchUser") -> 2
      [] OTHER -> 0

ProviderFindUserByEmail(r) ==
    /\ At(r, "findUserByEmail") /\ By(r, "signInWithProvider")
    /\ IF ByEmail(req[r].email) # {} THEN Finish(r) ELSE Continue(r, "createUser")
    /\ UNCHANGED <<rows, clients, mails>>

-----------------------------------------------------------------------------
(* POST /auth/forgot-password *)

\* randomBytes(6): no two codes are alike.
FreshCodes ==
    {c \in Codes : /\ stored[c].user = None
                   /\ \A r \in Requests : req[r].code # c}

\* The code is drawn when the row is found; nothing sees it before.
RequestForgot(r) ==
    \E e \in Emails, c \in FreshCodes :
        Start(r, [Idle EXCEPT !.handler = "forgotPassword",
                              !.call = "findUserByEmail", !.email = e, !.code = c])

ForgotFindUserByEmail(r) ==
    /\ At(r, "findUserByEmail") /\ By(r, "forgotPassword")
    /\ IF ByEmail(req[r].email) = {} THEN Finish(r)
       ELSE \E u \in ByEmail(req[r].email) :
               req' = [req EXCEPT ![r].call = "updateUserResetToken", ![r].user = u]
    /\ UNCHANGED <<rows, clients, mails>>

\* Mutant: the row that was found takes the code, whatever its address is now.
UpdateUserResetTokenById(r) ==
    /\ At(r, "updateUserResetToken")
    /\ LET u == req[r].user
           c == req[r].code
       IN  \/ /\ u \in Live
              /\ user' = [user EXCEPT ![u].resetToken = c]
              /\ stored' = [stored EXCEPT ![c] = [user |-> u, email |-> user[u].email]]
              /\ Continue(r, "add")
              /\ UNCHANGED <<ticketed, expired, honoured, clients, mails>>
           \/ u \notin Live /\ Refuse(r)

\* Mutant: a row keeps the code it has.
KeepOlderCode(r) ==
    /\ At(r, "updateUserResetToken")
    /\ \E u \in ByEmail(req[r].email) :
          /\ user' = [user EXCEPT ![u].resetToken = IF @ = None THEN req[r].code ELSE @]
          /\ stored' = [stored EXCEPT ![req[r].code] =
                           [user |-> u, email |-> user[u].email]]
          /\ Continue(r, "add")
          /\ UNCHANGED <<ticketed, expired, honoured, clients, mails>>

\* The row that has the address now takes the code.
UpdateUserResetToken(r) ==
    /\ At(r, "updateUserResetToken")
    /\ \/ \E u \in ByEmail(req[r].email) :
             /\ user' = [user EXCEPT ![u].resetToken = req[r].code]
             /\ stored' = [stored EXCEPT ![req[r].code] =
                              [user |-> u, email |-> user[u].email]]
             /\ Continue(r, "add")
             /\ UNCHANGED <<ticketed, expired, honoured, clients, mails>>
       \/ ByEmail(req[r].email) = {} /\ Refuse(r)

-----------------------------------------------------------------------------
(* POST /auth/verify-reset-code *)

\* The user types a code from a mail.
RequestVerify(r) ==
    \E i \in 1..Len(mailed) :
        Start(r, [Idle EXCEPT !.handler = "verifyResetCode",
                              !.call = "findUserByResetToken", !.code = mailed[i]])

\* The row is read once.  An expired code is refused, after it is cleared too:
\* the handler then holds no code.
FindUserByResetToken(r) ==
    /\ At(r, "findUserByResetToken")
    /\ LET c == req[r].code
       IN  \/ ByResetToken(c) = {} /\ Finish(r)
           \/ \E u \in ByResetToken(c) :
                 req' = [req EXCEPT ![r].call = "clearUserResetToken",
                                    ![r].user = u,
                                    ![r].code = IF c \in expired THEN None ELSE c]
    /\ UNCHANGED <<rows, clients, mails>>

\* Mutant: an accepted code stays in the row.
KeepResetToken(r) ==
    /\ At(r, "clearUserResetToken")
    /\ req[r].code # None
    /\ honoured' = [honoured EXCEPT ![req[r].code] = @ + 1]
    /\ ticketed' = ticketed \cup {req[r].user}
    /\ Finish(r)
    /\ UNCHANGED <<user, expired, stored, clients, mails>>

\* The row's code is cleared, and the ticket signed before is handed out.
ClearUserResetToken(r) ==
    /\ At(r, "clearUserResetToken")
    /\ LET u == req[r].user
           c == req[r].code
       IN  \/ /\ u \in Live
              /\ user' = [user EXCEPT ![u].resetToken = None]
              /\ IF c # None
                 THEN /\ honoured' = [honoured EXCEPT ![c] = @ + 1]
                      /\ ticketed' = ticketed \cup {u}
                 ELSE UNCHANGED <<honoured, ticketed>>
              /\ Finish(r)
              /\ UNCHANGED <<expired, stored, clients, mails>>
           \/ u \notin Live /\ Refuse(r)

-----------------------------------------------------------------------------
(* POST /auth/reset-password and PATCH /auth/change-password               *)

\* ResetPasswordGuard checks the ticket, and only it.
RequestReset(r) ==
    \E u \in ticketed, p \in Passwords :
        Start(r, [Idle EXCEPT !.handler = "resetPassword", !.call = "findUserById",
                              !.user = u, !.new = p])

\* JwtStrategy.validate has found the row.
RequestChange(r) ==
    \E u \in Live, p, q \in Passwords :
        Start(r, [Idle EXCEPT !.handler = "changePassword", !.call = "findUserById",
                              !.user = u, !.old = p, !.new = q])

ResetFindUserById(r) ==
    /\ At(r, "findUserById") /\ By(r, "resetPassword")
    /\ IF req[r].user \in Live
       THEN req' = [req EXCEPT ![r].call = "updateUserPassword",
                               ![r].email = user[req[r].user].email]
       ELSE Finish(r)
    /\ UNCHANGED <<rows, clients, mails>>

\* Mutant: a row without a password takes any.
OldPasswordUnchecked(r) ==
    user[req[r].user].passwordHash \in {None, req[r].old}

\* The row has a password, and argon2.verify accepts the old one.
IsOldPasswordValid(r) == user[req[r].user].passwordHash = req[r].old

ChangeFindUserById(r) ==
    /\ At(r, "findUserById") /\ By(r, "changePassword")
    /\ IF req[r].user \in Live /\ IsOldPasswordValid(r)
       THEN req' = [req EXCEPT ![r].call = "updateUserPassword",
                               ![r].email = user[req[r].user].email]
       ELSE Finish(r)
    /\ UNCHANGED <<rows, clients, mails>>

UpdateUserPassword(r) ==
    /\ At(r, "updateUserPassword")
    /\ \/ /\ req[r].user \in Live
          /\ user' = [user EXCEPT ![req[r].user].passwordHash = req[r].new]
          /\ Continue(r, "add")
          /\ UNCHANGED <<ticketed, expired, stored, honoured, clients, mails>>
       \/ req[r].user \notin Live /\ Refuse(r)

-----------------------------------------------------------------------------
(* PUT /me with an address, DELETE /me *)

RequestUpdate(r) ==
    \E u \in Live, e \in Emails :
        Start(r, [Idle EXCEPT !.handler = "updateUser", !.call = "findUserById",
                              !.user = u, !.email = e])

UpdateFindUserById(r) ==
    /\ At(r, "findUserById") /\ By(r, "updateUser")
    /\ IF req[r].user \in Live /\ user[req[r].user].authProvider = "LOCAL"
       THEN Continue(r, "updateUser")
       ELSE Finish(r)
    /\ UNCHANGED <<rows, clients, mails>>

UpdateUser(r) ==
    /\ At(r, "updateUser")
    /\ LET u == req[r].user
           e == req[r].email
       IN  \/ /\ u \in Live /\ ByEmail(e) \subseteq {u}
              /\ user' = [user EXCEPT ![u].email = e]
              /\ Finish(r)
              /\ UNCHANGED <<ticketed, expired, stored, honoured, clients, mails>>
           \/ ~(u \in Live /\ ByEmail(e) \subseteq {u}) /\ Refuse(r)

\* UserAccount has the calls of deleteAccount; its write is this one.
DeleteUser ==
    \E u \in Live :
        /\ user' = [user EXCEPT ![u] = Deleted]
        /\ UNCHANGED <<ticketed, expired, stored, honoured, clients, req, mails>>

-----------------------------------------------------------------------------
(* Time *)

CodeExpires ==
    \E c \in Codes \ expired :
        /\ stored[c].user # None
        /\ expired' = expired \cup {c}
        /\ UNCHANGED <<user, ticketed, stored, honoured, clients, req, mails>>

TicketExpires ==
    \E u \in ticketed :
        /\ ticketed' = ticketed \ {u}
        /\ UNCHANGED <<user, expired, stored, honoured, clients, req, mails>>

-----------------------------------------------------------------------------
(* EmailProcessor: one worker, one job at a time, one attempt for each     *)

Sent == IF Head(jobs).code = None THEN mailed ELSE Append(mailed, Head(jobs).code)

\* sendMail answers and the job is done.
Process ==
    /\ jobs # <<>>
    /\ jobs' = Tail(jobs)
    /\ mailed' = Sent
    /\ UNCHANGED <<rows, clients, req>>

\* Mutant: a job that runs again does so behind those that wait.
StallToTheBack ==
    /\ jobs # <<>> /\ ~Head(jobs).stalled
    /\ jobs' = Append(Tail(jobs), [Head(jobs) EXCEPT !.stalled = TRUE])
    /\ mailed' \in {mailed, Sent}
    /\ UNCHANGED <<rows, clients, req>>

\* The worker dies, or is held up, before or after sendMail: the job runs again,
\* before those that wait.
Stall ==
    /\ jobs # <<>> /\ ~Head(jobs).stalled
    /\ jobs' = [jobs EXCEPT ![1].stalled = TRUE]
    /\ mailed' \in {mailed, Sent}
    /\ UNCHANGED <<rows, clients, req>>

\* sendMail throws, or the worker dies a second time: the job has failed.
JobFails ==
    /\ jobs # <<>>
    /\ jobs' = Tail(jobs)
    /\ UNCHANGED <<rows, clients, req, mailed>>

-----------------------------------------------------------------------------

\* A handler ends by an error, or dies; an announcement may be lost so.
Fail(r) ==
    /\ req[r] # Idle
    /\ Finish(r)
    /\ clients' = clients - Held(r)
    /\ UNCHANGED <<rows, mails>>

Serve(r) ==
    \/ RequestSignUp(r) \/ SignUpFindUserByEmail(r) \/ FindUserByUsername(r)
    \/ CreateUser(r)
    \/ RequestProvider(r) \/ RequestLdap(r) \/ BindAdmin(r) \/ SearchDn(r)
    \/ BindUser(r) \/ SearchUser(r) \/ ProviderFindUserByEmail(r)
    \/ RequestForgot(r) \/ ForgotFindUserByEmail(r) \/ UpdateUserResetToken(r)
    \/ RequestVerify(r) \/ FindUserByResetToken(r) \/ ClearUserResetToken(r)
    \/ RequestReset(r) \/ ResetFindUserById(r)
    \/ RequestChange(r) \/ ChangeFindUserById(r) \/ UpdateUserPassword(r)
    \/ RequestUpdate(r) \/ UpdateFindUserById(r) \/ UpdateUser(r)
    \/ Announce(r)

Steps ==
    \/ \E r \in Requests : Serve(r)
    \/ DeleteUser \/ CodeExpires \/ TicketExpires
    \/ Process \/ Stall

Faults == JobFails \/ \E r \in Requests : Fail(r)

Next == Steps \/ Faults

Spec == Init /\ [][Next]_vars

-----------------------------------------------------------------------------
(* Properties *)

\* Whatever sign-ups, callbacks and changes of address overlap, an address
\* has one row: findUserByEmail, which every handler trusts, finds the only one.
OneRowPerAddress ==
    \A u, v \in Live : user[u].email = user[v].email => u = v

\* A reset mail carries its code to the address of the row that took the code,
\* though the row may get another address, or another row this one, meanwhile.
CodesGoToTheirAddress ==
    \A i \in DOMAIN jobs :
        jobs[i].code # None => stored[jobs[i].code].email = jobs[i].email

\* A row registered by a provider has a password only after a reset code of
\* its own was honoured: changePassword gives nobody his first password.
ExternalPasswordsAreReset ==
    \A u \in Live :
        user[u].authProvider = "EXTERNAL" /\ user[u].passwordHash # None
            => \E c \in Codes : stored[c].user = u /\ honoured[c] > 0

\* When no request is under way no connection to the directory is bound, by
\* whichever of its exits each authenticateLdap has left.
ClientsAreUnbound == (\A r \in Requests : req[r] = Idle) => clients = 0

-----------------------------------------------------------------------------
(* The inductive invariant *)

\* A code of the row u has been honoured.
Earned(u) == \E c \in Codes : stored[c].user = u /\ honoured[c] > 0

\* q has drawn a code and not stored it yet.
Pending(q) ==
    q.handler = "forgotPassword" /\ q.call \in {"findUserByEmail", "updateUserResetToken"}

\* What a handler holds when it waits for a call.
ShapeOK(q) ==
    /\ q.handler \in {"none", "signUp", "signInWithProvider", "resetPassword",
                     "changePassword", "updateUser"} => q.code = None
    /\ q.handler = "forgotPassword" \/ q.call = "findUserByResetToken" => q.code \in Codes
    /\ q.call \in {"findUserByEmail", "findUserByUsername", "createUser", "add",
                   "updateUserResetToken", "updateUserPassword"}
         \/ q.handler = "updateUser"
         => q.email \in Emails
    /\ q.handler \in {"resetPassword", "changePassword", "updateUser"}
         \/ q.call = "clearUserResetToken"
         => q.user \in Users
    /\ q.handler \in {"resetPassword", "changePassword"} => q.new \in Passwords
    /\ q.handler = "changePassword" => q.old \in Passwords
    /\ q.handler = "signInWithProvider" => q.new = None
    /\ q.call = "createUser" => q.handler \in {"signUp", "signInWithProvider"}
    /\ q.call = "findUserByUsername" => q.handler = "signUp"
    /\ q.call \in {"searchUser", "bindAdmin", "searchDn", "bindUser", "bindAdminAgain"}
         => q.handler = "signInWithProvider"
    /\ q.call \in {"findUserByResetToken", "clearUserResetToken"} => q.handler = "verifyResetCode"
    /\ q.call = "updateUserResetToken" => q.handler = "forgotPassword"
    /\ q.call = "updateUserPassword" => q.handler \in {"resetPassword", "changePassword"}
    /\ q.call = "updateUser" => q.handler = "updateUser"

\* What a handler knows of the rows it has read.
Knows(q) ==
    /\ Pending(q) => stored[q.code].user = None
    /\ q.call = "add" /\ q.code # None =>
          stored[q.code].user # None /\ stored[q.code].email = q.email
    /\ q.call = "clearUserResetToken" /\ q.code # None => stored[q.code].user = q.user
    /\ q.handler = "resetPassword" => Earned(q.user)
    /\ q.handler = "changePassword" /\ q.call = "updateUserPassword" =>
          /\ user[q.user] # Unborn
          /\ q.user \in Live /\ user[q.user].authProvider = "EXTERNAL" => Earned(q.user)

CodesAreDrawnOnce ==
    \A r, s \in Requests :
        Pending(req[r]) /\ Pending(req[s]) /\ req[r].code = req[s].code => r = s

TokensAreStored ==
    \A u \in Live : user[u].resetToken # None => stored[user[u].resetToken].user = u

TicketsAreEarned == \A u \in ticketed : Earned(u)

MailedCodesAreStored ==
    \A i \in DOMAIN jobs :
        jobs[i].code # None => stored[jobs[i].code].user # None
                               /\ stored[jobs[i].code].email = jobs[i].email

RowsInv ==
    /\ OneRowPerAddress
    /\ TokensAreStored
    /\ TicketsAreEarned
    /\ ExternalPasswordsAreReset

\* The connections that are bound, one or two for a handler.
Bound == {p \in Requests \X {1, 2} : p[2] <= Held(p[1])}

ClientsAreHeld == IsFiniteSet(Bound) /\ clients = Cardinality(Bound)

CredentialsInv ==
    /\ RecordsOK
    /\ RowsInv
    /\ MailedCodesAreStored
    /\ CodesAreDrawnOnce
    /\ \A r \in Requests : ShapeOK(req[r]) /\ Knows(req[r])

=============================================================================
