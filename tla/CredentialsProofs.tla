-------------------------- MODULE CredentialsProofs --------------------------
(***************************************************************************)
(* Addresses stay unique, reset codes are mailed where they belong, and no *)
(* external user gets a password without one: for any number of rows,      *)
(* codes and overlapping requests, whatever fails.                         *)
(*                                                                         *)
(* The invariant says of the record of each request what its handler still *)
(* knows of the rows it has read (Knows).  A step changes the record of    *)
(* one request, or the rows in a way that leaves what the others know true *)
(* (Progress), or the queue; there is one lemma for each of the three.     *)
(*                                                                         *)
(* The count of bound connections is that of the pairs Bound, to which a   *)
(* step of one handler adds its own or takes them away.  Where requests    *)
(* come one at a time and nothing fails, the handler that is at work also  *)
(* knows what nobody has written since (Alone).                            *)
(***************************************************************************)
EXTENDS MCCredentials, SequenceTheorems, FiniteSetTheorems, TLAPS

LEMMA IdleIsFine ==
    /\ Idle \in Request
    /\ ShapeOK(Idle)
    /\ Knows(Idle)
    /\ ~Pending(Idle)
BY DEF Idle, Request, Handler, Call, ShapeOK, Knows, Pending

LEMMA InitEstablishesCredentialsInv == Init => CredentialsInv
<1> SUFFICES ASSUME Init PROVE CredentialsInv
  OBVIOUS
<1>1. RecordsOK
  <2>1. req \in [Requests -> Request]
    BY IdleIsFine DEF Init
  <2>2. jobs \in Seq(Job) /\ mailed \in Seq(Codes)
    BY DEF Init
  <2> QED
    BY <2>1, <2>2 DEF Init, RecordsOK
<1>2. Live = {}
  BY DEF Init, Live
<1>3. RowsInv
  BY <1>2 DEF Init, RowsInv, OneRowPerAddress, TokensAreStored,
     TicketsAreEarned, ExternalPasswordsAreReset
<1>4. MailedCodesAreStored
  BY DEF Init, MailedCodesAreStored
<1>5. \A r \in Requests : req[r] = Idle
  BY DEF Init
<1> QED
  BY <1>1, <1>3, <1>4, <1>5, IdleIsFine DEF CredentialsInv, CodesAreDrawnOnce

-----------------------------------------------------------------------------
(* The three kinds of step *)

\* The handler of r goes on with the record q; rows and mails stay.
LEMMA LocalStep ==
    ASSUME CredentialsInv, NEW r \in Requests, NEW q \in Request,
           req' = [req EXCEPT ![r] = q], UNCHANGED <<rows, mails>>,
           ShapeOK(q), Knows(q),
           Pending(q) => \A s \in Requests \ {r} : Pending(req[s]) => req[s].code # q.code
    PROVE  CredentialsInv'
<1>1. /\ req'[r] = q
      /\ \A s \in Requests \ {r} : req'[s] = req[s]
  BY DEF CredentialsInv, RecordsOK
<1>2. RecordsOK'
  BY DEF CredentialsInv, RecordsOK, rows, mails
<1>3. RowsInv'
  BY DEF CredentialsInv, RowsInv, OneRowPerAddress, TokensAreStored, TicketsAreEarned,
     ExternalPasswordsAreReset, Earned, Live, rows
<1>4. MailedCodesAreStored'
  BY DEF CredentialsInv, MailedCodesAreStored, rows, mails
<1>5. CodesAreDrawnOnce'
  BY <1>1 DEF CredentialsInv, CodesAreDrawnOnce, Pending
<1>6. \A s \in Requests : ShapeOK(req[s])'
  BY <1>1 DEF CredentialsInv, ShapeOK
<1>7. \A s \in Requests : Knows(req[s])'
  BY <1>1 DEF CredentialsInv, Knows, Pending, Earned, Live, rows
<1> QED
  BY <1>2, <1>3, <1>4, <1>5, <1>6, <1>7 DEF CredentialsInv

\* The handler of r ends, well or badly.
LEMMA FinishKeepsCredentialsInv ==
    ASSUME CredentialsInv, NEW r \in Requests, Finish(r), UNCHANGED <<rows, mails>>
    PROVE  CredentialsInv'
BY IdleIsFine, LocalStep DEF Finish

\* What a write never undoes: rows do not come back or change sides, a code that
\* is stored stays with its row and address, and tickets given stay given.
Progress ==
    /\ \A u \in Users :
          /\ user[u] # Unborn => user'[u] # Unborn
          /\ user[u] = Deleted => user'[u] = Deleted
          /\ u \in Live /\ u \in Live' => user'[u].authProvider = user[u].authProvider
    /\ \A c \in Codes :
          /\ stored[c].user # None => stored'[c] = stored[c]
          /\ honoured[c] > 0 => honoured'[c] > 0

LEMMA EarnedStaysEarned ==
    ASSUME RecordsOK, Progress
    PROVE  \A u \in Users : Earned(u) => Earned(u)'
<1> SUFFICES ASSUME NEW u \in Users, NEW c \in Codes, stored[c].user = u, honoured[c] > 0
             PROVE  stored'[c].user = u /\ honoured'[c] > 0
  BY DEF Earned
<1> QED
  BY NoneIsNone DEF Progress

LEMMA KnowledgeStays ==
    ASSUME RecordsOK, Progress, NEW q \in Request, ShapeOK(q), Knows(q),
           Pending(q) => stored'[q.code].user = None
    PROVE  Knows(q)'
<1>1. q.code # None => q.code \in Codes
  BY DEF Request
<1>2. q.call = "add" /\ q.code # None =>
        stored'[q.code].user # None /\ stored'[q.code].email = q.email
  BY <1>1 DEF Progress, Knows
<1>3. q.call = "clearUserResetToken" /\ q.code # None => stored'[q.code].user = q.user
  BY <1>1, NoneIsNone DEF Progress, Knows, ShapeOK
<1>4. q.handler = "resetPassword" => Earned(q.user)'
  BY EarnedStaysEarned DEF Knows, ShapeOK
<1>5. ASSUME q.handler = "changePassword", q.call = "updateUserPassword"
      PROVE  /\ user'[q.user] # Unborn
             /\ q.user \in Live' /\ user'[q.user].authProvider = "EXTERNAL" => Earned(q.user)'
  <2>1. q.user \in Users /\ user[q.user] # Unborn
    BY <1>5 DEF ShapeOK, Knows
  <2>2. q.user \in Live' => q.user \in Live
    BY <2>1 DEF Progress, Live
  <2> QED
    BY <1>5, <2>1, <2>2, EarnedStaysEarned DEF Progress, Knows
<1> QED
  BY <1>2, <1>3, <1>4, <1>5 DEF Knows, Pending

LEMMA MailedStaysStored ==
    ASSUME RecordsOK, Progress, MailedCodesAreStored, jobs' = jobs
    PROVE  MailedCodesAreStored'
<1> SUFFICES ASSUME NEW i \in DOMAIN jobs, jobs[i].code # None
             PROVE  stored'[jobs[i].code] = stored[jobs[i].code]
                    /\ stored[jobs[i].code].user # None
  BY DEF MailedCodesAreStored
<1>1. jobs[i] \in Job
  BY ElementOfSeq DEF RecordsOK
<1>2. jobs[i].code \in Codes
  BY <1>1 DEF Job
<1> QED
  BY <1>2 DEF MailedCodesAreStored, Progress

\* The handler of r writes rows and goes on with the record q.
LEMMA WriteStep ==
    ASSUME CredentialsInv, NEW r \in Requests, NEW q \in Request,
           req' = [req EXCEPT ![r] = q], UNCHANGED mails,
           Progress, RecordsOK', RowsInv', ShapeOK(q), Knows(q)', ~Pending(q),
           \A s \in Requests \ {r} : Pending(req[s]) => stored'[req[s].code].user = None
    PROVE  CredentialsInv'
<1>1. /\ req'[r] = q
      /\ \A s \in Requests \ {r} : req'[s] = req[s]
  BY DEF CredentialsInv, RecordsOK
<1>2. MailedCodesAreStored'
  BY MailedStaysStored DEF CredentialsInv, mails
<1>3. CodesAreDrawnOnce'
  BY <1>1 DEF CredentialsInv, CodesAreDrawnOnce, Pending
<1>4. \A s \in Requests : ShapeOK(req[s])'
  BY <1>1 DEF CredentialsInv, ShapeOK
<1>5. ASSUME NEW s \in Requests
      PROVE  Knows(req[s])'
  <2>1. PICK p \in Request : p = req'[s]
    BY DEF RecordsOK
  <2>2. CASE s = r
    <3>1. p = q
      BY <1>1, <2>1, <2>2
    <3> QED
      BY <2>1, <3>1 DEF Knows, Pending, Earned, Live
  <2>3. CASE s # r
    <3>1. p = req[s] /\ ShapeOK(p) /\ Knows(p)
      BY <1>1, <2>1, <2>3 DEF CredentialsInv
    <3>2. Knows(p)'
      BY <2>3, <3>1, KnowledgeStays DEF CredentialsInv
    <3> QED
      BY <2>1, <3>2 DEF Knows, Pending, Earned, Live
  <2> QED
    BY <2>2, <2>3
<1> QED
  BY <1>2, <1>3, <1>4, <1>5 DEF CredentialsInv

-----------------------------------------------------------------------------
(* Steps that write nothing but the record of their request *)

LEMMA NoneIsNoValue ==
    /\ None \notin Users /\ None \notin Emails
    /\ None \notin Passwords /\ None \notin Codes
BY NoneIsNone

\* A new request that draws no code.
LEMMA StartsKeepCredentialsInv ==
    ASSUME CredentialsInv, NEW r \in Requests,
           \/ RequestSignUp(r) \/ RequestProvider(r) \/ RequestLdap(r)
           \/ RequestVerify(r) \/ RequestReset(r) \/ RequestChange(r)
           \/ RequestUpdate(r)
    PROVE  CredentialsInv'
<1>1. ASSUME NEW q \in Request, Start(r, q), ShapeOK(q), Knows(q), ~Pending(q)
      PROVE  CredentialsInv'
  BY <1>1, LocalStep DEF Start
<1>2. Live \subseteq Users /\ ticketed \subseteq Users
  BY DEF Live, CredentialsInv, RecordsOK
<1>3. CASE RequestSignUp(r)
  <2>1. PICK e \in Emails, p \in Passwords :
          Start(r, [Idle EXCEPT !.handler = "signUp", !.call = "findUserByEmail",
                                !.email = e, !.new = p])
    BY <1>3 DEF RequestSignUp
  <2> DEFINE q == [Idle EXCEPT !.handler = "signUp", !.call = "findUserByEmail",
                               !.email = e, !.new = p]
  <2>2. q \in Request /\ ShapeOK(q) /\ Knows(q) /\ ~Pending(q)
    BY DEF Idle, Request, Handler, Call, ShapeOK, Knows, Pending
  <2> QED
    BY <1>1, <2>1, <2>2
<1>4. CASE RequestProvider(r)
  <2>1. PICK e \in Emails :
          Start(r, [Idle EXCEPT !.handler = "signInWithProvider",
                                !.call = "findUserByEmail", !.email = e])
    BY <1>4 DEF RequestProvider
  <2> DEFINE q == [Idle EXCEPT !.handler = "signInWithProvider",
                               !.call = "findUserByEmail", !.email = e]
  <2>2. q \in Request /\ ShapeOK(q) /\ Knows(q) /\ ~Pending(q)
    BY DEF Idle, Request, Handler, Call, ShapeOK, Knows, Pending
  <2> QED
    BY <1>1, <2>1, <2>2
<1>5. CASE RequestLdap(r)
  <2> DEFINE q == [Idle EXCEPT !.handler = "signInWithProvider", !.call = "bindAdmin"]
  <2>1. q \in Request /\ ShapeOK(q) /\ Knows(q) /\ ~Pending(q)
    BY DEF Idle, Request, Handler, Call, ShapeOK, Knows, Pending
  <2> QED
    BY <1>1, <1>5, <2>1 DEF RequestLdap
<1>6. CASE RequestVerify(r)
  <2>1. PICK i \in 1..Len(mailed) :
          Start(r, [Idle EXCEPT !.handler = "verifyResetCode",
                                !.call = "findUserByResetToken", !.code = mailed[i]])
    BY <1>6 DEF RequestVerify
  <2> DEFINE q == [Idle EXCEPT !.handler = "verifyResetCode",
                               !.call = "findUserByResetToken", !.code = mailed[i]]
  <2>2. mailed[i] \in Codes
    BY ElementOfSeq DEF CredentialsInv, RecordsOK
  <2>3. q \in Request /\ ShapeOK(q) /\ Knows(q) /\ ~Pending(q)
    BY <2>2 DEF Idle, Request, Handler, Call, ShapeOK, Knows, Pending
  <2> QED
    BY <1>1, <2>1, <2>3
<1>7. CASE RequestReset(r)
  <2>1. PICK u \in ticketed, p \in Passwords :
          Start(r, [Idle EXCEPT !.handler = "resetPassword", !.call = "findUserById",
                                !.user = u, !.new = p])
    BY <1>7 DEF RequestReset
  <2> DEFINE q == [Idle EXCEPT !.handler = "resetPassword", !.call = "findUserById",
                               !.user = u, !.new = p]
  <2>2. Earned(u)
    BY DEF CredentialsInv, RowsInv, TicketsAreEarned
  <2>3. q \in Request /\ ShapeOK(q) /\ ~Pending(q)
    BY <1>2 DEF Idle, Request, Handler, Call, ShapeOK, Pending
  <2>4. Knows(q)
    BY <2>2 DEF Idle, Knows, Pending
  <2> QED
    BY <1>1, <2>1, <2>3, <2>4
<1>8. CASE RequestChange(r)
  <2>1. PICK u \in Live, p, n \in Passwords :
          Start(r, [Idle EXCEPT !.handler = "changePassword", !.call = "findUserById",
                                !.user = u, !.old = p, !.new = n])
    BY <1>8 DEF RequestChange
  <2> DEFINE q == [Idle EXCEPT !.handler = "changePassword", !.call = "findUserById",
                               !.user = u, !.old = p, !.new = n]
  <2>2. q \in Request /\ ShapeOK(q) /\ Knows(q) /\ ~Pending(q)
    BY <1>2 DEF Idle, Request, Handler, Call, ShapeOK, Knows, Pending
  <2> QED
    BY <1>1, <2>1, <2>2
<1>9. CASE RequestUpdate(r)
  <2>1. PICK u \in Live, e \in Emails :
          Start(r, [Idle EXCEPT !.handler = "updateUser", !.call = "findUserById",
                                !.user = u, !.email = e])
    BY <1>9 DEF RequestUpdate
  <2> DEFINE q == [Idle EXCEPT !.handler = "updateUser", !.call = "findUserById",
                               !.user = u, !.email = e]
  <2>2. q \in Request /\ ShapeOK(q) /\ Knows(q) /\ ~Pending(q)
    BY <1>2 DEF Idle, Request, Handler, Call, ShapeOK, Knows, Pending
  <2> QED
    BY <1>1, <2>1, <2>2
<1> QED
  BY <1>3, <1>4, <1>5, <1>6, <1>7, <1>8, <1>9

\* A code is drawn that no request holds and no row has had.
LEMMA ForgotStartsFresh ==
    ASSUME CredentialsInv, NEW r \in Requests, RequestForgot(r)
    PROVE  CredentialsInv'
<1>1. PICK e \in Emails, c \in FreshCodes :
        Start(r, [Idle EXCEPT !.handler = "forgotPassword",
                              !.call = "findUserByEmail", !.email = e, !.code = c])
  BY DEF RequestForgot
<1> DEFINE q == [Idle EXCEPT !.handler = "forgotPassword",
                             !.call = "findUserByEmail", !.email = e, !.code = c]
<1>2. c \in Codes /\ stored[c].user = None /\ \A s \in Requests : req[s].code # c
  BY DEF FreshCodes
<1>3. q \in Request /\ ShapeOK(q) /\ Knows(q)
  BY <1>2 DEF Idle, Request, Handler, Call, ShapeOK, Knows, Pending
<1>4. q.code = c
  BY DEF Idle
<1> HIDE DEF q
<1> QED
  BY <1>1, <1>2, <1>3, <1>4, LocalStep DEF Start, q

\* A handler that goes on with what it holds and draws no code.
LEMMA GoingOnKeepsCredentialsInv ==
    ASSUME CredentialsInv, NEW r \in Requests, UNCHANGED <<rows, mails>>,
           NEW q \in Request, req' = [req EXCEPT ![r] = q],
           ShapeOK(q), Knows(q), Pending(q) => Pending(req[r]) /\ q.code = req[r].code
    PROVE  CredentialsInv'
<1>1. Pending(q) => \A s \in Requests \ {r} : Pending(req[s]) => req[s].code # q.code
  BY DEF CredentialsInv, CodesAreDrawnOnce
<1> QED
  BY <1>1, LocalStep

LEMMA LookupsKeepCredentialsInv ==
    ASSUME CredentialsInv, NEW r \in Requests,
           \/ SignUpFindUserByEmail(r) \/ FindUserByUsername(r)
           \/ BindAdmin(r) \/ SearchDn(r) \/ BindUser(r)
           \/ ProviderFindUserByEmail(r) \/ UpdateFindUserById(r)
    PROVE  CredentialsInv'
<1>1. req[r] \in Request /\ ShapeOK(req[r]) /\ UNCHANGED <<rows, mails>>
  BY DEF CredentialsInv, RecordsOK, SignUpFindUserByEmail, FindUserByUsername,
     BindAdmin, SearchDn, BindUser, ProviderFindUserByEmail, UpdateFindUserById
<1>2. CASE Finish(r)
  BY <1>1, <1>2, FinishKeepsCredentialsInv
<1>3. ASSUME NEW call \in Call, Continue(r, call),
             call \in {"findUserByUsername", "createUser", "searchDn", "searchUser",
                      "bindUser", "bindAdminAgain", "updateUser"},
             ShapeOK([req[r] EXCEPT !.call = call]),
             req[r].handler \in {"signUp", "signInWithProvider", "updateUser"}
      PROVE  CredentialsInv'
  <2> DEFINE q == [req[r] EXCEPT !.call = call]
  <2>1. q \in Request /\ q.call = call /\ q.handler = req[r].handler
    BY <1>1 DEF Request
  <2>2. Knows(q) /\ ~Pending(q)
    BY <1>3, <2>1 DEF Knows, Pending
  <2> QED
    BY <1>1, <1>3, <2>1, <2>2, GoingOnKeepsCredentialsInv DEF Continue
<1>4. CASE SignUpFindUserByEmail(r) /\ Continue(r, "findUserByUsername")
  BY <1>1, <1>3, <1>4 DEF SignUpFindUserByEmail, At, By, ShapeOK, Request, Call
<1>5. CASE FindUserByUsername(r) /\ Continue(r, "createUser")
  BY <1>1, <1>3, <1>5 DEF FindUserByUsername, At, ShapeOK, Request, Call
<1>6. CASE BindAdmin(r)
  BY <1>1, <1>3, <1>6 DEF BindAdmin, At, ShapeOK, Request, Call
<1>7. CASE SearchDn(r) /\ Continue(r, "bindUser")
  BY <1>1, <1>3, <1>7 DEF SearchDn, At, ShapeOK, Request, Call
<1>8. CASE BindUser(r) /\ Continue(r, "bindAdminAgain")
  BY <1>1, <1>3, <1>8 DEF BindUser, At, ShapeOK, Request, Call
<1>9. CASE ProviderFindUserByEmail(r) /\ Continue(r, "createUser")
  BY <1>1, <1>3, <1>9 DEF ProviderFindUserByEmail, At, By, ShapeOK, Request, Call
<1>10. CASE UpdateFindUserById(r) /\ Continue(r, "updateUser")
  BY <1>1, <1>3, <1>10 DEF UpdateFindUserById, At, By, ShapeOK, Request, Call
<1> QED
  BY <1>2, <1>4, <1>5, <1>6, <1>7, <1>8, <1>9, <1>10
     DEF SignUpFindUserByEmail, FindUserByUsername, SearchDn, BindUser,
         ProviderFindUserByEmail, UpdateFindUserById

\* The directory brings the address, the row the user's id and what is known of it.
LEMMA FindsKeepCredentialsInv ==
    ASSUME CredentialsInv, NEW r \in Requests,
           \/ SearchUser(r) \/ ForgotFindUserByEmail(r) \/ FindUserByResetToken(r)
           \/ ResetFindUserById(r) \/ ChangeFindUserById(r)
    PROVE  CredentialsInv'
<1>1. /\ req[r] \in Request /\ ShapeOK(req[r]) /\ Knows(req[r])
      /\ UNCHANGED <<rows, mails>>
  BY DEF CredentialsInv, RecordsOK, SearchUser, ForgotFindUserByEmail,
     FindUserByResetToken, ResetFindUserById, ChangeFindUserById
<1>2. CASE Finish(r)
  BY <1>1, <1>2, FinishKeepsCredentialsInv
<1>3. ASSUME NEW q \in Request, req' = [req EXCEPT ![r] = q],
             ShapeOK(q), Knows(q), Pending(q) => Pending(req[r]) /\ q.code = req[r].code
      PROVE  CredentialsInv'
  BY <1>1, <1>3, GoingOnKeepsCredentialsInv
<1>4. ASSUME NEW u \in Live
      PROVE  u \in Users /\ user[u] \in Row
  BY DEF Live, CredentialsInv, RecordsOK
<1>5. CASE SearchUser(r) /\ ~Finish(r)
  <2>1. PICK e \in Emails :
          req' = [req EXCEPT ![r].call = "findUserByEmail", ![r].email = e]
    BY <1>5 DEF SearchUser
  <2> DEFINE q == [req[r] EXCEPT !.call = "findUserByEmail", !.email = e]
  <2>2. req[r].handler = "signInWithProvider"
    BY <1>1, <1>5 DEF SearchUser, At, ShapeOK
  <2>3. q \in Request /\ ShapeOK(q) /\ Knows(q) /\ ~Pending(q)
    BY <1>1, <2>2 DEF Request, Call, ShapeOK, Knows, Pending
  <2>4. req' = [req EXCEPT ![r] = q]
    BY <2>1
  <2> HIDE DEF q
  <2> QED
    BY <1>3, <2>3, <2>4
<1>6. CASE ForgotFindUserByEmail(r) /\ ~Finish(r)
  <2>1. PICK u \in ByEmail(req[r].email) :
          req' = [req EXCEPT ![r].call = "updateUserResetToken", ![r].user = u]
    BY <1>6 DEF ForgotFindUserByEmail
  <2> DEFINE q == [req[r] EXCEPT !.call = "updateUserResetToken", !.user = u]
  <2>2. req[r].handler = "forgotPassword" /\ req[r].call = "findUserByEmail"
    BY <1>6 DEF ForgotFindUserByEmail, At, By
  <2>3. u \in Users
    BY <1>4 DEF ByEmail
  <2>4. q \in Request /\ ShapeOK(q)
    BY <1>1, <2>2, <2>3 DEF Request, Call, ShapeOK
  <2>5. Knows(q) /\ Pending(req[r]) /\ q.code = req[r].code
    BY <1>1, <2>2 DEF Request, Knows, Pending
  <2>6. req' = [req EXCEPT ![r] = q]
    BY <2>1
  <2> HIDE DEF q
  <2> QED
    BY <1>3, <2>4, <2>5, <2>6
<1>7. CASE FindUserByResetToken(r) /\ ~Finish(r)
  <2> DEFINE c == req[r].code
             k == IF c \in expired THEN None ELSE c
  <2>1. PICK u \in ByResetToken(c) :
          req' = [req EXCEPT ![r].call = "clearUserResetToken", ![r].user = u,
                             ![r].code = k]
    BY <1>7 DEF FindUserByResetToken
  <2> DEFINE q == [req[r] EXCEPT !.call = "clearUserResetToken", !.user = u, !.code = k]
  <2>2. req[r].handler = "verifyResetCode" /\ c \in Codes /\ c # None
    BY <1>1, <1>7, NoneIsNoValue DEF FindUserByResetToken, At, ShapeOK
  <2>3. u \in Users /\ stored[c].user = u
    BY <1>4, <2>2 DEF ByResetToken, CredentialsInv, RowsInv, TokensAreStored
  <2>4. q \in Request /\ ShapeOK(q) /\ ~Pending(q)
    BY <1>1, <2>2, <2>3 DEF Request, Call, ShapeOK, Pending
  <2>5. Knows(q)
    BY <1>1, <2>2, <2>3 DEF Request, Knows, Pending
  <2>6. req' = [req EXCEPT ![r] = q]
    BY <2>1
  <2> HIDE DEF q
  <2> QED
    BY <1>3, <2>4, <2>5, <2>6
<1>8. ASSUME req[r].user \in Live, At(r, "findUserById"),
             req[r].handler \in {"resetPassword", "changePassword"},
             req' = [req EXCEPT ![r].call = "updateUserPassword",
                                ![r].email = user[req[r].user].email],
             By(r, "changePassword") /\ user[req[r].user].authProvider = "EXTERNAL"
               => Earned(req[r].user)
      PROVE  CredentialsInv'
  <2> DEFINE e == user[req[r].user].email
             q == [req[r] EXCEPT !.call = "updateUserPassword", !.email = e]
  <2>1. e \in Emails /\ user[req[r].user] # Unborn
    BY <1>4, <1>8 DEF Row, Live
  <2>2. q \in Request /\ ShapeOK(q) /\ ~Pending(q)
    BY <1>1, <1>8, <2>1 DEF Request, Call, ShapeOK, Pending
  <2>3. Knows(q)
    BY <1>1, <1>8, <2>1 DEF Request, Knows, Pending, By
  <2>4. req' = [req EXCEPT ![r] = q]
    BY <1>8
  <2> HIDE DEF q
  <2> QED
    BY <1>3, <2>2, <2>3, <2>4
<1>9. CASE ResetFindUserById(r) /\ ~Finish(r)
  BY <1>8, <1>9 DEF ResetFindUserById, By
<1>10. CASE ChangeFindUserById(r) /\ ~Finish(r)
  <2>1. req[r].old # None
    BY <1>1, <1>10, NoneIsNoValue DEF ChangeFindUserById, By, ShapeOK
  <2>2. user[req[r].user].authProvider = "EXTERNAL" => Earned(req[r].user)
    BY <1>10, <2>1 DEF ChangeFindUserById, IsOldPasswordValid, CredentialsInv,
       RowsInv, ExternalPasswordsAreReset, Earned
  <2> QED
    BY <1>8, <1>10, <2>2 DEF ChangeFindUserById, By
<1> QED
  BY <1>2, <1>5, <1>6, <1>7, <1>9, <1>10

-----------------------------------------------------------------------------
(* Steps that write rows *)

\* The handler of r writes the row of u, and no code is stored.
LEMMA RowStep ==
    ASSUME CredentialsInv, NEW r \in Requests, NEW q \in Request,
           req' = [req EXCEPT ![r] = q], UNCHANGED <<expired, stored, mails>>,
           NEW u \in Users, NEW row \in Row, user' = [user EXCEPT ![u] = row],
           \/ user[u] = Unborn
           \/ u \in Live /\ row.authProvider = user[u].authProvider,
           ticketed' \subseteq Users, honoured' \in [Codes -> Nat],
           \A c \in Codes : honoured[c] > 0 => honoured'[c] > 0,
           \A v \in ticketed' \ ticketed : Earned(v)',
           row.resetToken # None => stored[row.resetToken].user = u,
           row.authProvider = "EXTERNAL" /\ row.passwordHash # None => Earned(u),
           ByEmail(row.email) \subseteq {u},
           ShapeOK(q), ~Pending(q), q.call = "add" => q.code = None,
           q.call # "clearUserResetToken",
           q.handler = "resetPassword" => Earned(q.user),
           q.handler = "changePassword" =>
               /\ q.user = u /\ user[u] # Unborn
               /\ row.authProvider = "EXTERNAL" => Earned(u)
    PROVE  CredentialsInv'
<1>1. Progress
  BY NoRowIsNoRow DEF CredentialsInv, RecordsOK, Progress, Live
<1>2. RecordsOK'
  BY DEF CredentialsInv, RecordsOK, mails
<1>3. \A v \in Users : Earned(v) => Earned(v)'
  BY <1>1, EarnedStaysEarned DEF CredentialsInv
<1>4. /\ user'[u] = row
      /\ \A v \in Users \ {u} : user'[v] = user[v]
  BY DEF CredentialsInv, RecordsOK
<1>5. \A v \in Live' : v \in Users /\ (v # u => v \in Live)
  BY <1>4 DEF Live
<1>6. OneRowPerAddress'
  <2> SUFFICES ASSUME NEW v \in Live', NEW w \in Live', user'[v].email = user'[w].email
               PROVE  v = w
    BY DEF OneRowPerAddress
  <2>1. CASE v # u /\ w # u
    BY <1>4, <1>5, <2>1 DEF CredentialsInv, RowsInv, OneRowPerAddress
  <2>2. CASE v = u /\ w # u
    BY <1>4, <1>5, <2>2 DEF ByEmail
  <2>3. CASE v # u /\ w = u
    BY <1>4, <1>5, <2>3 DEF ByEmail
  <2> QED
    BY <2>1, <2>2, <2>3
<1>7. TokensAreStored'
  BY <1>4, <1>5 DEF CredentialsInv, RowsInv, TokensAreStored
<1>8. TicketsAreEarned'
  BY <1>3 DEF CredentialsInv, RecordsOK, RowsInv, TicketsAreEarned
<1>9. ExternalPasswordsAreReset'
  <2> SUFFICES ASSUME NEW v \in Live', user'[v].authProvider = "EXTERNAL",
                      user'[v].passwordHash # None
               PROVE  Earned(v)'
    BY DEF ExternalPasswordsAreReset, Earned
  <2>1. CASE v = u
    BY <1>3, <1>4, <2>1
  <2>2. CASE v # u
    BY <1>3, <1>4, <1>5, <2>2
       DEF CredentialsInv, RowsInv, ExternalPasswordsAreReset, Earned
  <2> QED
    BY <2>1, <2>2
<1>10. Knows(q)'
  <2>1. q.handler = "resetPassword" => Earned(q.user)'
    BY <1>3 DEF ShapeOK
  <2>2. q.handler = "changePassword" =>
          /\ user'[q.user] # Unborn
          /\ user'[q.user].authProvider = "EXTERNAL" => Earned(q.user)'
    BY <1>3, <1>4, NoRowIsNoRow
  <2> QED
    BY <2>1, <2>2 DEF Knows, Pending
<1>11. \A s \in Requests \ {r} : Pending(req[s]) => stored'[req[s].code].user = None
  BY DEF CredentialsInv, Knows
<1>12. RowsInv' /\ UNCHANGED mails
  BY <1>6, <1>7, <1>8, <1>9 DEF RowsInv
<1> QED
  BY <1>1, <1>2, <1>10, <1>11, <1>12, WriteStep

LEMMA CreateUserKeepsCredentialsInv ==
    ASSUME CredentialsInv, NEW r \in Requests, CreateUser(r)
    PROVE  CredentialsInv'
<1>1. CASE Refuse(r)
  BY <1>1, FinishKeepsCredentialsInv DEF Refuse
<1>2. CASE ~Refuse(r)
  <2> DEFINE row == [email |-> req[r].email,
                     authProvider |-> IF By(r, "signUp") THEN "LOCAL" ELSE "EXTERNAL",
                     passwordHash |-> req[r].new,
                     resetToken |-> None]
  <2>1. PICK u \in Users : user[u] = Unborn /\ user' = [user EXCEPT ![u] = row]
    BY <1>2 DEF CreateUser
  <2>2. /\ CanInsert(r)
        /\ Finish(r) \/ (By(r, "signUp") /\ Continue(r, "add"))
        /\ UNCHANGED <<ticketed, expired, stored, honoured, mails>>
    BY <1>2 DEF CreateUser
  <2>3. req[r] \in Request /\ ShapeOK(req[r]) /\ req[r].call = "createUser"
    BY DEF CredentialsInv, RecordsOK, CreateUser, At
  <2>4. row \in Row
    BY <2>3 DEF Row, AuthProvider, ShapeOK, Request
  <2>5. row.authProvider = "EXTERNAL" => row.passwordHash = None
    BY <2>3 DEF By, ShapeOK
  <2>6. row.email = req[r].email /\ row.resetToken = None
    OBVIOUS
  <2>7. /\ ticketed' \subseteq Users /\ honoured' \in [Codes -> Nat]
        /\ \A c \in Codes : honoured[c] > 0 => honoured'[c] > 0
        /\ \A v \in ticketed' \ ticketed : Earned(v)'
        /\ UNCHANGED <<expired, stored, mails>>
    BY <2>2 DEF CredentialsInv, RecordsOK
  <2>8. ByEmail(row.email) \subseteq {u}
    BY <2>2, <2>6 DEF CanInsert
  <2> HIDE DEF row
  <2>9. ASSUME NEW q \in Request, req' = [req EXCEPT ![r] = q], ShapeOK(q), ~Pending(q),
               q.handler \in {"none", "signUp"}, q.call # "clearUserResetToken",
               q.code = None
        PROVE  CredentialsInv'
    BY <2>1, <2>4, <2>5, <2>6, <2>7, <2>8, <2>9, RowStep
  <2>10. CASE Finish(r)
    BY <2>9, <2>10, IdleIsFine DEF Finish, Idle
  <2>11. CASE By(r, "signUp") /\ Continue(r, "add")
    <3> DEFINE q == [req[r] EXCEPT !.call = "add"]
    <3>1. q \in Request /\ ShapeOK(q) /\ ~Pending(q) /\ q.handler = "signUp"
          /\ q.call = "add" /\ q.code = None
      BY <2>3, <2>11 DEF Request, Call, ShapeOK, Pending, By
    <3> HIDE DEF q
    <3> QED
      BY <2>9, <2>11, <3>1 DEF Continue, q
  <2> QED
    BY <2>2, <2>10, <2>11
<1> QED
  BY <1>1, <1>2

LEMMA ClearKeepsCredentialsInv ==
    ASSUME CredentialsInv, NEW r \in Requests, ClearUserResetToken(r)
    PROVE  CredentialsInv'
<1>1. CASE Refuse(r)
  BY <1>1, FinishKeepsCredentialsInv DEF Refuse
<1>2. CASE ~Refuse(r)
  <2>1. PICK u \in Users : u = req[r].user
    BY <1>2 DEF ClearUserResetToken, Live
  <2> DEFINE c == req[r].code
             row == [user[u] EXCEPT !.resetToken = None]
  <2>2. /\ u \in Live
        /\ user' = [user EXCEPT ![u] = row]
        /\ req' = [req EXCEPT ![r] = Idle]
        /\ UNCHANGED <<expired, stored, mails>>
    BY <1>2, <2>1 DEF ClearUserResetToken, Finish
  <2>3. IF c # None THEN /\ honoured' = [honoured EXCEPT ![c] = @ + 1]
                         /\ ticketed' = ticketed \cup {u}
                    ELSE UNCHANGED <<honoured, ticketed>>
    BY <1>2, <2>1 DEF ClearUserResetToken
  <2>4. u \in Users /\ user[u] \in Row
    BY <2>2 DEF CredentialsInv, RecordsOK, Live
  <2>5. /\ row \in Row /\ row.resetToken = None /\ row.email = user[u].email
        /\ row.authProvider = user[u].authProvider
        /\ row.passwordHash = user[u].passwordHash
    BY <2>4 DEF Row
  <2>6. c # None => c \in Codes /\ stored[c].user = u
    BY <2>1 DEF CredentialsInv, RecordsOK, Request, ClearUserResetToken, At, Knows
  <2>7. /\ ticketed' \subseteq Users /\ honoured' \in [Codes -> Nat]
        /\ \A d \in Codes : honoured[d] > 0 => honoured'[d] > 0
        /\ \A v \in ticketed' \ ticketed : Earned(v)'
    <3>1. CASE c = None
      BY <2>3, <3>1 DEF CredentialsInv, RecordsOK
    <3>2. CASE c # None
      <4>1. /\ honoured \in [Codes -> Nat] /\ ticketed \subseteq Users
            /\ c \in Codes /\ stored'[c].user = u
        BY <2>2, <2>6, <3>2 DEF CredentialsInv, RecordsOK
      <4>2. honoured' = [honoured EXCEPT ![c] = @ + 1] /\ ticketed' = ticketed \cup {u}
        BY <2>3, <3>2
      <4> HIDE DEF c
      <4>3. honoured' \in [Codes -> Nat] /\ honoured'[c] > 0
            /\ \A d \in Codes : honoured[d] > 0 => honoured'[d] > 0
        BY <4>1, <4>2
      <4>4. Earned(u)'
        BY <4>1, <4>3 DEF Earned
      <4> QED
        BY <4>1, <4>2, <4>3, <4>4 DEF Earned
    <3> QED
      BY <3>1, <3>2
  <2>8. row.authProvider = "EXTERNAL" /\ row.passwordHash # None => Earned(u)
    BY <2>2, <2>5 DEF CredentialsInv, RowsInv, ExternalPasswordsAreReset, Earned
  <2>9. ByEmail(row.email) \subseteq {u}
    BY <2>2, <2>5 DEF ByEmail, CredentialsInv, RowsInv, OneRowPerAddress
  <2>10. ShapeOK(Idle) /\ ~Pending(Idle) /\ Idle \in Request
        /\ Idle.call = "idle" /\ Idle.handler = "none"
    BY IdleIsFine DEF Idle
  <2> HIDE DEF row
  <2> QED
    BY <2>2, <2>4, <2>5, <2>7, <2>8, <2>9, <2>10, RowStep
<1> QED
  BY <1>1, <1>2

\* A password or an address is written to a row that is there.
LEMMA UpdatesKeepCredentialsInv ==
    ASSUME CredentialsInv, NEW r \in Requests, UpdateUserPassword(r) \/ UpdateUser(r)
    PROVE  CredentialsInv'
<1> DEFINE u == req[r].user
<1>1. CASE Refuse(r)
  BY <1>1, FinishKeepsCredentialsInv DEF Refuse
<1>2. ASSUME u \in Live, UNCHANGED <<ticketed, expired, stored, honoured, mails>>
      PROVE  /\ u \in Users /\ user[u] \in Row /\ user[u] # Unborn
             /\ user[u].resetToken # None => stored[user[u].resetToken].user = u
             /\ user[u].authProvider = "EXTERNAL" /\ user[u].passwordHash # None => Earned(u)
             /\ ByEmail(user[u].email) \subseteq {u}
             /\ ticketed' \subseteq Users /\ honoured' \in [Codes -> Nat]
             /\ \A d \in Codes : honoured[d] > 0 => honoured'[d] > 0
             /\ \A v \in ticketed' \ ticketed : Earned(v)'
             /\ UNCHANGED <<expired, stored, mails>>
  BY <1>2 DEF CredentialsInv, RecordsOK, RowsInv, TokensAreStored, Live, ByEmail,
     ExternalPasswordsAreReset, Earned, OneRowPerAddress
<1>3. req[r] \in Request /\ ShapeOK(req[r]) /\ Knows(req[r])
  BY DEF CredentialsInv, RecordsOK
<1>4. CASE UpdateUserPassword(r) /\ ~Refuse(r)
  <2> DEFINE row == [user[u] EXCEPT !.passwordHash = req[r].new]
             q == [req[r] EXCEPT !.call = "add"]
  <2>1. /\ u \in Live /\ req[r].call = "updateUserPassword"
        /\ user' = [user EXCEPT ![u] = row]
        /\ req' = [req EXCEPT ![r] = q]
        /\ UNCHANGED <<ticketed, expired, stored, honoured, mails>>
    BY <1>4 DEF UpdateUserPassword, Continue, At
  <2>2. req[r].handler \in {"resetPassword", "changePassword"}
    BY <1>3, <2>1 DEF ShapeOK
  <2>3. /\ row \in Row /\ row.email = user[u].email
        /\ row.authProvider = user[u].authProvider
        /\ row.resetToken = user[u].resetToken
    BY <1>2, <1>3, <2>1, <2>2 DEF Row, ShapeOK
  <2>4. row.authProvider = "EXTERNAL" => Earned(u)
    BY <1>3, <2>1, <2>2, <2>3 DEF Knows
  <2>5. q \in Request /\ ShapeOK(q) /\ ~Pending(q) /\ q.call = "add"
        /\ q.code = None /\ q.handler = req[r].handler /\ q.user = u
    BY <1>3, <2>1, <2>2 DEF Request, Call, ShapeOK, Pending
  <2>6. q.handler = "resetPassword" => Earned(q.user)
    BY <1>3, <2>5 DEF Knows
  <2> HIDE DEF u, q, row
  <2> QED
    BY <1>2, <2>1, <2>3, <2>4, <2>5, <2>6, RowStep
<1>5. CASE UpdateUser(r) /\ ~Refuse(r)
  <2> DEFINE row == [user[u] EXCEPT !.email = req[r].email]
  <2>1. /\ u \in Live /\ ByEmail(req[r].email) \subseteq {u}
        /\ req[r].call = "updateUser"
        /\ user' = [user EXCEPT ![u] = row]
        /\ req' = [req EXCEPT ![r] = Idle]
        /\ UNCHANGED <<ticketed, expired, stored, honoured, mails>>
    BY <1>5 DEF UpdateUser, Finish, At
  <2>2. /\ row \in Row /\ row.email = req[r].email
        /\ row.authProvider = user[u].authProvider
        /\ row.passwordHash = user[u].passwordHash
        /\ row.resetToken = user[u].resetToken
    BY <1>2, <1>3, <2>1 DEF Row, ShapeOK
  <2>3. ShapeOK(Idle) /\ ~Pending(Idle) /\ Idle \in Request
        /\ Idle.call = "idle" /\ Idle.handler = "none"
    BY IdleIsFine DEF Idle
  <2> HIDE DEF u, row
  <2> QED
    BY <1>2, <2>1, <2>2, <2>3, RowStep
<1> QED
  BY <1>1, <1>4, <1>5 DEF UpdateUserPassword, UpdateUser

\* The code is stored with the row that has the address now.
LEMMA StoringKeepsCredentialsInv ==
    ASSUME CredentialsInv, NEW r \in Requests, UpdateUserResetToken(r)
    PROVE  CredentialsInv'
<1>1. CASE Refuse(r)
  BY <1>1, FinishKeepsCredentialsInv DEF Refuse
<1>2. CASE ~Refuse(r)
  <2>1. req[r] \in Request
    BY DEF CredentialsInv, RecordsOK
  <2>2. PICK q \in Request : q = [req[r] EXCEPT !.call = "add"]
    BY <2>1 DEF Request, Call
  <2>3. PICK u \in ByEmail(req[r].email) :
          /\ user' = [user EXCEPT ![u].resetToken = req[r].code]
          /\ stored' = [stored EXCEPT ![req[r].code] = [user |-> u, email |-> user[u].email]]
          /\ req' = [req EXCEPT ![r] = q]
          /\ UNCHANGED <<ticketed, expired, honoured, mails>>
    BY <1>2, <2>2 DEF UpdateUserResetToken, Continue
  <2>4. /\ u \in Live /\ u \in Users /\ user[u] \in Row
        /\ user[u].email = req[r].email /\ user[u].email \in Emails
    BY DEF ByEmail, Live, CredentialsInv, RecordsOK, Row
  <2>5. /\ ShapeOK(req[r]) /\ Knows(req[r])
        /\ req[r].call = "updateUserResetToken" /\ req[r].handler = "forgotPassword"
    BY DEF CredentialsInv, RecordsOK, UpdateUserResetToken, At, ShapeOK
  <2>6. PICK c \in Codes : c = req[r].code /\ stored[c].user = None
    BY <2>5 DEF ShapeOK, Knows, Pending
  <2>7. /\ stored'[c] = [user |-> u, email |-> user[u].email]
        /\ \A d \in Codes \ {c} : stored'[d] = stored[d]
    BY <2>3, <2>6 DEF CredentialsInv, RecordsOK
  <2>8. /\ user'[u] = [user[u] EXCEPT !.resetToken = c]
        /\ \A v \in Users \ {u} : user'[v] = user[v]
    BY <2>3, <2>4, <2>6 DEF CredentialsInv, RecordsOK
  <2>9. /\ user'[u] \in Row /\ user'[u].email = user[u].email
        /\ user'[u].authProvider = user[u].authProvider
        /\ user'[u].passwordHash = user[u].passwordHash
        /\ user'[u].resetToken = c
    BY <2>4, <2>8 DEF Row
  <2>10. \A v \in Users : v \in Live' <=> v \in Live
    BY <2>4, <2>8, <2>9, NoRowIsNoRow DEF Live
  <2>11. Progress
    BY <2>3, <2>4, <2>6, <2>7, <2>8, <2>9, NoRowIsNoRow DEF Progress, Live
  <2>12. ShapeOK(q) /\ ~Pending(q) /\ q.call = "add"
         /\ q.code = c /\ q.email = req[r].email /\ q.handler = "forgotPassword"
    BY <2>2, <2>5, <2>6 DEF Request, ShapeOK, Pending
  <2>13. RecordsOK'
    <3>1. user' \in [Users -> Row \cup {Unborn, Deleted}]
      BY <2>3, <2>8, <2>9 DEF CredentialsInv, RecordsOK
    <3>2. stored' \in [Codes -> [user : Users \cup {None}, email : Emails \cup {None}]]
      BY <2>3, <2>4, <2>6, <2>7 DEF CredentialsInv, RecordsOK
    <3> QED
      BY <2>3, <2>12, <3>1, <3>2 DEF CredentialsInv, RecordsOK, mails
  <2>14. Live' \subseteq Users
    BY DEF Live
  <2>15. OneRowPerAddress'
    <3>1. \A v \in Users : v \in Live => user'[v].email = user[v].email
      BY <2>8, <2>9
    <3> QED
      BY <2>10, <2>14, <3>1 DEF CredentialsInv, RowsInv, OneRowPerAddress
  <2>16. TokensAreStored'
    <3> SUFFICES ASSUME NEW v \in Users, v \in Live, user'[v].resetToken # None
                 PROVE  stored'[user'[v].resetToken].user = v
      BY <2>10, <2>14 DEF TokensAreStored
    <3>1. CASE v = u
      BY <2>7, <2>9, <3>1
    <3>2. CASE v # u
      <4>1. user[v].resetToken \in Codes
        BY <2>8, <3>2 DEF CredentialsInv, RecordsOK, Live, Row
      <4>2. stored[user[v].resetToken].user = v
        BY <2>8, <3>2 DEF CredentialsInv, RowsInv, TokensAreStored
      <4>3. user[v].resetToken # c
        BY <2>6, <4>2, NoneIsNoValue
      <4> QED
        BY <2>7, <2>8, <3>2, <4>1, <4>2, <4>3
    <3> QED
      BY <3>1, <3>2
  <2>17. \A v \in Users : Earned(v) => Earned(v)'
    BY <2>11, EarnedStaysEarned DEF CredentialsInv
  <2>18. TicketsAreEarned'
    BY <2>3, <2>17 DEF CredentialsInv, RecordsOK, RowsInv, TicketsAreEarned
  <2>19. ExternalPasswordsAreReset'
    <3> SUFFICES ASSUME NEW v \in Users, v \in Live, user'[v].authProvider = "EXTERNAL",
                        user'[v].passwordHash # None
                 PROVE  Earned(v)'
      BY <2>10, <2>14 DEF ExternalPasswordsAreReset, Earned
    <3>1. user[v].authProvider = "EXTERNAL" /\ user[v].passwordHash # None
      BY <2>8, <2>9
    <3> QED
      BY <2>17, <3>1 DEF CredentialsInv, RowsInv, ExternalPasswordsAreReset, Earned
  <2>20. Knows(q)'
    BY <2>4, <2>7, <2>12, NoneIsNoValue DEF Knows, Pending
  <2>21. \A s \in Requests \ {r} : Pending(req[s]) => stored'[req[s].code].user = None
    <3> SUFFICES ASSUME NEW s \in Requests \ {r}, Pending(req[s])
                 PROVE  stored'[req[s].code].user = None
      OBVIOUS
    <3>1. Pending(req[r])
      BY <2>5 DEF Pending
    <3>2. req[s].code # c
      BY <2>6, <3>1 DEF CredentialsInv, CodesAreDrawnOnce
    <3>3. req[s].code \in Codes /\ stored[req[s].code].user = None
      BY DEF CredentialsInv, ShapeOK, Knows, Pending
    <3> QED
      BY <2>7, <3>2, <3>3
  <2>22. RowsInv' /\ UNCHANGED mails
    BY <2>3, <2>15, <2>16, <2>18, <2>19 DEF RowsInv
  <2> QED
    BY <2>3, <2>11, <2>12, <2>13, <2>20, <2>21, <2>22, WriteStep
<1> QED
  BY <1>1, <1>2

\* No request writes: a row is deleted, or time passes.
LEMMA OthersKeepCredentialsInv ==
    ASSUME CredentialsInv, DeleteUser \/ CodeExpires \/ TicketExpires
    PROVE  CredentialsInv'
<1>1. /\ \A u \in Users : user'[u] = user[u] \/ (u \in Live /\ user'[u] = Deleted)
      /\ ticketed' \subseteq ticketed
      /\ UNCHANGED <<stored, honoured, req, mails>>
  BY DEF DeleteUser, CodeExpires, TicketExpires, CredentialsInv, RecordsOK
<1>2. Progress
  BY <1>1, NoRowIsNoRow DEF Progress, Live
<1>3. RecordsOK'
  BY <1>1 DEF CredentialsInv, RecordsOK, mails, DeleteUser, CodeExpires, TicketExpires
<1>4. \A u \in Live' : u \in Live /\ u \in Users /\ user'[u] = user[u]
  BY <1>1 DEF Live
<1>5. \A u \in Users : Earned(u) => Earned(u)'
  BY <1>2, EarnedStaysEarned DEF CredentialsInv
<1>6. OneRowPerAddress' /\ TokensAreStored'
  BY <1>1, <1>4 DEF CredentialsInv, RowsInv, OneRowPerAddress, TokensAreStored
<1>7. TicketsAreEarned' /\ ExternalPasswordsAreReset'
  BY <1>1, <1>4 DEF CredentialsInv, RowsInv, TicketsAreEarned,
     ExternalPasswordsAreReset, Earned
<1>8. MailedCodesAreStored'
  BY <1>1, <1>2, MailedStaysStored DEF CredentialsInv, mails
<1>9. CodesAreDrawnOnce' /\ \A s \in Requests : ShapeOK(req[s])'
  BY <1>1 DEF CredentialsInv, CodesAreDrawnOnce, ShapeOK, Pending
<1>10. ASSUME NEW s \in Requests
       PROVE  Knows(req[s])'
  <2>1. PICK p \in Request : p = req[s]
    BY DEF CredentialsInv, RecordsOK
  <2>2. ShapeOK(p) /\ Knows(p) /\ (Pending(p) => stored'[p.code].user = None)
    BY <1>1, <2>1 DEF CredentialsInv, Knows
  <2>3. Knows(p)'
    BY <1>2, <2>2, KnowledgeStays DEF CredentialsInv
  <2> QED
    BY <1>1, <2>1, <2>3 DEF Knows, Pending, Earned, Live
<1> QED
  BY <1>3, <1>6, <1>7, <1>8, <1>9, <1>10 DEF CredentialsInv, RowsInv

-----------------------------------------------------------------------------
(* The queue *)

LEMMA AnnounceKeepsCredentialsInv ==
    ASSUME CredentialsInv, NEW r \in Requests, Announce(r)
    PROVE  CredentialsInv'
<1> DEFINE job == [email |-> req[r].email, code |-> req[r].code, stalled |-> FALSE]
<1>1. /\ jobs' = Append(jobs, job) /\ req' = [req EXCEPT ![r] = Idle]
      /\ UNCHANGED <<rows, mailed>>
  BY DEF Announce, Finish
<1>2. req[r] \in Request /\ ShapeOK(req[r]) /\ Knows(req[r]) /\ req[r].call = "add"
  BY DEF CredentialsInv, RecordsOK, Announce, At
<1>3. job \in Job /\ jobs \in Seq(Job)
  BY <1>2 DEF CredentialsInv, RecordsOK, Job, Request, ShapeOK
<1>4. job.code # None => stored[job.code].user # None /\ stored[job.code].email = job.email
  BY <1>2 DEF Knows
<1> HIDE DEF job
<1>5. RecordsOK'
  BY <1>1, <1>3, IdleIsFine, AppendProperties DEF CredentialsInv, RecordsOK, rows
<1>6. MailedCodesAreStored'
  <2>1. /\ DOMAIN jobs' = 1..(Len(jobs) + 1) /\ DOMAIN jobs = 1..Len(jobs)
        /\ \A i \in 1..Len(jobs) : jobs'[i] = jobs[i]
        /\ jobs'[Len(jobs) + 1] = job
    BY <1>1, <1>3
  <2>2. \A i \in DOMAIN jobs' : i \in DOMAIN jobs \/ i = Len(jobs) + 1
    BY <1>3, <2>1
  <2> QED
    BY <1>1, <1>4, <2>1, <2>2 DEF CredentialsInv, MailedCodesAreStored, rows
<1>7. RowsInv'
  BY <1>1 DEF CredentialsInv, RowsInv, OneRowPerAddress, TokensAreStored,
     TicketsAreEarned, ExternalPasswordsAreReset, Earned, Live, rows
<1>8. /\ req'[r] = Idle
      /\ \A s \in Requests \ {r} : req'[s] = req[s]
  BY <1>1 DEF CredentialsInv, RecordsOK
<1>9. CodesAreDrawnOnce' /\ \A s \in Requests : ShapeOK(req[s])'
  BY <1>8, IdleIsFine DEF CredentialsInv, CodesAreDrawnOnce, ShapeOK, Pending
<1>10. \A s \in Requests : Knows(req[s])'
  BY <1>1, <1>8, IdleIsFine DEF CredentialsInv, Knows, Pending, Earned, Live, rows
<1> QED
  BY <1>5, <1>6, <1>7, <1>9, <1>10 DEF CredentialsInv

\* The worker takes jobs from the queue or marks the first, and changes none.
LEMMA MailsKeepCredentialsInv ==
    ASSUME CredentialsInv, Process \/ Stall \/ JobFails
    PROVE  CredentialsInv'
<1>1. jobs \in Seq(Job) /\ jobs # <<>> /\ mailed \in Seq(Codes)
  BY DEF CredentialsInv, RecordsOK, Process, Stall, JobFails
<1>2. Head(jobs) \in Job /\ Head(jobs) = jobs[1] /\ Len(jobs) \in Nat \ {0}
      /\ DOMAIN jobs = 1..Len(jobs)
  BY <1>1
<1>3. Sent \in Seq(Codes)
  BY <1>1, <1>2, AppendProperties DEF Sent, Job
<1>4. UNCHANGED <<rows, req>>
  BY DEF Process, Stall, JobFails
<1>5. \/ jobs' = Tail(jobs)
      \/ jobs' = [jobs EXCEPT ![1].stalled = TRUE]
  BY DEF Process, Stall, JobFails
<1>6. ASSUME NEW i \in DOMAIN jobs'
      PROVE  \E k \in DOMAIN jobs : jobs'[i].code = jobs[k].code
                                  /\ jobs'[i].email = jobs[k].email
  <2>1. CASE jobs' = Tail(jobs)
    <3>1. i \in 1..(Len(jobs) - 1) /\ jobs'[i] = jobs[i + 1]
      BY <1>1, <1>2, <2>1
    <3>2. i + 1 \in DOMAIN jobs
      BY <1>2, <3>1
    <3> QED
      BY <3>1, <3>2
  <2>2. CASE jobs' = [jobs EXCEPT ![1].stalled = TRUE]
    <3>1. i \in DOMAIN jobs /\ 1 \in DOMAIN jobs
      BY <1>2, <2>2
    <3>2. jobs[i] \in Job
      BY <1>1, <3>1, ElementOfSeq
    <3>3. jobs'[i].code = jobs[i].code /\ jobs'[i].email = jobs[i].email
      BY <2>2, <3>1, <3>2 DEF Job
    <3> QED
      BY <3>1, <3>3
  <2> QED
    BY <1>5, <2>1, <2>2
<1>7. jobs' \in Seq(Job) /\ mailed' \in Seq(Codes)
  <2>1. mailed' \in Seq(Codes)
    BY <1>1, <1>3 DEF Process, Stall, JobFails
  <2>2. CASE jobs' = Tail(jobs)
    BY <1>1, <2>1, <2>2
  <2>3. CASE jobs' = [jobs EXCEPT ![1].stalled = TRUE]
    <3>1. [jobs[1] EXCEPT !.stalled = TRUE] \in Job
      BY <1>2 DEF Job
    <3>2. [jobs EXCEPT ![1] = [jobs[1] EXCEPT !.stalled = TRUE]] \in Seq(Job)
      BY <1>1, <1>2, <3>1, ExceptSeq
    <3> QED
      BY <2>1, <2>3, <3>2
  <2> QED
    BY <1>5, <2>2, <2>3
<1>8. MailedCodesAreStored'
  BY <1>4, <1>6 DEF CredentialsInv, MailedCodesAreStored, rows
<1>9. RecordsOK' /\ RowsInv' /\ CodesAreDrawnOnce'
  BY <1>4, <1>7 DEF CredentialsInv, RecordsOK, RowsInv, OneRowPerAddress, TokensAreStored,
     TicketsAreEarned, ExternalPasswordsAreReset, Earned, Live, CodesAreDrawnOnce, rows
<1>10. \A s \in Requests : ShapeOK(req[s])' /\ Knows(req[s])'
  BY <1>4 DEF CredentialsInv, ShapeOK, Knows, Pending, Earned, Live, rows
<1> QED
  BY <1>8, <1>9, <1>10 DEF CredentialsInv

-----------------------------------------------------------------------------
(* The theorems *)

LEMMA NextKeepsCredentialsInv == CredentialsInv /\ [Next]_vars => CredentialsInv'
<1> SUFFICES ASSUME CredentialsInv, [Next]_vars PROVE CredentialsInv'
  OBVIOUS
<1>1. ASSUME NEW r \in Requests, Serve(r)
      PROVE  CredentialsInv'
  BY <1>1, StartsKeepCredentialsInv, ForgotStartsFresh, LookupsKeepCredentialsInv,
     FindsKeepCredentialsInv, CreateUserKeepsCredentialsInv, ClearKeepsCredentialsInv,
     UpdatesKeepCredentialsInv, StoringKeepsCredentialsInv, AnnounceKeepsCredentialsInv
     DEF Serve
<1>2. ASSUME NEW r \in Requests, Fail(r)
      PROVE  CredentialsInv'
  BY <1>2, FinishKeepsCredentialsInv DEF Fail
<1>3. CASE UNCHANGED vars
  BY <1>3 DEF vars, CredentialsInv, RecordsOK, RowsInv, OneRowPerAddress, TokensAreStored,
     TicketsAreEarned, ExternalPasswordsAreReset, MailedCodesAreStored, CodesAreDrawnOnce,
     ShapeOK, Knows, Pending, Earned, Live
<1> QED
  BY <1>1, <1>2, <1>3, OthersKeepCredentialsInv, MailsKeepCredentialsInv
     DEF Next, Steps, Faults

\* What the handlers keep between them: each knows of the rows what its next write
\* relies on, whatever the others write meanwhile.
THEOREM CredentialsInvariant == Spec => []CredentialsInv
<1> QED
  BY InitEstablishesCredentialsInv, NextKeepsCredentialsInv, PTL DEF Spec

\* The unique column, and not the look before it, keeps sign-ups, callbacks of
\* providers and changes of address from sharing an address.
THEOREM AddressesStayUnique == Spec => []OneRowPerAddress
<1>1. CredentialsInv => OneRowPerAddress
  BY DEF CredentialsInv, RowsInv
<1> QED
  BY <1>1, CredentialsInvariant, PTL

\* forgotPassword writes by address and mails to the address it wrote by: no
\* change of address in between sends a code to somebody else.
THEOREM CodesAreMailedWhereTheyBelong == Spec => []CodesGoToTheirAddress
<1>1. CredentialsInv => CodesGoToTheirAddress
  BY DEF CredentialsInv, MailedCodesAreStored, CodesGoToTheirAddress
<1> QED
  BY <1>1, CredentialsInvariant, PTL

\* changePassword gives no external user his first password, however stale the
\* row it has read: only a reset does, after a code of that row was honoured.
THEOREM FirstPasswordsNeedACode == Spec => []ExternalPasswordsAreReset
<1>1. CredentialsInv => ExternalPasswordsAreReset
  BY DEF CredentialsInv, RowsInv
<1> QED
  BY <1>1, CredentialsInvariant, PTL

-----------------------------------------------------------------------------
(* The connections to the directory *)

\* h connections of the handler r.
OfOne(r, h) == {p \in {r} \X {1, 2} : p[2] <= h}

\* R are the connections of the others.
LEMMA ConnectionsOfOne ==
    ASSUME NEW R, IsFiniteSet(R), NEW r, NEW h \in 0..2, \A p \in R : p[1] # r
    PROVE  /\ IsFiniteSet(R \cup OfOne(r, h))
           /\ Cardinality(R \cup OfOne(r, h)) = Cardinality(R) + h
<1>1. Cardinality(R) \in Nat
  BY FS_CardinalityType
<1>2. CASE h = 0
  <2>1. R \cup OfOne(r, 0) = R
    BY DEF OfOne
  <2> QED
    BY <1>1, <1>2, <2>1
<1>3. CASE h = 1
  <2>1. R \cup OfOne(r, 1) = R \cup {<<r, 1>>} /\ <<r, 1>> \notin R
    BY DEF OfOne
  <2> QED
    BY <1>3, <2>1, FS_AddElement
<1>4. CASE h = 2
  <2> DEFINE S == R \cup {<<r, 1>>}
  <2>1. /\ R \cup OfOne(r, 2) = S \cup {<<r, 2>>}
        /\ <<r, 1>> \notin R /\ <<r, 2>> \notin S
    BY DEF OfOne
  <2>2. IsFiniteSet(S) /\ Cardinality(S) = Cardinality(R) + 1
    BY <2>1, FS_AddElement
  <2> HIDE DEF S
  <2>3. /\ IsFiniteSet(S \cup {<<r, 2>>})
        /\ Cardinality(S \cup {<<r, 2>>}) = Cardinality(S) + 1
    BY <2>1, <2>2, FS_AddElement
  <2>4. Cardinality(S \cup {<<r, 2>>}) = Cardinality(R) + 2
    BY <1>1, <2>2, <2>3
  <2> QED
    BY <1>4, <2>1, <2>3, <2>4
<1> QED
  BY <1>2, <1>3, <1>4

LEMMA HeldAreFew == \A r \in Requests : Held(r) \in 0..2 /\ Held(r)' \in 0..2
BY DEF Held, At

\* A step of r binds and unbinds connections as its record says.
LEMMA CountingStep ==
    ASSUME ClientsAreHeld, NEW r \in Requests,
           \A s \in Requests \ {r} : req'[s] = req[s],
           clients' = clients + Held(r)' - Held(r)
    PROVE  ClientsAreHeld'
<1> DEFINE R == {p \in Bound : p[1] # r}
<1>1. IsFiniteSet(R) /\ \A p \in R : p[1] # r
  BY FS_Subset DEF ClientsAreHeld
<1>2. Bound = R \cup OfOne(r, Held(r))
  BY DEF Bound, OfOne
<1>3. Bound' = R \cup OfOne(r, Held(r)')
  <2>1. \A p \in Requests \X {1, 2} : p[1] # r => (p \in R <=> p \in Bound')
    BY DEF Bound, Held, At
  <2>2. R \subseteq Requests \X {1, 2} /\ Bound' \subseteq Requests \X {1, 2}
    BY DEF Bound
  <2>3. \A p \in Requests \X {1, 2} :
           p[1] = r => (p \in Bound' <=> p \in OfOne(r, Held(r)'))
    BY DEF Bound, OfOne
  <2>4. \A p \in OfOne(r, Held(r)') : p \in Requests \X {1, 2} /\ p[1] = r
    BY DEF OfOne
  <2> QED
    BY <1>1, <2>1, <2>2, <2>3, <2>4
<1> HIDE DEF R
<1>4. Cardinality(Bound) = Cardinality(R) + Held(r)
  BY <1>1, <1>2, HeldAreFew, ConnectionsOfOne
<1>5. IsFiniteSet(Bound') /\ Cardinality(Bound') = Cardinality(R) + Held(r)'
  BY <1>1, <1>3, HeldAreFew, ConnectionsOfOne
<1>6. Cardinality(R) \in Nat
  BY <1>1, FS_CardinalityType
<1> QED
  BY <1>4, <1>5, <1>6, HeldAreFew DEF ClientsAreHeld

LEMMA CallsStay ==
    ASSUME ClientsAreHeld, \A s \in Requests : req'[s].call = req[s].call,
           UNCHANGED clients
    PROVE  ClientsAreHeld'
<1>1. \A s \in Requests : Held(s)' = Held(s)
  BY DEF Held, At
<1>2. Bound' = Bound
  BY <1>1 DEF Bound
<1> QED
  BY <1>2 DEF ClientsAreHeld

\* The calls that wait with a connection in hand.
Holding == {"searchDn", "bindAdminAgain", "searchUser"}

LEMMA IdleHoldsNothing == Idle.call = "idle" /\ Idle.call \notin Holding
BY DEF Idle, Holding

\* A handler that goes on without the directory holds nothing before or after.
LEMMA QuietStep ==
    ASSUME ClientsAreHeld, RecordsOK, NEW r \in Requests, NEW q,
           req' = [req EXCEPT ![r] = q], UNCHANGED clients,
           q.call \notin Holding, req[r].call \notin Holding
    PROVE  ClientsAreHeld'
<1>1. req'[r] = q /\ \A s \in Requests \ {r} : req'[s] = req[s]
  BY DEF RecordsOK
<1>2. Held(r) = 0 /\ Held(r)' = 0
  BY <1>1 DEF Held, At, Holding
<1> QED
  BY <1>1, <1>2, CountingStep, FS_CardinalityType DEF ClientsAreHeld

LEMMA ServingKeepsClients ==
    ASSUME CredentialsInv, ClientsAreHeld, NEW r \in Requests, Serve(r)
    PROVE  ClientsAreHeld'
<1>1. RecordsOK /\ req[r] \in Request /\ clients \in Nat
  BY FS_CardinalityType DEF CredentialsInv, RecordsOK, ClientsAreHeld
<1>2. ASSUME UNCHANGED clients, req[r].call \notin Holding,
             Finish(r)
      PROVE  ClientsAreHeld'
  BY <1>1, <1>2, IdleHoldsNothing, QuietStep DEF Finish
<1>3. ASSUME UNCHANGED clients, req[r].call \notin Holding,
             NEW call, Continue(r, call), call \notin Holding
      PROVE  ClientsAreHeld'
  <2>1. [req[r] EXCEPT !.call = call].call = call
    BY <1>1 DEF Request
  <2> QED
    BY <1>1, <1>3, <2>1, QuietStep DEF Continue
<1>4. ASSUME NEW q, Start(r, q), q.call \notin Holding
      PROVE  ClientsAreHeld'
  BY <1>1, <1>4, IdleHoldsNothing, QuietStep DEF Start
<1>5. CASE \/ RequestSignUp(r) \/ RequestProvider(r) \/ RequestLdap(r)
           \/ RequestForgot(r) \/ RequestVerify(r) \/ RequestReset(r)
           \/ RequestChange(r) \/ RequestUpdate(r)
  BY <1>4, <1>5 DEF RequestSignUp, RequestProvider, RequestLdap, RequestForgot,
     RequestVerify, RequestReset, RequestChange, RequestUpdate, Idle, Holding
<1>6. CASE \/ SignUpFindUserByEmail(r) \/ FindUserByUsername(r) \/ CreateUser(r)
           \/ ProviderFindUserByEmail(r)
  <2>1. UNCHANGED clients /\ req[r].call \notin Holding
    BY <1>6 DEF SignUpFindUserByEmail, FindUserByUsername, CreateUser, Refuse,
       ProviderFindUserByEmail, At, Holding
  <2> QED
    BY <1>2, <1>3, <1>6, <2>1 DEF SignUpFindUserByEmail, FindUserByUsername, CreateUser,
       ProviderFindUserByEmail, Refuse, Holding
<1>7. CASE \/ ClearUserResetToken(r) \/ UpdateUserPassword(r) \/ UpdateFindUserById(r)
           \/ UpdateUser(r) \/ UpdateUserResetToken(r) \/ Announce(r)
  <2>1. UNCHANGED clients /\ req[r].call \notin Holding
    BY <1>7 DEF ClearUserResetToken, UpdateUserPassword, UpdateFindUserById, UpdateUser,
       UpdateUserResetToken, Announce, Refuse, At, Holding
  <2>2. Finish(r) \/ Continue(r, "add") \/ Continue(r, "updateUser")
    BY <1>7 DEF ClearUserResetToken, UpdateUserPassword, UpdateFindUserById, UpdateUser,
       UpdateUserResetToken, Announce, Refuse
  <2> QED
    BY <1>2, <1>3, <2>1, <2>2 DEF Holding
<1>8. CASE \/ ForgotFindUserByEmail(r) \/ FindUserByResetToken(r)
           \/ ResetFindUserById(r) \/ ChangeFindUserById(r)
  <2>1. UNCHANGED clients /\ req[r].call \notin Holding
    BY <1>8 DEF ForgotFindUserByEmail, FindUserByResetToken, ResetFindUserById,
       ChangeFindUserById, At, Holding
  <2>2. ASSUME NEW call \in Call \ Holding, NEW u, NEW e, NEW c,
               req' = [req EXCEPT ![r] = [req[r] EXCEPT !.call = call, !.user = u,
                                                        !.email = e, !.code = c]]
        PROVE  ClientsAreHeld'
    <3> DEFINE q == [req[r] EXCEPT !.call = call, !.user = u, !.email = e, !.code = c]
    <3>1. q.call = call
      BY <1>1 DEF Request
    <3> HIDE DEF q
    <3> QED
      BY <1>1, <2>1, <2>2, <3>1, QuietStep DEF q
  <2>3. "updateUserResetToken" \in Call \ Holding /\ "clearUserResetToken" \in Call \ Holding
        /\ "updateUserPassword" \in Call \ Holding
    BY DEF Call, Holding
  <2>4. CASE ForgotFindUserByEmail(r) /\ ~Finish(r)
    <3>1. PICK u : req' = [req EXCEPT ![r].call = "updateUserResetToken", ![r].user = u]
      BY <2>4 DEF ForgotFindUserByEmail
    <3>2. req' = [req EXCEPT ![r] =
            [req[r] EXCEPT !.call = "updateUserResetToken", !.user = u,
                           !.email = req[r].email, !.code = req[r].code]]
      BY <1>1, <3>1 DEF Request
    <3> QED
      BY <2>2, <2>3, <3>2
  <2>5. CASE FindUserByResetToken(r) /\ ~Finish(r)
    <3>1. PICK u, c : req' = [req EXCEPT ![r].call = "clearUserResetToken", ![r].user = u,
                                         ![r].code = c]
      BY <2>5 DEF FindUserByResetToken
    <3>2. req' = [req EXCEPT ![r] =
            [req[r] EXCEPT !.call = "clearUserResetToken", !.user = u,
                           !.email = req[r].email, !.code = c]]
      BY <1>1, <3>1 DEF Request
    <3> QED
      BY <2>2, <2>3, <3>2
  <2>6. CASE (ResetFindUserById(r) \/ ChangeFindUserById(r)) /\ ~Finish(r)
    <3>1. PICK e : req' = [req EXCEPT ![r].call = "updateUserPassword", ![r].email = e]
      BY <2>6 DEF ResetFindUserById, ChangeFindUserById
    <3>2. req' = [req EXCEPT ![r] =
            [req[r] EXCEPT !.call = "updateUserPassword", !.user = req[r].user,
                           !.email = e, !.code = req[r].code]]
      BY <1>1, <3>1 DEF Request
    <3> QED
      BY <2>2, <2>3, <3>2
  <2> QED
    BY <1>2, <1>8, <2>1, <2>4, <2>5, <2>6
<1>9. CASE BindAdmin(r) \/ SearchDn(r) \/ BindUser(r) \/ SearchUser(r)
  <2>1. \A s \in Requests \ {r} : req'[s] = req[s]
    BY <1>1, <1>9 DEF RecordsOK, BindAdmin, SearchDn, BindUser, SearchUser, Continue, Finish
  <2>2. clients' = clients + Held(r)' - Held(r)
    <3>1. CASE BindAdmin(r)
      BY <1>1, <3>1 DEF RecordsOK, Request, BindAdmin, Continue, Held, At
    <3>2. CASE SearchDn(r)
      BY <1>1, <3>2 DEF RecordsOK, Request, SearchDn, Continue, Finish, Held, At, Idle
    <3>3. CASE BindUser(r)
      BY <1>1, <3>3 DEF RecordsOK, Request, BindUser, Continue, Finish, Held, At, Idle
    <3>4. CASE SearchUser(r)
      BY <1>1, <3>4 DEF RecordsOK, Request, SearchUser, Finish, Held, At, Idle
    <3> QED
      BY <1>9, <3>1, <3>2, <3>3, <3>4
  <2> QED
    BY <2>1, <2>2, CountingStep
<1> QED
  BY <1>5, <1>6, <1>7, <1>8, <1>9 DEF Serve

LEMMA NextKeepsClients ==
    CredentialsInv /\ ClientsAreHeld /\ [Next]_vars => ClientsAreHeld'
<1> SUFFICES ASSUME CredentialsInv, ClientsAreHeld, [Next]_vars PROVE ClientsAreHeld'
  OBVIOUS
<1>1. ASSUME NEW r \in Requests, Fail(r)
      PROVE  ClientsAreHeld'
  <2>1. req'[r] = Idle /\ \A s \in Requests \ {r} : req'[s] = req[s]
    BY <1>1 DEF Fail, Finish, CredentialsInv, RecordsOK
  <2>2. Held(r)' = 0 /\ clients' = clients - Held(r) /\ clients \in Nat
    BY <1>1, <2>1, FS_CardinalityType DEF Fail, Held, At, Idle, ClientsAreHeld
  <2> QED
    BY <2>1, <2>2, HeldAreFew, CountingStep
<1>2. CASE \/ DeleteUser \/ CodeExpires \/ TicketExpires \/ Process \/ Stall \/ JobFails
           \/ UNCHANGED vars
  <2>1. UNCHANGED <<req, clients>>
    BY <1>2 DEF DeleteUser, CodeExpires, TicketExpires, Process, Stall, JobFails, vars
  <2> QED
    BY <2>1, CallsStay
<1> QED
  BY <1>1, <1>2, ServingKeepsClients DEF Next, Steps, Faults

LEMMA InitEstablishesClients == Init => ClientsAreHeld
<1> SUFFICES ASSUME Init PROVE ClientsAreHeld
  OBVIOUS
<1>1. Bound = {}
  BY DEF Init, Bound, Held, At, Idle
<1> QED
  BY <1>1, FS_EmptySet DEF Init, ClientsAreHeld

\* Every exit of authenticateLdap, its errors included, leaves the counter of bound
\* connections at the number of those its handler and the others still hold.
THEOREM ClientsAreAlwaysHeld == Spec => [](CredentialsInv /\ ClientsAreHeld)
<1> QED
  BY InitEstablishesCredentialsInv, NextKeepsCredentialsInv, InitEstablishesClients,
     NextKeepsClients, PTL DEF Spec

\* The records keep their types, and no exit unbinds a connection a second time: the
\* count of bound ones never falls below zero.
THEOREM TypesAreKept == Spec => []TypeOK
<1>1. CredentialsInv /\ ClientsAreHeld => TypeOK
  BY FS_CardinalityType DEF CredentialsInv, ClientsAreHeld, TypeOK
<1> QED
  BY <1>1, ClientsAreAlwaysHeld, PTL

\* However sign-ins through the directory overlap, are refused or fail on their way,
\* no connection outlives the requests.
THEOREM NoClientIsLeftBound == Spec => []ClientsAreUnbound
<1>1. CredentialsInv /\ ClientsAreHeld => ClientsAreUnbound
  <2> SUFFICES ASSUME ClientsAreHeld, \A r \in Requests : req[r] = Idle
               PROVE  clients = 0
    BY DEF ClientsAreUnbound
  <2>1. Bound = {}
    BY DEF Bound, Held, At, Idle
  <2> QED
    BY <2>1, FS_EmptySet DEF ClientsAreHeld
<1> QED
  BY <1>1, ClientsAreAlwaysHeld, PTL


-----------------------------------------------------------------------------
(* One request at a time, and nothing fails                                *)

LEMMA IdleKnowsAlone == KnowsAlone(Idle)' /\ Idle.call # "add"
BY DEF Idle, KnowsAlone

LEMMA OneOrNone ==
    ASSUME NEW S, IsFiniteSet(S), Cardinality(S) <= 1, NEW a \in S, NEW b \in S
    PROVE  a = b
<1> SUFFICES ASSUME a # b PROVE FALSE
  OBVIOUS
<1>1. IsFiniteSet({a}) /\ Cardinality({a}) = 1
  BY FS_Singleton
<1>2. IsFiniteSet({a} \cup {b}) /\ Cardinality({a} \cup {b}) = 2
  <2>1. b \notin {a}
    OBVIOUS
  <2>2. /\ IsFiniteSet({a} \cup {b})
        /\ Cardinality({a} \cup {b}) = Cardinality({a}) + 1
    BY <1>1, <2>1, FS_AddElement
  <2> QED
    BY <1>1, <2>2
<1>3. {a} \cup {b} \in SUBSET S
  OBVIOUS
<1>4. Cardinality({a} \cup {b}) <= Cardinality(S) /\ Cardinality(S) \in Nat
  <2>1. Cardinality(S) \in Nat
    BY FS_CardinalityType
  <2> QED
    BY <1>3, <2>1, FS_Subset
<1> QED
  BY <1>2, <1>4

\* A handler changes its own record only, and one that has work to do goes on.
LEMMA OnlyOneMoves ==
    ASSUME CredentialsInv, NEW r \in Requests, Serve(r)
    PROVE  /\ \A s \in Requests \ {r} : req'[s] = req[s]
           /\ req[r] # Idle \/ req'[r] # Idle
<1>1. req \in [Requests -> Request]
  BY DEF CredentialsInv, RecordsOK
<1>2. \E q : req' = [req EXCEPT ![r] = q]
  <2>1. CASE \/ RequestSignUp(r) \/ RequestProvider(r) \/ RequestLdap(r)
             \/ RequestForgot(r) \/ RequestVerify(r) \/ RequestReset(r)
             \/ RequestChange(r) \/ RequestUpdate(r)
    BY <2>1 DEF RequestSignUp, RequestProvider, RequestLdap, RequestForgot,
       RequestVerify, RequestReset, RequestChange, RequestUpdate, Start
  <2>2. CASE \/ SignUpFindUserByEmail(r) \/ FindUserByUsername(r) \/ CreateUser(r)
             \/ ProviderFindUserByEmail(r) \/ ClearUserResetToken(r)
             \/ UpdateUserPassword(r) \/ UpdateFindUserById(r) \/ UpdateUser(r)
             \/ UpdateUserResetToken(r) \/ Announce(r) \/ BindAdmin(r)
             \/ SearchDn(r) \/ BindUser(r)
    <3>1. Finish(r) \/ \E call : Continue(r, call)
      BY <2>2 DEF SignUpFindUserByEmail, FindUserByUsername, CreateUser,
         ProviderFindUserByEmail, ClearUserResetToken, UpdateUserPassword,
         UpdateFindUserById, UpdateUser, UpdateUserResetToken, Announce, BindAdmin,
         SearchDn, BindUser, Refuse
    <3> QED
      BY <3>1 DEF Finish, Continue
  <2>3. CASE SearchUser(r)
    BY <2>3 DEF SearchUser, Finish
  <2>4. CASE ForgotFindUserByEmail(r)
    BY <2>4 DEF ForgotFindUserByEmail, Finish
  <2>5. CASE FindUserByResetToken(r)
    BY <2>5 DEF FindUserByResetToken, Finish
  <2>6. CASE ResetFindUserById(r) \/ ChangeFindUserById(r)
    BY <2>6 DEF ResetFindUserById, ChangeFindUserById, Finish
  <2> QED
    BY <2>1, <2>2, <2>3, <2>4, <2>5, <2>6 DEF Serve
<1>3. CASE \/ RequestSignUp(r) \/ RequestProvider(r) \/ RequestLdap(r)
           \/ RequestForgot(r) \/ RequestVerify(r) \/ RequestReset(r)
           \/ RequestChange(r) \/ RequestUpdate(r)
  <2>1. req'[r].call # "idle"
    BY <1>1, <1>3 DEF RequestSignUp, RequestProvider, RequestLdap, RequestForgot,
       RequestVerify, RequestReset, RequestChange, RequestUpdate, Start, Idle
  <2> QED
    BY <1>1, <1>2, <2>1, IdleHoldsNothing
<1>4. CASE ~(\/ RequestSignUp(r) \/ RequestProvider(r) \/ RequestLdap(r)
             \/ RequestForgot(r) \/ RequestVerify(r) \/ RequestReset(r)
             \/ RequestChange(r) \/ RequestUpdate(r))
  <2>1. req[r].call # "idle"
    BY <1>4 DEF Serve, SignUpFindUserByEmail, FindUserByUsername, CreateUser,
       ProviderFindUserByEmail, ClearUserResetToken, UpdateUserPassword,
       UpdateFindUserById, UpdateUser, UpdateUserResetToken, Announce, BindAdmin,
       SearchDn, BindUser, SearchUser, ForgotFindUserByEmail, FindUserByResetToken,
       ResetFindUserById, ChangeFindUserById, At
  <2> QED
    BY <1>1, <1>2, <2>1, IdleHoldsNothing
<1> QED
  BY <1>3, <1>4

LEMMA BusyStaysFinite ==
    ASSUME CredentialsInv, IsFiniteSet(Busy), [Next]_vars
    PROVE  IsFiniteSet(Busy')
<1>1. ASSUME NEW r \in Requests, \A s \in Requests \ {r} : req'[s] = req[s]
      PROVE  IsFiniteSet(Busy')
  <2>1. Busy' \subseteq Busy \cup {r}
    BY <1>1 DEF Busy
  <2>2. IsFiniteSet(Busy \cup {r})
    BY FS_AddElement
  <2> QED
    BY <2>1, <2>2, FS_Subset
<1>2. CASE \E r \in Requests : Serve(r)
  BY <1>1, <1>2, OnlyOneMoves
<1>3. CASE \E r \in Requests : Fail(r)
  <2>1. PICK r \in Requests : req' = [req EXCEPT ![r] = Idle]
    BY <1>3 DEF Fail, Finish
  <2> QED
    BY <1>1, <2>1 DEF CredentialsInv, RecordsOK
<1>4. CASE req' = req
  <2>1. Busy' = Busy
    BY <1>4 DEF Busy
  <2> QED
    BY <2>1
<1> QED
  BY <1>2, <1>3, <1>4 DEF Next, Steps, Faults, DeleteUser, CodeExpires, TicketExpires,
     Process, Stall, JobFails, vars

\* What the steps leave alone that neither store nor honour a code nor mail one.
LEMMA CodesStayPut ==
    ASSUME [Next]_vars, ~Process, ~Stall,
           \A r \in Requests : ~UpdateUserResetToken(r) /\ ~ClearUserResetToken(r)
    PROVE  UNCHANGED <<stored, honoured, mailed>>
<1>1. ASSUME NEW r \in Requests,
             \/ RequestSignUp(r) \/ SignUpFindUserByEmail(r) \/ FindUserByUsername(r)
             \/ CreateUser(r) \/ RequestProvider(r) \/ RequestLdap(r) \/ BindAdmin(r)
             \/ SearchDn(r) \/ BindUser(r) \/ SearchUser(r) \/ ProviderFindUserByEmail(r)
             \/ RequestForgot(r) \/ ForgotFindUserByEmail(r) \/ RequestVerify(r)
             \/ FindUserByResetToken(r)
      PROVE  UNCHANGED <<stored, honoured, mailed>>
  BY <1>1 DEF RequestSignUp, SignUpFindUserByEmail, FindUserByUsername, CreateUser,
     RequestProvider, RequestLdap, BindAdmin, SearchDn, BindUser, SearchUser,
     ProviderFindUserByEmail, RequestForgot, ForgotFindUserByEmail, RequestVerify,
     FindUserByResetToken, Start, Refuse, rows, mails
<1>2. ASSUME NEW r \in Requests,
             \/ RequestReset(r) \/ ResetFindUserById(r) \/ RequestChange(r)
             \/ ChangeFindUserById(r) \/ UpdateUserPassword(r) \/ RequestUpdate(r)
             \/ UpdateFindUserById(r) \/ UpdateUser(r) \/ Announce(r) \/ Fail(r)
      PROVE  UNCHANGED <<stored, honoured, mailed>>
  BY <1>2 DEF RequestReset, ResetFindUserById, RequestChange, ChangeFindUserById,
     UpdateUserPassword, RequestUpdate, UpdateFindUserById, UpdateUser, Announce, Fail,
     Start, Refuse, rows, mails
<1>3. CASE DeleteUser \/ CodeExpires \/ TicketExpires \/ JobFails \/ UNCHANGED vars
  BY <1>3 DEF DeleteUser, CodeExpires, TicketExpires, JobFails, vars, rows, mails
<1> QED
  BY <1>1, <1>2, <1>3 DEF Next, Steps, Faults, Serve

LEMMA UsedCodesStayStored ==
    ASSUME CredentialsInv, UsedCodesAreStored, [Next]_vars
    PROVE  UsedCodesAreStored'
<1>1. CASE UNCHANGED <<stored, honoured, mailed>>
  BY <1>1 DEF UsedCodesAreStored
<1>2. ASSUME NEW r \in Requests, UpdateUserResetToken(r)
      PROVE  UsedCodesAreStored'
  <2>1. CASE Refuse(r)
    BY <1>1, <2>1 DEF Refuse, rows, mails
  <2>2. CASE ~Refuse(r)
    <3>1. PICK u \in Live :
            /\ stored' = [stored EXCEPT ![req[r].code] = [user |-> u, email |-> user[u].email]]
            /\ UNCHANGED <<honoured, mailed>>
      BY <1>2, <2>2 DEF UpdateUserResetToken, ByEmail, mails
    <3>2. u # None
      BY NoneIsNoValue DEF Live
    <3>3. \A c \in Codes : stored[c].user # None => stored'[c].user # None
      BY <3>1, <3>2 DEF CredentialsInv, RecordsOK
    <3>4. \A i \in DOMAIN mailed : mailed[i] \in Codes
      BY ElementOfSeq DEF CredentialsInv, RecordsOK
    <3> QED
      BY <3>1, <3>3, <3>4 DEF UsedCodesAreStored
  <2> QED
    BY <2>1, <2>2
<1>3. ASSUME NEW r \in Requests, ClearUserResetToken(r)
      PROVE  UsedCodesAreStored'
  <2>1. CASE UNCHANGED honoured
    BY <1>1, <1>3, <2>1 DEF ClearUserResetToken, Refuse, rows, mails
  <2>2. CASE ~UNCHANGED honoured
    <3> DEFINE c == req[r].code
    <3>1. /\ honoured' = [honoured EXCEPT ![c] = @ + 1] /\ c # None
          /\ UNCHANGED <<stored, mailed>>
      BY <1>3, <2>2 DEF ClearUserResetToken, Refuse, rows, mails
    <3>2. /\ ShapeOK(req[r]) /\ Knows(req[r]) /\ req[r] \in Request
          /\ req[r].call = "clearUserResetToken"
      BY <1>3 DEF ClearUserResetToken, At, CredentialsInv, RecordsOK
    <3>3. c \in Codes /\ stored[c].user # None
      BY <3>1, <3>2, NoneIsNoValue DEF ShapeOK, Knows, Request
    <3>4. \A d \in Codes : d # c => honoured'[d] = honoured[d]
      BY <3>1, <3>3 DEF CredentialsInv, RecordsOK
    <3> QED
      BY <3>1, <3>3, <3>4 DEF UsedCodesAreStored
  <2> QED
    BY <2>1, <2>2
<1>4. CASE Process \/ Stall
  <2>1. UNCHANGED <<stored, honoured>> /\ mailed' \in {mailed, Sent}
    BY <1>4 DEF Process, Stall, rows
  <2>2. CASE mailed' = mailed
    BY <1>1, <2>1, <2>2
  <2>3. CASE mailed' # mailed
    <3>1. /\ jobs \in Seq(Job) /\ jobs # <<>> /\ mailed \in Seq(Codes)
          /\ mailed' = Append(mailed, jobs[1].code) /\ jobs[1].code # None
      BY <1>4, <2>1, <2>3 DEF Process, Stall, Sent, CredentialsInv, RecordsOK
    <3>2. 1 \in DOMAIN jobs
      BY <3>1
    <3>3. stored[jobs[1].code].user # None
      BY <3>1, <3>2 DEF CredentialsInv, MailedCodesAreStored
    <3>4. \A i \in DOMAIN mailed' :
             \/ i \in DOMAIN mailed /\ mailed'[i] = mailed[i]
             \/ mailed'[i] = jobs[1].code
      BY <3>1
    <3> QED
      BY <2>1, <3>3, <3>4 DEF UsedCodesAreStored
  <2> QED
    BY <2>2, <2>3
<1> QED
  BY <1>1, <1>2, <1>3, <1>4, CodesStayPut


\* The rows keep their codes, but for those that go and those that come.
TokensStay ==
    \A v \in Live' :
        IF v \in Live THEN user'[v].resetToken = user[v].resetToken
                      ELSE user'[v].resetToken = None

\* The handler of r does not announce, stores and honours no code.
LEMMA PlainStepAlone ==
    ASSUME CredentialsInv, Alone, NEW r \in Requests,
           \A s \in Requests \ {r} : req[s] = Idle /\ req'[s] = Idle,
           \A s, t \in Busy' : s = t,
           UNCHANGED <<stored, honoured, jobs, mailed>>, TokensStay,
           req[r].call # "add", KnowsAlone(req[r])'
    PROVE  Alone'
<1>1. \A s \in Requests : KnowsAlone(req[s])'
  BY IdleKnowsAlone DEF KnowsAlone
<1>2. HonouredAreSpent'
  <2> SUFFICES ASSUME NEW c \in Codes, honoured[c] = 1, NEW v \in Live',
                      user'[v].resetToken = c
               PROVE  FALSE
    BY DEF Alone, HonouredAreSpent, ByResetToken
  <2> QED
    BY NoneIsNoValue DEF Alone, HonouredAreSpent, ByResetToken, TokensStay
<1>3. CodesAreOnTheirWay'
  <2> SUFFICES ASSUME NEW v \in Live', user'[v].resetToken # None
               PROVE  IsOnItsWay(v)'
    BY DEF CodesAreOnTheirWay
  <2>1. v \in Live /\ user'[v].resetToken = user[v].resetToken
    BY DEF TokensStay
  <2>2. IsOnItsWay(v)
    BY <2>1 DEF Alone, CodesAreOnTheirWay
  <2>3. \A s \in Requests : ~At(s, "add")
    BY DEF At, Idle
  <2> QED
    BY <2>1, <2>2, <2>3 DEF IsOnItsWay, IsNewest
<1> QED
  BY <1>1, <1>2, <1>3 DEF Alone


LEMMA ServingPlainlyAlone ==
    ASSUME CredentialsInv, Alone, NEW r \in Requests, Serve(r),
           ~UpdateUserResetToken(r), ~ClearUserResetToken(r), ~Announce(r)
    PROVE  /\ UNCHANGED <<stored, honoured, jobs, mailed>>
           /\ TokensStay
           /\ req[r].call # "add"
           /\ KnowsAlone(req[r])'
<1>1. /\ req \in [Requests -> Request] /\ user \in [Users -> Row \cup {Unborn, Deleted}]
      /\ req[r] \in Request /\ ShapeOK(req[r]) /\ KnowsAlone(req[r])
  BY DEF CredentialsInv, RecordsOK, Alone
<1>2. ASSUME UNCHANGED user PROVE TokensStay
  BY <1>2 DEF TokensStay, Live
<1>3. ASSUME Finish(r) PROVE KnowsAlone(req[r])'
  BY <1>1, <1>3, IdleKnowsAlone DEF Finish, KnowsAlone
<1>4. ASSUME UNCHANGED <<rows, mails>>, Finish(r), ~At(r, "add")
      PROVE  /\ UNCHANGED <<stored, honoured, jobs, mailed>> /\ TokensStay
             /\ req[r].call # "add" /\ KnowsAlone(req[r])'
  BY <1>2, <1>3, <1>4 DEF rows, mails, At
<1>5. ASSUME UNCHANGED <<rows, mails>>, ~At(r, "add"),
             NEW q, req' = [req EXCEPT ![r] = q],
             q.call \notin {"clearUserResetToken", "updateUserPassword", "add"}
      PROVE  /\ UNCHANGED <<stored, honoured, jobs, mailed>> /\ TokensStay
             /\ req[r].call # "add" /\ KnowsAlone(req[r])'
  <2>1. req'[r] = q
    BY <1>1, <1>5
  <2>2. KnowsAlone(req[r])'
    BY <1>5, <2>1 DEF KnowsAlone
  <2> QED
    BY <1>2, <1>5, <2>2 DEF rows, mails, At
<1>6. CASE \/ RequestSignUp(r) \/ RequestProvider(r) \/ RequestLdap(r)
           \/ RequestForgot(r) \/ RequestVerify(r) \/ RequestReset(r)
           \/ RequestChange(r) \/ RequestUpdate(r)
  <2>1. ASSUME NEW q, Start(r, q), q.call \in {"findUserByEmail", "bindAdmin",
                                                "findUserByResetToken", "findUserById"}
        PROVE  /\ UNCHANGED <<stored, honoured, jobs, mailed>> /\ TokensStay
               /\ req[r].call # "add" /\ KnowsAlone(req[r])'
    <3>1. /\ UNCHANGED <<rows, mails>> /\ req' = [req EXCEPT ![r] = q] /\ ~At(r, "add")
          /\ q.call \notin {"clearUserResetToken", "updateUserPassword", "add"}
      BY <2>1, IdleHoldsNothing DEF Start, At
    <3> QED
      BY <1>5, <3>1
  <2> QED
    BY <1>6, <2>1 DEF RequestSignUp, RequestProvider, RequestLdap, RequestForgot,
       RequestVerify, RequestReset, RequestChange, RequestUpdate, Idle
<1>7. CASE \/ SignUpFindUserByEmail(r) \/ FindUserByUsername(r) \/ BindAdmin(r)
           \/ SearchDn(r) \/ BindUser(r) \/ ProviderFindUserByEmail(r)
           \/ UpdateFindUserById(r)
  <2>1. /\ UNCHANGED <<rows, mails>> /\ ~At(r, "add")
        /\ \/ Finish(r)
           \/ \E call \in {"findUserByUsername", "createUser", "searchDn", "searchUser",
                           "bindUser", "bindAdminAgain", "updateUser"} : Continue(r, call)
    BY <1>7 DEF SignUpFindUserByEmail, FindUserByUsername, BindAdmin, SearchDn, BindUser,
       ProviderFindUserByEmail, UpdateFindUserById, At
  <2>2. CASE Finish(r)
    BY <1>4, <2>1, <2>2
  <2>3. CASE ~Finish(r)
    <3>1. PICK call \in {"findUserByUsername", "createUser", "searchDn", "searchUser",
                         "bindUser", "bindAdminAgain", "updateUser"} : Continue(r, call)
      BY <2>1, <2>3
    <3>2. [req[r] EXCEPT !.call = call].call = call
      BY <1>1 DEF Request
    <3> QED
      BY <1>5, <2>1, <3>1, <3>2 DEF Continue
  <2> QED
    BY <2>2, <2>3
<1>8. CASE SearchUser(r) \/ ForgotFindUserByEmail(r)
  <2>1. UNCHANGED <<rows, mails>> /\ ~At(r, "add")
    BY <1>8 DEF SearchUser, ForgotFindUserByEmail, At
  <2>2. CASE Finish(r)
    BY <1>4, <2>1, <2>2
  <2>3. CASE SearchUser(r) /\ ~Finish(r)
    <3>1. PICK e : req' = [req EXCEPT ![r].call = "findUserByEmail", ![r].email = e]
      BY <2>3 DEF SearchUser
    <3>2. [req[r] EXCEPT !.call = "findUserByEmail", !.email = e].call = "findUserByEmail"
      BY <1>1 DEF Request
    <3> QED
      BY <1>5, <2>1, <3>1, <3>2
  <2>4. CASE ForgotFindUserByEmail(r) /\ ~Finish(r)
    <3>1. PICK u : req' = [req EXCEPT ![r].call = "updateUserResetToken", ![r].user = u]
      BY <2>4 DEF ForgotFindUserByEmail
    <3>2. [req[r] EXCEPT !.call = "updateUserResetToken", !.user = u].call
            = "updateUserResetToken"
      BY <1>1 DEF Request
    <3> QED
      BY <1>5, <2>1, <3>1, <3>2
  <2> QED
    BY <1>8, <2>2, <2>3, <2>4
<1>9. CASE FindUserByResetToken(r)
  <2>1. UNCHANGED <<rows, mails>> /\ ~At(r, "add")
    BY <1>9 DEF FindUserByResetToken, At
  <2>2. CASE Finish(r)
    BY <1>4, <2>1, <2>2
  <2>3. CASE ~Finish(r)
    <3> DEFINE c == req[r].code
    <3>1. PICK u \in ByResetToken(c) :
            req' = [req EXCEPT ![r].call = "clearUserResetToken", ![r].user = u,
                               ![r].code = IF c \in expired THEN None ELSE c]
      BY <1>9, <2>3 DEF FindUserByResetToken
    <3>2. /\ req'[r].call = "clearUserResetToken" /\ req'[r].user = u
          /\ req'[r].code = IF c \in expired THEN None ELSE c
      BY <1>1, <3>1 DEF Request
    <3>3. c # None /\ u \in Live /\ user[u].resetToken = c
      BY <1>1, <1>9, NoneIsNoValue DEF FindUserByResetToken, At, ShapeOK, ByResetToken
    <3>4. KnowsAlone(req[r])'
      BY <2>1, <3>2, <3>3 DEF KnowsAlone, Live, rows
    <3> QED
      BY <1>2, <2>1, <3>4 DEF rows, mails, At
  <2> QED
    BY <2>2, <2>3
<1>10. CASE ResetFindUserById(r) \/ ChangeFindUserById(r)
  <2>1. UNCHANGED <<rows, mails>> /\ ~At(r, "add")
    BY <1>10 DEF ResetFindUserById, ChangeFindUserById, At
  <2>2. CASE Finish(r)
    BY <1>4, <2>1, <2>2
  <2>3. CASE ~Finish(r)
    <3>1. PICK e : req' = [req EXCEPT ![r].call = "updateUserPassword", ![r].email = e]
      BY <1>10, <2>3 DEF ResetFindUserById, ChangeFindUserById
    <3>2. /\ req'[r].call = "updateUserPassword" /\ req'[r].handler = req[r].handler
          /\ req'[r].user = req[r].user /\ req'[r].old = req[r].old
      BY <1>1, <3>1 DEF Request
    <3>3. req[r].handler = "changePassword" => user[req[r].user].passwordHash = req[r].old
      BY <1>10, <2>3 DEF ResetFindUserById, ChangeFindUserById, IsOldPasswordValid, By
    <3>4. KnowsAlone(req[r])'
      BY <2>1, <3>2, <3>3 DEF KnowsAlone, rows
    <3> QED
      BY <1>2, <2>1, <3>4 DEF rows, mails, At
  <2> QED
    BY <2>2, <2>3
<1>11. ASSUME UNCHANGED <<stored, honoured, jobs, mailed>>, ~At(r, "add"),
              NEW u \in Users, NEW row \in Row, user' = [user EXCEPT ![u] = row],
              \/ user[u] = Unborn /\ row.resetToken = None
              \/ u \in Live /\ row.resetToken = user[u].resetToken,
              \/ Finish(r)
              \/ Continue(r, "add") /\ req[r].code = None
       PROVE  /\ UNCHANGED <<stored, honoured, jobs, mailed>> /\ TokensStay
              /\ req[r].call # "add" /\ KnowsAlone(req[r])'
  <2>1. TokensStay
    BY <1>1, <1>11, NoRowIsNoRow DEF TokensStay, Live
  <2>2. CASE Continue(r, "add") /\ req[r].code = None
    <3>1. req'[r].call = "add" /\ req'[r].code = None
      BY <1>1, <2>2 DEF Continue, Request
    <3> QED
      BY <1>11, <2>1, <3>1 DEF KnowsAlone, At
  <2> QED
    BY <1>3, <1>11, <2>1, <2>2 DEF At
<1>12. CASE CreateUser(r)
  <2>1. CASE Refuse(r)
    BY <1>4, <1>12, <2>1 DEF CreateUser, Refuse, At
  <2>2. CASE ~Refuse(r)
    <3> DEFINE row == [email |-> req[r].email,
                       authProvider |-> IF By(r, "signUp") THEN "LOCAL" ELSE "EXTERNAL",
                       passwordHash |-> req[r].new, resetToken |-> None]
    <3>1. PICK u \in Users : user[u] = Unborn /\ user' = [user EXCEPT ![u] = row]
      BY <1>12, <2>2 DEF CreateUser
    <3>2. /\ Finish(r) \/ (By(r, "signUp") /\ Continue(r, "add"))
          /\ UNCHANGED <<stored, honoured, jobs, mailed>> /\ At(r, "createUser")
      BY <1>12, <2>2 DEF CreateUser, mails
    <3>3. row \in Row /\ row.resetToken = None
      BY <1>1, <3>2 DEF At, ShapeOK, Request, Row, AuthProvider
    <3>4. By(r, "signUp") => req[r].code = None
      BY <1>1 DEF By, ShapeOK
    <3> HIDE DEF row
    <3> QED
      BY <1>11, <3>1, <3>2, <3>3, <3>4 DEF At
  <2> QED
    BY <2>1, <2>2
<1>13. CASE UpdateUserPassword(r)
  <2>1. CASE Refuse(r)
    BY <1>4, <1>13, <2>1 DEF UpdateUserPassword, Refuse, At
  <2>2. CASE ~Refuse(r)
    <3> DEFINE u == req[r].user
               row == [user[u] EXCEPT !.passwordHash = req[r].new]
    <3>1. /\ At(r, "updateUserPassword") /\ u \in Live /\ user' = [user EXCEPT ![u] = row]
          /\ Continue(r, "add") /\ UNCHANGED <<stored, honoured, jobs, mailed>>
      BY <1>13, <2>2 DEF UpdateUserPassword, mails
    <3>2. u \in Users /\ user[u] \in Row
      BY <1>1, <3>1 DEF Live
    <3>3. req[r].code = None /\ req[r].new \in Passwords
      BY <1>1, <3>1 DEF At, ShapeOK
    <3>4. row \in Row /\ row.resetToken = user[u].resetToken
      BY <3>2, <3>3 DEF Row
    <3> HIDE DEF row, u
    <3> QED
      BY <1>11, <3>1, <3>2, <3>3, <3>4 DEF At
  <2> QED
    BY <2>1, <2>2
<1>14. CASE UpdateUser(r)
  <2>1. CASE Refuse(r)
    BY <1>4, <1>14, <2>1 DEF UpdateUser, Refuse, At
  <2>2. CASE ~Refuse(r)
    <3> DEFINE u == req[r].user
               row == [user[u] EXCEPT !.email = req[r].email]
    <3>1. /\ At(r, "updateUser") /\ u \in Live /\ user' = [user EXCEPT ![u] = row]
          /\ Finish(r) /\ UNCHANGED <<stored, honoured, jobs, mailed>>
      BY <1>14, <2>2 DEF UpdateUser, mails
    <3>2. u \in Users /\ user[u] \in Row
      BY <1>1, <3>1 DEF Live
    <3>3. req[r].email \in Emails
      BY <1>1, <3>1 DEF At, ShapeOK
    <3>4. row \in Row /\ row.resetToken = user[u].resetToken
      BY <3>2, <3>3 DEF Row
    <3> HIDE DEF row, u
    <3> QED
      BY <1>11, <3>1, <3>2, <3>4 DEF At
  <2> QED
    BY <2>1, <2>2
<1> QED
  BY <1>6, <1>7, <1>8, <1>9, <1>10, <1>12, <1>13, <1>14 DEF Serve


LEMMA ClearingAlone ==
    ASSUME CredentialsInv, UsedCodesAreStored, Alone, NEW r \in Requests,
           ClearUserResetToken(r),
           \A s \in Requests \ {r} : req[s] = Idle /\ req'[s] = Idle,
           \A s, t \in Busy' : s = t
    PROVE  Alone'
<1> DEFINE u == req[r].user
           c == req[r].code
<1>1. /\ req \in [Requests -> Request] /\ user \in [Users -> Row \cup {Unborn, Deleted}]
      /\ req[r] \in Request /\ KnowsAlone(req[r]) /\ ShapeOK(req[r])
      /\ req[r].call = "clearUserResetToken"
  BY DEF CredentialsInv, RecordsOK, Alone, ClearUserResetToken, At
<1>2. /\ u \in Live /\ u \in Users /\ user[u] \in Row
      /\ user[u].resetToken # None /\ user[u].resetToken \in Codes
      /\ c # None => user[u].resetToken = c
  BY <1>1 DEF KnowsAlone, Live, Row
<1>3. /\ user' = [user EXCEPT ![u].resetToken = None]
      /\ req' = [req EXCEPT ![r] = Idle]
      /\ UNCHANGED <<expired, stored, mails>>
      /\ IF c # None THEN honoured' = [honoured EXCEPT ![c] = @ + 1]
                     ELSE UNCHANGED honoured
  BY <1>2 DEF ClearUserResetToken, Finish
<1>4. /\ user'[u] = [user[u] EXCEPT !.resetToken = None]
      /\ \A v \in Users \ {u} : user'[v] = user[v]
  BY <1>1, <1>2, <1>3
<1>5. user'[u] \in Row /\ user'[u].resetToken = None
  BY <1>2, <1>4 DEF Row
<1>6. \A v \in Users : v \in Live' <=> v \in Live
  BY <1>2, <1>4, <1>5, NoRowIsNoRow DEF Live
<1>7. Live' \subseteq Users /\ Live \subseteq Users
  BY DEF Live
<1>8. \A s \in Requests : req'[s] = Idle
  BY <1>1, <1>3
<1>9. \A s \in Requests : KnowsAlone(req[s])'
  BY <1>8, IdleKnowsAlone DEF KnowsAlone
<1>10. HonouredAreSpent'
  <2>1. ASSUME NEW d \in Codes, d # c \/ c = None
        PROVE  honoured'[d] = honoured[d]
    BY <1>3, <2>1 DEF CredentialsInv, RecordsOK
  <2>2. \A d \in Codes : ByResetToken(d) = {} => ByResetToken(d)' = {}
    BY <1>4, <1>5, <1>6, <1>7, NoneIsNoValue DEF ByResetToken
  <2>3. CASE c = None
    BY <2>1, <2>2, <2>3 DEF Alone, HonouredAreSpent
  <2>4. CASE c # None
    <3>1. c \in Codes /\ u \in ByResetToken(c)
      BY <1>2, <2>4 DEF ByResetToken
    <3>2. honoured[c] \in Nat /\ honoured[c] <= 1 /\ honoured[c] # 1
      BY <3>1 DEF CredentialsInv, RecordsOK, Alone, HonouredAreSpent
    <3>3. honoured'[c] = 1
      BY <1>3, <2>4, <3>1, <3>2 DEF CredentialsInv, RecordsOK
    <3>4. \A v \in Live : user[v].resetToken = c => v = u
      BY <1>2, <2>4 DEF CredentialsInv, RowsInv, TokensAreStored
    <3>5. PICK d \in Codes : d = c
      BY <3>1
    <3>6. ByResetToken(d)' = {}
      BY <1>4, <1>5, <1>6, <1>7, <2>4, <3>4, <3>5 DEF ByResetToken
    <3>7. honoured'[d] = 1 /\ \A x \in Codes \ {d} : honoured'[x] = honoured[x]
      BY <2>1, <3>3, <3>5
    <3> HIDE DEF c
    <3> QED
      BY <2>2, <3>6, <3>7 DEF Alone, HonouredAreSpent
  <2> QED
    BY <2>3, <2>4
<1>11. CodesAreOnTheirWay'
  <2> SUFFICES ASSUME NEW v \in Users, v \in Live', user'[v].resetToken # None
               PROVE  IsOnItsWay(v)'
    BY <1>7 DEF CodesAreOnTheirWay
  <2>1. v \in Live /\ user'[v] = user[v]
    BY <1>4, <1>5, <1>6
  <2>2. IsOnItsWay(v)
    BY <2>1 DEF Alone, CodesAreOnTheirWay
  <2>3. \A s \in Requests : ~At(s, "add")
    BY <1>1 DEF At, Idle
  <2> QED
    BY <1>3, <2>1, <2>2, <2>3 DEF IsOnItsWay, IsNewest, mails
<1> QED
  BY <1>9, <1>10, <1>11 DEF Alone

LEMMA StoringAlone ==
    ASSUME CredentialsInv, UsedCodesAreStored, Alone, NEW r \in Requests,
           UpdateUserResetToken(r),
           \A s \in Requests \ {r} : req[s] = Idle /\ req'[s] = Idle,
           \A s, t \in Busy' : s = t
    PROVE  Alone'
<1> DEFINE c == req[r].code
<1>1. /\ req \in [Requests -> Request] /\ user \in [Users -> Row \cup {Unborn, Deleted}]
      /\ req[r] \in Request /\ Knows(req[r]) /\ ShapeOK(req[r])
      /\ req[r].call = "updateUserResetToken"
  BY DEF CredentialsInv, RecordsOK, UpdateUserResetToken, At
<1>2. CASE Refuse(r)
  <2>1. UNCHANGED <<stored, honoured, jobs, mailed, user>> /\ req'[r] = Idle
    BY <1>1, <1>2 DEF Refuse, Finish, rows, mails
  <2>2. TokensStay /\ KnowsAlone(req[r])'
    BY <2>1, IdleKnowsAlone DEF TokensStay, Live, KnowsAlone
  <2> QED
    BY <1>1, <2>1, <2>2, PlainStepAlone
<1>3. CASE ~Refuse(r)
  <2>1. PICK u \in ByEmail(req[r].email) :
          /\ user' = [user EXCEPT ![u].resetToken = c]
          /\ stored' = [stored EXCEPT ![c] = [user |-> u, email |-> user[u].email]]
          /\ req' = [req EXCEPT ![r].call = "add"]
          /\ UNCHANGED <<honoured, mails>>
    BY <1>3 DEF UpdateUserResetToken, Continue
  <2>2. u \in Live /\ u \in Users /\ user[u] \in Row
    BY <1>1 DEF ByEmail, Live
  <2>3. c \in Codes /\ c # None /\ stored[c].user = None
    BY <1>1, NoneIsNoValue DEF ShapeOK, Knows, Pending
  <2>4. /\ stored'[c].user = u
        /\ \A d \in Codes \ {c} : stored'[d] = stored[d]
    BY <2>1, <2>3 DEF CredentialsInv, RecordsOK
  <2>5. /\ user'[u] = [user[u] EXCEPT !.resetToken = c]
        /\ \A v \in Users \ {u} : user'[v] = user[v]
    BY <1>1, <2>1, <2>2
  <2>6. user'[u] \in Row /\ user'[u].resetToken = c
    BY <2>2, <2>3, <2>5 DEF Row
  <2>7. \A v \in Users : v \in Live' <=> v \in Live
    BY <2>2, <2>5, <2>6, NoRowIsNoRow DEF Live
  <2>8. Live' \subseteq Users /\ Live \subseteq Users
    BY DEF Live
  <2>9. /\ req'[r].call = "add" /\ req'[r].code = c
        /\ req'[r].handler = req[r].handler
    BY <1>1, <2>1 DEF Request
  <2>10. \A s \in Requests : KnowsAlone(req[s])'
    <3>1. KnowsAlone(req[r])'
      BY <2>4, <2>6, <2>9 DEF KnowsAlone
    <3> QED
      BY <3>1, IdleKnowsAlone DEF KnowsAlone
  <2>11. HonouredAreSpent'
    <3>1. honoured[c] # 1
      BY <2>3 DEF UsedCodesAreStored
    <3>2. \A d \in Codes \ {c} : ByResetToken(d) = {} => ByResetToken(d)' = {}
      BY <2>5, <2>6, <2>7, <2>8 DEF ByResetToken
    <3> QED
      BY <2>1, <2>3, <3>1, <3>2 DEF Alone, HonouredAreSpent
  <2>12. CodesAreOnTheirWay'
    <3> SUFFICES ASSUME NEW v \in Users, v \in Live', user'[v].resetToken # None
                 PROVE  IsOnItsWay(v)'
      BY <2>8 DEF CodesAreOnTheirWay
    <3>1. CASE v = u
      BY <2>6, <2>9, <3>1 DEF IsOnItsWay, At
    <3>2. CASE v # u
      <4>1. v \in Live /\ user'[v] = user[v]
        BY <2>5, <2>7, <3>2
      <4>2. IsOnItsWay(v)
        BY <4>1 DEF Alone, CodesAreOnTheirWay
      <4>3. \A s \in Requests : ~At(s, "add")
        BY <1>1 DEF At, Idle
      <4>4. \A j \in DOMAIN jobs : jobs[j].code # None /\ stored'[jobs[j].code].user = v
                                     => stored[jobs[j].code].user = v
        <5>1. \A j \in DOMAIN jobs : jobs[j] \in Job
          BY ElementOfSeq DEF CredentialsInv, RecordsOK
        <5> QED
          BY <2>4, <3>2, <5>1 DEF Job
      <4>5. \A j \in DOMAIN mailed : stored'[mailed[j]].user = v => stored[mailed[j]].user = v
        <5>1. \A j \in DOMAIN mailed : mailed[j] \in Codes
          BY ElementOfSeq DEF CredentialsInv, RecordsOK
        <5> QED
          BY <2>4, <3>2, <5>1
      <4>6. jobs' = jobs /\ mailed' = mailed /\ user'[v].resetToken = user[v].resetToken
        BY <2>1, <4>1 DEF mails
      <4>7. \A i \in DOMAIN mailed : IsNewest(v, mailed, i) => IsNewest(v, mailed, i)'
        BY <4>5, <4>6 DEF IsNewest
      <4> QED
        BY <4>2, <4>3, <4>4, <4>6, <4>7 DEF IsOnItsWay
    <3> QED
      BY <3>1, <3>2
  <2> QED
    BY <2>10, <2>11, <2>12 DEF Alone
<1> QED
  BY <1>2, <1>3


\* The announced code is its row's, and it is last in the queue.
LEMMA AnnouncingAlone ==
    ASSUME CredentialsInv, Alone, NEW r \in Requests, Announce(r),
           \A s \in Requests \ {r} : req[s] = Idle /\ req'[s] = Idle,
           \A s, t \in Busy' : s = t
    PROVE  Alone'
<1> DEFINE job == [email |-> req[r].email, code |-> req[r].code, stalled |-> FALSE]
<1>1. /\ jobs' = Append(jobs, job) /\ req' = [req EXCEPT ![r] = Idle]
      /\ UNCHANGED <<rows, mailed>>
      /\ req[r].call = "add" /\ KnowsAlone(req[r]) /\ jobs \in Seq(Job)
  BY DEF Announce, Finish, At, Alone, CredentialsInv, RecordsOK
<1>2. \A s \in Requests : req'[s] = Idle
  BY <1>1 DEF CredentialsInv, RecordsOK
<1>3. \A s \in Requests : KnowsAlone(req[s])'
  BY <1>2, IdleKnowsAlone DEF KnowsAlone
<1>4. HonouredAreSpent'
  BY <1>1 DEF Alone, HonouredAreSpent, ByResetToken, Live, rows
<1>5. CodesAreOnTheirWay'
  <2> SUFFICES ASSUME NEW v \in Users, v \in Live, user[v].resetToken # None
               PROVE  IsOnItsWay(v)'
    BY <1>1 DEF CodesAreOnTheirWay, Live, rows
  <2>1. /\ DOMAIN jobs' = 1..(Len(jobs) + 1) /\ DOMAIN jobs = 1..Len(jobs)
        /\ Len(jobs) \in Nat
        /\ \A i \in 1..Len(jobs) : jobs'[i] = jobs[i]
        /\ jobs'[Len(jobs) + 1].code = req[r].code
    BY <1>1
  <2>2. req[r].code # None /\ stored[req[r].code].user = v => req[r].code = user[v].resetToken
    BY <1>1 DEF KnowsAlone
  <2>3. user' = user /\ stored' = stored /\ mailed' = mailed
    BY <1>1 DEF rows
  <2>4. IsOnItsWay(v)
    BY DEF Alone, CodesAreOnTheirWay
  <2>5. CASE \E s \in Requests : At(s, "add") /\ req[s].code = user[v].resetToken
    <3>1. req[r].code = user[v].resetToken
      BY <2>5 DEF At, Idle
    <3>2. /\ Len(jobs) + 1 \in DOMAIN jobs'
          /\ \A j \in DOMAIN jobs' : ~(j > Len(jobs) + 1)
      BY <2>1
    <3> QED
      BY <2>1, <2>3, <3>1, <3>2 DEF IsOnItsWay
  <2>6. CASE \E i \in DOMAIN jobs :
               /\ jobs[i].code = user[v].resetToken
               /\ \A j \in DOMAIN jobs :
                     j > i /\ jobs[j].code # None /\ stored[jobs[j].code].user = v
                         => jobs[j].code = user[v].resetToken
    <3>1. PICK i \in DOMAIN jobs :
               /\ jobs[i].code = user[v].resetToken
               /\ \A j \in DOMAIN jobs :
                     j > i /\ jobs[j].code # None /\ stored[jobs[j].code].user = v
                         => jobs[j].code = user[v].resetToken
      BY <2>6
    <3>2. i \in DOMAIN jobs' /\ jobs'[i] = jobs[i]
      BY <2>1, <3>1
    <3>3. \A j \in DOMAIN jobs' :
             (j \in DOMAIN jobs /\ jobs'[j] = jobs[j]) \/ j = Len(jobs) + 1
      BY <2>1
    <3>4. \A j \in DOMAIN jobs' :
             j > i /\ jobs'[j].code # None /\ stored[jobs'[j].code].user = v
                 => jobs'[j].code = user[v].resetToken
      BY <2>1, <2>2, <3>1, <3>3
    <3> QED
      BY <2>3, <3>1, <3>2, <3>4 DEF IsOnItsWay
  <2>7. CASE /\ \E i \in DOMAIN mailed : IsNewest(v, mailed, i)
             /\ \A j \in DOMAIN jobs :
                   jobs[j].code # None /\ stored[jobs[j].code].user = v
                       => jobs[j].code = user[v].resetToken
    <3>1. \A j \in DOMAIN jobs' :
             (j \in DOMAIN jobs /\ jobs'[j] = jobs[j]) \/ j = Len(jobs) + 1
      BY <2>1
    <3>2. \A j \in DOMAIN jobs' :
             jobs'[j].code # None /\ stored[jobs'[j].code].user = v
                 => jobs'[j].code = user[v].resetToken
      BY <2>1, <2>2, <2>7, <3>1
    <3>3. \E i \in DOMAIN mailed' : IsNewest(v, mailed, i)'
      BY <2>3, <2>7 DEF IsNewest
    <3> QED
      BY <2>3, <3>2, <3>3 DEF IsOnItsWay
  <2> QED
    BY <2>4, <2>5, <2>6, <2>7 DEF IsOnItsWay
<1> QED
  BY <1>1, <1>2, <1>3, <1>4, <1>5 DEF Alone

\* The worker mails the first job, and takes it from the queue or not.
LEMMA MailingAlone ==
    ASSUME CredentialsInv, Alone, Process \/ Stall, \A s, t \in Busy' : s = t
    PROVE  Alone'
<1>1. /\ UNCHANGED <<rows, req>> /\ jobs \in Seq(Job) /\ jobs # <<>>
      /\ mailed \in Seq(Codes) /\ 1 \in DOMAIN jobs
  BY DEF Process, Stall, CredentialsInv, RecordsOK
<1>2. /\ \A s \in Requests : KnowsAlone(req[s])'
      /\ HonouredAreSpent'
  BY <1>1 DEF Alone, KnowsAlone, HonouredAreSpent, ByResetToken, Live, rows
<1>3. CodesAreOnTheirWay'
  <2> SUFFICES ASSUME NEW v \in Users, v \in Live, user[v].resetToken # None
               PROVE  IsOnItsWay(v)'
    BY <1>1 DEF CodesAreOnTheirWay, Live, rows
  <2> DEFINE t == user[v].resetToken
             Own(c) == c # None /\ stored[c].user = v
  <2>1. user' = user /\ stored' = stored /\ req' = req
    BY <1>1 DEF rows
  <2>2. IsOnItsWay(v)
    BY DEF Alone, CodesAreOnTheirWay
  <2>3. CASE \E s \in Requests : At(s, "add") /\ req[s].code = t
    BY <2>1, <2>3 DEF IsOnItsWay, At
  <2>4. \/ mailed' = mailed
        \/ mailed' = Append(mailed, jobs[1].code) /\ jobs[1].code # None
    BY <1>1 DEF Process, Stall, Sent
  \* What is mailed by a job that no code of the row is to follow.
  <2>5. ASSUME Own(jobs[1].code) => jobs[1].code = t,
               \E i \in DOMAIN mailed : IsNewest(v, mailed, i)
        PROVE  \E i \in DOMAIN mailed' : IsNewest(v, mailed, i)'
    <3>1. PICK i \in DOMAIN mailed : IsNewest(v, mailed, i)
      BY <2>5
    <3>2. CASE mailed' = mailed
      BY <2>1, <3>1, <3>2 DEF IsNewest
    <3>3. CASE mailed' = Append(mailed, jobs[1].code) /\ jobs[1].code # None
      <4>1. i \in DOMAIN mailed' /\ mailed'[i] = mailed[i]
        BY <1>1, <3>1, <3>3
      <4>2. \A j \in DOMAIN mailed' :
               \/ j \in DOMAIN mailed /\ mailed'[j] = mailed[j]
               \/ mailed'[j] = jobs[1].code
        BY <1>1, <3>3
      <4>3. mailed[i] = t /\ \A j \in DOMAIN mailed :
               j > i /\ stored[mailed[j]].user = v => mailed[j] = t
        BY <3>1 DEF IsNewest
      <4>4. \A j \in DOMAIN mailed' :
               j > i /\ stored[mailed'[j]].user = v => mailed'[j] = t
        BY <2>5, <3>3, <4>2, <4>3
      <4>5. IsNewest(v, mailed, i)'
        BY <2>1, <4>1, <4>3, <4>4 DEF IsNewest
      <4> QED
        BY <4>1, <4>5
    <3> QED
      BY <2>4, <3>2, <3>3
  <2>6. ASSUME mailed' = Append(mailed, t)
        PROVE  \E i \in DOMAIN mailed' : IsNewest(v, mailed, i)'
    <3>1. PICK k \in DOMAIN mailed' :
            mailed'[k] = t /\ \A j \in DOMAIN mailed' : ~(j > k)
      <4>1. /\ Len(mailed) + 1 \in DOMAIN mailed' /\ mailed'[Len(mailed) + 1] = t
            /\ \A j \in DOMAIN mailed' : ~(j > Len(mailed) + 1)
        BY <1>1, <2>6
      <4> QED
        BY <4>1
    <3>2. IsNewest(v, mailed, k)'
      BY <2>1, <3>1 DEF IsNewest
    <3> QED
      BY <3>1, <3>2
  <2>7. CASE Process
    <3>1. /\ DOMAIN jobs = 1..Len(jobs) /\ DOMAIN jobs' = 1..(Len(jobs) - 1)
          /\ Len(jobs) \in Nat \ {0}
          /\ \A i \in DOMAIN jobs' : i + 1 \in DOMAIN jobs /\ jobs'[i] = jobs[i + 1]
      BY <1>1, <2>7 DEF Process
    <3>2. CASE \E i \in DOMAIN jobs :
                 /\ jobs[i].code = t
                 /\ \A j \in DOMAIN jobs : j > i /\ Own(jobs[j].code) => jobs[j].code = t
      <4>1. PICK i \in DOMAIN jobs :
                 /\ jobs[i].code = t
                 /\ \A j \in DOMAIN jobs : j > i /\ Own(jobs[j].code) => jobs[j].code = t
        BY <3>2
      <4>2. CASE i = 1
        <5>1. mailed' = Append(mailed, t)
          BY <1>1, <2>7, <4>1, <4>2 DEF Process, Sent
        <5>2. \A j \in DOMAIN jobs' : Own(jobs'[j].code) => jobs'[j].code = t
          BY <3>1, <4>1, <4>2
        <5> QED
          BY <2>1, <2>6, <5>1, <5>2 DEF IsOnItsWay
      <4>3. CASE i # 1
        <5>1. i - 1 \in DOMAIN jobs' /\ jobs'[i - 1].code = t
          BY <3>1, <4>1, <4>3
        <5>2. \A j \in DOMAIN jobs' : j > i - 1 /\ Own(jobs'[j].code) => jobs'[j].code = t
          BY <3>1, <4>1
        <5> QED
          BY <2>1, <5>1, <5>2 DEF IsOnItsWay
      <4> QED
        BY <4>2, <4>3
    <3>3. CASE /\ \E i \in DOMAIN mailed : IsNewest(v, mailed, i)
               /\ \A j \in DOMAIN jobs : Own(jobs[j].code) => jobs[j].code = t
      <4>1. \E i \in DOMAIN mailed' : IsNewest(v, mailed, i)'
        BY <1>1, <2>5, <3>3
      <4>2. \A j \in DOMAIN jobs' : Own(jobs'[j].code) => jobs'[j].code = t
        BY <3>1, <3>3
      <4> QED
        BY <2>1, <4>1, <4>2 DEF IsOnItsWay
    <3> QED
      BY <2>2, <2>3, <3>2, <3>3 DEF IsOnItsWay
  <2>8. CASE Stall
    <3>1. /\ DOMAIN jobs' = DOMAIN jobs
          /\ \A i \in DOMAIN jobs : jobs'[i].code = jobs[i].code
      <4>1. \A i \in DOMAIN jobs : jobs[i] \in Job
        BY <1>1, ElementOfSeq
      <4> QED
        BY <1>1, <2>8, <4>1 DEF Stall, Job
    <3>2. CASE \E i \in DOMAIN jobs :
                 /\ jobs[i].code = t
                 /\ \A j \in DOMAIN jobs : j > i /\ Own(jobs[j].code) => jobs[j].code = t
      <4>1. \E i \in DOMAIN jobs' :
                 /\ jobs'[i].code = t
                 /\ \A j \in DOMAIN jobs' : j > i /\ Own(jobs'[j].code) => jobs'[j].code = t
        BY <3>1, <3>2
      <4> QED
        BY <2>1, <4>1 DEF IsOnItsWay
    <3>3. CASE /\ \E i \in DOMAIN mailed : IsNewest(v, mailed, i)
               /\ \A j \in DOMAIN jobs : Own(jobs[j].code) => jobs[j].code = t
      <4>1. \E i \in DOMAIN mailed' : IsNewest(v, mailed, i)'
        BY <1>1, <2>5, <3>3
      <4>2. \A j \in DOMAIN jobs' : Own(jobs'[j].code) => jobs'[j].code = t
        BY <3>1, <3>3
      <4> QED
        BY <2>1, <4>1, <4>2 DEF IsOnItsWay
    <3> QED
      BY <2>2, <2>3, <3>2, <3>3 DEF IsOnItsWay
  <2> QED
    BY <2>7, <2>8
<1> QED
  BY <1>2, <1>3 DEF Alone


LEMMA TimePassesAlone ==
    ASSUME CredentialsInv, Alone,
           \/ DeleteUser /\ (Live \subseteq Live' \/ Busy = {})
           \/ CodeExpires \/ TicketExpires \/ UNCHANGED vars
    PROVE  Alone'
<1>1. /\ UNCHANGED <<stored, honoured, req, jobs, mailed>>
      /\ expired \subseteq expired'
  BY DEF DeleteUser, CodeExpires, TicketExpires, vars, rows, mails
<1>2. \A v \in Live' : v \in Live /\ user'[v] = user[v]
  BY DEF DeleteUser, CodeExpires, TicketExpires, vars, Live, CredentialsInv, RecordsOK
<1>3. (\A s \in Requests : req[s] = Idle) \/ UNCHANGED user
  <2>1. CASE DeleteUser
    <3>1. PICK u \in Live : user' = [user EXCEPT ![u] = Deleted]
      BY <2>1 DEF DeleteUser
    <3>2. u \notin Live'
      BY <3>1 DEF Live, CredentialsInv, RecordsOK
    <3> QED
      BY <2>1, <3>2 DEF Busy, CodeExpires, TicketExpires, vars
  <2>2. CASE ~DeleteUser
    BY <2>2 DEF CodeExpires, TicketExpires, vars
  <2> QED
    BY <2>1, <2>2
<1>4. \A s \in Requests : KnowsAlone(req[s])'
  <2>1. CASE \A s \in Requests : req[s] = Idle
    BY <1>1, <2>1, IdleKnowsAlone DEF KnowsAlone
  <2>2. CASE UNCHANGED user
    BY <1>1, <2>2 DEF Alone, KnowsAlone, Live
  <2> QED
    BY <1>3, <2>1, <2>2
<1>5. HonouredAreSpent'
  BY <1>1, <1>2 DEF Alone, HonouredAreSpent, ByResetToken
<1>6. CodesAreOnTheirWay'
  BY <1>1, <1>2 DEF Alone, CodesAreOnTheirWay, IsOnItsWay, IsNewest, At
<1>7. \A s, t \in Busy' : s = t
  BY <1>1 DEF Alone, Busy
<1> QED
  BY <1>4, <1>5, <1>6, <1>7 DEF Alone

\* As long as it is calm the others wait for no call while one handler moves.
LEMMA TheOthersAreIdle ==
    ASSUME CredentialsInv, Alone, IsFiniteSet(Busy'), OneAtATime,
           NEW r \in Requests, Serve(r)
    PROVE  /\ \A s \in Requests \ {r} : req[s] = Idle /\ req'[s] = Idle
           /\ \A s, t \in Busy' : s = t
<1>1. \A s, t \in Busy' : s = t
  BY OneOrNone DEF OneAtATime
<1>2. /\ \A s \in Requests \ {r} : req'[s] = req[s]
      /\ req[r] # Idle \/ req'[r] # Idle
  BY OnlyOneMoves
<1> QED
  BY <1>1, <1>2 DEF Alone, Busy

LEMMA CalmStepsKeepAlone ==
    ASSUME CredentialsInv, UsedCodesAreStored, Alone, IsFiniteSet(Busy'), OneAtATime,
           Steps \/ UNCHANGED vars
    PROVE  Alone'
<1>1. ASSUME NEW r \in Requests, Serve(r)
      PROVE  Alone'
  <2>1. /\ \A s \in Requests \ {r} : req[s] = Idle /\ req'[s] = Idle
        /\ \A s, t \in Busy' : s = t
    BY <1>1, TheOthersAreIdle
  <2>2. CASE UpdateUserResetToken(r)
    BY <2>1, <2>2, StoringAlone
  <2>3. CASE ClearUserResetToken(r)
    BY <2>1, <2>3, ClearingAlone
  <2>4. CASE Announce(r)
    BY <2>1, <2>4, AnnouncingAlone
  <2>5. CASE ~UpdateUserResetToken(r) /\ ~ClearUserResetToken(r) /\ ~Announce(r)
    <3>1. /\ UNCHANGED <<stored, honoured, jobs, mailed>> /\ TokensStay
          /\ req[r].call # "add" /\ KnowsAlone(req[r])'
      BY <1>1, <2>5, ServingPlainlyAlone
    <3> QED
      BY <2>1, <3>1, PlainStepAlone
  <2> QED
    BY <2>2, <2>3, <2>4, <2>5
<1>2. CASE Process \/ Stall
  BY <1>2, OneOrNone, MailingAlone DEF OneAtATime
<1>3. CASE DeleteUser \/ CodeExpires \/ TicketExpires \/ UNCHANGED vars
  BY <1>3, TimePassesAlone DEF OneAtATime
<1> QED
  BY <1>1, <1>2, <1>3 DEF Steps

LEMMA InitEstablishesCalmInv == MCInit => CalmInv
<1> SUFFICES ASSUME MCInit PROVE CalmInv
  OBVIOUS
<1>1. \A r \in Requests : req[r] = Idle
  BY DEF MCInit, Init
<1>2. Busy = {} /\ IsFiniteSet(Busy)
  BY <1>1, FS_EmptySet DEF Busy
<1>3. Live = {}
  BY DEF MCInit, Init, Live
<1>4. UsedCodesAreStored /\ HonouredAreSpent
  BY DEF MCInit, Init, UsedCodesAreStored, HonouredAreSpent
<1>5. \A r \in Requests : KnowsAlone(req[r])
  BY <1>1 DEF Idle, KnowsAlone
<1>6. CodesAreOnTheirWay
  BY <1>3 DEF CodesAreOnTheirWay
<1> QED
  BY <1>2, <1>4, <1>5, <1>6 DEF CalmInv, Alone

LEMMA CalmStep ==
    ASSUME [MCNext]_<<vars, calm>>
    PROVE  /\ [Next]_vars
           /\ calm' => calm /\ (Steps \/ UNCHANGED vars)
<1>1. CASE Steps /\ calm' = (calm /\ OneAtATime)
  <2>1. calm' => calm
    BY <1>1, Zenon
  <2>2. Next
    BY <1>1 DEF Next
  <2> QED
    BY <1>1, <2>1, <2>2
<1>2. CASE Faults /\ calm' = FALSE
  BY <1>2 DEF Next
<1>3. CASE UNCHANGED <<vars, calm>>
  BY <1>3
<1> QED
  BY <1>1, <1>2, <1>3 DEF MCNext

LEMMA NextKeepsCalmInv ==
    CredentialsInv /\ CalmInv /\ [MCNext]_<<vars, calm>> => CalmInv'
<1> SUFFICES ASSUME CredentialsInv, CalmInv, [MCNext]_<<vars, calm>> PROVE CalmInv'
  OBVIOUS
<1>1. [Next]_vars
  BY CalmStep
<1>2. IsFiniteSet(Busy)'
  BY <1>1, BusyStaysFinite DEF CalmInv
<1>3. UsedCodesAreStored'
  BY <1>1, UsedCodesStayStored DEF CalmInv
<1>4. ASSUME calm'
      PROVE  Alone'
  <2>1. calm /\ Alone /\ UsedCodesAreStored
    BY <1>4, CalmStep DEF CalmInv
  <2>2. CASE UNCHANGED vars
    BY <2>1, <2>2, TimePassesAlone
  <2>3. CASE ~UNCHANGED vars
    <3>1. Steps /\ OneAtATime
      BY <1>4, <2>3 DEF MCNext
    <3> QED
      BY <1>2, <2>1, <3>1, CalmStepsKeepAlone
  <2> QED
    BY <2>2, <2>3
<1> QED
  BY <1>2, <1>3, <1>4 DEF CalmInv

\* One handler at a time that fails nowhere knows the row it is about to write, leaves
\* no honoured code in a row, and its codes reach the mails in the order of the writes.
THEOREM CalmInvariant == MCSpec => [](CredentialsInv /\ CalmInv)
<1>1. MCInit => CredentialsInv
  BY InitEstablishesCredentialsInv DEF MCInit
<1>2. CredentialsInv /\ [MCNext]_<<vars, calm>> => CredentialsInv'
  BY CalmStep, NextKeepsCredentialsInv
<1> QED
  BY <1>1, <1>2, InitEstablishesCalmInv, NextKeepsCalmInv, PTL DEF MCSpec

\* While requests come one at a time verifyResetCode honours no code twice: the row
\* has lost the code before the ticket is given.
THEOREM CodesAreHonouredOnce == MCSpec => []CalmCodesHonouredOnce
<1>1. CalmInv => CalmCodesHonouredOnce
  BY DEF CalmInv, Alone, HonouredAreSpent, CalmCodesHonouredOnce
<1> QED
  BY <1>1, CalmInvariant, PTL

\* While requests come one at a time, forgotPassword's codes leave the queue in the
\* order they were written, a stalled job included: the last one mailed is the row's.
THEOREM TheNewestMailCounts == MCSpec => []CalmNewestMailCounts
<1>1. CalmInv => CalmNewestMailCounts
  <2> SUFFICES ASSUME CalmInv, calm, Busy = {}, jobs = <<>>,
                      NEW u \in Live, user[u].resetToken # None
               PROVE  \E i \in DOMAIN mailed : IsNewest(u, mailed, i)
    BY DEF CalmNewestMailCounts
  <2>1. IsOnItsWay(u)
    BY DEF CalmInv, Alone, CodesAreOnTheirWay
  <2>2. \A r \in Requests : ~At(r, "add")
    BY IdleHoldsNothing DEF Busy, At
  <2>3. DOMAIN jobs = {}
    OBVIOUS
  <2> QED
    BY <2>1, <2>2, <2>3 DEF IsOnItsWay
<1> QED
  BY <1>1, CalmInvariant, PTL

\* While requests come one at a time, only verifyResetCode takes a code from a row that
\* stays, and only the one it honours or has found expired.
THEOREM CodesStand == MCSpec => CalmCodesStand
<1>1. ASSUME CredentialsInv, CalmInv, [MCNext]_<<vars, calm>>, calm',
             NEW u \in Live \cap Live', user[u].resetToken # None,
             user'[u].resetToken = None
      PROVE  \/ user[u].resetToken \in expired
             \/ honoured'[user[u].resetToken] > honoured[user[u].resetToken]
  <2>1. calm /\ Alone /\ (Steps \/ UNCHANGED vars)
    BY <1>1, CalmStep DEF CalmInv, Alone
  <2>2. user \in [Users -> Row \cup {Unborn, Deleted}] /\ u \in Users /\ user[u] \in Row
    BY <1>1 DEF CredentialsInv, RecordsOK, Live
  <2>3. CASE \E r \in Requests : Serve(r)
    <3>1. PICK r \in Requests : Serve(r)
      BY <2>3
    <3>2. req[r] \in Request /\ KnowsAlone(req[r]) /\ ShapeOK(req[r])
      BY <1>1, <2>1 DEF CredentialsInv, RecordsOK, Alone
    <3>3. CASE UpdateUserResetToken(r)
      <4>1. req[r].code \in Codes
        BY <3>2, <3>3 DEF UpdateUserResetToken, At, ShapeOK
      <4>2. user' = user \/ \E v \in Users : user' = [user EXCEPT ![v].resetToken = req[r].code]
        BY <3>3 DEF UpdateUserResetToken, Refuse, rows, ByEmail, Live
      <4> QED
        BY <1>1, <2>2, <4>1, <4>2, NoneIsNoValue DEF Row
    <3>4. CASE ClearUserResetToken(r)
      <4> DEFINE v == req[r].user
                 c == req[r].code
      <4>1. /\ v \in Live /\ user[v].resetToken # None
            /\ \/ user[v].resetToken = c
               \/ c = None /\ user[v].resetToken \in expired
        BY <3>2, <3>4 DEF ClearUserResetToken, At, KnowsAlone
      <4>2. /\ user' = [user EXCEPT ![v].resetToken = None]
            /\ IF c # None THEN honoured' = [honoured EXCEPT ![c] = @ + 1] ELSE TRUE
        BY <3>4, <4>1 DEF ClearUserResetToken
      <4>3. u = v
        BY <1>1, <2>2, <4>1, <4>2
      <4>4. CASE c = None
        BY <4>1, <4>3, <4>4
      <4>5. CASE c # None
        <5>1. c \in Codes /\ honoured[c] \in Nat
          BY <1>1, <3>2, <4>5 DEF Request, CredentialsInv, RecordsOK
        <5>2. honoured'[c] = honoured[c] + 1
          BY <1>1, <4>2, <4>5, <5>1 DEF CredentialsInv, RecordsOK
        <5> QED
          BY <4>1, <4>3, <4>5, <5>1, <5>2
      <4> QED
        BY <4>4, <4>5
    <3>5. CASE ~UpdateUserResetToken(r) /\ ~ClearUserResetToken(r)
      <4>1. CASE Announce(r)
        BY <1>1, <4>1 DEF Announce, rows
      <4>2. CASE ~Announce(r)
        <5>1. TokensStay
          BY <1>1, <2>1, <3>1, <3>5, <4>2, ServingPlainlyAlone
        <5> QED
          BY <1>1, <5>1 DEF TokensStay
      <4> QED
        BY <4>1, <4>2
    <3> QED
      BY <3>3, <3>4, <3>5
  <2>4. CASE ~\E r \in Requests : Serve(r)
    <3>1. user'[u] = user[u]
      BY <1>1, <2>1, <2>2, <2>4 DEF Steps, DeleteUser, CodeExpires, TicketExpires, Process,
         Stall, vars, rows, Live
    <3> QED
      BY <1>1, <3>1
  <2> QED
    BY <2>3, <2>4
<1>2. CredentialsInv /\ CalmInv /\ [MCNext]_<<vars, calm>> =>
        [calm' => \A u \in Live \cap Live' :
            LET c == user[u].resetToken
            IN  c # None /\ user'[u].resetToken = None =>
                    c \in expired \/ honoured'[c] > honoured[c]]_<<vars, calm>>
  BY <1>1
<1> QED
  BY <1>2, CalmInvariant, PTL DEF MCSpec, CalmCodesStand

\* While requests come one at a time changePassword replaces the password that it has
\* compared with the old one it was sent.
THEOREM ChangesReplaceTheVerified == MCSpec => CalmChangesReplaceTheVerified
<1>1. ASSUME CalmInv, [MCNext]_<<vars, calm>>, calm',
             NEW r \in Requests, At(r, "updateUserPassword"), By(r, "changePassword"),
             req[r].user \in Live
      PROVE  user[req[r].user].passwordHash = req[r].old
  BY <1>1, CalmStep DEF CalmInv, Alone, KnowsAlone, At, By
<1>2. CalmInv /\ [MCNext]_<<vars, calm>> =>
        [calm' => \A r \in Requests :
          /\ At(r, "updateUserPassword") /\ By(r, "changePassword")
          /\ ~At(r, "updateUserPassword")' /\ req[r].user \in Live
          => user[req[r].user].passwordHash = req[r].old]_<<vars, calm>>
  BY <1>1
<1> QED
  BY <1>2, CalmInvariant, PTL DEF MCSpec, CalmChangesReplaceTheVerified

=============================================================================
