--------------------------- MODULE MCCredentials ----------------------------
(***************************************************************************)
(* Credentials on small instances: the sets are given by the .cfg.  The    *)
(* history variable calm is TRUE as long as requests have come one at a    *)
(* time and nothing has failed; some properties need that.                 *)
(***************************************************************************)
EXTENDS Credentials, TLC

CONSTANT StartBehind  \* the handlers that start behind a mail

VARIABLE calm

Busy == {r \in Requests : req[r] # Idle}

\* DELETE /me is a request too, here of one step.
OneAtATime == Cardinality(Busy') <= 1 /\ (Live \subseteq Live' \/ Busy = {})

\* Bound: where requests overlap, one code is drawn.
CodesInTheRace == 1

\* Bound: only some requests start behind a mail that waits, and none where
\* requests overlap.
BehindMails ==
    jobs # <<>> /\ Cardinality(Busy') > Cardinality(Busy) =>
        calm' /\ \A r \in Busy' : req'[r].handler \in StartBehind

MCInit == Init /\ calm = TRUE

MCNext ==
    /\ \/ Steps /\ calm' = (calm /\ OneAtATime)
       \/ Faults /\ calm' = FALSE
    /\ calm' \/ Cardinality(Codes \ FreshCodes') <= CodesInTheRace
    /\ BehindMails

MCSpec == MCInit /\ [][MCNext]_<<vars, calm>>

Symmetry == Permutations(Users) \cup Permutations(Emails)
              \cup Permutations(Passwords) \cup Permutations(Codes)
              \cup Permutations(Requests)

-----------------------------------------------------------------------------

\* One code, one ticket: verifyResetCode clears the code it honours.  Two
\* verifications at once may both have read it.
CalmCodesHonouredOnce == calm => \A c \in Codes : honoured[c] <= 1

\* The i-th of these codes is in the row u, and no later one was written there.
IsNewest(u, codes, i) ==
    /\ codes[i] = user[u].resetToken
    /\ \A j \in DOMAIN codes :
          j > i /\ stored[codes[j]].user = u => codes[j] = codes[i]

\* When the mails are out, the code that counts for a row is the one in the
\* newest of the mails it was sent: a user who types the last code he was
\* mailed is not refused for being late with it.
CalmNewestMailCounts ==
    calm /\ Busy = {} /\ jobs = <<>> =>
        \A u \in Live :
            user[u].resetToken # None =>
                \E i \in DOMAIN mailed : IsNewest(u, mailed, i)

\* A row loses its code only to a newer one, or when that very code is honoured
\* or found expired; an overlapping verification may clear a newer code.
CalmCodesStand ==
    [][calm' => \A u \in Live \cap Live' :
          LET c == user[u].resetToken
          IN  c # None /\ user'[u].resetToken = None =>
                  c \in expired \/ honoured'[c] > honoured[c]]_<<vars, calm>>

\* changePassword replaces the password it has verified, and no other: with a
\* reset in between it would undo the reset.
CalmChangesReplaceTheVerified ==
    [][calm' => \A r \in Requests :
          /\ At(r, "updateUserPassword") /\ By(r, "changePassword")
          /\ ~At(r, "updateUserPassword")' /\ req[r].user \in Live
          => user[req[r].user].passwordHash = req[r].old]_<<vars, calm>>

-----------------------------------------------------------------------------
(* The inductive invariant behind them *)

\* What a handler knows of the rows while it is the only one.
KnowsAlone(q) ==
    /\ q.call = "clearUserResetToken" =>
          /\ q.user \in Live
          /\ user[q.user].resetToken # None
          /\ \/ user[q.user].resetToken = q.code
             \/ q.code = None /\ user[q.user].resetToken \in expired
    /\ q.call = "updateUserPassword" /\ q.handler = "changePassword" =>
          (q.user \in Live => user[q.user].passwordHash = q.old)
    /\ q.call = "add" /\ q.code # None =>
          (stored[q.code].user \in Live =>
              user[stored[q.code].user].resetToken = q.code)

\* A code that was honoured is in no row.
HonouredAreSpent ==
    \A c \in Codes :
        /\ honoured[c] <= 1
        /\ honoured[c] = 1 => ByResetToken(c) = {}

\* The code in the row u is about to be put into the queue, or it is in the
\* queue or mailed, with no other code of the row after it.
IsOnItsWay(u) ==
    \/ \E r \in Requests : At(r, "add") /\ req[r].code = user[u].resetToken
    \/ \E i \in DOMAIN jobs :
          /\ jobs[i].code = user[u].resetToken
          /\ \A j \in DOMAIN jobs :
                j > i /\ jobs[j].code # None /\ stored[jobs[j].code].user = u
                    => jobs[j].code = user[u].resetToken
    \/ /\ \E i \in DOMAIN mailed : IsNewest(u, mailed, i)
       /\ \A j \in DOMAIN jobs :
             jobs[j].code # None /\ stored[jobs[j].code].user = u
                 => jobs[j].code = user[u].resetToken

CodesAreOnTheirWay ==
    \A u \in Live : user[u].resetToken # None => IsOnItsWay(u)

\* No code is mailed or honoured that no row has had.
UsedCodesAreStored ==
    /\ \A i \in DOMAIN mailed : stored[mailed[i]].user # None
    /\ \A c \in Codes : honoured[c] > 0 => stored[c].user # None

\* What holds as long as requests come one at a time and nothing fails.
Alone ==
    /\ \A r, s \in Busy : r = s
    /\ \A r \in Requests : KnowsAlone(req[r])
    /\ HonouredAreSpent
    /\ CodesAreOnTheirWay

CalmInv ==
    /\ IsFiniteSet(Busy)
    /\ UsedCodesAreStored
    /\ calm => Alone

=============================================================================
