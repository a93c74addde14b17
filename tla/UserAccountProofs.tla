-------------------------- MODULE UserAccountProofs --------------------------
(***************************************************************************)
(* The row of a user never names an object that is not in the bucket, for  *)
(* any number of requests and keys, whatever fails; and where requests     *)
(* come one at a time and none fails, no other object is left there.       *)
(***************************************************************************)
EXTENDS MCUserAccount, FiniteSetTheorems, TLAPS

LEMMA InitEstablishesAccountInv == Init => AccountInv
<1> SUFFICES ASSUME Init PROVE AccountInv
  OBVIOUS
<1>1. TypeOK
  BY DEF Init, TypeOK, Request, Call, Idle, KeyOrNone
<1>2. \A r \in Requests : req[r].call = "idle"
  BY DEF Init, Idle
<1> QED
  BY <1>1, <1>2 DEF Init, AccountInv, AvatarExists, PendingKeysAreOwn,
     UploadedBeforeUpdate, DeletedAfterUpdate, Pending, At

\* A handler that ends, well or badly, leaves no key pending or to delete.
LEMMA RefusingKeepsAccountInv ==
    ASSUME AccountInv, NEW r \in Requests, Refuse(r)
    PROVE  AccountInv'
<1>1. req' = [req EXCEPT ![r] = Idle]
      /\ UNCHANGED <<exists, restricted, image, objects>>
  BY DEF Refuse, Finish
<1>2. TypeOK'
  BY <1>1 DEF AccountInv, TypeOK, Request, Call, Idle, KeyOrNone
<1>3. req'[r].call = "idle" /\ req'[r].oldKey = NoKey
      /\ \A s \in Requests \ {r} : req'[s] = req[s]
  BY <1>1 DEF AccountInv, TypeOK, Idle
<1> QED
  BY <1>1, <1>2, <1>3, NoKeyIsNoKey
     DEF AccountInv, AvatarExists, PendingKeysAreOwn,
         UploadedBeforeUpdate, DeletedAfterUpdate, Pending, At

\* A handler goes on without a change to the row or the bucket, and takes no
\* key: it deletes an account, or it has just been let in to do so.
LEMMA DeletionKeepsAccountInv ==
    ASSUME AccountInv, NEW r \in Requests,
           RequestDeletion(r) \/ FindUserById(r) \/ DeleteUser(r)
    PROVE  AccountInv'
<1>1. CASE Refuse(r)
  BY <1>1, RefusingKeepsAccountInv
<1>2. ASSUME NEW call \in {"findUserById", "deleteUser"},
             NEW q \in Request, q.call = call, q.oldKey \in {NoKey, req[r].oldKey},
             req' = [req EXCEPT ![r] = q],
             UNCHANGED <<exists, restricted, image, objects>>
      PROVE  AccountInv'
  <2>1. TypeOK'
    BY <1>2 DEF AccountInv, TypeOK
  <2>2. req'[r] = q /\ \A s \in Requests \ {r} : req'[s] = req[s]
    BY <1>2 DEF AccountInv, TypeOK
  <2> QED
    BY <1>2, <2>1, <2>2, NoKeyIsNoKey
       DEF AccountInv, AvatarExists, PendingKeysAreOwn,
           UploadedBeforeUpdate, DeletedAfterUpdate, Pending, At
<1>3. CASE RequestDeletion(r)
  <2> DEFINE q == [call |-> "findUserById", key |-> NoKey, oldKey |-> NoKey]
  <2>1. q \in Request
    BY DEF Request, Call, KeyOrNone
  <2> QED
    BY <1>2, <1>3, <2>1 DEF RequestDeletion, Start
<1>4. CASE FindUserById(r) /\ exists
  <2> DEFINE q == [req[r] EXCEPT !.call = "deleteUser"]
  <2>1. q \in Request /\ q.call = "deleteUser" /\ q.oldKey = req[r].oldKey
    BY DEF AccountInv, TypeOK, Request, Call
  <2>2. req' = [req EXCEPT ![r] = q]
    BY <1>4 DEF FindUserById, Continue
  <2> HIDE DEF q
  <2> QED
    BY <1>2, <1>4, <2>1, <2>2 DEF FindUserById
<1>5. CASE FindUserById(r) /\ ~exists
  BY <1>1, <1>5 DEF FindUserById, Refuse
<1>6. CASE DeleteUser(r) /\ ~Refuse(r)
  <2>1. /\ req' = [req EXCEPT ![r] = Idle]
        /\ exists' = FALSE /\ image' = NoKey
        /\ UNCHANGED <<restricted, objects>>
    BY <1>6 DEF DeleteUser, Finish
  <2>2. TypeOK'
    BY <2>1 DEF AccountInv, TypeOK, Request, Call, Idle, KeyOrNone
  <2>3. req'[r].call = "idle" /\ req'[r].oldKey = NoKey
        /\ \A s \in Requests \ {r} : req'[s] = req[s]
    BY <2>1 DEF AccountInv, TypeOK, Idle
  <2>4. \A s \in Requests : At(s, "deleteFile")' => req'[s].oldKey \in Keys
    BY <2>3 DEF AccountInv, At, DeletedAfterUpdate
  <2> QED
    BY <2>1, <2>2, <2>3, <2>4, NoKeyIsNoKey
       DEF AccountInv, AvatarExists, PendingKeysAreOwn,
           UploadedBeforeUpdate, DeletedAfterUpdate, Pending, At
<1> QED
  BY <1>1, <1>3, <1>4, <1>5, <1>6

\* A new upload draws a key that nobody mentions and that is no object yet.
LEMMA UploadStartsFresh ==
    ASSUME AccountInv, NEW r \in Requests, RequestUpload(r)
    PROVE  AccountInv'
<1>1. PICK k \in FreshKeys :
        /\ req[r] = Idle
        /\ req' = [req EXCEPT ![r] =
             [call |-> "readImage", key |-> k, oldKey |-> NoKey]]
        /\ UNCHANGED <<exists, restricted, image, objects>>
  BY DEF RequestUpload, Start
<1>2. /\ k \in Keys /\ k # image
      /\ \A s \in Requests : k # req[s].key /\ k # req[s].oldKey
  BY DEF FreshKeys
<1>3. TypeOK'
  BY <1>1, <1>2 DEF AccountInv, TypeOK, Request, Call, KeyOrNone
<1>4. /\ req'[r] = [call |-> "readImage", key |-> k, oldKey |-> NoKey]
      /\ \A s \in Requests \ {r} : req'[s] = req[s]
  BY <1>1 DEF AccountInv, TypeOK
<1>5. PendingKeysAreOwn'
  <2> SUFFICES ASSUME NEW p \in Requests, Pending(p)'
               PROVE  /\ req'[p].key \in Keys
                      /\ req'[p].key # image
                      /\ \A s \in Requests :
                           /\ req'[s].oldKey # req'[p].key
                           /\ Pending(s)' /\ req'[s].key = req'[p].key => s = p
    BY <1>1 DEF PendingKeysAreOwn
  <2>1. CASE p = r
    BY <2>1, <1>2, <1>4, NoKeyIsNoKey
  <2>2. CASE p # r
    BY <2>2, <1>2, <1>4, NoKeyIsNoKey DEF AccountInv, PendingKeysAreOwn, Pending
  <2> QED
    BY <2>1, <2>2
<1> QED
  BY <1>1, <1>3, <1>4, <1>5
     DEF AccountInv, AvatarExists, UploadedBeforeUpdate, DeletedAfterUpdate, At

\* The key that is read is in the row, so it is no pending one.
LEMMA ReadingKeepsAccountInv ==
    ASSUME AccountInv, NEW r \in Requests, ReadImage(r)
    PROVE  AccountInv'
<1>1. /\ req[r].call = "readImage"
      /\ req' = [req EXCEPT ![r].call = "uploadFile", ![r].oldKey = image]
      /\ UNCHANGED <<exists, restricted, image, objects>>
  BY DEF ReadImage, At
<1>2. TypeOK'
  BY <1>1 DEF AccountInv, TypeOK, Request, Call, KeyOrNone
<1>3. /\ req'[r].call = "uploadFile" /\ req'[r].oldKey = image
      /\ req'[r].key = req[r].key
      /\ \A s \in Requests \ {r} : req'[s] = req[s]
  BY <1>1 DEF AccountInv, TypeOK, Request
<1>4. \A s \in Requests : (Pending(s)' <=> Pending(s)) /\ req'[s].key = req[s].key
  BY <1>1, <1>3 DEF Pending
<1>5. PendingKeysAreOwn'
  <2>1. \A p, s \in Requests : Pending(p) => req'[s].oldKey # req[p].key
    BY <1>3 DEF AccountInv, PendingKeysAreOwn
  <2> QED
    BY <1>1, <1>4, <2>1 DEF AccountInv, PendingKeysAreOwn
<1>6. image' = image /\ objects' = objects
  BY <1>1
<1>7. UploadedBeforeUpdate' /\ DeletedAfterUpdate'
  BY <1>3, <1>6 DEF AccountInv, UploadedBeforeUpdate, DeletedAfterUpdate, At
<1> QED
  BY <1>2, <1>5, <1>6, <1>7 DEF AccountInv, AvatarExists

LEMMA UploadingKeepsAccountInv ==
    ASSUME AccountInv, NEW r \in Requests, UploadFile(r)
    PROVE  AccountInv'
<1>1. /\ req[r].call = "uploadFile"
      /\ objects' = objects \cup {req[r].key}
      /\ req' = [req EXCEPT ![r].call = "updateUserAvatar"]
      /\ UNCHANGED <<exists, restricted, image>>
  BY DEF UploadFile, At, Continue
<1>2. Pending(r) /\ req[r].key \in Keys
  BY <1>1 DEF AccountInv, PendingKeysAreOwn, Pending
<1>3. TypeOK'
  BY <1>1, <1>2 DEF AccountInv, TypeOK, Request, Call
<1>4. /\ req'[r].call = "updateUserAvatar" /\ req'[r].oldKey = req[r].oldKey
      /\ req'[r].key = req[r].key
      /\ \A s \in Requests \ {r} : req'[s] = req[s]
  BY <1>1 DEF AccountInv, TypeOK, Request
<1>5. \A s \in Requests : /\ Pending(s)' <=> Pending(s)
                          /\ req'[s].key = req[s].key
                          /\ req'[s].oldKey = req[s].oldKey
  BY <1>1, <1>4 DEF Pending
<1> QED
  BY <1>1, <1>3, <1>4, <1>5
     DEF AccountInv, AvatarExists, PendingKeysAreOwn,
         UploadedBeforeUpdate, DeletedAfterUpdate, At

\* The key moves from the request to the row: it is an object, it is nobody
\* else's pending key, and no request is about to delete it.
LEMMA UpdatingKeepsAccountInv ==
    ASSUME AccountInv, NEW r \in Requests, UpdateUserAvatar(r)
    PROVE  AccountInv'
<1>1. CASE Refuse(r)
  BY <1>1, RefusingKeepsAccountInv
<1>2. CASE image' = req[r].key /\ AfterUpdate(r)
           /\ UNCHANGED <<exists, restricted, objects>>
  <2>1. /\ Pending(r) /\ req[r].key \in Keys /\ req[r].key \in objects
        /\ \A s \in Requests : req[s].oldKey # req[r].key
        /\ \A s \in Requests \ {r} : Pending(s) => req[s].key # req[r].key
    BY DEF UpdateUserAvatar, At, AccountInv, PendingKeysAreOwn,
           UploadedBeforeUpdate, Pending
  <2>2. /\ \A s \in Requests \ {r} : req'[s] = req[s]
        /\ ~Pending(r)'
        /\ req'[r].oldKey \in {NoKey, req[r].oldKey}
        /\ req'[r].call = "deleteFile" => /\ req'[r].oldKey = req[r].oldKey
                                          /\ req[r].oldKey # NoKey
        /\ req'[r].call # "updateUserAvatar"
    BY <1>2 DEF AccountInv, TypeOK, Request, AfterUpdate, Continue, Finish,
                Idle, Pending
  <2>3. TypeOK'
    BY <1>2, <2>1 DEF AccountInv, TypeOK, Request, Call, AfterUpdate,
                      Continue, Finish, Idle, KeyOrNone
  <2>4. req[r].oldKey \in KeyOrNone
    BY DEF AccountInv, TypeOK, Request
  <2>5. PendingKeysAreOwn'
    <3> SUFFICES ASSUME NEW p \in Requests, Pending(p)'
                 PROVE  /\ req'[p].key \in Keys
                        /\ req'[p].key # image'
                        /\ \A s \in Requests :
                             /\ req'[s].oldKey # req'[p].key
                             /\ Pending(s)' /\ req'[s].key = req'[p].key
                                  => s = p
      BY DEF PendingKeysAreOwn
    <3>1. p # r /\ Pending(p) /\ req'[p] = req[p]
      BY <2>2 DEF Pending
    <3> QED
      BY <3>1, <1>2, <2>1, <2>2, NoKeyIsNoKey
         DEF AccountInv, PendingKeysAreOwn, Pending
  <2>6. DeletedAfterUpdate'
    BY <1>2, <2>1, <2>2, <2>4
       DEF AccountInv, DeletedAfterUpdate, At, KeyOrNone
  <2> QED
    BY <1>2, <2>1, <2>2, <2>3, <2>5, <2>6
       DEF AccountInv, AvatarExists, UploadedBeforeUpdate, At
<1> QED
  BY <1>1, <1>2 DEF UpdateUserAvatar

\* What is deleted is neither the row's key nor a pending one.
LEMMA DeletingKeepsAccountInv ==
    ASSUME AccountInv, NEW r \in Requests, DeleteFile(r)
    PROVE  AccountInv'
<1>1. /\ req[r].call = "deleteFile"
      /\ objects' = objects \ {req[r].oldKey}
      /\ req' = [req EXCEPT ![r] = Idle]
      /\ UNCHANGED <<exists, restricted, image>>
  BY DEF DeleteFile, At, Finish
<1>2. TypeOK'
  BY <1>1 DEF AccountInv, TypeOK, Request, Call, Idle, KeyOrNone
<1>3. req'[r].call = "idle" /\ req'[r].oldKey = NoKey
      /\ \A s \in Requests \ {r} : req'[s] = req[s]
  BY <1>1 DEF AccountInv, TypeOK, Idle
<1>4. /\ req[r].oldKey # image
      /\ \A s \in Requests : Pending(s) => req[s].key # req[r].oldKey
  BY <1>1 DEF AccountInv, DeletedAfterUpdate, PendingKeysAreOwn, At
<1>5. PendingKeysAreOwn'
  BY <1>1, <1>3, NoKeyIsNoKey DEF AccountInv, PendingKeysAreOwn, Pending
<1>6. UploadedBeforeUpdate'
  BY <1>1, <1>3, <1>4 DEF AccountInv, UploadedBeforeUpdate, At, Pending
<1> QED
  BY <1>1, <1>2, <1>3, <1>4, <1>5, <1>6
     DEF AccountInv, AvatarExists, DeletedAfterUpdate, At

LEMMA StepKeepsAccountInv == AccountInv /\ [Next]_vars => AccountInv'
<1> SUFFICES ASSUME AccountInv, [Next]_vars PROVE AccountInv'
  OBVIOUS
<1>1. CASE UNCHANGED vars
  BY <1>1 DEF vars, AccountInv, TypeOK, AvatarExists, PendingKeysAreOwn,
     UploadedBeforeUpdate, DeletedAfterUpdate, Pending, At
<1>2. CASE BoardsChange
  BY <1>2 DEF BoardsChange, AccountInv, TypeOK, AvatarExists,
     PendingKeysAreOwn, UploadedBeforeUpdate, DeletedAfterUpdate, Pending, At
<1>3. ASSUME NEW r \in Requests,
             \/ RequestUpload(r) \/ ReadImage(r) \/ UploadFile(r)
             \/ UpdateUserAvatar(r) \/ DeleteFile(r)
             \/ RequestDeletion(r) \/ FindUserById(r) \/ DeleteUser(r)
             \/ Fail(r)
      PROVE  AccountInv'
  <2>1. Fail(r) => AccountInv'
    BY RefusingKeepsAccountInv DEF Fail
  <2> QED
    BY <1>3, <2>1, UploadStartsFresh, ReadingKeepsAccountInv,
       UploadingKeepsAccountInv, UpdatingKeepsAccountInv,
       DeletingKeepsAccountInv, DeletionKeepsAccountInv
<1> QED
  BY <1>1, <1>2, <1>3 DEF Next

\* Uploads, deletions and the deletion of the account may interleave and die
\* as they like: AccountInv holds of every reachable state.
THEOREM AccountInvariant == Spec => []AccountInv
  BY InitEstablishesAccountInv, StepKeepsAccountInv, PTL DEF Spec

\* The row of a user never names an object that is not in the bucket
\* (UserService.uploadAvatar).
THEOREM AvatarAlwaysExists == Spec => []AvatarExists
<1>1. AccountInv => AvatarExists
  BY DEF AccountInv
<1> QED
  BY <1>1, AccountInvariant, PTL

-----------------------------------------------------------------------------
(* One request at a time, and none fails *)

LEMMA OneOrNone ==
    ASSUME NEW S, IsFiniteSet(S), Cardinality(S) <= 1, NEW a \in S, NEW b \in S
    PROVE  a = b
<1> SUFFICES ASSUME a # b PROVE FALSE
  OBVIOUS
<1>1. IsFiniteSet({a}) /\ Cardinality({a}) = 1
  BY FS_Singleton
<1>2. IsFiniteSet({a} \cup {b}) /\ Cardinality({a} \cup {b}) = 2
  <2>1. b \notin {a}
    OBVIOUS
  <2>2. /\ IsFiniteSet({a} \cup {b})
        /\ Cardinality({a} \cup {b}) = Cardinality({a}) + 1
    BY <1>1, <2>1, FS_AddElement
  <2> QED
    BY <1>1, <2>2
<1>3. {a} \cup {b} \in SUBSET S
  OBVIOUS
<1>4. Cardinality({a} \cup {b}) <= Cardinality(S) /\ Cardinality(S) \in Nat
  <2>1. Cardinality(S) \in Nat
    BY FS_CardinalityType
  <2> QED
    BY <1>3, <2>1, FS_Subset
<1> QED
  BY <1>2, <1>4

Serve(r) ==
    \/ RequestUpload(r) \/ ReadImage(r) \/ UploadFile(r)
    \/ UpdateUserAvatar(r) \/ DeleteFile(r)
    \/ RequestDeletion(r) \/ FindUserById(r) \/ DeleteUser(r)

LEMMA OnlyOneMoves ==
    ASSUME TypeOK, NEW r \in Requests, Serve(r) \/ Fail(r)
    PROVE  /\ \A s \in Requests \ {r} : req'[s] = req[s]
           /\ req[r] # Idle \/ req'[r] # Idle
<1>1. \E q : req' = [req EXCEPT ![r] = q]
  BY DEF Serve, RequestUpload, ReadImage, UploadFile, UpdateUserAvatar, DeleteFile,
     RequestDeletion, FindUserById, DeleteUser, Fail, Start, AfterUpdate, Refuse,
     Continue, Finish
<1>2. CASE RequestUpload(r) \/ RequestDeletion(r)
  <2>1. req'[r].call # "idle"
    BY <1>2 DEF RequestUpload, RequestDeletion, Start, TypeOK
  <2> QED
    BY <1>1, <2>1 DEF TypeOK, Idle
<1>3. CASE ~(RequestUpload(r) \/ RequestDeletion(r))
  <2>1. req[r] # Idle
    BY <1>3 DEF Serve, ReadImage, UploadFile, UpdateUserAvatar, DeleteFile,
       FindUserById, DeleteUser, Fail, At, Idle
  <2> QED
    BY <1>1, <2>1 DEF TypeOK
<1> QED
  BY <1>2, <1>3

LEMMA BusyStaysFinite ==
    ASSUME TypeOK, IsFiniteSet(Busy), [Next]_vars
    PROVE  IsFiniteSet(Busy')
<1>1. ASSUME NEW r \in Requests, Serve(r) \/ Fail(r)
      PROVE  IsFiniteSet(Busy')
  <2>1. Busy' \subseteq Busy \cup {r}
    BY <1>1, OnlyOneMoves DEF Busy
  <2>2. IsFiniteSet(Busy \cup {r})
    BY FS_AddElement
  <2> QED
    BY <2>1, <2>2, FS_Subset
<1>2. CASE req' = req
  <2>1. Busy' = Busy
    BY <1>2 DEF Busy
  <2> QED
    BY <2>1
<1> QED
  BY <1>1, <1>2 DEF Next, Serve, BoardsChange, vars

\* What OtherObjectsHaveAHandler says when nobody but r is at work.
LEMMA OneHandlerAtWork ==
    ASSUME NEW r \in Requests, \A s \in Requests \ {r} : req[s] = Idle
    PROVE  OtherObjectsHaveAHandler <=>
              /\ req[r].call \in {"uploadFile", "updateUserAvatar"} => req[r].oldKey = image
              /\ \A k \in objects \ {image} :
                    \/ At(r, "updateUserAvatar") /\ req[r].key = k
                    \/ At(r, "deleteFile") /\ req[r].oldKey = k
BY DEF OtherObjectsHaveAHandler, At, Idle

LEMMA ServingAlone ==
    ASSUME AccountInv, NEW r \in Requests, Serve(r),
           \A s \in Requests \ {r} : req[s] = Idle /\ req'[s] = Idle,
           exists => OtherObjectsHaveAHandler, exists'
    PROVE  OtherObjectsHaveAHandler'
<1>1. /\ req \in [Requests -> Request] /\ req[r] \in Request /\ objects \subseteq Keys
  BY DEF AccountInv, TypeOK
<1>2. exists
  BY DEF Serve, RequestUpload, ReadImage, UploadFile, UpdateUserAvatar, DeleteFile,
     RequestDeletion, FindUserById, DeleteUser, Start, Refuse
<1>3. /\ req[r].call \in {"uploadFile", "updateUserAvatar"} => req[r].oldKey = image
      /\ \A k \in objects \ {image} :
            \/ At(r, "updateUserAvatar") /\ req[r].key = k
            \/ At(r, "deleteFile") /\ req[r].oldKey = k
  BY <1>2, OneHandlerAtWork
<1>4. ASSUME /\ req'[r].call \in {"uploadFile", "updateUserAvatar"} => req'[r].oldKey = image'
             /\ \A k \in objects' \ {image'} :
                   \/ req'[r].call = "updateUserAvatar" /\ req'[r].key = k
                   \/ req'[r].call = "deleteFile" /\ req'[r].oldKey = k
      PROVE  OtherObjectsHaveAHandler'
  BY <1>4 DEF OtherObjectsHaveAHandler, At, Idle
<1>5. CASE RequestUpload(r) \/ RequestDeletion(r)
  <2>1. /\ req[r].call = "idle" /\ UNCHANGED <<image, objects>>
        /\ req'[r].call \in {"readImage", "findUserById"}
    <3>1. CASE RequestUpload(r)
      BY <1>1, <3>1 DEF RequestUpload, Start, Idle
    <3>2. CASE RequestDeletion(r)
      BY <1>1, <3>2 DEF RequestDeletion, Start, Idle
    <3> QED
      BY <1>5, <3>1, <3>2
  <2> QED
    BY <1>3, <1>4, <2>1 DEF At
<1>6. CASE ReadImage(r)
  <2>1. /\ req[r].call = "readImage" /\ UNCHANGED <<image, objects>>
        /\ req'[r].call = "uploadFile" /\ req'[r].oldKey = image
    BY <1>1, <1>6 DEF ReadImage, At, Request
  <2> QED
    BY <1>3, <1>4, <2>1 DEF At
<1>7. CASE UploadFile(r)
  <2>1. /\ req[r].call = "uploadFile" /\ image' = image
        /\ objects' = objects \cup {req[r].key}
        /\ req'[r].call = "updateUserAvatar" /\ req'[r].oldKey = req[r].oldKey
        /\ req'[r].key = req[r].key
    BY <1>1, <1>7 DEF UploadFile, Continue, At, Request
  <2> QED
    BY <1>3, <1>4, <2>1 DEF At
<1>8. CASE UpdateUserAvatar(r)
  <2>1. /\ req[r].call = "updateUserAvatar" /\ image' = req[r].key
        /\ AfterUpdate(r) /\ objects' = objects
    BY <1>2, <1>8 DEF UpdateUserAvatar, At
  <2>2. req[r].oldKey = image /\ \A k \in objects \ {image} : k = image'
    BY <1>3, <2>1 DEF At
  <2>3. CASE image = NoKey
    <3>1. req'[r] = Idle
      BY <1>1, <2>1, <2>2, <2>3 DEF AfterUpdate, Finish
    <3>2. \A k \in objects : k = image'
      BY <1>1, <2>2, <2>3, NoKeyIsNoKey
    <3> QED
      BY <1>4, <2>1, <3>1, <3>2 DEF Idle
  <2>4. CASE image # NoKey
    <3>1. req'[r].call = "deleteFile" /\ req'[r].oldKey = image
      BY <1>1, <2>1, <2>2, <2>4 DEF AfterUpdate, Continue, Request
    <3> QED
      BY <1>4, <2>1, <2>2, <3>1
  <2> QED
    BY <2>3, <2>4
<1>9. CASE DeleteFile(r)
  <2>1. /\ req[r].call = "deleteFile" /\ image' = image
        /\ objects' = objects \ {req[r].oldKey} /\ req'[r] = Idle
    BY <1>1, <1>9 DEF DeleteFile, Finish, At
  <2> QED
    BY <1>3, <1>4, <2>1 DEF At, Idle
<1>10. CASE FindUserById(r) \/ DeleteUser(r)
  <2>1. /\ req[r].call \in {"findUserById", "deleteUser"} /\ UNCHANGED <<image, objects>>
        /\ req'[r].call \in {"deleteUser", "idle"}
    <3>1. CASE FindUserById(r)
      BY <1>1, <1>2, <3>1 DEF FindUserById, Continue, At, Request
    <3>2. CASE DeleteUser(r)
      BY <1>1, <3>2 DEF DeleteUser, Refuse, Finish, At, Idle
    <3> QED
      BY <1>10, <3>1, <3>2
  <2> QED
    BY <1>3, <1>4, <2>1 DEF At
<1> QED
  BY <1>5, <1>6, <1>7, <1>8, <1>9, <1>10 DEF Serve

LEMMA StepKeepsCalmInv ==
    AccountInv /\ CalmInv /\ [MCNext]_<<vars, calm>> => CalmInv'
<1> SUFFICES ASSUME AccountInv, CalmInv, [MCNext]_<<vars, calm>> PROVE CalmInv'
  OBVIOUS
<1>1. [Next]_vars
  BY DEF MCNext
<1>2. IsFiniteSet(Busy)'
  BY <1>1, BusyStaysFinite DEF AccountInv, CalmInv
<1>3. CASE UNCHANGED <<vars, calm>>
  BY <1>2, <1>3 DEF vars, CalmInv, Busy, OtherObjectsHaveAHandler, At
<1>4. ASSUME MCNext, calm'
      PROVE  /\ \A r, s \in Busy' : r = s
             /\ exists' => OtherObjectsHaveAHandler'
  <2>1. calm /\ OneAtATime /\ \A r \in Requests : ~Fail(r)
    BY <1>4, Zenon DEF MCNext
  <2>2. \A r, s \in Busy' : r = s
    BY <1>2, <2>1, OneOrNone DEF OneAtATime
  <2>3. CASE BoardsChange
    BY <1>2, <2>1, <2>2, <2>3 DEF BoardsChange, CalmInv, OtherObjectsHaveAHandler, At
  <2>4. ASSUME NEW r \in Requests, Serve(r), exists'
        PROVE  OtherObjectsHaveAHandler'
    <3>1. \A s \in Requests \ {r} : req[s] = Idle /\ req'[s] = Idle
      BY <2>1, <2>2, <2>4, OnlyOneMoves DEF AccountInv, CalmInv, Busy
    <3> QED
      BY <2>1, <2>4, <3>1, ServingAlone DEF CalmInv
  <2> QED
    BY <1>4, <2>1, <2>2, <2>3, <2>4 DEF MCNext, Next, Serve
<1> QED
  BY <1>2, <1>3, <1>4 DEF CalmInv

LEMMA InitEstablishesCalmInv == MCInit => CalmInv
<1> SUFFICES ASSUME MCInit PROVE CalmInv
  OBVIOUS
<1>1. \A r \in Requests : req[r] = Idle
  BY DEF MCInit, Init
<1>2. Busy = {} /\ IsFiniteSet(Busy)
  BY <1>1, FS_EmptySet DEF Busy
<1> QED
  BY <1>1, <1>2 DEF MCInit, Init, CalmInv, OtherObjectsHaveAHandler, Idle

\* While requests come one at a time and none fails, each object of a user is the one
\* his row names, or a handler that is at work has just written it or is to delete it.
THEOREM CalmAccountInvariant == MCSpec => [](AccountInv /\ CalmInv)
<1>1. MCInit => AccountInv
  BY InitEstablishesAccountInv DEF MCInit
<1>2. AccountInv /\ [MCNext]_<<vars, calm>> => AccountInv'
  BY StepKeepsAccountInv DEF MCNext
<1> QED
  BY <1>1, <1>2, InitEstablishesCalmInv, StepKeepsCalmInv, PTL DEF MCSpec

\* While requests come one at a time and none fails, uploadAvatar leaves a user no
\* object but the one his row names: the key it read is still the row's when it writes.
THEOREM OneObjectIsLeft == MCSpec => []CalmOneObject
<1>1. CalmInv => CalmOneObject
  <2> SUFFICES ASSUME CalmInv, calm, exists, \A r \in Requests : req[r] = Idle,
                      NEW k \in objects, k # image
               PROVE  FALSE
    BY DEF CalmOneObject
  <2> QED
    BY DEF CalmInv, OtherObjectsHaveAHandler, At, Idle
<1> QED
  BY <1>1, CalmAccountInvariant, PTL

=============================================================================
