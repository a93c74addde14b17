---------------------------- MODULE UserAccount -----------------------------
(***************************************************************************)
(* One user's row and avatar: UserService.uploadAvatar, which keeps the    *)
(* row in the database and the file in S3 in step without a transaction,   *)
(* and UserService.deleteAccount.                                          *)
(*                                                                         *)
(* As in BoardMembership, each awaited call is one atomic step.  The row   *)
(* cannot be deleted while board memberships or boards refer to it; those  *)
(* come and go from outside.                                               *)
(***************************************************************************)
EXTENDS Naturals

CONSTANTS
    Requests,   \* request slots of the server
    Keys,       \* object keys: users/avatars/<user>/<time>-avatar.webp
    NoKey,      \* the absence of a key
    MayFail     \* TRUE when S3 or the database may fail a request

ASSUME NoKeyIsNoKey == NoKey \notin Keys
ASSUME MayFailIsBoolean == MayFail \in BOOLEAN

VARIABLES
    exists,     \* whether the user's row exists
    restricted, \* whether BoardMember or Board rows refer to it
    image,      \* user.image, NoKey when null or without a row
    objects,    \* the avatar objects of this user in the bucket
    req         \* req[r]: the local state of the handler in slot r

vars == <<exists, restricted, image, objects, req>>

KeyOrNone == Keys \cup {NoKey}

Call == {"idle", "readImage", "uploadFile", "updateUserAvatar", "deleteFile",
         "findUserById", "deleteUser"}

Request == [call : Call, key : KeyOrNone, oldKey : KeyOrNone]

Idle == [call |-> "idle", key |-> NoKey, oldKey |-> NoKey]

TypeOK ==
    /\ exists \in BOOLEAN
    /\ restricted \in BOOLEAN
    /\ image \in KeyOrNone
    /\ objects \subseteq Keys
    /\ req \in [Requests -> Request]

Init ==
    /\ exists = TRUE
    /\ restricted \in BOOLEAN
    /\ image = NoKey
    /\ objects = {}
    /\ req = [r \in Requests |-> Idle]

-----------------------------------------------------------------------------

At(r, call) == req[r].call = call
Continue(r, call) == req' = [req EXCEPT ![r].call = call]
Finish(r) == req' = [req EXCEPT ![r] = Idle]
Refuse(r) == Finish(r) /\ UNCHANGED <<exists, restricted, image, objects>>

\* JwtStrategy.validate has found the user's row.
Start(r, record) ==
    /\ exists
    /\ req[r] = Idle
    /\ req' = [req EXCEPT ![r] = record]
    /\ UNCHANGED <<exists, restricted, image, objects>>

-----------------------------------------------------------------------------
(* POST /me/avatar *)

\* Keys contain the time: no two uploads of a user share one.
FreshKeys ==
    {k \in Keys \ objects :
        k # image /\ \A r \in Requests : k # req[r].key /\ k # req[r].oldKey}

RequestUpload(r) ==
    \E k \in FreshKeys :
        Start(r, [call |-> "readImage", key |-> k, oldKey |-> NoKey])

\* findUserById; a row that is gone has no image.
ReadImage(r) ==
    /\ At(r, "readImage")
    /\ req' = [req EXCEPT ![r].call = "uploadFile", ![r].oldKey = image]
    /\ UNCHANGED <<exists, restricted, image, objects>>

UploadFile(r) ==
    /\ At(r, "uploadFile")
    /\ objects' = objects \cup {req[r].key}
    /\ Continue(r, "updateUserAvatar")
    /\ UNCHANGED <<exists, restricted, image>>

\* Mutant: the object that was replaced is kept.
KeepOldFile(r) == Finish(r)

\* if (oldKey): the replaced object goes last.
AfterUpdate(r) ==
    IF req[r].oldKey # NoKey THEN Continue(r, "deleteFile") ELSE Finish(r)

UpdateUserAvatar(r) ==
    /\ At(r, "updateUserAvatar")
    /\ \/ /\ exists
          /\ image' = req[r].key
          /\ AfterUpdate(r)
          /\ UNCHANGED <<exists, restricted, objects>>
       \/ ~exists /\ Refuse(r)

\* Mutant: the object deleted is the one the row names.
DeleteCurrentFile(r) ==
    /\ At(r, "deleteFile")
    /\ objects' = objects \ {image}
    /\ Finish(r)
    /\ UNCHANGED <<exists, restricted, image>>

DeleteFile(r) ==
    /\ At(r, "deleteFile")
    /\ objects' = objects \ {req[r].oldKey}
    /\ Finish(r)
    /\ UNCHANGED <<exists, restricted, image>>

-----------------------------------------------------------------------------
(* DELETE /me *)

RequestDeletion(r) ==
    Start(r, [call |-> "findUserById", key |-> NoKey, oldKey |-> NoKey])

FindUserById(r) ==
    /\ At(r, "findUserById")
    /\ IF exists THEN Continue(r, "deleteUser") ELSE Finish(r)
    /\ UNCHANGED <<exists, restricted, image, objects>>

DeleteUser(r) ==
    /\ At(r, "deleteUser")
    /\ \/ /\ exists /\ ~restricted
          /\ exists' = FALSE
          /\ image' = NoKey
          /\ Finish(r)
          /\ UNCHANGED <<restricted, objects>>
       \/ ~(exists /\ ~restricted) /\ Refuse(r)

-----------------------------------------------------------------------------

Fail(r) == MayFail /\ req[r] # Idle /\ Refuse(r)

\* The user creates, joins or leaves boards.
BoardsChange ==
    /\ exists
    /\ restricted' \in BOOLEAN
    /\ UNCHANGED <<exists, image, objects, req>>

Next ==
    \/ BoardsChange
    \/ \E r \in Requests :
          \/ RequestUpload(r) \/ ReadImage(r) \/ UploadFile(r)
          \/ UpdateUserAvatar(r) \/ DeleteFile(r)
          \/ RequestDeletion(r) \/ FindUserById(r) \/ DeleteUser(r)
          \/ Fail(r)

Spec == Init /\ [][Next]_vars

-----------------------------------------------------------------------------
(* Properties *)

\* The row never names an object that is not there: concurrent uploads may
\* read the same old key and a request may die between any two of its calls,
\* but an object is deleted only after its key has left the row for good.
AvatarExists == image # NoKey => image \in objects

-----------------------------------------------------------------------------
(* The inductive invariant behind AvatarExists *)

\* A key that has not been written to the row yet.
Pending(r) == req[r].call \in {"readImage", "uploadFile", "updateUserAvatar"}

\* It belongs to one request, and nobody takes it for an old one.
PendingKeysAreOwn ==
    \A r \in Requests : Pending(r) =>
        /\ req[r].key \in Keys
        /\ req[r].key # image
        /\ \A s \in Requests :
              /\ req[s].oldKey # req[r].key
              /\ Pending(s) /\ req[s].key = req[r].key => s = r

UploadedBeforeUpdate ==
    \A r \in Requests : At(r, "updateUserAvatar") => req[r].key \in objects

DeletedAfterUpdate ==
    \A r \in Requests : At(r, "deleteFile") => req[r].oldKey \in Keys \ {image}

AccountInv ==
    /\ TypeOK
    /\ AvatarExists
    /\ PendingKeysAreOwn
    /\ UploadedBeforeUpdate
    /\ DeletedAfterUpdate

=============================================================================
