------------------------------ MODULE Avatars -------------------------------
(* The avatar of a user (handlers/profile.go): a row that names an object,  *)
(* and the object in storage.  The two are written by separate calls, and   *)
(* uploads and removals of the same user may overlap.                       *)
EXTENDS Naturals, FiniteSets

CONSTANTS Pictures, NoPicture, Uploads

ASSUME AvatarsAssumption == NoPicture \notin Pictures

VARIABLES
  avatar,    \* users.avatar_object_key
  objects,   \* objects in storage
  everSaved, \* keys that were given out: each upload makes a fresh one
  upload     \* what each request knows: the key it has read and its own

avatarVars == <<avatar, objects, everSaved, upload>>

NoUpload == [pc |-> "idle", old |-> NoPicture, new |-> NoPicture]

AvatarsInit ==
  /\ avatar = NoPicture /\ objects = {} /\ everSaved = {}
  /\ upload = [u \in Uploads |-> NoUpload]

To(u, pc) == upload' = [upload EXCEPT ![u].pc = pc]
Over(u) == upload' = [upload EXCEPT ![u] = NoUpload]

\* uploadAvatar reads the user, ...
ReadForUpload(u) ==
  /\ upload[u].pc = "idle"
  /\ \E p \in Pictures \ everSaved :
       /\ everSaved' = everSaved \cup {p}
       /\ upload' = [upload EXCEPT ![u] = [pc |-> "read", old |-> avatar, new |-> p]]
  /\ UNCHANGED <<avatar, objects>>

\* ... saves the object, or fails, ...
SaveObject(u) ==
  /\ upload[u].pc = "read"
  /\ \/ objects' = objects \cup {upload[u].new} /\ To(u, "saved")
     \/ UNCHANGED objects /\ Over(u)
  /\ UNCHANGED <<avatar, everSaved>>

\* ... and names it in the row; when that fails it deletes the object again.
UpdateRow(u) ==
  /\ upload[u].pc = "saved"
  /\ \/ avatar' = upload[u].new /\ To(u, "named") /\ UNCHANGED objects
     \/ objects' = objects \ {upload[u].new} /\ Over(u) /\ UNCHANGED avatar
  /\ UNCHANGED everSaved

\* deleteAvatar reads the user and clears the row.
ReadForRemoval(u) ==
  /\ upload[u].pc = "idle"
  /\ upload' = [upload EXCEPT ![u] = [NoUpload EXCEPT !.pc = "removing", !.old = avatar]]
  /\ UNCHANGED <<avatar, objects, everSaved>>

ClearRow(u) ==
  /\ upload[u].pc = "removing"
  /\ avatar' = NoPicture /\ To(u, "named")
  /\ UNCHANGED <<objects, everSaved>>

\* Mutant: the object deleted is the one the row names by now.
CurrentObject(u) == avatar

\* The object to delete is the one the row named when the request read it.
OldObject(u) == upload[u].old

\* Both end by deleting the old object; a failure to do so is ignored.
DeleteOldObject(u) ==
  /\ upload[u].pc = "named"
  /\ objects' \in {objects, objects \ {OldObject(u)}}
  /\ Over(u)
  /\ UNCHANGED <<avatar, everSaved>>

\* The server stops between two steps of a request.
RequestDies(u) ==
  /\ upload[u].pc # "idle" /\ Over(u)
  /\ UNCHANGED <<avatar, objects, everSaved>>

AvatarsNext ==
  \E u \in Uploads :
    \/ ReadForUpload(u) \/ SaveObject(u) \/ UpdateRow(u)
    \/ ReadForRemoval(u) \/ ClearRow(u) \/ DeleteOldObject(u) \/ RequestDies(u)

-----------------------------------------------------------------------------

\* The avatar a profile shows is in storage (serveAvatar finds it), whatever
\* uploads and removals overlapped or died halfway.
AvatarExists == avatar # NoPicture => avatar \in objects
=============================================================================
