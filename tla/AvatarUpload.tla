---------------------------- MODULE AvatarUpload ----------------------------
(***************************************************************************)
(* POST /profile/avatar: handlers.UploadAvatar, AvatarService.UploadAvatar *)
(* and avatar_repo, against the avatars bucket.  Nothing is locked from    *)
(* the read of the previous link to the delete of its object, so uploads   *)
(* of one user interleave.  Every upload has a fresh uuid: its object and  *)
(* the link to it are named by the upload.                                 *)
(***************************************************************************)
CONSTANTS
  Users,
  Uploads,
  Owner,    \* Owner[r]: the user who uploads
  Earlier,  \* the uploads that were answered before the process started
  Foreign   \* a stored link that names no object of the bucket

ASSUME OwnerAssumption == Owner \in [Uploads -> Users]
ASSUME EarlierAssumption == Earlier \subseteq Uploads
ASSUME ForeignAssumption == Foreign \notin Uploads

VARIABLES
  avatars,      \* the avatars table: user -> avatar_link
  objects,      \* the objects in the avatars bucket
  step,
  old,          \* the links each upload found before it stored its own
  cancelled,    \* uploads whose request context has ended
  troubled,     \* uploads cut short, or with a call that failed
  overlapping,  \* uploads in progress together with another of their user
  response      \* the HTTP status written, 0 before that

vars == <<avatars, objects, step, old, cancelled, troubled, overlapping, response>>

Running == {"getLink", "upload", "upsert", "delete"}

Init ==
  /\ \E known \in SUBSET Users : avatars \in [known -> Earlier \cup {Foreign}]
  /\ \A u \in DOMAIN avatars : avatars[u] # Foreign => Owner[avatars[u]] = u
  /\ objects = {avatars[u] : u \in DOMAIN avatars} \ {Foreign}
  /\ step = [r \in Uploads |-> IF r \in Earlier THEN "answered" ELSE "idle"]
  /\ old = [r \in Uploads |-> {}]
  /\ cancelled = {} /\ troubled = {} /\ overlapping = {}
  /\ response = [r \in Uploads |-> IF r \in Earlier THEN 200 ELSE 0]

InFlight(r) == step[r] \in Running

Goto(r, label) == step' = [step EXCEPT ![r] = label] /\ UNCHANGED response

Respond(r, status) ==
  /\ step' = [step EXCEPT ![r] = "answered"]
  /\ response' = [response EXCEPT ![r] = status]

\* A call of r failed: 500 is answered, and nothing is cleaned up.
Abandon(r) == troubled' = troubled \cup {r} /\ Respond(r, 500)

\* The handler reads the form and draws the object name.
Receive(r) ==
  LET rivals == {s \in Uploads \ {r} : InFlight(s) /\ Owner[s] = Owner[r]}
  IN  /\ step[r] = "idle"
      /\ \/ /\ Goto(r, "getLink")
            /\ overlapping' = overlapping \cup rivals \cup {x \in {r} : rivals # {}}
         \/ /\ \E status \in {400, 401, 500} : Respond(r, status)
            /\ UNCHANGED overlapping
      /\ UNCHANGED <<avatars, objects, old, cancelled, troubled>>

\* repo.GetAvatarLink
GetLink(r) ==
  /\ step[r] = "getLink"
  /\ \/ /\ r \notin cancelled
        /\ old' = [old EXCEPT ![r] = {avatars[u] : u \in {Owner[r]} \cap DOMAIN avatars}]
        /\ Goto(r, "upload")
        /\ UNCHANGED troubled
     \/ Abandon(r) /\ UNCHANGED old
  /\ UNCHANGED <<avatars, objects, cancelled, overlapping>>

\* storage.Upload.  A call that fails may have stored the object.
UploadObject(r) ==
  /\ step[r] = "upload"
  /\ \/ /\ r \notin cancelled
        /\ objects' = objects \cup {r}
        /\ Goto(r, "upsert")
        /\ UNCHANGED troubled
     \/ /\ \E stored \in IF r \in cancelled THEN {{}} ELSE {{}, {r}} :
             objects' = objects \cup stored
        /\ Abandon(r)
  /\ UNCHANGED <<avatars, old, cancelled, overlapping>>

Linked(r) ==
  avatars' = [u \in DOMAIN avatars \cup {Owner[r]} |->
                IF u = Owner[r] THEN r ELSE avatars[u]]

\* Mutant of UpsertLink: its error deletes the new object, as SaveQRCode does.
UpsertOrDelete(r) ==
  /\ step[r] = "upsert"
  /\ \/ Linked(r) /\ Goto(r, "delete") /\ UNCHANGED <<objects, troubled>>
     \/ /\ UNCHANGED avatars \/ Linked(r)
        /\ objects' = objects \ {r}
        /\ Abandon(r)
  /\ UNCHANGED <<old, cancelled, overlapping>>

\* Mutant of UpsertLink: the previous object is left alone.
UpsertOnly(r) ==
  /\ step[r] = "upsert"
  /\ Linked(r)
  /\ Respond(r, 200)
  /\ UNCHANGED <<objects, old, cancelled, troubled, overlapping>>

\* repo.UpsertAvatarLink, ON CONFLICT (user_id) DO UPDATE.  An error may come
\* after the statement took effect; the object stays in either case.
UpsertLink(r) ==
  /\ step[r] = "upsert"
  /\ \/ /\ r \notin cancelled
        /\ Linked(r)
        /\ IF old[r] \subseteq {Foreign} THEN Respond(r, 200) ELSE Goto(r, "delete")
        /\ UNCHANGED troubled
     \/ /\ UNCHANGED avatars \/ (r \notin cancelled /\ Linked(r))
        /\ Abandon(r)
  /\ UNCHANGED <<objects, old, cancelled, overlapping>>

\* storage.Delete of the previous object; its error is logged and dropped.
DeleteOld(r) ==
  /\ step[r] = "delete"
  /\ \/ /\ r \notin cancelled
        /\ objects' = objects \ old[r]
        /\ UNCHANGED troubled
     \/ /\ \E removed \in IF r \in cancelled THEN {{}} ELSE {{}, old[r]} :
             objects' = objects \ removed
        /\ troubled' = troubled \cup {r}
  /\ Respond(r, 200)
  /\ UNCHANGED <<avatars, old, cancelled, overlapping>>

\* The client goes away: the context of its request ends.
Disconnect(r) ==
  /\ InFlight(r) /\ r \notin cancelled
  /\ cancelled' = cancelled \cup {r}
  /\ troubled' = troubled \cup {r}
  /\ UNCHANGED <<avatars, objects, step, old, overlapping, response>>

\* The process dies.
Crash ==
  LET lost == {r \in Uploads : InFlight(r)}
  IN  /\ lost # {}
      /\ step' = [r \in Uploads |-> IF r \in lost THEN "lost" ELSE step[r]]
      /\ troubled' = troubled \cup lost
      /\ UNCHANGED <<avatars, objects, old, cancelled, overlapping, response>>

Handle(r) ==
  \/ Receive(r) \/ GetLink(r) \/ UploadObject(r) \/ UpsertLink(r) \/ DeleteOld(r)
  \/ Disconnect(r)

Next == (\E r \in Uploads : Handle(r)) \/ Crash

Spec == Init /\ [][Next]_vars

(***************************************************************************)
(* Properties.                                                             *)
(***************************************************************************)
TypeOK ==
  /\ DOMAIN avatars \subseteq Users
  /\ \A u \in DOMAIN avatars : avatars[u] \in Uploads \cup {Foreign}
  /\ objects \subseteq Uploads
  /\ step \in [Uploads -> {"idle", "answered", "lost"} \cup Running]
  /\ old \in [Uploads -> SUBSET (Uploads \cup {Foreign})]
  /\ cancelled \subseteq Uploads /\ troubled \subseteq Uploads /\ overlapping \subseteq Uploads
  /\ response \in [Uploads -> {0, 200, 400, 401, 500}]

\* UploadAvatar deletes an object only after its link was replaced, and no link
\* ever comes back: the avatar a profile shows is in the bucket, however the
\* uploads of one user interleave and fail.
LinkedAvatarExists ==
  \A u \in DOMAIN avatars : avatars[u] # Foreign => avatars[u] \in objects

\* The cleanup keeps one object per user; objects pile up only when uploads of
\* one user overlap or a call fails.
LeftoversExplained ==
  \A o \in objects :
    \/ InFlight(o) \/ o \in troubled
    \/ Owner[o] \in DOMAIN avatars /\ avatars[Owner[o]] = o
    \/ \E r \in Uploads : /\ Owner[r] = Owner[o]
                          /\ InFlight(r) \/ r \in troubled \cup overlapping
=============================================================================
