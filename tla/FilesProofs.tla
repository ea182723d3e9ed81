---------------------------- MODULE FilesProofs ----------------------------
(***************************************************************************)
(* What the uploads of avatars and of QR codes keep when they run beside   *)
(* readers, restarts and each other, facts about the links of files, and   *)
(* what a client that opens such a link gets.                              *)
(***************************************************************************)
EXTENDS PublicFiles, SequenceTheorems, TLAPS

(***************************************************************************)
(* The avatar a profile shows is in the bucket, for every set of users and *)
(* uploads.  LinkedAvatarExists is not inductive: that DeleteOld removes   *)
(* no linked object needs to know whose uploads the previous links name    *)
(* (OldDone), that the link they came from was replaced (OldReplaced) and  *)
(* that a link is set only by an upload that stored its object (Stored).   *)
(***************************************************************************)
\* The upload has not set its link, and has not failed either.
Pending(r) == step[r] \in {"idle", "getLink", "upload", "upsert"}

Types ==
  /\ \A u \in DOMAIN avatars : u \in Users /\ avatars[u] \in Uploads \cup {Foreign}
  /\ step \in [Uploads -> {"idle", "answered", "lost"} \cup Running]
  /\ old \in [Uploads -> SUBSET (Uploads \cup {Foreign})]

Stored == \A r \in Uploads : step[r] = "upsert" => r \in objects

LinkDone ==
  \A u \in DOMAIN avatars :
    avatars[u] # Foreign =>
      avatars[u] \in objects /\ Owner[avatars[u]] = u /\ ~Pending(avatars[u])

OldDone ==
  \A r \in Uploads : \A o \in old[r] \ {Foreign} : Owner[o] = Owner[r] /\ ~Pending(o)

OldReplaced ==
  \A r \in Uploads : step[r] = "delete" =>
    \A u \in DOMAIN avatars : avatars[u] \in old[r] => avatars[u] = Foreign

Inductive == Types /\ Stored /\ LinkDone /\ OldDone /\ OldReplaced

LEMMA InitInductive == Init => Inductive
BY OwnerAssumption, EarlierAssumption, ForeignAssumption
   DEF Init, Inductive, Types, Stored, LinkDone, OldDone, OldReplaced, Pending, Running

\* A link is replaced by an upload that stored its object and is not pending
\* any more; nobody holds it as a previous one, and everybody who holds the
\* link it replaces may delete it.
LEMMA LinkKeepsInductive ==
  ASSUME Inductive, NEW r \in Uploads, NEW label,
         step[r] = "upsert", Linked(r),
         step' = [step EXCEPT ![r] = label], label \in {"delete", "answered"},
         UNCHANGED <<objects, old>>
  PROVE  Inductive'
<1> USE DEF Inductive
<1>0. /\ DOMAIN avatars' = DOMAIN avatars \cup {Owner[r]}
      /\ avatars'[Owner[r]] = r
      /\ \A u \in DOMAIN avatars \ {Owner[r]} : avatars'[u] = avatars[u]
  BY DEF Linked
<1>1. Types'
  BY <1>0, OwnerAssumption DEF Types, Running
<1>2. /\ step'[r] = label
      /\ \A s \in Uploads \ {r} : step'[s] = step[s]
  BY DEF Types
<1>3. Stored'
  BY <1>2 DEF Stored
<1>4. \A s \in Uploads : ~Pending(s) => ~Pending(s)'
  BY <1>2 DEF Pending
<1>5. r \in objects /\ Pending(r) /\ ~Pending(r)'
  BY <1>2 DEF Stored, Pending
<1>6. LinkDone'
  <2> SUFFICES ASSUME NEW u \in DOMAIN avatars', NEW o, o = avatars'[u], o # Foreign
               PROVE  o \in objects /\ Owner[o] = u /\ ~Pending(o)'
    BY DEF LinkDone, Pending
  <2>1. CASE u = Owner[r]
    BY <2>1, <1>0, <1>5
  <2>2. CASE u # Owner[r]
    BY <2>2, <1>0, <1>4 DEF LinkDone, Types
  <2> QED BY <2>1, <2>2
<1>7. OldDone'
  BY <1>4 DEF OldDone, Types
<1>8. OldReplaced'
  <2> SUFFICES ASSUME NEW s \in Uploads, step'[s] = "delete",
                      NEW u \in DOMAIN avatars', avatars'[u] \in old[s], avatars'[u] # Foreign
               PROVE  FALSE
    BY DEF OldReplaced
  <2>1. avatars'[u] # r
    BY <1>5 DEF OldDone
  <2>2. u \in DOMAIN avatars \ {Owner[r]} /\ avatars'[u] = avatars[u]
    BY <2>1, <1>0
  <2>3. Owner[s] = u
    BY <2>2 DEF OldDone, LinkDone
  <2>4. s # r /\ step[s] = "delete"
    BY <2>2, <2>3, <1>2
  <2> QED BY <2>2, <2>4 DEF OldReplaced
<1> QED BY <1>1, <1>3, <1>6, <1>7, <1>8

\* A step that leaves the table and the previous links alone, makes no upload
\* pending or ready to store or delete, and removes no object.
LEMMA QuietStep ==
  ASSUME Inductive, UNCHANGED <<avatars, old>>, objects \subseteq objects',
         step' \in [Uploads -> {"idle", "answered", "lost"} \cup Running],
         \A s \in Uploads : /\ ~Pending(s) => ~Pending(s)'
                            /\ step'[s] \in {"upsert", "delete"} => step'[s] = step[s]
  PROVE  Inductive'
<1> USE DEF Inductive
<1>1. Types' /\ Stored'
  BY DEF Types, Stored
<1>2. LinkDone'
  BY DEF Types, LinkDone, Pending
<1>3. OldDone'
  BY DEF Types, OldDone, Pending
<1>4. OldReplaced'
  BY DEF OldReplaced
<1> QED BY <1>1, <1>2, <1>3, <1>4

\* A failed call ends a pending upload quietly, whether it stored its object or not.
LEMMA AbandonKeepsInductive ==
  ASSUME Inductive, NEW r \in Uploads, InFlight(r), Abandon(r),
         UNCHANGED <<avatars, old>>, objects \subseteq objects'
  PROVE  Inductive'
<1>1. step' = [step EXCEPT ![r] = "answered"]
  BY DEF Abandon, Respond
<1>2. /\ step' \in [Uploads -> {"idle", "answered", "lost"} \cup Running]
      /\ \A s \in Uploads : step'[s] = IF s = r THEN "answered" ELSE step[s]
  BY <1>1 DEF Inductive, Types
<1> QED BY <1>2, QuietStep DEF Pending

LEMMA NextInductive == Inductive /\ [Next]_vars => Inductive'
<1> SUFFICES ASSUME Inductive, [Next]_vars PROVE Inductive'
  OBVIOUS
<1>t. Types /\ Stored /\ LinkDone /\ OldDone /\ OldReplaced
  BY DEF Inductive
<1>1. ASSUME NEW r \in Uploads, Receive(r) PROVE Inductive'
  <2>1. /\ UNCHANGED <<avatars, old, objects>>
        /\ step[r] = "idle"
        /\ \E label \in {"getLink", "answered"} : step' = [step EXCEPT ![r] = label]
    BY <1>1 DEF Receive, Goto, Respond
  <2> QED BY <2>1, <1>t, QuietStep DEF Types, Pending, Running
<1>2. ASSUME NEW r \in Uploads, GetLink(r) PROVE Inductive'
  <2>1. CASE /\ old' = [old EXCEPT ![r] = {avatars[u] : u \in {Owner[r]} \cap DOMAIN avatars}]
             /\ Goto(r, "upload")
    <3>1. /\ UNCHANGED <<avatars, objects>> /\ step[r] = "getLink"
          /\ step' = [step EXCEPT ![r] = "upload"]
      BY <1>2, <2>1 DEF GetLink, Goto
    <3>2. \A o \in old'[r] : Owner[r] \in DOMAIN avatars /\ o = avatars[Owner[r]]
      BY <2>1, <1>t DEF Types
    <3>3. Types'
      BY <3>1, <2>1, <1>t DEF Types, Running
    <3>4. \A s \in Uploads : Pending(s)' <=> Pending(s)
      BY <3>1, <1>t DEF Types, Pending
    <3>5. Stored' /\ LinkDone'
      BY <3>1, <3>4, <1>t DEF Types, Stored, LinkDone, Pending
    <3>6. OldDone'
      <4> SUFFICES ASSUME NEW s \in Uploads, NEW o \in old'[s] \ {Foreign}
                   PROVE  Owner[o] = Owner[s] /\ ~Pending(o)'
        BY DEF OldDone, Pending
      <4>1. CASE s = r
        BY <4>1, <3>2, <3>4, <1>t DEF LinkDone, Types
      <4>2. CASE s # r
        BY <4>2, <2>1, <3>4, <1>t DEF OldDone, Types
      <4> QED BY <4>1, <4>2
    <3>7. OldReplaced'
      BY <3>1, <2>1, <1>t DEF OldReplaced, Types
    <3> QED BY <3>3, <3>5, <3>6, <3>7 DEF Inductive
  <2>2. CASE Abandon(r) /\ UNCHANGED old
    BY <1>2, <2>2, AbandonKeepsInductive DEF GetLink, InFlight, Running
  <2> QED BY <1>2, <2>1, <2>2 DEF GetLink
<1>3. ASSUME NEW r \in Uploads, UploadObject(r) PROVE Inductive'
  <2>1. CASE objects' = objects \cup {r} /\ Goto(r, "upsert")
    <3>1. /\ UNCHANGED <<avatars, old>> /\ step[r] = "upload"
          /\ step' = [step EXCEPT ![r] = "upsert"]
      BY <1>3, <2>1 DEF UploadObject, Goto
    <3>2. \A s \in Uploads : Pending(s)' <=> Pending(s)
      BY <3>1, <1>t DEF Types, Pending
    <3>3. Types' /\ Stored'
      BY <3>1, <2>1, <1>t DEF Types, Stored, Running
    <3>4. LinkDone'
      BY <3>1, <3>2, <2>1, <1>t DEF Types, LinkDone, Pending
    <3>5. OldDone'
      BY <3>1, <3>2, <1>t DEF Types, OldDone, Pending
    <3>6. OldReplaced'
      BY <3>1, <1>t DEF Types, OldReplaced
    <3> QED BY <3>3, <3>4, <3>5, <3>6 DEF Inductive
  <2>2. CASE Abandon(r) /\ objects \subseteq objects'
    BY <1>3, <2>2, AbandonKeepsInductive DEF UploadObject, InFlight, Running
  <2> QED BY <1>3, <2>1, <2>2 DEF UploadObject
<1>4. ASSUME NEW r \in Uploads, UpsertLink(r) PROVE Inductive'
  <2>1. step[r] = "upsert" /\ UNCHANGED <<objects, old>>
    BY <1>4 DEF UpsertLink
  <2>2. CASE Linked(r)
    <3>1. \E label \in {"delete", "answered"} : step' = [step EXCEPT ![r] = label]
      BY <1>4 DEF UpsertLink, Respond, Goto, Abandon
    <3> QED BY <2>1, <2>2, <3>1, LinkKeepsInductive
  <2>3. CASE UNCHANGED avatars /\ Abandon(r)
    BY <2>1, <2>3, AbandonKeepsInductive DEF InFlight, Running
  <2> QED BY <1>4, <2>2, <2>3 DEF UpsertLink
<1>5. ASSUME NEW r \in Uploads, DeleteOld(r) PROVE Inductive'
  <2>1. /\ step[r] = "delete" /\ UNCHANGED <<avatars, old>>
        /\ step' = [step EXCEPT ![r] = "answered"]
        /\ \E removed \in {{}, old[r]} : objects' = objects \ removed
    BY <1>5 DEF DeleteOld, Respond
  <2>2. \A s \in Uploads : Pending(s)' <=> Pending(s)
    BY <2>1, <1>t DEF Types, Pending
  <2>3. Types'
    BY <2>1, <1>t DEF Types
  <2>4. Stored'
    BY <2>1, <1>t, ForeignAssumption DEF Types, Stored, OldDone, Pending
  <2>5. LinkDone'
    BY <2>1, <2>2, <1>t DEF Types, LinkDone, OldReplaced, Pending
  <2>6. OldDone'
    BY <2>1, <2>2, <1>t DEF Types, OldDone, Pending
  <2>7. OldReplaced'
    BY <2>1, <1>t DEF Types, OldReplaced
  <2> QED BY <2>3, <2>4, <2>5, <2>6, <2>7 DEF Inductive
<1>6. ASSUME NEW r \in Uploads, Disconnect(r) PROVE Inductive'
  BY <1>6, <1>t, QuietStep DEF Disconnect, Types, Pending
<1>7. ASSUME Crash PROVE Inductive'
  <2>1. /\ UNCHANGED <<avatars, old, objects>>
        /\ \A s \in Uploads : step'[s] \in {"lost", step[s]}
        /\ step' \in [Uploads -> {"idle", "answered", "lost"} \cup Running]
    BY <1>7, <1>t DEF Crash, Types
  <2> QED BY <2>1, QuietStep DEF Pending
<1>8. CASE UNCHANGED vars
  BY <1>8, <1>t, QuietStep DEF vars, Types, Pending
<1> QED BY <1>1, <1>2, <1>3, <1>4, <1>5, <1>6, <1>7, <1>8 DEF Next, Handle

\* The inductive invariant of the upload.
THEOREM InductiveHolds == Spec => []Inductive
<1>1. Init => Inductive BY InitInductive
<1>2. Inductive /\ [Next]_vars => Inductive' BY NextInductive
<1> QED BY <1>1, <1>2, PTL DEF Spec

\* However the uploads of one user interleave, fail, are cancelled or cut short
\* by a crash: UploadAvatar never deletes the object a profile links to.
THEOREM AvatarKept == Spec => []LinkedAvatarExists
<1>1. Inductive => LinkedAvatarExists
  BY DEF Inductive, LinkDone, LinkedAvatarExists
<1> QED BY <1>1, InductiveHolds, PTL

(***************************************************************************)
(* What is left over.  An object loses its link to a later upload, which   *)
(* has seen it and deletes it, or else began while the object's own upload *)
(* was running (Seen, from Overlap).                                       *)
(***************************************************************************)
Overlap ==
  \A r, s \in Uploads :
    r # s /\ InFlight(r) /\ InFlight(s) /\ Owner[r] = Owner[s] => r \in overlapping

LinkOf(r) == {avatars[u] : u \in {Owner[r]} \cap DOMAIN avatars}

Seen ==
  \A r \in Uploads : step[r] \in {"upload", "upsert"} =>
    LinkOf(r) \subseteq old[r] \/ r \in overlapping

Current ==
  \A r \in Uploads : step[r] = "delete" => LinkOf(r) = {r} \/ r \in overlapping

\* The object's upload runs or failed, its link is shown, it is about to be deleted, or
\* an upload of its user overlapped another or failed.
Excused(o) ==
  \/ InFlight(o) \/ o \in troubled \/ LinkOf(o) = {o}
  \/ \E r \in Uploads : /\ Owner[r] = Owner[o]
                        /\ (step[r] = "delete" /\ o \in old[r]) \/ r \in troubled \cup overlapping

Accounted == objects \subseteq Uploads /\ \A o \in objects : Excused(o)

LeftInductive == Overlap /\ Seen /\ Current /\ Accounted

LEMMA InitLeft == Init => LeftInductive
<1> SUFFICES ASSUME Init PROVE LeftInductive
  OBVIOUS
<1>1. \A r \in Uploads : step[r] \in {"answered", "idle"}
  BY DEF Init
<1>2. Overlap /\ Seen /\ Current
  BY <1>1 DEF Overlap, Seen, Current, InFlight, Running
<1>3. ASSUME NEW o \in objects PROVE o \in Uploads /\ LinkOf(o) = {o}
  BY EarlierAssumption DEF Init, LinkOf
<1> QED BY <1>2, <1>3 DEF LeftInductive, Accounted, Excused

\* Uploads end, those in flight with an error, and nothing else changes but that
\* objects go or come with the error.
LEMMA QuietLeft ==
  ASSUME LeftInductive, UNCHANGED <<avatars, old>>,
         objects' \subseteq objects \cup (troubled' \cap Uploads),
         troubled \subseteq troubled', overlapping \subseteq overlapping',
         \A s \in Uploads : \/ step'[s] = step[s]
                            \/ step'[s] \notin Running /\ (InFlight(s) => s \in troubled')
  PROVE  LeftInductive'
<1> USE DEF LeftInductive
<1>1. \A s \in Uploads : step'[s] \in Running => step'[s] = step[s]
  OBVIOUS
<1>2. Overlap'
  BY <1>1 DEF Overlap, InFlight
<1>3. Seen' /\ Current'
  BY <1>1 DEF Seen, Current, LinkOf, Running
<1>4. ASSUME NEW o \in objects' PROVE o \in Uploads /\ Excused(o)'
  <2>1. CASE o \in troubled' \cap Uploads
    BY <2>1 DEF Excused
  <2>2. CASE o \in objects
    <3>1. o \in Uploads /\ Excused(o)
      BY <2>2 DEF Accounted
    <3>2. CASE InFlight(o) \/ o \in troubled
      BY <3>1, <3>2 DEF Excused, InFlight
    <3>3. CASE LinkOf(o) = {o}
      BY <3>1, <3>3 DEF Excused, LinkOf
    <3>4. ASSUME NEW r \in Uploads, Owner[r] = Owner[o],
                 (step[r] = "delete" /\ o \in old[r]) \/ r \in troubled \cup overlapping
          PROVE  (step'[r] = "delete" /\ o \in old'[r]) \/ r \in troubled' \cup overlapping'
      BY <3>4 DEF InFlight, Running
    <3> QED BY <3>1, <3>2, <3>3, <3>4 DEF Excused
  <2> QED BY <2>1, <2>2
<1> QED BY <1>2, <1>3, <1>4 DEF Accounted

\* A link is set: what it replaces was seen, or the uploads overlap.
LEMMA LinkKeepsLeft ==
  ASSUME Inductive, LeftInductive, NEW r \in Uploads, step[r] = "upsert", Linked(r),
         UNCHANGED <<objects, old, overlapping>>,
         troubled \subseteq troubled',
         \A s \in Uploads \ {r} : step'[s] = step[s],
         \/ step'[r] = "delete"
         \/ step'[r] = "answered" /\ (old[r] \subseteq {Foreign} \/ r \in troubled')
  PROVE  LeftInductive'
<1> USE DEF LeftInductive
<1>1. /\ LinkOf(r)' = {r}
      /\ \A s \in Uploads : Owner[s] # Owner[r] => LinkOf(s)' = LinkOf(s)
  BY DEF Linked, LinkOf
<1>2. Overlap'
  BY DEF Overlap, InFlight, Running
<1>3. \A s \in Uploads \ {r} : InFlight(s) /\ Owner[s] = Owner[r] => s \in overlapping
  BY DEF Overlap, InFlight, Running
<1>4. Seen'
  <2> SUFFICES ASSUME NEW s \in Uploads, step'[s] \in {"upload", "upsert"}, s \notin overlapping
               PROVE  LinkOf(s)' \subseteq old[s]
    BY DEF Seen
  <2>1. s # r /\ InFlight(s)
    BY DEF InFlight, Running
  <2> QED BY <1>1, <1>3, <2>1 DEF Seen
<1>5. Current'
  <2> SUFFICES ASSUME NEW s \in Uploads, step'[s] = "delete", s \notin overlapping
               PROVE  LinkOf(s)' = {s}
    BY DEF Current
  <2>1. CASE s = r
    BY <1>1, <2>1
  <2>2. CASE s # r
    BY <1>1, <1>3, <2>2 DEF Current, InFlight, Running
  <2> QED BY <2>1, <2>2
<1>6. ASSUME NEW o \in objects PROVE Excused(o)'
  <2>1. o \in Uploads /\ Excused(o) /\ o # Foreign
    BY ForeignAssumption DEF Accounted
  <2>2. CASE o = r
    BY <1>1, <2>2 DEF Excused
  <2>3. CASE o # r /\ (InFlight(o) \/ o \in troubled)
    BY <2>1, <2>3 DEF Excused, InFlight
  <2>4. CASE o # r /\ LinkOf(o) = {o} /\ Owner[o] = Owner[r]
    <3>1. o \in old[r] \/ r \in overlapping
      BY <2>4 DEF Seen, LinkOf
    <3>2. CASE r \in overlapping \cup troubled'
      BY <2>4, <3>2 DEF Excused
    <3>3. CASE o \in old[r] /\ step'[r] = "delete"
      BY <2>4, <3>3 DEF Excused
    <3> QED BY <2>1, <3>1, <3>2, <3>3
  <2>5. CASE o # r /\ LinkOf(o) = {o} /\ Owner[o] # Owner[r]
    BY <1>1, <2>1, <2>5 DEF Excused
  <2>6. ASSUME o # r, NEW s \in Uploads, Owner[s] = Owner[o],
               (step[s] = "delete" /\ o \in old[s]) \/ s \in troubled \cup overlapping
        PROVE  (step'[s] = "delete" /\ o \in old'[s]) \/ s \in troubled' \cup overlapping'
    BY <2>6
  <2> QED BY <2>1, <2>2, <2>3, <2>4, <2>5, <2>6 DEF Excused
<1> QED BY <1>2, <1>4, <1>5, <1>6 DEF Accounted

\* An upload moves on; what it may have changed is what its next step is about.
LEMMA MoveLeft ==
  ASSUME LeftInductive, NEW r \in Uploads, UNCHANGED avatars,
         step[r] # "delete", step'[r] \in {"getLink", "upload", "upsert"},
         \A s \in Uploads \ {r} : step'[s] = step[s] /\ old'[s] = old[s],
         objects' \subseteq objects \cup {r}, UNCHANGED troubled,
         overlapping \subseteq overlapping', Overlap',
         step'[r] \in {"upload", "upsert"} => LinkOf(r) \subseteq old'[r] \/ r \in overlapping
  PROVE  LeftInductive'
<1> USE DEF LeftInductive
<1>1. \A s : LinkOf(s)' = LinkOf(s)
  BY DEF LinkOf
<1>2. Seen' /\ Current'
  BY <1>1 DEF Seen, Current
<1>3. ASSUME NEW o \in objects' PROVE o \in Uploads /\ Excused(o)'
  <2>1. CASE o = r
    BY <2>1 DEF Excused, InFlight, Running
  <2>2. CASE o \in objects /\ o # r
    <3>1. o \in Uploads /\ Excused(o)
      BY <2>2 DEF Accounted
    <3>2. CASE InFlight(o) \/ o \in troubled \/ LinkOf(o) = {o}
      BY <1>1, <2>2, <3>1, <3>2 DEF Excused, InFlight
    <3>3. ASSUME NEW s \in Uploads, Owner[s] = Owner[o],
                 (step[s] = "delete" /\ o \in old[s]) \/ s \in troubled \cup overlapping
          PROVE  (step'[s] = "delete" /\ o \in old'[s]) \/ s \in troubled' \cup overlapping'
      BY <3>3
    <3> QED BY <3>1, <3>2, <3>3 DEF Excused
  <2> QED BY <2>1, <2>2
<1> QED BY <1>2, <1>3 DEF Accounted

LEMMA NextLeft == Inductive /\ LeftInductive /\ [Next]_vars => LeftInductive'
<1> SUFFICES ASSUME Inductive, LeftInductive, [Next]_vars PROVE LeftInductive'
  OBVIOUS
<1>t. Types
  BY DEF Inductive
<1>l. Overlap /\ Seen /\ Current /\ Accounted
  BY DEF LeftInductive
<1>1. ASSUME NEW r \in Uploads, Receive(r) PROVE LeftInductive'
  <2> DEFINE rivals == {s \in Uploads \ {r} : InFlight(s) /\ Owner[s] = Owner[r]}
  <2>1. step[r] = "idle" /\ UNCHANGED <<avatars, objects, old, troubled>>
    BY <1>1 DEF Receive
  <2>2. CASE Goto(r, "getLink") /\ overlapping' = overlapping \cup rivals \cup {x \in {r} : rivals # {}}
    <3>1. step'[r] = "getLink" /\ \A s \in Uploads \ {r} : step'[s] = step[s]
      BY <2>2, <1>t DEF Goto, Types
    <3>2. Overlap'
      <4> SUFFICES ASSUME NEW s \in Uploads, NEW q \in Uploads, s # q, InFlight(s)', InFlight(q)',
                          Owner[s] = Owner[q]
                   PROVE  s \in overlapping'
        BY DEF Overlap, InFlight
      <4>1. CASE s = r
        BY <2>2, <3>1, <4>1 DEF InFlight
      <4>2. CASE q = r
        BY <2>2, <3>1, <4>2 DEF InFlight
      <4>3. CASE s # r /\ q # r
        BY <2>2, <3>1, <4>3, <1>l DEF Overlap, InFlight
      <4> QED BY <4>1, <4>2, <4>3
    <3> QED BY <2>1, <2>2, <3>1, <3>2, MoveLeft
  <2>3. CASE \E status \in {400, 401, 500} : Respond(r, status) /\ UNCHANGED overlapping
    <3>1. step'[r] = "answered" /\ \A s \in Uploads \ {r} : step'[s] = step[s]
      BY <2>3, <1>t DEF Respond, Types
    <3> QED BY <2>1, <2>3, <3>1, QuietLeft DEF InFlight, Running
  <2> QED BY <1>1, <2>2, <2>3 DEF Receive
\* A call of r failed.
<1>2. ASSUME NEW r \in Uploads, InFlight(r), Abandon(r), UNCHANGED <<avatars, old, overlapping>>,
             objects' \subseteq objects \cup {r}
      PROVE  LeftInductive'
  <2>1. /\ step'[r] = "answered" /\ troubled' = troubled \cup {r}
        /\ \A s \in Uploads \ {r} : step'[s] = step[s]
    BY <1>2, <1>t DEF Abandon, Respond, Types
  <2> QED BY <1>2, <2>1, QuietLeft DEF Running
<1>3. ASSUME NEW r \in Uploads, GetLink(r) PROVE LeftInductive'
  <2>1. step[r] = "getLink" /\ UNCHANGED <<avatars, objects, overlapping>>
    BY <1>3 DEF GetLink
  <2>2. CASE old' = [old EXCEPT ![r] = LinkOf(r)] /\ Goto(r, "upload") /\ UNCHANGED troubled
    <3>1. /\ step'[r] = "upload" /\ old'[r] = LinkOf(r)
          /\ \A s \in Uploads \ {r} : step'[s] = step[s] /\ old'[s] = old[s]
      BY <2>2, <1>t DEF Goto, Types
    <3>2. Overlap'
      BY <2>1, <3>1, <1>l DEF Overlap, InFlight, Running
    <3> QED BY <2>1, <2>2, <3>1, <3>2, MoveLeft
  <2>3. CASE Abandon(r) /\ UNCHANGED old
    BY <1>2, <2>1, <2>3 DEF InFlight, Running
  <2> QED BY <1>3, <2>2, <2>3 DEF GetLink, LinkOf
<1>4. ASSUME NEW r \in Uploads, UploadObject(r) PROVE LeftInductive'
  <2>1. step[r] = "upload" /\ UNCHANGED <<avatars, old, overlapping>> /\ objects' \subseteq objects \cup {r}
    BY <1>4 DEF UploadObject
  <2>2. CASE Goto(r, "upsert") /\ UNCHANGED troubled
    <3>1. step'[r] = "upsert" /\ \A s \in Uploads \ {r} : step'[s] = step[s]
      BY <2>2, <1>t DEF Goto, Types
    <3>2. Overlap'
      BY <2>1, <3>1, <1>l DEF Overlap, InFlight, Running
    <3>3. LinkOf(r) \subseteq old'[r] \/ r \in overlapping
      BY <2>1, <1>l DEF Seen
    <3> QED BY <2>1, <2>2, <3>1, <3>2, <3>3, MoveLeft
  <2>3. CASE Abandon(r)
    BY <1>2, <2>1, <2>3 DEF InFlight, Running
  <2> QED BY <1>4, <2>2, <2>3 DEF UploadObject
<1>5. ASSUME NEW r \in Uploads, UpsertLink(r) PROVE LeftInductive'
  <2>1. step[r] = "upsert" /\ UNCHANGED <<objects, old, overlapping>>
    BY <1>5 DEF UpsertLink
  <2>2. CASE Linked(r)
    <3>1. \/ /\ UNCHANGED troubled
             /\ \/ old[r] \subseteq {Foreign} /\ step' = [step EXCEPT ![r] = "answered"]
                \/ step' = [step EXCEPT ![r] = "delete"]
          \/ troubled' = troubled \cup {r} /\ step' = [step EXCEPT ![r] = "answered"]
      BY <1>5 DEF UpsertLink, Goto, Respond, Abandon
    <3>2. /\ \A s \in Uploads \ {r} : step'[s] = step[s]
          /\ troubled \subseteq troubled'
          /\ \/ step'[r] = "delete"
             \/ step'[r] = "answered" /\ (old[r] \subseteq {Foreign} \/ r \in troubled')
      BY <3>1, <1>t DEF Types
    <3> QED BY <2>1, <2>2, <3>2, LinkKeepsLeft
  <2>3. CASE UNCHANGED avatars /\ Abandon(r)
    BY <1>2, <2>1, <2>3 DEF InFlight, Running
  <2> QED BY <1>5, <2>2, <2>3 DEF UpsertLink
<1>6. ASSUME NEW r \in Uploads, DeleteOld(r) PROVE LeftInductive'
  <2>1. /\ step[r] = "delete" /\ UNCHANGED <<avatars, old, overlapping>>
        /\ step'[r] = "answered" /\ \A s \in Uploads \ {r} : step'[s] = step[s]
    BY <1>6, <1>t DEF DeleteOld, Respond, Types
  <2>2. CASE troubled' = troubled \cup {r} /\ objects' \subseteq objects
    BY <2>1, <2>2, QuietLeft DEF Running
  <2>3. CASE objects' = objects \ old[r] /\ UNCHANGED troubled
    <3>1. \A s : LinkOf(s)' = LinkOf(s)
      BY <2>1 DEF LinkOf
    <3>2. Overlap' /\ Seen' /\ Current'
      BY <2>1, <3>1, <1>l DEF Overlap, Seen, Current, InFlight, Running
    <3>3. ASSUME NEW o \in objects' PROVE o \in Uploads /\ Excused(o)'
      <4>1. o \in Uploads /\ Excused(o) /\ o \notin old[r]
        BY <2>3, <1>l DEF Accounted
      <4>2. CASE o = r
        BY <2>1, <3>1, <4>2, <1>l DEF Excused, Current
      <4>3. CASE o # r /\ (InFlight(o) \/ o \in troubled \/ LinkOf(o) = {o})
        BY <2>1, <2>3, <3>1, <4>1, <4>3 DEF Excused, InFlight
      <4>4. ASSUME NEW s \in Uploads, Owner[s] = Owner[o],
                   (step[s] = "delete" /\ o \in old[s]) \/ s \in troubled \cup overlapping
            PROVE  (step'[s] = "delete" /\ o \in old'[s]) \/ s \in troubled' \cup overlapping'
        BY <2>1, <2>3, <4>1, <4>4
      <4> QED BY <4>1, <4>2, <4>3, <4>4 DEF Excused
    <3> QED BY <3>2, <3>3 DEF LeftInductive, Accounted
  <2> QED BY <1>6, <2>2, <2>3 DEF DeleteOld
<1>7. ASSUME NEW r \in Uploads, Disconnect(r) PROVE LeftInductive'
  BY <1>7, QuietLeft DEF Disconnect
<1>8. ASSUME Crash PROVE LeftInductive'
  BY <1>8, QuietLeft DEF Crash, Running
<1>9. CASE UNCHANGED vars
  BY <1>9, QuietLeft DEF vars
<1> QED BY <1>1, <1>3, <1>4, <1>5, <1>6, <1>7, <1>8, <1>9 DEF Next, Handle

LEMMA LeftoversFollow == LeftInductive => LeftoversExplained
<1> SUFFICES ASSUME LeftInductive, NEW o \in objects
             PROVE  \/ InFlight(o) \/ o \in troubled
                    \/ Owner[o] \in DOMAIN avatars /\ avatars[Owner[o]] = o
                    \/ \E r \in Uploads : /\ Owner[r] = Owner[o]
                                          /\ InFlight(r) \/ r \in troubled \cup overlapping
  BY DEF LeftoversExplained
<1>1. Excused(o)
  BY DEF LeftInductive, Accounted
<1> QED BY <1>1 DEF Excused, LinkOf, InFlight, Running

\* Objects pile up in the bucket only when uploads of one user overlap or fail.
THEOREM LeftoversHaveACause == Spec => []LeftoversExplained
<1>1. Init => Inductive /\ LeftInductive
  BY InitInductive, InitLeft
<1>2. Inductive /\ LeftInductive /\ [Next]_vars => (Inductive /\ LeftInductive)'
  BY NextInductive, NextLeft
<1> QED BY <1>1, <1>2, LeftoversFollow, PTL DEF Spec

\* The rest of the types: what is noted of an upload and what it is answered.
Marks ==
  /\ cancelled \subseteq Uploads /\ troubled \subseteq Uploads /\ overlapping \subseteq Uploads
  /\ response \in [Uploads -> {0, 200, 400, 401, 500}]

LEMMA NextMarks == Marks /\ [Next]_vars => Marks'
<1> SUFFICES ASSUME Marks, [Next]_vars PROVE Marks'
  OBVIOUS
<1> USE DEF Marks
<1>1. ASSUME NEW r \in Uploads, Receive(r) PROVE Marks'
  BY <1>1 DEF Receive, Goto, Respond
<1>2. ASSUME NEW r \in Uploads, GetLink(r) \/ UploadObject(r) PROVE Marks'
  BY <1>2 DEF GetLink, UploadObject, Goto, Respond, Abandon
<1>3. ASSUME NEW r \in Uploads, UpsertLink(r) \/ DeleteOld(r) \/ Disconnect(r) PROVE Marks'
  BY <1>3 DEF UpsertLink, DeleteOld, Disconnect, Goto, Respond, Abandon
<1>4. CASE Crash \/ UNCHANGED vars
  BY <1>4 DEF Crash, vars
<1> QED BY <1>1, <1>2, <1>3, <1>4 DEF Next, Handle

(***************************************************************************)
(* Links: signed ones, and the names in public ones.                       *)
(***************************************************************************)
\* Signer.Signed and Signer.Verify: a link that nobody has changed is accepted for
\* the whole time it was signed for, and for less than a second after that, since
\* both ends count in whole seconds.
THEOREM LinkLifetime ==
  ASSUME NEW key, NEW bucket, NEW object, NEW at \in Nat, NEW delay \in Nat
  PROVE  LET verdict == Verify(key, Signed(key, bucket, object, at), at + delay)
         IN  /\ delay <= receiptURLTTL => verdict = "valid"
             /\ delay >= receiptURLTTL + Second => verdict = "expired"
BY DEF Verify, Signed, Expired, Unix, receiptURLTTL, Second

\* A link signed with one secret is refused under another, whenever it is opened.
THEOREM SecretMatters ==
  ASSUME NEW key, NEW other, key # other, NEW bucket, NEW object, NEW at, NEW t
  PROVE  Verify(other, Signed(key, bucket, object, at), t) = "forged"
BY DEF Verify, Signed

\* The object names drawn by the handlers have one segment: ObjectName finds them
\* in every link Public built, whatever the address, which may itself hold the name
\* of the bucket, and Normalize moves the link to another address and changes
\* nothing else.
THEOREM LinkRoundTrip ==
  ASSUME NEW S, NEW address \in Seq(S), NEW next \in Seq(S), NEW bucket \in S,
         NEW name \in S, name # Empty
  PROVE  /\ ObjectName(Public(address, bucket, <<name>>), bucket) = <<name>>
         /\ Normalize(next, Public(address, bucket, <<name>>), bucket)
              = Public(next, bucket, <<name>>)
<1>1. PICK path : path = Public(address, bucket, <<name>>)
  OBVIOUS
<1>2. PICK n : n = Len(path)
  OBVIOUS
<1>3. /\ path \in Seq(S) /\ n \in Nat /\ n >= 2 /\ path[n] = name
      /\ n - 1 \in Markers(path, bucket)
      /\ \A i \in Markers(path, bucket) : i \in Int /\ i <= n - 1
  <2>1. path \in Seq(S) /\ n = Len(address) + 2 /\ Len(address) \in Nat
    BY <1>1, <1>2 DEF Public
  <2>2. path[Len(address) + 1] = bucket /\ path[Len(address) + 2] = name
    BY <1>1 DEF Public
  <2> QED BY <2>1, <2>2, <1>2 DEF Markers
<1>4. (CHOOSE i \in Markers(path, bucket) : \A j \in Markers(path, bucket) : j <= i) = n - 1
  <2>1. \A i \in Markers(path, bucket) :
          (\A j \in Markers(path, bucket) : j <= i) => i = n - 1
    BY <1>3
  <2>2. \E i \in Markers(path, bucket) : \A j \in Markers(path, bucket) : j <= i
    BY <1>3
  <2> QED BY <2>1, <2>2
<1>5. SubSeq(path, (n - 1) + 1, n) = <<name>>
  <2> DEFINE tail == SubSeq(path, n, n)
  <2>1. tail \in Seq(S) /\ Len(tail) = 1 /\ tail[1] = path[n]
    BY <1>2, <1>3, SubSeqProperties
  <2> HIDE DEF tail
  <2>2. tail = <<tail[1]>>
    BY <2>1
  <2>3. (n - 1) + 1 = n
    BY <1>3
  <2>4. SubSeq(path, (n - 1) + 1, n) = tail
    BY ONLY <2>3 DEF tail
  <2> QED BY <2>1, <2>2, <2>4, <1>3
<1>6. <<name>> # <<Empty>> /\ <<name>> # << >>
  OBVIOUS
<1>7. ObjectName(path, bucket) = <<name>>
  BY <1>2, <1>3, <1>4, <1>5, <1>6 DEF ObjectName
<1> QED BY <1>1, <1>7, <1>6 DEF Normalize

(***************************************************************************)
(* QR codes: what each upload knows of its own object and row.             *)
(***************************************************************************)
CodeOf(r) ==
  /\ qrStep[r] \in {"idle", "upload"} => r \notin codes /\ r \notin qrObjects
  /\ qrStep[r] = "insert" => r \notin codes /\ r \in qrObjects
  /\ qrStep[r] = "delete" => (r \in codes => r \in unknown)
  /\ qrStep[r] # "answered" => qrResponse[r] = 0
  /\ r \in unknown => qrStep[r] \in {"delete", "answered", "lost"} /\ qrResponse[r] \in {0, 500}
  /\ r \in codes /\ r \notin qrObjects => r \in unknown
  /\ r \in qrObjects /\ r \notin codes => qrStep[r] \in QR!Running \/ r \in qrTroubled

Codes ==
  /\ codes \subseteq QRUploads /\ qrObjects \subseteq QRUploads
  /\ qrStep \in [QRUploads -> {"idle", "answered", "lost"} \cup QR!Running]
  /\ qrResponse \in [QRUploads -> Int]
  /\ \A r \in QRUploads : CodeOf(r)

LEMMA InitCodes == QR!Init => Codes
BY DEF QR!Init, Codes, CodeOf, QR!Running

\* Uploads of QR codes share nothing: a step of one is a step of what it knows.
LEMMA CodeStep ==
  ASSUME Codes, NEW r \in QRUploads, CodeOf(r)',
         NEW label \in {"answered"} \cup QR!Running, NEW status \in Int,
         qrStep' = [qrStep EXCEPT ![r] = label],
         qrResponse' = qrResponse \/ qrResponse' = [qrResponse EXCEPT ![r] = status],
         codes' \subseteq codes \cup {r}, codes \subseteq codes',
         qrObjects' \subseteq qrObjects \cup {r}, qrObjects \ {r} \subseteq qrObjects',
         qrTroubled \subseteq qrTroubled',
         unknown \subseteq unknown', unknown' \subseteq unknown \cup {r}
  PROVE  Codes'
<1>1. \A s \in QRUploads \ {r} : qrStep'[s] = qrStep[s] /\ qrResponse'[s] = qrResponse[s]
  BY DEF Codes
<1>2. ASSUME NEW s \in QRUploads \ {r} PROVE CodeOf(s)'
  BY <1>1 DEF Codes, CodeOf
<1>3. /\ codes' \subseteq QRUploads /\ qrObjects' \subseteq QRUploads
      /\ qrStep' \in [QRUploads -> {"idle", "answered", "lost"} \cup QR!Running]
      /\ qrResponse' \in [QRUploads -> Int]
  BY DEF Codes
<1> QED BY <1>2, <1>3 DEF Codes

LEMMA CodeAnswer ==
  ASSUME Codes, NEW r \in QRUploads, CodeOf(r)', NEW status \in Int,
         qrStep' = [qrStep EXCEPT ![r] = "answered"],
         qrResponse' = [qrResponse EXCEPT ![r] = status],
         codes' = codes \/ codes' = codes \cup {r},
         qrObjects' \subseteq qrObjects \cup {r}, qrObjects \ {r} \subseteq qrObjects',
         qrTroubled \subseteq qrTroubled', unknown' = unknown
  PROVE  Codes'
<1>1. codes \subseteq codes' /\ codes' \subseteq codes \cup {r}
  OBVIOUS
<1>2. unknown \subseteq unknown' /\ unknown' \subseteq unknown \cup {r}
  OBVIOUS
<1> QED BY <1>1, <1>2, CodeStep

LEMMA HandleCodes ==
  ASSUME Codes, NEW r \in QRUploads, QR!Handle(r)
  PROVE  Codes'
<1> DEFINE moved(label) == qrStep' = [qrStep EXCEPT ![r] = label] /\ qrResponse' = qrResponse
           ended(status) == /\ qrStep' = [qrStep EXCEPT ![r] = "answered"]
                            /\ qrResponse' = [qrResponse EXCEPT ![r] = status]
<1>0. CodeOf(r) /\ qrStep[r] \in {"idle", "answered", "lost"} \cup QR!Running
  BY DEF Codes
<1>1. CASE QR!Receive(r)
  <2>1. /\ qrStep[r] = "idle" /\ UNCHANGED <<codes, qrObjects, qrTroubled, unknown>>
        /\ moved("upload") \/ \E status \in {400, 401, 500} : ended(status)
    BY <1>1 DEF QR!Receive, QR!Goto, QR!Respond
  <2>2. CASE moved("upload")
    BY <1>0, <2>1, <2>2, CodeStep DEF CodeOf, Codes, QR!Running
  <2>3. ASSUME NEW status \in {400, 401, 500}, ended(status) PROVE Codes'
    <3>1. status \in Int /\ r \notin unknown /\ r \notin codes /\ r \notin qrObjects
      BY <1>0, <2>1 DEF CodeOf
    <3>2. qrStep'[r] = "answered" /\ CodeOf(r)'
      BY <2>1, <2>3, <3>1 DEF CodeOf, Codes, QR!Running
    <3>3. /\ codes' = codes /\ unknown' = unknown
          /\ qrStep' = [qrStep EXCEPT ![r] = "answered"]
          /\ qrResponse' = [qrResponse EXCEPT ![r] = status]
          /\ qrObjects' = qrObjects /\ qrTroubled' = qrTroubled
      BY <2>1, <2>3
    <3> HIDE DEF moved, ended
    <3> QED BY <3>1, <3>2, <3>3, CodeAnswer
  <2> QED BY <2>1, <2>2, <2>3
<1>2. CASE QR!UploadObject(r)
  <2>1. /\ qrStep[r] = "upload" /\ UNCHANGED <<codes, unknown>>
        /\ qrObjects \subseteq qrObjects' /\ qrObjects' \subseteq qrObjects \cup {r}
        /\ \/ moved("insert") /\ r \in qrObjects' /\ UNCHANGED qrTroubled
           \/ ended(500) /\ qrTroubled' = qrTroubled \cup {r}
    BY <1>2 DEF QR!UploadObject, QR!Goto, QR!Respond
  <2>2. CASE moved("insert")
    BY <1>0, <2>1, <2>2, CodeStep DEF CodeOf, Codes, QR!Running
  <2>3. CASE ended(500) /\ qrTroubled' = qrTroubled \cup {r}
    <3>1. qrStep'[r] = "answered" /\ CodeOf(r)'
      BY <1>0, <2>1, <2>3 DEF CodeOf, Codes, QR!Running
    <3>2. /\ 500 \in Int /\ codes' = codes /\ unknown' = unknown
          /\ qrStep' = [qrStep EXCEPT ![r] = "answered"]
          /\ qrResponse' = [qrResponse EXCEPT ![r] = 500]
          /\ qrObjects' \subseteq qrObjects \cup {r} /\ qrObjects \ {r} \subseteq qrObjects'
          /\ qrTroubled \subseteq qrTroubled'
      BY <2>1, <2>3
    <3> HIDE DEF moved, ended
    <3> QED BY <3>1, <3>2, CodeAnswer
  <2> QED BY <2>1, <2>2, <2>3
<1>3. CASE QR!CreateQRCode(r)
  <2>1. /\ qrStep[r] = "insert" /\ UNCHANGED <<qrObjects, qrTroubled>>
        /\ \/ codes' = codes \cup {r} /\ ended(201) /\ UNCHANGED unknown
           \/ codes' = codes \cup {r} /\ moved("delete") /\ unknown' = unknown \cup {r}
           \/ moved("delete") /\ UNCHANGED <<codes, unknown>>
    BY <1>3 DEF QR!CreateQRCode, QR!Goto, QR!Respond
  <2>3. CASE codes' = codes \cup {r} /\ ended(201) /\ UNCHANGED unknown
    <3>1. r \notin unknown
      BY <1>0, <2>1 DEF CodeOf
    <3>2. qrStep'[r] = "answered" /\ CodeOf(r)'
      BY <1>0, <2>1, <2>3, <3>1 DEF CodeOf, Codes, QR!Running
    <3>3. /\ 201 \in Int /\ codes' = codes \cup {r} /\ unknown' = unknown
          /\ qrStep' = [qrStep EXCEPT ![r] = "answered"]
          /\ qrResponse' = [qrResponse EXCEPT ![r] = 201]
          /\ qrObjects' = qrObjects /\ qrTroubled' = qrTroubled
      BY <2>1, <2>3
    <3> HIDE DEF moved, ended
    <3> QED BY <3>2, <3>3, CodeAnswer
  <2>4. CASE moved("delete")
    BY <1>0, <2>1, <2>4, CodeStep DEF CodeOf, Codes, QR!Running
  <2> QED BY <2>1, <2>3, <2>4
<1>4. CASE QR!DeleteObject(r)
  <2>1. /\ qrStep[r] = "delete" /\ UNCHANGED <<codes, unknown>> /\ ended(500)
        /\ \/ qrObjects' = qrObjects \ {r} /\ UNCHANGED qrTroubled
           \/ /\ qrObjects' \subseteq qrObjects /\ qrObjects \ {r} \subseteq qrObjects'
              /\ qrTroubled' = qrTroubled \cup {r}
    BY <1>4 DEF QR!DeleteObject, QR!Respond
  <2>2. qrStep'[r] = "answered" /\ qrResponse'[r] = 500 /\ (r \in codes => r \in unknown)
    BY <1>0, <2>1 DEF CodeOf, Codes
  <2>3. CodeOf(r)'
    BY <1>0, <2>1, <2>2 DEF CodeOf
  <2>4. /\ 500 \in Int /\ codes' = codes /\ unknown' = unknown
        /\ qrStep' = [qrStep EXCEPT ![r] = "answered"]
        /\ qrResponse' = [qrResponse EXCEPT ![r] = 500]
        /\ qrObjects' \subseteq qrObjects \cup {r} /\ qrObjects \ {r} \subseteq qrObjects'
        /\ qrTroubled \subseteq qrTroubled'
    BY <2>1
  <2> HIDE DEF moved, ended
  <2> QED BY <2>3, <2>4, CodeAnswer
<1>5. CASE QR!Disconnect(r)
  BY <1>5 DEF QR!Disconnect, Codes, CodeOf
<1> QED BY <1>1, <1>2, <1>3, <1>4, <1>5 DEF QR!Handle

LEMMA CrashCodes ==
  ASSUME Codes, QR!Crash
  PROVE  Codes'
<1>1. /\ UNCHANGED <<codes, qrObjects, unknown, qrResponse>> /\ qrTroubled \subseteq qrTroubled'
      /\ \A r \in QRUploads :
           IF qrStep[r] \in QR!Running THEN qrStep'[r] = "lost" /\ r \in qrTroubled'
           ELSE qrStep'[r] = qrStep[r]
      /\ qrStep' \in [QRUploads -> {"idle", "answered", "lost"} \cup QR!Running]
  BY DEF QR!Crash, Codes
<1>2. ASSUME NEW r \in QRUploads PROVE CodeOf(r)'
  <2>1. CodeOf(r) /\ qrStep[r] \in {"idle", "answered", "lost"} \cup QR!Running
    BY DEF Codes
  <2> QED BY <1>1, <2>1 DEF CodeOf, QR!Running
<1> QED BY <1>1, <1>2 DEF Codes

LEMMA CodesFollow == Codes => PictureLossExplained /\ OrphansExplained
BY DEF Codes, CodeOf, PictureLossExplained, QR!PictureLossExplained, OrphansExplained, QR!OrphansExplained

(***************************************************************************)
(* The composition.                                                        *)
(***************************************************************************)
\* What a client shown a receipt holds: a link signed when it was shown.
Shown ==
  view.kind = "receipt" =>
    /\ view.at \in Nat
    /\ view.link = Signed(view.secret, "receipts", <<"file">>, view.at)

\* What a client shown a picture holds: the link of a picture that was there, which
\* for an avatar is the one its upload stored and for a code has the address of the
\* process that showed it.
ShownAvatar ==
  view.kind = "avatar" =>
    /\ view.upload \in Uploads /\ step[view.upload] # "idle"
    /\ Owner[view.upload] \in DOMAIN avatars
    /\ view.path = Public(linkBase[view.upload], "avatars", <<view.upload>>)

ShownCode ==
  view.kind = "code" =>
    /\ view.upload \in codes
    /\ view.path = Public(view.from, "qr-codes", <<view.upload>>)

ShownPictures == base \in Bases /\ ShownAvatar /\ ShownCode

FilesInv == Inductive /\ LeftInductive /\ Codes /\ Shown /\ ShownPictures

LEMMA InitFiles == FilesInit => FilesInv
BY InitInductive, InitLeft, InitCodes
   DEF FilesInit, FilesInv, Shown, ShownPictures, ShownAvatar, ShownCode, Nothing

\* An upload that has begun has done so for good, and no user loses his row.
LEMMA AvatarsGrow ==
  ASSUME Types, [Next]_vars
  PROVE  /\ DOMAIN avatars \subseteq DOMAIN avatars'
         /\ \A r \in Uploads : step[r] # "idle" => step'[r] # "idle"
<1>1. ASSUME NEW r \in Uploads, Receive(r) \/ GetLink(r) \/ UploadObject(r) \/ DeleteOld(r)
      PROVE  avatars' = avatars /\ \A s \in Uploads : step[s] # "idle" => step'[s] # "idle"
  BY <1>1 DEF Receive, GetLink, UploadObject, DeleteOld, Abandon, Goto, Respond, Types
<1>2. ASSUME NEW r \in Uploads, UpsertLink(r)
      PROVE  /\ avatars' = avatars \/ Linked(r)
             /\ \A s \in Uploads : step[s] # "idle" => step'[s] # "idle"
  BY <1>2 DEF UpsertLink, Abandon, Goto, Respond, Types
<1>3. ASSUME NEW r \in Uploads, Linked(r) PROVE DOMAIN avatars \subseteq DOMAIN avatars'
  BY <1>3 DEF Linked
<1>4. CASE Crash
  BY <1>4 DEF Crash
<1>5. CASE UNCHANGED vars
  BY <1>5 DEF vars
<1> QED BY <1>1, <1>2, <1>3, <1>4, <1>5 DEF Next, Handle, Disconnect

LEMMA CodesGrow ==
  ASSUME \E r \in QRUploads : QR!Handle(r) \/ QR!Crash
  PROVE  codes \subseteq codes'
BY DEF QR!Handle, QR!Receive, QR!UploadObject, QR!CreateQRCode, QR!DeleteObject, QR!Disconnect,
       QR!Crash

\* ListQRCodes moves a stored link to the address of the process.
LEMMA ListedPathIs ==
  ASSUME NEW r \in QRUploads, NEW stored \in Bases, base \in Bases
  PROVE  ListedPath(Public(stored, "qr-codes", <<r>>)) = Public(base, "qr-codes", <<r>>)
<1> DEFINE S == STRING \cup {"qr-codes"}
<1>1. stored \in Seq(STRING) /\ base \in Seq(STRING) /\ r \in S /\ r # Empty
  BY PathsAssumption
<1>2. STRING \subseteq S /\ "qr-codes" \in S
  OBVIOUS
<1> HIDE DEF S
<1>3. stored \in Seq(S) /\ base \in Seq(S)
  BY <1>1, <1>2, SeqMonotonic
<1> QED BY <1>1, <1>2, <1>3, LinkRoundTrip DEF ListedPath

LEMMA NextPictures ==
  ASSUME FilesInv, [FilesNext]_filesVars
  PROVE  ShownPictures'
<1>i. Types /\ LinkDone /\ Codes /\ base \in Bases /\ ShownAvatar /\ ShownCode
  BY DEF FilesInv, Inductive, ShownPictures
<1>1. ASSUME [Next]_vars, codes \subseteq codes', view' = view, base' \in Bases,
             \A r \in Uploads : step[r] # "idle" => linkBase'[r] = linkBase[r]
      PROVE  ShownPictures'
  <2>1. /\ DOMAIN avatars \subseteq DOMAIN avatars'
        /\ \A r \in Uploads : step[r] # "idle" => step'[r] # "idle"
    BY <1>1, <1>i, AvatarsGrow
  <2> QED BY <1>1, <1>i, <2>1 DEF ShownPictures, ShownAvatar, ShownCode
<1>2. CASE UploadAvatar
  BY <1>1, <1>2, <1>i DEF UploadAvatar, Next, qrVars, config
<1>3. CASE UploadQRCode
  BY <1>1, <1>3, <1>i, CodesGrow DEF UploadQRCode, config
<1>4. CASE Restart
  <2>1. [Next]_vars /\ view' = view /\ base' \in Bases
    BY <1>4 DEF Restart, Next
  <2>2. codes \subseteq codes'
    BY <1>4, CodesGrow DEF Restart, qrVars
  <2>3. \A r \in Uploads : step[r] # "idle" => linkBase'[r] = linkBase[r]
    BY <1>4 DEF Restart
  <2> QED BY <1>1, <2>1, <2>2, <2>3
<1>5. CASE ShowAvatar
  <2>1. PICK u \in DOMAIN avatars :
          /\ avatars[u] # Foreign
          /\ view' = [kind |-> "avatar", upload |-> avatars[u], from |-> base,
                      path |-> Public(linkBase[avatars[u]], "avatars", <<avatars[u]>>)]
          /\ UNCHANGED <<vars, qrVars, config>>
    BY <1>5 DEF ShowAvatar, Show
  <2>2. /\ avatars[u] \in Uploads /\ step[avatars[u]] # "idle" /\ Owner[avatars[u]] = u
        /\ UNCHANGED <<avatars, step, linkBase, base>>
    BY <1>i, <2>1 DEF Types, LinkDone, Pending, vars, config
  <2> QED BY <1>i, <2>1, <2>2 DEF ShownPictures, ShownAvatar, ShownCode
<1>6. CASE ShowCode
  <2>1. PICK r \in codes, stored \in Bases :
          /\ view' = [kind |-> "code", upload |-> r, from |-> base,
                      path |-> ListedPath(Public(stored, "qr-codes", <<r>>))]
          /\ UNCHANGED <<vars, qrVars, config>>
    BY <1>6 DEF ShowCode, Show
  <2>2. ListedPath(Public(stored, "qr-codes", <<r>>)) = Public(base, "qr-codes", <<r>>)
    BY <1>i, ListedPathIs DEF Codes
  <2>3. view'.kind = "code" /\ view'.upload = r /\ view'.path = Public(base, "qr-codes", <<r>>)
        /\ view'.from = base /\ codes' = codes /\ base' = base
    BY <2>1, <2>2 DEF qrVars, config
  <2> QED BY <1>i, <2>3 DEF ShownPictures, ShownAvatar, ShownCode
<1>7. CASE ShowReceipt \/ OpenPicture \/ OpenReceipt
  <2>1. base' = base
    BY <1>7 DEF ShowReceipt, OpenPicture, OpenReceipt, Show, config
  <2>2. ShowReceipt => view'.kind = "receipt"
    BY DEF ShowReceipt, Show
  <2>3. OpenPicture => view'.kind = "opened"
    BY DEF OpenPicture
  <2>4. OpenReceipt => view'.kind = "opened"
    BY DEF OpenReceipt
  <2> QED BY <1>7, <1>i, <2>1, <2>2, <2>3, <2>4 DEF ShownPictures, ShownAvatar, ShownCode
<1>8. CASE UNCHANGED filesVars
  BY <1>1, <1>8, <1>i DEF filesVars, qrVars
<1> QED BY <1>2, <1>3, <1>4, <1>5, <1>6, <1>7, <1>8 DEF FilesNext

LEMMA NextFiles == FilesInv /\ [FilesNext]_filesVars => FilesInv'
<1> SUFFICES ASSUME FilesInv, [FilesNext]_filesVars PROVE FilesInv'
  OBVIOUS
<1>i. Inductive /\ LeftInductive /\ Codes /\ Shown /\ ShownPictures'
  BY NextPictures DEF FilesInv
<1>a. ASSUME [Next]_vars PROVE Inductive' /\ LeftInductive'
  BY <1>i, <1>a, NextInductive, NextLeft
<1>c. ASSUME UNCHANGED qrVars PROVE Codes'
  BY <1>i, <1>c DEF qrVars, Codes, CodeOf
<1>v. ASSUME UNCHANGED view PROVE Shown'
  BY <1>i, <1>v DEF Shown
<1>1. CASE UploadAvatar
  BY <1>1, <1>i, <1>a, <1>c, <1>v DEF UploadAvatar, Next, FilesInv
<1>2. CASE UploadQRCode
  <2>1. Codes'
    BY <1>2, <1>i, HandleCodes DEF UploadQRCode
  <2> QED BY <1>2, <1>i, <1>a, <1>v, <2>1 DEF UploadQRCode, FilesInv
<1>3. CASE Restart
  <2>1. [Next]_vars /\ UNCHANGED view
    BY <1>3 DEF Restart, Next
  <2>2. Codes'
    BY <1>3, <1>i, <1>c, CrashCodes DEF Restart
  <2> QED BY <1>i, <1>a, <1>v, <2>1, <2>2 DEF FilesInv
<1>4. CASE ShowAvatar \/ ShowCode \/ ShowReceipt \/ OpenPicture \/ OpenReceipt
  <2>1. UNCHANGED vars /\ UNCHANGED qrVars
    BY <1>4 DEF ShowAvatar, ShowCode, ShowReceipt, OpenPicture, OpenReceipt, Show
  <2>2. CASE ShowReceipt
    <3>1. PICK t \in ShowTimes :
            view' = [kind |-> "receipt", at |-> t, secret |-> secret, from |-> base,
                     link |-> Signed(secret, "receipts", <<"file">>, t)]
      BY <2>2 DEF ShowReceipt, Show
    <3>2. Shown'
      BY <3>1, TimesAssumption DEF Shown
    <3> QED BY <1>i, <1>a, <1>c, <2>1, <3>2 DEF FilesInv
  <2>3. CASE ShowAvatar \/ ShowCode \/ OpenPicture \/ OpenReceipt
    <3>1. view'.kind \in {"avatar", "code", "opened"}
      <4>1. ShowAvatar => view'.kind = "avatar"
        BY DEF ShowAvatar, Show
      <4>2. ShowCode => view'.kind = "code"
        BY DEF ShowCode, Show
      <4>3. OpenPicture => view'.kind = "opened"
        BY DEF OpenPicture
      <4>4. OpenReceipt => view'.kind = "opened"
        BY DEF OpenReceipt
      <4> QED BY <2>3, <4>1, <4>2, <4>3, <4>4
    <3> QED BY <1>i, <1>a, <1>c, <2>1, <3>1 DEF FilesInv, Shown
  <2> QED BY <1>4, <2>2, <2>3
<1>5. CASE UNCHANGED filesVars
  BY <1>5, <1>i, <1>a, <1>c, <1>v DEF filesVars, FilesInv
<1> QED BY <1>1, <1>2, <1>3, <1>4, <1>5 DEF FilesNext

\* Beside readers, restarts and new configurations the avatars keep what their
\* uploads promise alone.
THEOREM AvatarsKept == FilesSpec => [](LinkedAvatarExists /\ LeftoversExplained)
<1>1. FilesInv => LinkedAvatarExists /\ LeftoversExplained
  BY LeftoversFollow DEF FilesInv, Inductive, LinkDone, LinkedAvatarExists
<1> QED BY <1>1, InitFiles, NextFiles, PTL DEF FilesSpec

\* A QR code loses its picture only to the cleanup after an INSERT that took effect
\* and was reported as an error.
THEOREM PictureLossHasACause == FilesSpec => []PictureLossExplained
<1>1. FilesInv => PictureLossExplained
  BY CodesFollow DEF FilesInv
<1> QED BY <1>1, InitFiles, NextFiles, PTL DEF FilesSpec

\* A picture without a code belongs to an upload that runs, was cut short or met an
\* error of the bucket.
THEOREM OrphansHaveACause == FilesSpec => []OrphansExplained
<1>1. FilesInv => OrphansExplained
  BY CodesFollow DEF FilesInv
<1> QED BY <1>1, InitFiles, NextFiles, PTL DEF FilesSpec

\* The same of the QR codes.
CodeMarks ==
  /\ qrCancelled \subseteq QRUploads /\ qrTroubled \subseteq QRUploads /\ unknown \subseteq QRUploads
  /\ qrResponse \in [QRUploads -> {0, 201, 400, 401, 500}]

LEMMA NextCodeMarks ==
  ASSUME CodeMarks,
         (\E r \in QRUploads : QR!Handle(r)) \/ QR!Crash \/ UNCHANGED qrVars
  PROVE  CodeMarks'
<1> USE DEF CodeMarks
<1>1. ASSUME NEW r \in QRUploads, QR!Receive(r) \/ QR!UploadObject(r) PROVE CodeMarks'
  BY <1>1 DEF QR!Receive, QR!UploadObject, QR!Goto, QR!Respond
<1>2. ASSUME NEW r \in QRUploads, QR!CreateQRCode(r) \/ QR!DeleteObject(r) PROVE CodeMarks'
  BY <1>2 DEF QR!CreateQRCode, QR!DeleteObject, QR!Goto, QR!Respond
<1>3. ASSUME NEW r \in QRUploads, QR!Disconnect(r) PROVE CodeMarks'
  BY <1>3 DEF QR!Disconnect
<1>4. CASE QR!Crash \/ UNCHANGED qrVars
  BY <1>4 DEF QR!Crash, qrVars
<1> QED BY <1>1, <1>2, <1>3, <1>4 DEF QR!Handle

\* Rows, objects and uploads of both kinds stay what their types say, side by side.
THEOREM FilesTypeCorrect == FilesSpec => [](TypeOK /\ QR!TypeOK)
<1>1. FilesInit => Marks /\ CodeMarks
  BY DEF FilesInit, Init, QR!Init, Marks, CodeMarks
<1>2. Marks /\ CodeMarks /\ [FilesNext]_filesVars => Marks' /\ CodeMarks'
  <2> SUFFICES ASSUME Marks, CodeMarks, [FilesNext]_filesVars PROVE Marks' /\ CodeMarks'
    OBVIOUS
  <2>1. [Next]_vars
    BY DEF FilesNext, filesVars, UploadAvatar, UploadQRCode, Restart, ShowAvatar, ShowCode,
           ShowReceipt, OpenPicture, OpenReceipt, Show, Next
  <2>2. (\E r \in QRUploads : QR!Handle(r)) \/ QR!Crash \/ UNCHANGED qrVars
    BY DEF FilesNext, filesVars, UploadAvatar, UploadQRCode, Restart, ShowAvatar, ShowCode,
           ShowReceipt, OpenPicture, OpenReceipt, Show
  <2> QED BY <2>1, <2>2, NextMarks, NextCodeMarks
<1>3. FilesInv /\ Marks => TypeOK
  BY DEF FilesInv, Inductive, Types, LeftInductive, Accounted, Marks, TypeOK
<1>4. FilesInv /\ CodeMarks => QR!TypeOK
  BY DEF FilesInv, Codes, CodeMarks, QR!TypeOK
<1> QED BY <1>1, <1>2, <1>3, <1>4, InitFiles, NextFiles, PTL DEF FilesSpec

\* The link of a receipt opens for its 15 minutes and not a second more.
THEOREM ReceiptLinksLive == FilesSpec => SignedLinkLifetime
<1> DEFINE lives ==
      view.kind = "receipt" /\ view'.kind = "opened" =>
        /\ view'.answer = 200 => view.secret = secret /\ view'.delay < receiptURLTTL + Second
        /\ view'.answer = 403 => view.secret # secret \/ view'.delay > receiptURLTTL
        /\ view'.answer # 404
<1>1. FilesInv /\ [FilesNext]_filesVars => [lives]_filesVars
  <2> SUFFICES ASSUME FilesInv, FilesNext, view.kind = "receipt", view'.kind = "opened"
               PROVE  /\ view'.answer = 200 => view.secret = secret /\ view'.delay < receiptURLTTL + Second
                      /\ view'.answer = 403 => view.secret # secret \/ view'.delay > receiptURLTTL
                      /\ view'.answer # 404
    OBVIOUS
  <2>1. OpenReceipt
    BY DEF FilesNext, UploadAvatar, UploadQRCode, Restart, ShowAvatar, ShowCode, ShowReceipt,
           OpenPicture, Show
  <2>2. PICK d \in Delays :
          \E c \in IF view.from # base THEN {Nowhere}
                   ELSE Serve("receipts", TRUE, Verify(secret, view.link, view.at + d), TRUE) :
            view' = [kind |-> "opened", answer |-> c, delay |-> d]
    BY <2>1 DEF OpenReceipt
  <2>3. view.at \in Nat /\ d \in Nat /\ view.link = Signed(view.secret, "receipts", <<"file">>, view.at)
    BY TimesAssumption DEF FilesInv, Shown
  <2> DEFINE verdict == Verify(secret, view.link, view.at + d)
  <2>4. PICK a \in IF view.from # base THEN {Nowhere} ELSE Serve("receipts", TRUE, verdict, TRUE) :
          view' = [kind |-> "opened", answer |-> a, delay |-> d]
    BY <2>2
  <2>5. /\ secret # view.secret => verdict = "forged"
        /\ secret = view.secret /\ d <= receiptURLTTL => verdict = "valid"
        /\ secret = view.secret /\ d >= receiptURLTTL + Second => verdict = "expired"
    BY <2>3, SecretMatters, LinkLifetime
  <2>6. /\ verdict # "valid" => a \in {-1, 403}
        /\ verdict = "valid" => a \in {-1, 200, 500}
    <3> HIDE DEF verdict
    <3> QED BY <2>4 DEF Serve, PublicBuckets, SignedBuckets, Nowhere
  <2>7. /\ a = 200 => verdict = "valid"
        /\ a = 403 => verdict # "valid"
        /\ a # 404
    BY ONLY <2>6
  <2> HIDE DEF verdict
  <2>8. a = 200 => view.secret = secret /\ d < receiptURLTTL + Second
    BY <2>3, <2>5, <2>7 DEF receiptURLTTL, Second
  <2>9. a = 403 => view.secret # secret \/ d > receiptURLTTL
    BY <2>3, <2>5, <2>7 DEF receiptURLTTL, Second
  <2> QED BY <2>4, <2>7, <2>8, <2>9
<1> QED BY <1>1, InitFiles, NextFiles, PTL DEF FilesSpec, SignedLinkLifetime

\* A picture that was shown opens, unless it was replaced since, was cleaned up as
\* orphaned, has a name FileService refuses or is asked for at an old address.
THEOREM PicturesOpen == FilesSpec => ShownPictureOpens
<1> DEFINE r == view.upload
           opens ==
             view.kind \in {"avatar", "code"} /\ view'.kind = "opened" =>
               /\ view'.answer = 404 =>
                    \/ r \in Odd
                    \/ view.kind = "avatar" /\ avatars[Owner[r]] # r
                    \/ view.kind = "code" /\ r \in unknown
               /\ view'.answer = Nowhere =>
                    view.from # base \/ (view.kind = "avatar" /\ linkBase[r] # base)
               /\ view'.answer # 403
<1>1. FilesInv /\ [FilesNext]_filesVars => [opens]_filesVars
  <2> SUFFICES ASSUME FilesInv, FilesNext, view.kind \in {"avatar", "code"}, view'.kind = "opened"
               PROVE  opens
    OBVIOUS
  <2>1. OpenPicture
    BY DEF FilesNext, UploadAvatar, UploadQRCode, Restart, ShowAvatar, ShowCode, ShowReceipt,
           OpenReceipt, Show
  <2> DEFINE bucket == IF view.kind = "avatar" THEN "avatars" ELSE "qr-codes"
             here == view.path = Public(base, bucket, <<r>>)
  <2>2. PICK a : /\ view' = [kind |-> "opened", answer |-> a]
                 /\ ~here => a = Nowhere
                 /\ here => a \in Serve(bucket, r \notin Odd, "unsigned", HasObject(bucket, r))
    BY <2>1 DEF OpenPicture
  <2>3. view'.answer = a
    BY <2>2
  <2>4. here => /\ a \in {200, 404, 500}
                /\ a = 404 => r \in Odd \/ ~HasObject(bucket, r)
    BY <2>2 DEF Serve, PublicBuckets, SignedBuckets
  <2>5. CASE view.kind = "avatar"
    <3>1. /\ r \in Uploads /\ Owner[r] \in DOMAIN avatars
          /\ view.path = Public(linkBase[r], "avatars", <<r>>)
      BY <2>5 DEF FilesInv, ShownPictures, ShownAvatar
    <3>2. avatars[Owner[r]] = r => r \in objects
      BY <3>1, ForeignAssumption DEF FilesInv, Inductive, LinkDone
    <3>3. linkBase[r] = base => here
      BY <2>5, <3>1
    <3> QED BY <2>2, <2>3, <2>4, <2>5, <3>2, <3>3 DEF HasObject, Nowhere
  <2>6. CASE view.kind = "code"
    <3>1. r \in codes /\ view.path = Public(view.from, "qr-codes", <<r>>)
      BY <2>6 DEF FilesInv, ShownPictures, ShownCode
    <3>2. r \in qrObjects \/ r \in unknown
      BY <3>1 DEF FilesInv, Codes, CodeOf
    <3>3. view.from = base => here
      BY <2>6, <3>1
    <3> QED BY <2>2, <2>3, <2>4, <2>6, <3>2, <3>3 DEF HasObject, Nowhere
  <2> QED BY <2>5, <2>6
<1> QED BY <1>1, InitFiles, NextFiles, PTL DEF FilesSpec, ShownPictureOpens
=============================================================================
