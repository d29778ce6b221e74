---------------------------- MODULE Attachments ----------------------------
(***************************************************************************)
(* The files of the attachments directory: uploads, the posts and avatars  *)
(* that show them, and the post deletion that removes a file.              *)
(*                                                                         *)
(* The server takes any string for the image of a post or an avatar; what  *)
(* counts is the file name it ends in.  The further attachments of a post  *)
(* are left out: nothing removes their files.  So are calls the database   *)
(* refuses.                                                                *)
(***************************************************************************)
EXTENDS Requests

CONSTANTS
  Files,      \* names of files
  Pages,      \* ids of posts
  Faces       \* users with an avatar

VARIABLES
  disk,       \* the files in the attachments directory
  image,      \* imageUrl of a post, NoFile or NoPage
  avatar,     \* avatarUrl of a user, or NoFile
  given,      \* history: files some request has named for a post or an avatar
  shared      \* history: those named once more, or when they were not on the disk

attachmentsVars == <<disk, image, avatar, given, shared>>

NoFile == "no file"
NoPage == "no post"

AttachmentsInit == /\ disk = {}
                   /\ image = [p \in Pages |-> NoPage]
                   /\ avatar = [u \in Faces |-> NoFile]
                   /\ given = {} /\ shared = {}

\* Multer makes a name up that nobody has used.
Upload(s) ==
  /\ Arrives(s)
  /\ \E f \in Files \ (disk \cup given) : disk' = disk \cup {f}
  /\ UNCHANGED <<task, image, avatar, given, shared>>

\* A request names a file, which the server does not look at, or none.
Mentions(f) == /\ given' = given \cup ({f} \cap Files)
               /\ shared' = shared \cup ({f} \cap (given \cup (Files \ disk)))

CreatePost(s) ==
  /\ Arrives(s)
  /\ Cardinality({p \in Pages : image[p] = NoPage})
       > Cardinality({x \in Slots : task[x].op = "post"})
  /\ \E f \in Files \cup {NoFile} : Mentions(f) /\ Then(s, [op |-> "post", file |-> f])
  /\ UNCHANGED <<disk, image, avatar>>

\* The id is new: no handler in flight is about it.
InsertsPost(s) ==
  /\ At(s, "post")
  /\ \E p \in Pages :
       /\ image[p] = NoPage
       /\ \A x \in Slots : task[x].op \in {"edit", "unlink", "delete"} => task[x].page # p
       /\ image' = [image EXCEPT ![p] = task[s].file]
  /\ Ends(s)
  /\ UNCHANGED <<disk, avatar, given, shared>>

\* updatePost shows another file, none, or, when it is told nothing else, the one
\* it has read; it leaves the file it takes out of a post on the disk.
UpdatePost(s) ==
  /\ Arrives(s)
  /\ \E p \in Pages, f \in Files \cup {NoFile} :
       /\ image[p] # NoPage
       /\ IF f = image[p] THEN UNCHANGED <<given, shared>> ELSE Mentions(f)
       /\ Then(s, [op |-> "edit", page |-> p, file |-> f])
  /\ UNCHANGED <<disk, image, avatar>>

Updated(s) == IF image[task[s].page] = NoPage THEN image
              ELSE [image EXCEPT ![task[s].page] = task[s].file]

UpdatesPost_Unlinks(s) ==
  /\ At(s, "edit")
  /\ image' = Updated(s)
  /\ disk' = disk \ {f \in Files : f = image[task[s].page] /\ f # task[s].file}
  /\ Ends(s)
  /\ UNCHANGED <<avatar, given, shared>>

UpdatesPost(s) ==
  /\ At(s, "edit")
  /\ image' = Updated(s)
  /\ Ends(s)
  /\ UNCHANGED <<disk, avatar, given, shared>>

\* deletePost removes the file of the image it has read, if it can, then the row.
DeletePost(s) ==
  /\ Arrives(s)
  /\ \E p \in Pages :
       /\ image[p] # NoPage
       /\ Then(s, [op |-> "unlink", page |-> p, file |-> image[p]])
  /\ UNCHANGED attachmentsVars

UnlinksImage(s) ==
  /\ At(s, "unlink")
  /\ \E gone \in {{}, {task[s].file}} : disk' = disk \ gone
  /\ Then(s, [op |-> "delete", page |-> task[s].page])
  /\ UNCHANGED <<image, avatar, given, shared>>

DeletesPost(s) ==
  /\ At(s, "delete")
  /\ image' = [image EXCEPT ![task[s].page] = NoPage]
  /\ Ends(s)
  /\ UNCHANGED <<disk, avatar, given, shared>>

\* A manager's deletion leaves the file.
DeletePostAdmin(s) ==
  /\ Arrives(s)
  /\ \E p \in Pages : image[p] # NoPage /\ image' = [image EXCEPT ![p] = NoPage]
  /\ UNCHANGED <<task, disk, avatar, given, shared>>

UpdateAvatar(s) ==
  /\ Arrives(s)
  /\ \E u \in Faces, f \in Files \cup {NoFile} :
       Mentions(f) /\ Then(s, [op |-> "face", user |-> u, file |-> f])
  /\ UNCHANGED <<disk, image, avatar>>

WritesAvatar(s) ==
  /\ At(s, "face")
  /\ avatar' = [avatar EXCEPT ![task[s].user] = task[s].file]
  /\ Ends(s)
  /\ UNCHANGED <<disk, image, given, shared>>

\* cleanupOrphanedLocalImages climbs one directory too far: it opens /attachments
\* while uploads lie in /app/attachments, finds no such directory and returns. What
\* it would do further down never happens.
Swept == {}

CleanUp ==
  /\ disk' = disk \ Swept
  /\ Outside /\ UNCHANGED <<image, avatar, given, shared>>

----------------------------------------------------------------------------
AttachmentsStep(s) ==
  \/ Upload(s) \/ CreatePost(s) \/ InsertsPost(s) \/ UpdatePost(s) \/ UpdatesPost(s)
  \/ DeletePost(s) \/ UnlinksImage(s) \/ DeletesPost(s) \/ DeletePostAdmin(s)
  \/ UpdateAvatar(s) \/ WritesAvatar(s)

AttachmentsNext ==
  /\ part = "attachments"
  /\ (\E s \in Slots : AttachmentsStep(s)) \/ CleanUp

----------------------------------------------------------------------------
\* Files, posts and avatars have their types.
AttachmentsTypeOK ==
  /\ disk \subseteq Files
  /\ image \in [Pages -> Files \cup {NoFile, NoPage}]
  /\ avatar \in [Faces -> Files \cup {NoFile}]
  /\ shared \subseteq given /\ given \subseteq Files

\* An uploaded file that one request has named, for a post or an avatar, and no
\* other, stays on the disk while it is shown there, however edits, deletions and
\* new avatars overlap: an edit may write back the image it has read after another
\* replaced it, and a deletion removes the image it has read though another shows
\* by then. Only the post's own deletion takes it, just before the row goes.
Missing == (Files \ shared) \ disk

ShownImageStays ==
  /\ \A u \in Faces : avatar[u] \notin Missing
  /\ \A p \in Pages :
       image[p] \in Missing => \E s \in Slots : task[s].op = "delete" /\ task[s].page = p
=============================================================================
