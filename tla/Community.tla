----------------------------- MODULE Community -----------------------------
(***************************************************************************)
(* What users share: the board, the files it shows, and nicknames.  The    *)
(* three share no state beyond ids, so a behaviour is about one of them;   *)
(* the posts of Attachments are those of Board, seen by their image.       *)
(***************************************************************************)
EXTENDS Requests

CONSTANTS Writers, PostIds, CommentIds, Slips, Files, Pages, Faces,
          Owners, Names, Reports

ASSUME CommunityAssumption == /\ PostIds \cap CommentIds = {}
                              /\ "no slip" \notin Slips
                              /\ {"no file", "no post"} \cap Files = {}
                              /\ "none" \notin Names

VARIABLES post, comment, liked, reported, answered,
          disk, image, avatar, given, shared,
          nick, table, memory, report, cleared

B == INSTANCE Board
A == INSTANCE Attachments
W == INSTANCE Words

boardVars == <<post, comment, liked, reported, answered>>
attachmentsVars == <<disk, image, avatar, given, shared>>
wordsVars == <<nick, table, memory, report, cleared>>
vars == <<requestVars, boardVars, attachmentsVars, wordsVars>>

Init == RequestsInit /\ B!BoardInit /\ A!AttachmentsInit /\ W!WordsInit

Next == \/ B!BoardNext /\ UNCHANGED <<attachmentsVars, wordsVars>>
        \/ A!AttachmentsNext /\ UNCHANGED <<boardVars, wordsVars>>
        \/ W!WordsNext /\ UNCHANGED <<boardVars, attachmentsVars>>

Spec == Init /\ [][Next]_vars

\* Type correctness of the three parts.
TypeOK == B!BoardTypeOK /\ A!AttachmentsTypeOK /\ W!WordsTypeOK

\* A slip counts once, and nothing is said about what is gone (see Board).
CountedOnce == B!CountedOnce

\* A file shown at one place stays on the disk (see Attachments).
ShownImageStays == A!ShownImageStays

\* Nicknames have one holder, blocked ones none (see Words).
NamesInOrder == W!NamesInOrder
=============================================================================
