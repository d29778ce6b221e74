-------------------------------- MODULE Board --------------------------------
(***************************************************************************)
(* Posts of the board with their comments, likes and reports, as users and *)
(* managers change them, and the identifier of the lottery slip by which a *)
(* WINNING post is certified.  Files are in Attachments.tla.               *)
(*                                                                         *)
(* Most requests look for a row and then write: what they have read may be *)
(* gone by then.  Foreign keys refuse rows about what is gone, and take    *)
(* such rows with it (onDelete: Cascade).                                  *)
(***************************************************************************)
EXTENDS Requests, Bags

CONSTANTS
  Writers,      \* user ids
  PostIds,
  CommentIds,
  Slips         \* identifiers the OCR reads off lottery slips

VARIABLES
  post,         \* rows of post
  comment,      \* rows of post_comment
  liked,        \* post_like and comment_like: pairs of what is liked and by whom
  reported,     \* post_report and comment_report: a bag of such pairs
  answered      \* pairs of reported whose report a manager has resolved

boardVars == <<post, comment, liked, reported, answered>>

NoPost == [owner |-> "nobody"]
NoComment == [owner |-> "nobody"]
NoSlip == "no slip"

Post(u, x, d, b) == [owner |-> u, slip |-> x, isDeleted |-> d, isBlocked |-> b]

IsPost(p) == p \in PostIds /\ post[p] # NoPost
IsComment(c) == c \in CommentIds /\ comment[c] # NoComment
Exists(x) == IsPost(x) \/ IsComment(x)

BoardInit == /\ post = [p \in PostIds |-> NoPost]
             /\ comment = [c \in CommentIds |-> NoComment]
             /\ liked = {}
             /\ reported = EmptyBag
             /\ answered = {}

----------------------------------------------------------------------------
\* Posts.

Holds(x) == {p \in PostIds : IsPost(p) /\ post[p].slip = x}

\* analyzeLotto refuses a slip that a post holds, and a WINNING post is written
\* some time after it; the OCR may read no identifier at all.
AnalyzeLotto(s) ==
  /\ Arrives(s)
  /\ \E u \in Writers, x \in Slips :
       /\ Holds(x) = {}
       /\ Then(s, [op |-> "post", user |-> u, slip |-> x])
  /\ UNCHANGED boardVars

CreatePost(s) ==
  /\ Arrives(s)
  /\ \E u \in Writers : Then(s, [op |-> "post", user |-> u, slip |-> NoSlip])
  /\ UNCHANGED boardVars

\* The unique index on lottoIdentifier; it lets rows without one pass.
SlipFree(x) == x = NoSlip \/ Holds(x) = {}

InsertsPost(s) ==
  /\ At(s, "post")
  /\ \E p \in PostIds :
       /\ post[p] = NoPost
       /\ post' = IF SlipFree(task[s].slip)
                    THEN [post EXCEPT ![p] = Post(task[s].user, task[s].slip, FALSE, FALSE)]
                    ELSE post
  /\ Ends(s)
  /\ UNCHANGED <<comment, liked, reported, answered>>

\* What goes with the rows in gone.
Cascade(gone) ==
  /\ liked' = {l \in liked : l[1] \notin gone}
  /\ reported' = [r \in {q \in DOMAIN reported : q[1] \notin gone} |-> reported[r]]
  /\ answered' = {r \in answered : r[1] \notin gone}

CommentsOf(p) == {c \in CommentIds : IsComment(c) /\ comment[c].post = p}

PostGoes(p) ==
  LET gone == CommentsOf(p) IN
    /\ post' = [post EXCEPT ![p] = NoPost]
    /\ comment' = [c \in CommentIds |-> IF c \in gone THEN NoComment ELSE comment[c]]
    /\ Cascade({p} \cup gone)

\* A user deletes an own post; two deletions at once: the second one throws.
DeletePost(s) ==
  /\ Arrives(s)
  /\ \E p \in PostIds : IsPost(p) /\ Then(s, [op |-> "delete", post |-> p])
  /\ UNCHANGED boardVars

DeletesPost(s) ==
  /\ At(s, "delete")
  /\ IF IsPost(task[s].post) THEN PostGoes(task[s].post) ELSE UNCHANGED boardVars
  /\ Ends(s)

DeletePostAdmin(s) ==
  /\ Arrives(s)
  /\ \E p \in PostIds : IsPost(p) /\ PostGoes(p)
  /\ UNCHANGED task

UpdatePostStatus(s) ==
  /\ Arrives(s)
  /\ \E p \in PostIds, d \in BOOLEAN, b \in BOOLEAN :
       IsPost(p) /\ post' = [post EXCEPT ![p] = Post(@.owner, @.slip, d, b)]
  /\ UNCHANGED <<task, comment, liked, reported, answered>>

----------------------------------------------------------------------------
\* Comments.

CreateComment(s) ==
  /\ Arrives(s)
  /\ \E u \in Writers, p \in PostIds, c \in CommentIds :
       /\ IsPost(p)
       /\ comment[c] = NoComment
       /\ comment' = [comment EXCEPT ![c] = [owner |-> u, post |-> p]]
  /\ UNCHANGED <<task, post, liked, reported, answered>>

DeleteComment(s) ==
  /\ Arrives(s)
  /\ \E c \in CommentIds : IsComment(c) /\ Then(s, [op |-> "uncomment", comment |-> c])
  /\ UNCHANGED boardVars

DeletesComment(s) ==
  /\ At(s, "uncomment")
  /\ LET c == task[s].comment IN
       IF IsComment(c)
         THEN comment' = [comment EXCEPT ![c] = NoComment] /\ Cascade({c})
         ELSE UNCHANGED <<comment, liked, reported, answered>>
  /\ Ends(s)
  /\ UNCHANGED post

----------------------------------------------------------------------------
\* Likes: the answer to whether there is one decides what is written.

ToggleLike(s) ==
  /\ Arrives(s)
  /\ \E u \in Writers, x \in PostIds \cup CommentIds :
       Then(s, [op |-> IF <<x, u>> \in liked THEN "unlike" ELSE "like", pair |-> <<x, u>>])
  /\ UNCHANGED boardVars

\* The second of two likes breaks the primary key, one of what is gone the
\* foreign key; the second of two unlikes finds no row.
WritesLike(s) ==
  /\ \/ /\ At(s, "like")
        /\ liked' = IF Exists(task[s].pair[1]) THEN liked \cup {task[s].pair} ELSE liked
     \/ /\ At(s, "unlike")
        /\ liked' = liked \ {task[s].pair}
  /\ Ends(s)
  /\ UNCHANGED <<post, comment, reported, answered>>

----------------------------------------------------------------------------
\* Reports.  Only the one of a post asks whether there is one already.

MayReport_Again(r) == TRUE
MayReport(r) == ~BagIn(r, reported)

ReportPost(s) ==
  /\ Arrives(s)
  /\ \E u \in Writers, p \in PostIds :
       IsPost(p) /\ MayReport(<<p, u>>) /\ Then(s, [op |-> "report", pair |-> <<p, u>>])
  /\ UNCHANGED boardVars

ReportComment(s) ==
  /\ Arrives(s)
  /\ \E u \in Writers, c \in CommentIds :
       IsComment(c) /\ Then(s, [op |-> "report", pair |-> <<c, u>>])
  /\ UNCHANGED boardVars

WritesReport(s) ==
  /\ At(s, "report")
  /\ reported' = IF Exists(task[s].pair[1])
                   THEN reported (+) SetToBag({task[s].pair}) ELSE reported
  /\ Ends(s)
  /\ UNCHANGED <<post, comment, liked, answered>>

ResolveReport(s) ==
  /\ Arrives(s)
  /\ \E r \in BagToSet(reported) : r[1] \in PostIds /\ answered' = answered \cup {r}
  /\ UNCHANGED <<task, post, comment, liked, reported>>

----------------------------------------------------------------------------
BoardStep(s) ==
  \/ AnalyzeLotto(s) \/ CreatePost(s) \/ InsertsPost(s) \/ DeletePost(s)
  \/ DeletesPost(s) \/ DeletePostAdmin(s) \/ UpdatePostStatus(s)
  \/ CreateComment(s) \/ DeleteComment(s) \/ DeletesComment(s)
  \/ ToggleLike(s) \/ WritesLike(s)
  \/ ReportPost(s) \/ ReportComment(s) \/ WritesReport(s) \/ ResolveReport(s)

BoardNext == part = "board" /\ \E s \in Slots : BoardStep(s)

\* What a profile shows of a user's certified slips.
WinningPosts(u) == {p \in PostIds : /\ IsPost(p)
                                    /\ post[p].owner = u
                                    /\ post[p].slip # NoSlip
                                    /\ ~post[p].isDeleted /\ ~post[p].isBlocked}

----------------------------------------------------------------------------
\* Posts, comments, likes and reports have their types.
BoardTypeOK ==
  /\ \A p \in PostIds :
       \/ post[p] = NoPost
       \/ post[p] \in [owner : Writers, slip : Slips \cup {NoSlip},
                       isDeleted : BOOLEAN, isBlocked : BOOLEAN]
  /\ \A c \in CommentIds :
       comment[c] = NoComment \/ comment[c] \in [owner : Writers, post : PostIds]
  /\ IsABag(reported)

\* Whatever posts, comments and deletions overlap: a slip counts for one post
\* and one winner at most, nothing is said about what is gone, and, one request
\* after the other, a user's report of a post counts once.
CountedOnce ==
  /\ \A x \in Slips : \A p, q \in Holds(x) : p = q
  /\ \A c \in CommentIds : IsComment(c) => IsPost(comment[c].post)
  /\ \A l \in liked \cup BagToSet(reported) \cup answered : Exists(l[1])
  /\ calm => \A r \in BagToSet(reported) : r[1] \in PostIds => reported[r] = 1
=============================================================================
