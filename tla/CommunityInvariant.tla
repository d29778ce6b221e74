------------------------- MODULE CommunityInvariant -------------------------
(***************************************************************************)
(* What holds between the awaits of the handlers of Community and makes    *)
(* its safety properties inductive: the part a behaviour is about keeps    *)
(* its invariant, the others stay as they are at the start.                *)
(***************************************************************************)
EXTENDS Community

\* The one slot of a calm behaviour.
Only == CHOOSE x \in Slots : TRUE

Alone == \A s \in Slots : task[s] # Nothing => s = Only

SlotsOK == part \in Parts /\ calm \in BOOLEAN /\ begun \in Nat /\ (calm => Alone)

-----------------------------------------------------------------------------
(* The board. *)

BoardTasks ==
  UNION {{Nothing},
         [op : {"post"}, user : Writers, slip : Slips \cup {B!NoSlip}],
         [op : {"delete"}, post : PostIds],
         [op : {"uncomment"}, comment : CommentIds],
         [op : {"like", "unlike", "report"}, pair : (PostIds \cup CommentIds) \X Writers]}

PostRows == [owner : Writers, slip : Slips \cup {B!NoSlip},
             isDeleted : BOOLEAN, isBlocked : BOOLEAN]

BoardTypes ==
  /\ task \in [Slots -> BoardTasks]
  /\ post \in [PostIds -> PostRows \cup {B!NoPost}]
  /\ comment \in [CommentIds -> [owner : Writers, post : PostIds] \cup {B!NoComment}]
  /\ B!IsABag(reported)

\* One post for a slip; every row about a row that is there.
BoardRefs ==
  /\ \A p, q \in PostIds :
       B!IsPost(p) /\ B!IsPost(q) /\ post[p].slip = post[q].slip /\ post[p].slip # B!NoSlip => p = q
  /\ \A c \in CommentIds : B!IsComment(c) => B!IsPost(comment[c].post)
  /\ \A l \in liked \cup DOMAIN reported \cup answered : B!Exists(l[1])

\* A report in flight is the first one, and so are those filed.
CalmReports ==
  calm => /\ \A r \in DOMAIN reported : r[1] \in PostIds => reported[r] = 1
          /\ task[Only].op = "report" /\ task[Only].pair[1] \in PostIds =>
               task[Only].pair \notin DOMAIN reported

BoardInv == IF part = "board" THEN BoardTypes /\ BoardRefs /\ CalmReports ELSE B!BoardInit

-----------------------------------------------------------------------------
(* Files. *)

NoneOr(S) == S \cup {A!NoFile}

FileTasks ==
  UNION {{Nothing},
         [op : {"post"}, file : NoneOr(Files)],
         [op : {"edit", "unlink"}, page : Pages, file : NoneOr(Files)],
         [op : {"delete"}, page : Pages],
         [op : {"face"}, user : Faces, file : NoneOr(Files)]}

FileTypes ==
  /\ task \in [Slots -> FileTasks]
  /\ disk \subseteq Files
  /\ image \in [Pages -> Files \cup {A!NoFile, A!NoPage}]
  /\ avatar \in [Faces -> NoneOr(Files)]
  /\ shared \subseteq given /\ given \subseteq Files

\* Who has a claim to a file: a post that shows it or a handler that has it in hand
\* for that post, a post in the making, an avatar or one in the making.
OfPage(f, p) == \/ image[p] = f
                \/ \E s \in Slots : /\ task[s].op \in {"edit", "unlink"}
                                    /\ task[s].page = p /\ task[s].file = f
InMaking(f, s) == task[s].op = "post" /\ task[s].file = f
OfFace(f) == \/ \E u \in Faces : avatar[u] = f
             \/ \E s \in Slots : task[s].op = "face" /\ task[s].file = f

Claimed(f) == (\E p \in Pages : OfPage(f, p)) \/ (\E s \in Slots : InMaking(f, s)) \/ OfFace(f)

\* A file that one request has named is for one post, for one in the making, or for
\* an avatar; one that nobody has named is for none.
Claims ==
  /\ \A f \in Files : Claimed(f) => f \in given
  /\ \A f \in Files \ shared :
       /\ \A p, q \in Pages : OfPage(f, p) /\ OfPage(f, q) => p = q
       /\ \A s, t \in Slots : InMaking(f, s) /\ InMaking(f, t) => s = t
       /\ \A p \in Pages, s \in Slots : ~(OfPage(f, p) /\ InMaking(f, s))
       /\ OfFace(f) => \A p \in Pages, s \in Slots : ~OfPage(f, p) /\ ~InMaking(f, s)

\* It leaves the disk with its post only, whose row is gone or about to go.
Going(p) == image[p] = A!NoPage \/ \E s \in Slots : task[s].op = "delete" /\ task[s].page = p

MissingOK ==
  \A f \in A!Missing \cap given :
    /\ ~OfFace(f)
    /\ \A s \in Slots : ~InMaking(f, s)
    /\ \A p \in Pages : OfPage(f, p) => Going(p)

FilesInv == IF part = "attachments"
              THEN FileTypes /\ Claims /\ MissingOK
              ELSE A!AttachmentsInit

-----------------------------------------------------------------------------
(* Nicknames and banned words. *)

WordTasks ==
  UNION {{Nothing},
         [op : {"name"}, user : Owners, name : Names, by : {"choice", "signup"}],
         [op : {"file"}, name : Names],
         [op : {"add", "learn", "remove", "unlearn", "settle", "strip", "others"},
          name : Names, report : Reports \cup {W!NoReport}],
         [op : {"reject"}, report : Reports]}

Nicknames == [name : Names, by : {"choice", "signup"}] \cup {W!NoName}

WordTypes ==
  /\ task \in [Slots -> WordTasks]
  /\ nick \in [Owners -> Nicknames]
  /\ table \subseteq Names /\ memory \subseteq Names /\ cleared \subseteq Names
  /\ report \in [Reports -> [name : Names \cup {"none"},
                             status : {"unfiled", "PENDING", "BLOCKED", "REJECTED"}]]
  /\ \A r \in Reports : report[r].status = "PENDING" => report[r].name \in Names

OneHolderEach == \A u, v \in Owners : nick[u].name = nick[v].name /\ nick[u].name \in Names => u = v

\* One request after the other: the memory is ahead of the table, or behind it, by
\* the word of the handler in flight, and what was blocked stays nobody's choice.
WordsAgree ==
  LET t == task[Only] IN
    /\ CASE t.op = "learn" -> table = memory \cup {t.name} /\ t.name \notin memory
         [] t.op = "unlearn" -> memory = table \cup {t.name} /\ t.name \notin table
         [] OTHER -> memory = table
    /\ cleared \subseteq table
    /\ t.op = "name" /\ t.by = "choice" => t.name \notin cleared
    /\ \A u \in Owners : nick[u].by = "choice" => nick[u].name \notin cleared

WordsInv == IF part = "words"
              THEN WordTypes /\ OneHolderEach /\ (calm => WordsAgree)
              ELSE W!WordsInit

IInv == SlotsOK /\ BoardInv /\ FilesInv /\ WordsInv
=============================================================================
