SPECIFICATION Spec
CONSTANTS
  Parts = {"board", "attachments", "words"}
  Slots = {s1, s2}
  MaxOps <- CalmOps
  MaxOverlaps <- OverlappingOps
  Writers = {u1, u2}
  PostIds = {p1, p2}
  CommentIds = {c1}
  Slips = {slip}
  Files = {f1, f2}
  Pages = {p1, p2}
  Faces = {u1}
  Owners = {u1, u2}
  Names = {n1, n2}
  Reports = {r1, r2}
CHECK_DEADLOCK FALSE
INVARIANTS CountedOnce ShownImageStays NamesInOrder
