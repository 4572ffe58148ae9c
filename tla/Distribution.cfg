SPECIFICATION Distributing
CONSTANTS
  r1 = r1 r2 = r2 r3 = r3 g = g s1 = s1 s2 = s2 main = main other = other
  f1 = f1 a = a b = b w1 = w1 w2 = w2 None = None
  chained = chained opened = opened elsewhere = elsewhere unreviewed = unreviewed
  undecided = undecided circular = circular dangling = dangling undeclared = undeclared
  Revision = {chained, opened, elsewhere, unreviewed, undecided, circular, dangling, undeclared}
  Resource = {r1, r2, r3}
  Group = {g}
  Spec = {s1, s2}
  ProfileName = {main, other}
  Follower = {f1}
  Session = {a, b}
  Publisher = {w1, w2}
  FollowerOf <- MCFollowerOf
  Input <- MCInput
  Earlier = {elsewhere}
  Selected = main
  Shared = {}
  Allowed <- MCAllowed
  MaxIndex = 1
  MaxPublish = 3
  MaxTrouble = 2
INVARIANTS ViewsAreExact SequencesIdentify ViewBlobsAreServed
PROPERTIES ServedIsAuthorized AppliedIsFresh EventuallyCurrent
