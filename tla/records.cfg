SPECIFICATION RecordsSpec
CONSTANTS
  Capacity = 2
  Limit = 1
  UiCap = 2
  Request = {q1, q2}
  MaxLines = 3
  MaxBoots = 2
  Org = {o1, o2}
  User = {u1, u2}
  Founder = u1
  Ip = {i1, i2}
  Edit = {mine, yours}
  MaxRows = 2
  MaxErrors = 1
SYMMETRY Interchangeable
INVARIANTS EntriesAreNewest FeedFaithful EditsSurvive
PROPERTIES OrgSealed
