\* Two columns of two fields, two works under a heading each, two styles, and a
\* field that is no longer configured.
SPECIFICATION FairSpec
CONSTANTS
  about = about
  memberships = memberships
  cv = cv
  groups = groups
  blog = blog
  book = book
  thesis = thesis
  w1 = w1
  w2 = w2
  tab1 = tab1
  tab2 = tab2
  Fields <- FieldsOf
  Retired = {blog}
  Headings <- InOrder
  Works = {w1, w2}
  TypeOf <- HeadingOf
  Styles = {mla, apa}
  Pages = {tab1, tab2}
  Requests = {1, 2}
  MaxHandlers = 2
  TTL = 2
  MaxRender = 1
  Environments <- Mixed
  None = None
INVARIANTS TypeOK UncontestedChangesPersist PageAgreesWithRow VisitorsSeeRecent
PROPERTY ChangesReachVisitors
