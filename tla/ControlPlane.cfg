SPECIFICATION Spec
CONSTANTS
  t1 = t1
  t2 = t2
  c1 = c1
  c2 = c2
  ann = ann
  bob = bob
  i1 = i1
  i2 = i2
  NoRow = NoRow
  TenantIds = {t1, t2}
  Slugs = {"demo-a", "corp"}
  DemoSlugs = {"demo-a"}
  Emails = {ann, bob}
  Roles = {"owner", "member"}
  InviteIds = {i1, i2}
  Clients = {c1, c2}
  TokenIds = {"k"}
  FlowNames = {"w"}
  MaxVersions = 3
  MaxOrders = 1
  Limits = {0, 1, 2}
  TooLow = 0
  Default = 1
  GrantIds = {"g"}
  MaxAudit = 2
INVARIANTS
  RowsAreSound
  OrdersPinTheCurrent
PROPERTIES
  InviteSettlesOnce
  EveryChangeHasReceipt
SYMMETRY Symmetry
CHECK_DEADLOCK FALSE
