SPECIFICATION Spec
CONSTANTS
  order = order
  owner = owner
  stranger = stranger
  j1 = j1
  j2 = j2
  Nobody = Nobody
  Connections = {c1, c2}
  Jobs = {j1, j2}
  Orders = {order}
  OrderOf <- MCOrderOf
  Tenants = {owner, stranger}
  TenantOf <- MCTenantOf
  MaxAttempts = 2
  Cap = 1
INVARIANTS
  NothingLeftIsDone
