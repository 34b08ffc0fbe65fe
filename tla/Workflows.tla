------------------------------- MODULE Workflows ------------------------------
(***************************************************************************)
(* Workflows, their versions, and the submission that pins one:               *)
(* workflows/store.ts, the tokens of server/auth.ts, POST /api/orders of        *)
(* server/api.ts and the insert of queue/enqueue.ts, with the tables of         *)
(* sql/004 and sql/007.  What becomes of the order is JobQueue's.              *)
(***************************************************************************)
EXTENDS Tenancy

CONSTANTS
  TokenIds,
  FlowNames,
  MaxVersions,  \* bound: versions of one workflow
  MaxOrders     \* bound: orders there may be when another is asked for

VARIABLES
  token,      \* rows of `api_tokens`
  flow,       \* rows of `workflows`, with the numbers of their `workflow_versions`
  orders,     \* rows of `work_orders`: tenant and pinned version
  request     \* what a client's request has read: see Ask, LookUp, ReadVersion, Mint

flowVars == <<token, flow, orders, request>>

\* An id is random and used once, as a tenant's is, so it may as well name its tenant.
FlowIds == TenantIds \X FlowNames

FlowRow == [tenant : TenantIds, current : Nat, versions : SUBSET Nat,
            state : {"active", "archived"}]

ASSUME FlowsAssumption == NoRow \notin FlowRow

WorkflowsInit ==
  /\ token = [k \in TokenIds |-> NoRow]
  /\ flow = [w \in FlowIds |-> NoRow]
  /\ orders = {}
  /\ request = [c \in Clients |-> NoRow]

-----------------------------------------------------------------------------
\* Tokens.

NewToken(t) == [tenant |-> t, live |-> TRUE]

MintToken(k, t) ==
  /\ MayRun /\ Exists(t) /\ token[k] = NoRow
  /\ token' = [token EXCEPT ![k] = NewToken(t)]
  /\ UNCHANGED <<tenantVars, flow, orders, request>>

\* Revoked by its tenant, or past its time: the same to everyone.
TokenDies(k) ==
  /\ MayRun /\ token[k] # NoRow /\ token[k].live
  /\ token' = [token EXCEPT ![k].live = FALSE]
  /\ UNCHANGED <<tenantVars, flow, orders, request>>

Resolves(k) == token[k] # NoRow /\ token[k].live

-----------------------------------------------------------------------------
\* Workflows.  Locked(w): an edit has updated the row and not committed.

Locked(w) == \E c \in open : request[c] # NoRow /\ request[c].step = "minted" /\ request[c].flow = w

NewFlow(t) == [tenant |-> t, current |-> 1, versions |-> {1}, state |-> "active"]

CreateWorkflow(w) ==
  /\ MayRun /\ Exists(w[1]) /\ flow[w] = NoRow
  /\ flow' = [flow EXCEPT ![w] = NewFlow(w[1])]
  /\ UNCHANGED <<tenantVars, token, orders, request>>

\* As if the number were read and added to instead of minted by the update.
CanMintUnlocked(w) == flow[w] # NoRow
CanMint(w) == flow[w] # NoRow /\ ~Locked(w)

\* updateWorkflow: the update mints the number and holds the row ...
Mint(c, w) ==
  /\ MayRun /\ request[c] = NoRow
  /\ CanMint(w) /\ flow[w].current < MaxVersions
  /\ open' = open \cup {c}
  /\ request' = [request EXCEPT ![c] = [step |-> "minted", tenant |-> flow[w].tenant,
                                        flow |-> w, version |-> flow[w].current + 1]]
  /\ UNCHANGED <<serial, tenant, spent, token, flow, orders>>

Done(c) ==
  /\ open' = open \ {c}
  /\ request' = [request EXCEPT ![c] = NoRow]
  /\ UNCHANGED <<serial, tenant, spent>>

\* ... the definition is appended under it, and both are committed.
InsertVersion(c) ==
  /\ request[c] # NoRow /\ request[c].step = "minted"
  /\ LET w == request[c].flow
         v == request[c].version
     IN flow' = [flow EXCEPT ![w].current = v, ![w].versions = @ \cup {v}]
  /\ Done(c)
  /\ UNCHANGED <<token, orders>>

ArchiveWorkflow(w) ==
  /\ MayRun /\ flow[w] # NoRow /\ ~Locked(w) /\ flow[w].state = "active"
  /\ flow' = [flow EXCEPT ![w].state = "archived"]
  /\ UNCHANGED <<tenantVars, token, orders, request>>

-----------------------------------------------------------------------------
\* A submission: the bearer is resolved in a transaction of its own ...
Ask(c, k, w) ==
  /\ MayRun /\ request[c] = NoRow
  /\ Resolves(k) /\ Cardinality(orders) < MaxOrders
  /\ request' = [request EXCEPT ![c] =
       [step |-> "resolved", tenant |-> token[k].tenant, flow |-> w, token |-> k,
        wasLive |-> token[k].live,
        current |-> IF flow[w] = NoRow THEN 0 ELSE flow[w].current]]
  /\ UNCHANGED <<tenantVars, token, flow, orders>>

\* ... the workflow is looked up in the tenant's own transaction, archived or not
\* (404 when the tenant has no such row) ...
LookUp(c) ==
  /\ MayRun /\ request[c] # NoRow /\ request[c].step = "resolved"
  /\ LET w == request[c].flow
         found == flow[w] # NoRow /\ flow[w].tenant = request[c].tenant
     IN IF found
        THEN /\ open' = open \cup {c}
             /\ request' = [request EXCEPT ![c].step = "found"]
             /\ UNCHANGED <<serial, tenant, spent>>
        ELSE Done(c)
  /\ UNCHANGED <<token, flow, orders>>

\* ... and then its newest version.
Pinned(c) == CHOOSE v \in flow[request[c].flow].versions :
               \A u \in flow[request[c].flow].versions : u <= v

ReadVersion(c) ==
  /\ request[c] # NoRow /\ request[c].step = "found"
  /\ IF flow[request[c].flow] # NoRow
     THEN /\ request' = [request EXCEPT ![c] =
                 [step |-> "pinned", tenant |-> @.tenant, flow |-> @.flow,
                  token |-> @.token, wasLive |-> @.wasLive, current |-> @.current,
                  version |-> Pinned(c)]]
          /\ UNCHANGED tenantVars
     ELSE Done(c)
  /\ UNCHANGED <<token, flow, orders>>

\* As if neither the tenant nor the version were a foreign key of the order.
ReferencesAnything(c) == TRUE
References(c) ==
  /\ Exists(request[c].tenant)
  /\ flow[request[c].flow] # NoRow /\ request[c].version \in flow[request[c].flow].versions

\* The order is inserted under the version read; what it refers to must be there
\* still.
Enqueue(c) ==
  /\ request[c] # NoRow /\ request[c].step = "pinned"
  /\ orders' = IF References(c)
               THEN orders \cup {[tenant |-> request[c].tenant, flow |-> request[c].flow,
                                   version |-> request[c].version,
                                   atLeast |-> request[c].current,
                                   wasLive |-> request[c].wasLive]}
               ELSE orders
  /\ Done(c)
  /\ UNCHANGED <<token, flow>>

\* The tenant's limits refuse it, or the connection or the process is lost.
AbortRequest(c) ==
  /\ request[c] # NoRow
  /\ Done(c)
  /\ UNCHANGED <<token, flow, orders>>

CascadeFlows ==
  /\ token' = Without(token, Cleared)
  /\ flow' = Without(flow, Cleared)
  /\ orders' = {o \in orders : o.tenant \notin Cleared}
  /\ UNCHANGED request
=============================================================================
