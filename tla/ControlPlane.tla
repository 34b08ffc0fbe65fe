----------------------------- MODULE ControlPlane -----------------------------
(***************************************************************************)
(* Tenancy, Workflows (with Demo) and Console over the one table they share,   *)
(* `tenants`: a provision and a demo reset reach all three, every other call    *)
(* stays within one of them.  Their other tables being disjoint, a behaviour    *)
(* follows one of the three parts, with the tenants coming and going under it.  *)
(***************************************************************************)
EXTENDS Demo, Console

VARIABLE part

vars == <<tenantVars, memberVars, flowVars, seeding, consoleVars, part>>

Init ==
  /\ TenancyInit /\ WorkflowsInit /\ DemoInit /\ ConsoleInit
  /\ part \in {"members", "orders", "console"}
  /\ part = "console" => serial      \* whose calls are one transaction each

\* The rows a provision writes beside the tenant's, in the part followed.
Provision(t, s, e) ==
  /\ InsertTenant(t, s)
  /\ IF part = "members" THEN InsertOwner(t, e) ELSE UNCHANGED memberVars
  /\ IF part = "console" THEN InsertLimit(t) ELSE UNCHANGED consoleVars
  /\ UNCHANGED <<flowVars, seeding, part>>

\* The cascade waits for the lock an edit holds on a workflow of a cleared tenant.
ClearDemo ==
  /\ \A w \in FlowIds : Locked(w) => flow[w].tenant \notin Cleared
  /\ ClearTenants
  /\ CascadeMembers /\ CascadeFlows /\ CascadeConsole
  /\ UNCHANGED <<seeding, part>>

MemberCall ==
  \/ \E i \in InviteIds, t \in TenantIds, e \in Emails, r \in Roles : InviteMember(i, t, e, r)
  \/ \E i \in InviteIds : RevokeInvite(i) \/ InviteExpires(i)
  \/ \E t \in TenantIds, e \in Emails : RevokeMembership(t, e)
  \/ \E c \in Clients : FinishAccept(c) \/ AbortAccept(c) \/ \E i \in InviteIds : BeginAccept(c, i)

OrderCall ==
  \/ \E k \in TokenIds : TokenDies(k) \/ \E t \in TenantIds : MintToken(k, t)
  \/ \E w \in FlowIds : ArchiveWorkflow(w) \/ CreateWorkflow(w)
  \/ \E c \in Clients, w \in FlowIds : Mint(c, w) \/ \E k \in TokenIds : Ask(c, k, w)
  \/ \E c \in Clients : InsertVersion(c)
  \/ \E c \in Clients : LookUp(c)
  \/ \E c \in Clients : ReadVersion(c)
  \/ \E c \in Clients : Enqueue(c)
  \/ \E c \in Clients : AbortRequest(c)

SeedCall ==
  \/ SeedBegins
  \/ \E t \in TenantIds, s \in Slugs : SeedProvisions(t, s)
  \/ \E k \in TokenIds : SeedFills(k)
  \/ SeedDies

ConsoleCall ==
  \/ \E c \in Clients, t \in TenantIds : \E m \in Commands(t) : LookUpTenant(c, m)
  \/ \E c \in Clients : Act(c)
  \/ \E t \in TenantIds : TellProvisioned(t)
  \/ ConsoleCrash

Next ==
  \/ \E t \in TenantIds, s \in Slugs, e \in Emails : Provision(t, s, e)
  \/ ClearDemo
  \/ part = "members" /\ MemberCall /\ UNCHANGED <<flowVars, seeding, consoleVars, part>>
  \/ part = "orders" /\ OrderCall /\ UNCHANGED <<memberVars, seeding, consoleVars, part>>
  \/ part = "orders" /\ SeedCall /\ UNCHANGED <<memberVars, consoleVars, part>>
  \/ part = "console" /\ ConsoleCall /\ UNCHANGED <<memberVars, flowVars, seeding, part>>

Spec == Init /\ [][Next]_vars

-----------------------------------------------------------------------------
(* Properties.                                                              *)

RowsOf(rows) == {rows[k] : k \in {k \in DOMAIN rows : rows[k] # NoRow}}

\* Rows have their shape, one live tenant has a slug, one pending invite an address,
\* and no row belongs to a tenant that is not there: not even one written by a call
\* that began before its tenant was cleared (sql/001, 003, 004, 007, 008; demo/seed.ts
\* 148-192, demo/reset.ts 41-94).
RowsAreSound ==
  /\ \A t \in TenantIds : Exists(t) => tenant[t] \in TenantRow
  /\ \A s \in Slugs : Cardinality({t \in TenantIds : Exists(t) /\ tenant[t].slug = s}) <= 1
  /\ \A r \in RowsOf(invite) \cup RowsOf(token) \cup RowsOf(flow) \cup RowsOf(grant) :
       Exists(r.tenant)
  /\ \A p \in user : Exists(p[1])
  /\ \A p \in DOMAIN seat : seat[p] # NoRow => p \in user
  /\ \A t \in TenantIds : ~Exists(t) => limit[t] = NoRow /\ audit[t] = <<>>
  /\ \A o \in orders : Exists(o.tenant)
  /\ \A i, j \in InviteIds :
       i # j /\ Usable(i) /\ Usable(j)
         => invite[i].tenant # invite[j].tenant \/ invite[i].email # invite[j].email

\* On the engine that serialises, an invite leaves `pending` once: one that was
\* redeemed cannot be withdrawn and one that was withdrawn never seats anyone
\* (tenancy/members.ts 101-173).
InviteSettlesOnce ==
  [][serial => \A i \in InviteIds :
       invite[i] # NoRow /\ invite'[i] # NoRow /\ invite'[i].state # invite[i].state
         => invite[i].state = "pending"]_vars

\* Versions are numbered without a gap or a clash by any interleaving of edits, and
\* an order runs under a version of its own tenant's workflow no older than the one
\* that was current when it was asked for, by a bearer that was live then
\* (workflows/store.ts 228-304, server/api.ts 160-181, server/auth.ts 148-167).
OrdersPinTheCurrent ==
  /\ \A w \in FlowIds : flow[w] # NoRow => flow[w].versions = 1..flow[w].current
  /\ \A o \in orders :
       /\ o.wasLive /\ o.version >= o.atLeast
       /\ flow[o.flow] # NoRow /\ flow[o.flow].tenant = o.tenant
       /\ o.version \in flow[o.flow].versions

\* Every change of a tenant's limits, state and grants is told by an audit entry of
\* the same transaction, and an entry tells what did happen: no entry of a state set
\* to what it was, of a grant revoked twice or of one refused, whatever came between
\* the look-up of the tenant and the change (server/operator-api.ts 144-335).
EveryChangeHasReceipt ==
  [][\A t \in TenantIds : Exists(t) /\ Exists(t)' =>
       LET grants == {g \in GrantIds : grant[g] # NoRow /\ grant[g].tenant = t}
           closed == {g \in grants : grant[g].revoked}
           told(action) == Len(audit'[t]) > Len(audit[t]) /\ audit'[t] = Append(audit[t], action)
       IN /\ (tenant'[t] # tenant[t]) <=> told("tenant.state-changed")
          /\ (grants' # grants) <=> told("support.granted")
          /\ (closed' # closed) <=> told("support.revoked")
          /\ limit'[t] # limit[t] => told("entitlements.updated")]_vars
=============================================================================
