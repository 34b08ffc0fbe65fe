---------------------------- MODULE ControlPlaneProofs ----------------------------
(***************************************************************************)
(* Proofs about the control plane, for every set of tenants, people, clients   *)
(* and rows and either kind of engine.  CInv is inductive: one group of facts   *)
(* per part, all of them resting on TenantsOK, the coming and going of the      *)
(* tenants, and in the end on an id of a deleted tenant never being used again. *)
(***************************************************************************)
EXTENDS ControlPlane, FiniteSetTheorems, SequenceTheorems, TLAPS

Acceptance == [id : InviteIds, row : InviteRow]
TokenRow == [tenant : TenantIds, live : BOOLEAN]
Resolution == [step : {"resolved", "found"}, tenant : TenantIds, flow : FlowIds,
               token : TokenIds, wasLive : BOOLEAN, current : Nat]
OrderRow == [tenant : TenantIds, flow : FlowIds, version : Nat, atLeast : Nat,
             wasLive : BOOLEAN]
Command == [op : {"limit"}, tenant : TenantIds, to : Limits]
             \cup [op : {"state"}, tenant : TenantIds, to : States]
             \cup [op : {"grant", "revoke"}, tenant : TenantIds, to : GrantIds]

\* What an audit entry may tell (operator/audit.ts 25-31).
Entries == {"tenant.provisioned", "tenant.state-changed", "entitlements.updated",
            "support.granted", "support.revoked"}

-----------------------------------------------------------------------------
(* The inductive invariant.                                                  *)

\* The engine that serialises has one transaction open at most.
TenantsOK ==
  /\ tenant \in [TenantIds -> TenantRow \cup {NoRow}]
  /\ spent \subseteq TenantIds
  /\ \A t \in TenantIds : Exists(t) => t \notin spent
  /\ \A t, u \in TenantIds :
       Exists(t) /\ Exists(u) /\ tenant[t].slug = tenant[u].slug => t = u
  /\ serial \in BOOLEAN
  /\ open \subseteq Clients
  /\ serial => \A c, d \in open : c = d

\* Calls of several steps are of the part that is followed.
PartOK ==
  /\ part = "console" => serial
  /\ part # "members" => \A c \in Clients : accepting[c] = NoRow
  /\ part # "orders" => \A c \in Clients : request[c] = NoRow

\* What an acceptance in hand read is still so, as far as its tenant is there; with
\* one connection it is still pending.
AcceptOK(c) ==
  LET i == accepting[c].id
      t == accepting[c].row.tenant
  IN /\ c \in open
     /\ Exists(t) \/ t \in spent
     /\ Exists(t) => invite[i] # NoRow /\ invite[i].tenant = t
     /\ serial => Withdrawable(i)

MembersOK ==
  /\ user \subseteq TenantIds \X Emails
  /\ seat \in [TenantIds \X Emails -> Roles \cup {NoRow}]
  /\ invite \in [InviteIds -> InviteRow \cup {NoRow}]
  /\ accepting \in [Clients -> Acceptance \cup {NoRow}]
  /\ \A p \in user : Exists(p[1])
  /\ \A p \in TenantIds \X Emails : seat[p] # NoRow => p \in user
  /\ \A i \in InviteIds : invite[i] # NoRow => Exists(invite[i].tenant)
  /\ \A i, j \in InviteIds :
       /\ Withdrawable(i) /\ Withdrawable(j)
       /\ invite[i].tenant = invite[j].tenant /\ invite[i].email = invite[j].email
       => i = j
  /\ \A c \in Clients : accepting[c] # NoRow => AcceptOK(c)

FlowOK(w) ==
  /\ Exists(w[1]) /\ flow[w].tenant = w[1]
  /\ flow[w].current >= 1 /\ flow[w].versions = 1..flow[w].current

\* The number an edit minted is the next one, and nobody else's.
Minted(c) == request[c] # NoRow /\ request[c].step = "minted"

MintOK(c) ==
  LET w == request[c].flow
  IN /\ c \in open
     /\ w \in FlowIds /\ flow[w] # NoRow
     /\ request[c].version = flow[w].current + 1

\* What a submission saw is not undone: a workflow goes only with its tenant, and
\* that for good.
Asking(c) == request[c] # NoRow /\ request[c].step # "minted"

AskOK(c) ==
  LET w == request[c].flow
      r == request[c]
  IN /\ r.step \in {"resolved", "found", "pinned"}
     /\ r.step # "pinned" => r \in Resolution
     /\ r.tenant \in TenantIds /\ w \in FlowIds /\ r.current \in Nat
     /\ r.wasLive = TRUE
     /\ flow[w] # NoRow => r.current <= flow[w].current
     /\ flow[w] = NoRow => r.current = 0 \/ w[1] \in spent
     /\ r.step # "resolved" => w[1] = r.tenant
     /\ r.step = "pinned" => r.version \in Nat /\ r.current <= r.version

OrderOK(o) ==
  /\ o.wasLive = TRUE /\ o.atLeast <= o.version
  /\ o.flow[1] = o.tenant
  /\ flow[o.flow] # NoRow /\ o.version \in flow[o.flow].versions

OrdersOK ==
  /\ token \in [TokenIds -> TokenRow \cup {NoRow}]
  /\ flow \in [FlowIds -> FlowRow \cup {NoRow}]
  /\ orders \subseteq OrderRow
  /\ DOMAIN request = Clients
  /\ \A k \in TokenIds : token[k] # NoRow => Exists(token[k].tenant)
  /\ \A w \in FlowIds : flow[w] # NoRow => FlowOK(w)
  /\ \A c \in Clients : Minted(c) => MintOK(c)
  /\ \A c, d \in Clients :
       Minted(c) /\ Minted(d) /\ request[c].flow = request[d].flow => c = d
  /\ \A c \in Clients : Asking(c) => AskOK(c)
  /\ \A o \in orders : OrderOK(o)
  /\ seeding \in [todo : SUBSET Slugs, tenant : TenantIds \cup {NoRow}]

ConsoleOK ==
  /\ limit \in [TenantIds -> Limits \cup {NoRow}]
  /\ grant \in [GrantIds -> GrantRow \cup {NoRow}]
  /\ audit \in [TenantIds -> Seq(Entries)]
  /\ untold \subseteq TenantIds
  /\ command \in [Clients -> Command \cup {NoRow}]
  /\ \A t \in TenantIds : ~Exists(t) => limit[t] = NoRow /\ audit[t] = <<>>
  /\ \A g \in GrantIds : grant[g] # NoRow => Exists(grant[g].tenant)

CInv == TenantsOK /\ PartOK /\ MembersOK /\ OrdersOK /\ ConsoleOK

-----------------------------------------------------------------------------
(* The tenants.                                                              *)

\* What a step that takes no tenant away leaves of them: those that were there are
\* there, and an id that was given up stays so (tenancy/provision.ts 67-82).
Lasting ==
  /\ \A t \in TenantIds : Exists(t) => tenant'[t] # NoRow
  /\ \A t \in spent : tenant'[t] = NoRow
  /\ spent' = spent /\ serial' = serial

\* A provision adds one tenant, under a slug and an id nobody has or had.
LEMMA GrowStep ==
  ASSUME TenantsOK, NEW t \in TenantIds, NEW s \in Slugs, InsertTenant(t, s)
  PROVE  TenantsOK' /\ Lasting /\ tenant'[t] # NoRow
         /\ \A u \in TenantIds \ {t} : tenant'[u] = tenant[u]
<1> DEFINE r == [slug |-> s, state |-> "active"]
<1>1. r \in TenantRow /\ r # NoRow
  BY TenancyAssumption DEF TenantRow, States
<1>2. /\ tenant'[t] = r /\ \A u \in TenantIds \ {t} : tenant'[u] = tenant[u]
      /\ tenant' \in [TenantIds -> TenantRow \cup {NoRow}]
  BY <1>1 DEF TenantsOK, InsertTenant
<1>3. r.slug = s
  OBVIOUS
<1>4. /\ spent' = spent /\ serial' = serial /\ open' = open
      /\ t \notin spent /\ tenant[t] = NoRow
      /\ \A u \in TenantIds : tenant[u] # NoRow => tenant[u].slug # s
  BY DEF InsertTenant, SlugTaken, Exists
<1>5. \A u, v \in TenantIds :
        Exists(u)' /\ Exists(v)' /\ tenant'[u].slug = tenant'[v].slug => u = v
  BY <1>2, <1>3, <1>4 DEF TenantsOK, Exists
<1> HIDE DEF r
<1>6. TenantsOK'
  BY <1>1, <1>2, <1>4, <1>5 DEF TenantsOK, Exists
<1>7. Lasting
  BY <1>1, <1>2, <1>4 DEF TenantsOK, Lasting, Exists
<1> QED
  BY <1>1, <1>2, <1>6, <1>7

\* A reset takes the demo's tenants, and gives up their ids.
LEMMA ClearStep ==
  ASSUME TenantsOK, ClearTenants
  PROVE  /\ TenantsOK'
         /\ \A u \in TenantIds : tenant'[u] = IF u \in Cleared THEN NoRow ELSE tenant[u]
         /\ spent' = spent \cup Cleared /\ Cleared \subseteq TenantIds
         /\ serial' = serial /\ open' = open /\ (serial => open = {})
<1>1. /\ \A u \in TenantIds : tenant'[u] = IF u \in Cleared THEN NoRow ELSE tenant[u]
      /\ spent' = spent \cup Cleared /\ Cleared \subseteq TenantIds
      /\ serial' = serial /\ open' = open /\ (serial => open = {})
  BY DEF ClearTenants, Cleared, MayRun
<1>2. tenant' \in [TenantIds -> TenantRow \cup {NoRow}]
  BY DEF ClearTenants, TenantsOK
<1> QED
  BY <1>1, <1>2 DEF TenantsOK, Exists

\* The operator's change of a state keeps the row and its slug.
LEMMA RestateStep ==
  ASSUME TenantsOK, NEW t \in TenantIds, NEW st \in States, Exists(t),
         tenant' = [tenant EXCEPT ![t].state = st],
         UNCHANGED <<serial, open, spent>>
  PROVE  /\ TenantsOK' /\ Lasting
         /\ \A u \in TenantIds : Exists(u)' <=> Exists(u)
<1> DEFINE r == [tenant[t] EXCEPT !.state = st]
<1>1. tenant[t] \in TenantRow
  BY DEF TenantsOK, Exists
<1>2. r \in TenantRow /\ r.slug = tenant[t].slug /\ r # NoRow
  BY <1>1, TenancyAssumption DEF TenantRow
<1>3. /\ tenant'[t] = r /\ \A u \in TenantIds \ {t} : tenant'[u] = tenant[u]
      /\ tenant' \in [TenantIds -> TenantRow \cup {NoRow}]
  BY <1>2 DEF TenantsOK
<1> HIDE DEF r
<1>4. \A u \in TenantIds : Exists(u)' <=> Exists(u)
  BY <1>2, <1>3 DEF Exists
<1>5. \A u \in TenantIds : Exists(u) => tenant'[u].slug = tenant[u].slug
  BY <1>2, <1>3
<1>6. TenantsOK'
  BY <1>3, <1>4, <1>5 DEF TenantsOK
<1>7. Lasting
  BY <1>4 DEF Lasting, Exists, TenantsOK
<1> QED
  BY <1>4, <1>6, <1>7

\* A transaction of several steps begins: alone, when the engine serialises.
LEMMA OpenStep ==
  ASSUME TenantsOK, NEW c \in Clients, MayRun, open' = open \cup {c},
         UNCHANGED <<serial, tenant, spent>>
  PROVE  TenantsOK' /\ Lasting
BY DEF TenantsOK, Lasting, MayRun, Exists

\* ... and ends.
LEMMA CloseStep ==
  ASSUME TenantsOK, NEW c \in Clients, open' = open \ {c},
         UNCHANGED <<serial, tenant, spent>>
  PROVE  TenantsOK' /\ Lasting
BY DEF TenantsOK, Lasting, Exists

\* Most calls change no tenant.
LEMMA TenantsStay ==
  ASSUME TenantsOK, UNCHANGED tenantVars
  PROVE  TenantsOK' /\ Lasting
BY DEF TenantsOK, Lasting, Exists, tenantVars

-----------------------------------------------------------------------------
(* The people.                                                               *)

\* Their rows keep what they promise under any step that leaves them alone and
\* takes no tenant away.
LEMMA MembersStay ==
  ASSUME TenantsOK, MembersOK, Lasting, UNCHANGED memberVars,
         \A c \in Clients : accepting[c] # NoRow => c \in open'
  PROVE  MembersOK'
<1>1. /\ user' = user /\ seat' = seat /\ invite' = invite /\ accepting' = accepting
      /\ serial' = serial /\ spent' = spent
  BY DEF memberVars, Lasting
<1>2. \A t \in TenantIds : Exists(t) => Exists(t)'
  BY DEF Lasting, Exists
<1>3. ASSUME NEW c \in Clients, accepting[c] # NoRow
      PROVE  AcceptOK(c)'
  <2>1. AcceptOK(c) /\ accepting[c].row.tenant \in TenantIds
    BY <1>3 DEF MembersOK, Acceptance, InviteRow
  <2> QED
    BY <1>1, <1>2, <1>3, <2>1 DEF AcceptOK, Lasting, Exists, Withdrawable
<1>4. \A i \in InviteIds : invite[i] # NoRow => invite[i].tenant \in TenantIds
  BY DEF MembersOK, InviteRow
<1>5. \A p \in user : p[1] \in TenantIds
  BY DEF MembersOK
<1> QED
  BY <1>1, <1>2, <1>3, <1>4, <1>5 DEF MembersOK, Withdrawable

\* A provision seats its owner.
LEMMA MembersProvision ==
  ASSUME TenantsOK, MembersOK, NEW t \in TenantIds, NEW s \in Slugs, NEW e \in Emails,
         InsertTenant(t, s), InsertOwner(t, e)
  PROVE  MembersOK'
<1>1. /\ invite' = invite /\ accepting' = accepting /\ open' = open
      /\ user' = user \cup {<<t, e>>} /\ Exists(t)' /\ Lasting
  BY GrowStep DEF InsertOwner, InsertTenant, Exists
<1>2. \A u \in TenantIds : Exists(u) => Exists(u)'
  BY <1>1 DEF Lasting, Exists
<1>3. ASSUME NEW c \in Clients, accepting[c] # NoRow
      PROVE  AcceptOK(c)'
  <2>1. AcceptOK(c) /\ accepting[c].row.tenant \in TenantIds
    BY <1>3 DEF MembersOK, Acceptance, InviteRow
  <2> QED
    BY <1>1, <1>2, <1>3, <2>1 DEF AcceptOK, Lasting, Exists, Withdrawable
<1>4. /\ seat' \in [TenantIds \X Emails -> Roles \cup {NoRow}]
      /\ \A p \in TenantIds \X Emails : seat'[p] # NoRow => p \in user'
  BY <1>1, RolesAssumption DEF InsertOwner, MembersOK
<1>5. user' \subseteq TenantIds \X Emails /\ \A p \in user' : Exists(p[1])'
  BY <1>1, <1>2 DEF MembersOK
<1>6. \A i \in InviteIds : invite[i] # NoRow => Exists(invite[i].tenant)'
  BY <1>1, <1>2 DEF MembersOK, InviteRow
<1> QED
  BY <1>1, <1>3, <1>4, <1>5, <1>6 DEF MembersOK, Withdrawable

\* A reset takes the rows of the tenants it takes, and no others.
LEMMA MembersClear ==
  ASSUME TenantsOK, MembersOK, ClearTenants, CascadeMembers
  PROVE  MembersOK'
<1>1. /\ \A u \in TenantIds : tenant'[u] = IF u \in Cleared THEN NoRow ELSE tenant[u]
      /\ spent' = spent \cup Cleared /\ Cleared \subseteq TenantIds
      /\ serial' = serial /\ open' = open /\ (serial => open = {})
  BY ClearStep
<1>2. /\ user' = {p \in user : p[1] \notin Cleared}
      /\ accepting' = accepting
      /\ seat' \in [TenantIds \X Emails -> Roles \cup {NoRow}]
      /\ \A p \in TenantIds \X Emails :
           seat'[p] = IF p[1] \in Cleared THEN NoRow ELSE seat[p]
  BY DEF CascadeMembers, MembersOK
<1>3. /\ invite' \in [InviteIds -> InviteRow \cup {NoRow}]
      /\ \A i \in InviteIds :
           invite'[i] = IF invite[i] # NoRow /\ invite[i].tenant \in Cleared
                        THEN NoRow ELSE invite[i]
  BY DEF CascadeMembers, MembersOK, Without
<1>4. \A t \in TenantIds : Exists(t)' <=> Exists(t) /\ t \notin Cleared
  BY <1>1 DEF Exists
<1>5. ASSUME NEW c \in Clients, accepting[c] # NoRow
      PROVE  AcceptOK(c)'
  <2>1. /\ AcceptOK(c) /\ accepting[c].row.tenant \in TenantIds
        /\ accepting[c].id \in InviteIds
    BY <1>5 DEF MembersOK, Acceptance, InviteRow
  <2>2. ~serial
    BY <1>1, <2>1 DEF AcceptOK
  <2> QED
    BY <1>1, <1>2, <1>3, <1>4, <2>1, <2>2 DEF AcceptOK
<1>6. \A i \in InviteIds : invite[i] # NoRow => invite[i].tenant \in TenantIds
  BY DEF MembersOK, InviteRow
<1>7. \A i \in InviteIds : invite'[i] # NoRow => tenant'[invite'[i].tenant] # NoRow
  BY <1>3, <1>4, <1>6 DEF MembersOK, Exists
<1>8. \A i \in InviteIds : Withdrawable(i)' => Withdrawable(i) /\ invite'[i] = invite[i]
  BY <1>3 DEF Withdrawable
<1>9. /\ user' \subseteq TenantIds \X Emails /\ \A p \in user' : Exists(p[1])'
      /\ \A p \in TenantIds \X Emails : seat'[p] # NoRow => p \in user'
  BY <1>2, <1>4 DEF MembersOK
<1>10. \A i, j \in InviteIds :
         /\ Withdrawable(i)' /\ Withdrawable(j)'
         /\ invite'[i].tenant = invite'[j].tenant /\ invite'[i].email = invite'[j].email
         => i = j
  BY <1>8 DEF MembersOK
<1> QED
  BY <1>2, <1>3, <1>5, <1>7, <1>9, <1>10 DEF MembersOK, Exists

\* An invite's row changes in place: nobody's tenant does, and no more become pending.
LEMMA MembersRewrite ==
  ASSUME TenantsOK, MembersOK, NEW i \in InviteIds, NEW r \in InviteRow,
         invite[i] # NoRow, invite' = [invite EXCEPT ![i] = r],
         r.tenant = invite[i].tenant, r.email = invite[i].email,
         r.state = "pending" => invite[i].state = "pending",
         serial => \A c \in Clients : accepting[c] = NoRow \/ r.state = invite[i].state,
         UNCHANGED <<tenantVars, user, seat, accepting>>
  PROVE  MembersOK'
<1>1. r # NoRow
  BY TenancyAssumption
<1>2. /\ invite' \in [InviteIds -> InviteRow \cup {NoRow}]
      /\ invite'[i] = r /\ \A j \in InviteIds \ {i} : invite'[j] = invite[j]
  BY DEF MembersOK
<1>3. \A j \in InviteIds :
        /\ invite'[j] # NoRow <=> invite[j] # NoRow
        /\ invite[j] # NoRow => /\ invite'[j].tenant = invite[j].tenant
                                /\ invite'[j].email = invite[j].email
        /\ Withdrawable(j)' => Withdrawable(j)
  BY <1>1, <1>2 DEF Withdrawable
<1>4. ASSUME NEW c \in Clients, accepting[c] # NoRow
      PROVE  AcceptOK(c)'
  <2>1. AcceptOK(c) /\ accepting[c].id \in InviteIds
    BY <1>4 DEF MembersOK, Acceptance
  <2>2. serial => Withdrawable(accepting[c].id)'
    BY <1>1, <1>2, <1>4, <2>1 DEF AcceptOK, Withdrawable
  <2> QED
    BY <1>3, <2>1, <2>2 DEF AcceptOK, tenantVars, Exists
<1>5. \A j \in InviteIds : invite'[j] # NoRow => tenant'[invite'[j].tenant] # NoRow
  BY <1>3 DEF MembersOK, tenantVars, Exists
<1>6. \A j, k \in InviteIds :
        /\ Withdrawable(j)' /\ Withdrawable(k)'
        /\ invite'[j].tenant = invite'[k].tenant /\ invite'[j].email = invite'[k].email
        => j = k
  BY <1>3 DEF MembersOK, Withdrawable
<1> QED
  BY <1>2, <1>4, <1>5, <1>6 DEF MembersOK, tenantVars, Exists

\* inviteMember: one pending invite of an address, expired ones counted.
LEMMA MembersInvite ==
  ASSUME TenantsOK, MembersOK, NEW i \in InviteIds, NEW t \in TenantIds, NEW e \in Emails,
         NEW r \in Roles, InviteMember(i, t, e, r)
  PROVE  MembersOK'
<1> DEFINE n == [tenant |-> t, email |-> e, role |-> r, state |-> "pending", expired |-> FALSE]
<1>0. n \in InviteRow /\ n.tenant = t /\ n.email = e
  BY DEF InviteRow
<1>1. n \in InviteRow /\ n # NoRow /\ n.tenant = t /\ n.email = e
  BY <1>0, TenancyAssumption
<1>2. /\ invite' \in [InviteIds -> InviteRow \cup {NoRow}]
      /\ invite'[i] = n /\ \A j \in InviteIds \ {i} : invite'[j] = invite[j]
  BY <1>1 DEF InviteMember, MembersOK
<1>3. /\ Exists(t) /\ invite[i] = NoRow
      /\ \A j \in InviteIds : ~(Withdrawable(j) /\ invite[j].tenant = t /\ invite[j].email = e)
      /\ UNCHANGED <<tenantVars, user, seat, accepting>>
  BY DEF InviteMember, Withdrawable
<1> HIDE DEF n
<1>4. ASSUME NEW c \in Clients, accepting[c] # NoRow
      PROVE  AcceptOK(c)'
  <2>1. /\ AcceptOK(c) /\ accepting[c].id \in InviteIds
        /\ accepting[c].row.tenant \in TenantIds
    BY <1>4 DEF MembersOK, Acceptance, InviteRow
  <2>2. CASE accepting[c].id = i
    <3>1. ~Exists(accepting[c].row.tenant) /\ ~serial
      BY <1>3, <2>1, <2>2 DEF AcceptOK, Withdrawable
    <3> QED
      BY <1>3, <2>1, <3>1 DEF AcceptOK, tenantVars, Exists
  <2>3. CASE accepting[c].id # i
    BY <1>2, <1>3, <2>1, <2>3 DEF AcceptOK, tenantVars, Exists, Withdrawable
  <2> QED
    BY <2>2, <2>3
<1>5. \A j \in InviteIds : invite'[j] # NoRow => tenant'[invite'[j].tenant] # NoRow
  BY <1>1, <1>2, <1>3 DEF MembersOK, tenantVars, Exists
<1>6. \A j, k \in InviteIds :
        /\ Withdrawable(j)' /\ Withdrawable(k)'
        /\ invite'[j].tenant = invite'[k].tenant /\ invite'[j].email = invite'[k].email
        => j = k
  <2> SUFFICES ASSUME NEW j \in InviteIds, NEW k \in InviteIds,
                      Withdrawable(j)', Withdrawable(k)',
                      invite'[j].tenant = invite'[k].tenant,
                      invite'[j].email = invite'[k].email, j # k
               PROVE  FALSE
    OBVIOUS
  <2>1. CASE j = i
    BY <1>1, <1>2, <1>3, <2>1 DEF Withdrawable
  <2>2. CASE k = i
    BY <1>1, <1>2, <1>3, <2>2 DEF Withdrawable
  <2>3. CASE j # i /\ k # i
    BY <1>2, <2>3 DEF Withdrawable, MembersOK
  <2> QED
    BY <2>1, <2>2, <2>3
<1> QED
  BY <1>2, <1>3, <1>4, <1>5, <1>6 DEF MembersOK, tenantVars, Exists

\* acceptInvite, first half.
LEMMA MembersBegin ==
  ASSUME TenantsOK, MembersOK, NEW c \in Clients, NEW i \in InviteIds, BeginAccept(c, i)
  PROVE  TenantsOK' /\ MembersOK'
<1> DEFINE a == [id |-> i, row |-> invite[i]]
<1>1. /\ MayRun /\ open' = open \cup {c} /\ UNCHANGED <<serial, tenant, spent>>
      /\ user' = user /\ seat' = seat /\ invite' = invite
      /\ Usable(i) /\ c \notin open
  BY DEF BeginAccept
<1>2. invite[i] \in InviteRow /\ a \in Acceptance /\ Withdrawable(i)
  BY <1>1 DEF Usable, Withdrawable, MembersOK, Acceptance
<1>3. /\ accepting' \in [Clients -> Acceptance \cup {NoRow}]
      /\ accepting'[c] = a /\ \A d \in Clients \ {c} : accepting'[d] = accepting[d]
  BY <1>2 DEF BeginAccept, MembersOK
<1>4. a.id = i /\ a.row.tenant = invite[i].tenant
  OBVIOUS
<1> HIDE DEF a
<1>5. AcceptOK(c)'
  BY <1>1, <1>2, <1>3, <1>4 DEF AcceptOK, MembersOK, Withdrawable, Exists
<1>6. ASSUME NEW d \in Clients \ {c}, accepting'[d] # NoRow
      PROVE  AcceptOK(d)'
  BY <1>1, <1>3, <1>6 DEF AcceptOK, MembersOK, Withdrawable, Exists
<1>7. MembersOK'
  BY <1>1, <1>3, <1>5, <1>6 DEF MembersOK, Withdrawable, Exists
<1> QED
  BY <1>1, <1>7, OpenStep

\* acceptInvite, second half: the invite is closed by its id, whatever it became.
LEMMA MembersFinish ==
  ASSUME TenantsOK, MembersOK, NEW c \in Clients, FinishAccept(c)
  PROVE  TenantsOK' /\ MembersOK'
<1> DEFINE i == accepting[c].id
           r == accepting[c].row
           p == <<r.tenant, r.email>>
<1>1. /\ open' = open \ {c} /\ UNCHANGED <<serial, tenant, spent>>
      /\ accepting' \in [Clients -> Acceptance \cup {NoRow}]
      /\ accepting'[c] = NoRow /\ \A d \in Clients \ {c} : accepting'[d] = accepting[d]
      /\ accepting[c] # NoRow
  BY DEF FinishAccept, Leave, MembersOK
<1>2. AcceptOK(c) /\ i \in InviteIds /\ r \in InviteRow
  BY <1>1 DEF MembersOK, Acceptance
<1>3. r.tenant \in TenantIds /\ r.email \in Emails /\ r.role \in Roles
  BY <1>2 DEF InviteRow
<1>4. IF Exists(r.tenant)
      THEN /\ user' = user \cup {p} /\ seat' = [seat EXCEPT ![p] = r.role]
           /\ invite' = [invite EXCEPT ![i].state = "accepted"]
      ELSE UNCHANGED <<user, seat, invite>>
  BY DEF FinishAccept
<1>5. c \in open /\ (Exists(r.tenant) => invite[i] # NoRow)
  BY <1>2 DEF AcceptOK
<1> HIDE DEF i, r
<1>6. TenantsOK'
  BY <1>1, CloseStep
<1>7. /\ user' \subseteq TenantIds \X Emails
      /\ seat' \in [TenantIds \X Emails -> Roles \cup {NoRow}]
      /\ \A q \in user' : tenant'[q[1]] # NoRow
      /\ \A q \in TenantIds \X Emails : seat'[q] # NoRow => q \in user'
  BY <1>1, <1>3, <1>4 DEF MembersOK, Exists
<1>8. /\ invite' \in [InviteIds -> InviteRow \cup {NoRow}]
      /\ \A j \in InviteIds :
           /\ invite'[j] # NoRow <=> invite[j] # NoRow
           /\ invite[j] # NoRow => /\ invite'[j].tenant = invite[j].tenant
                                   /\ invite'[j].email = invite[j].email
           /\ Withdrawable(j)' => Withdrawable(j)
           /\ j # i => invite'[j] = invite[j]
  <2>1. CASE ~Exists(r.tenant)
    BY <1>4, <2>1 DEF MembersOK, Withdrawable
  <2>2. CASE Exists(r.tenant)
    <3> DEFINE n == [invite[i] EXCEPT !.state = "accepted"]
    <3>1. invite[i] \in InviteRow /\ invite[i] # NoRow
      BY <1>2, <1>5, <2>2 DEF MembersOK
    <3>2. /\ n \in InviteRow /\ n.state = "accepted"
          /\ n.tenant = invite[i].tenant /\ n.email = invite[i].email
      BY <3>1 DEF InviteRow
    <3>3. n # NoRow
      BY <3>2, TenancyAssumption
    <3>4. /\ invite' \in [InviteIds -> InviteRow \cup {NoRow}]
          /\ invite'[i] = n /\ \A j \in InviteIds \ {i} : invite'[j] = invite[j]
      BY <1>2, <1>4, <2>2, <3>2 DEF MembersOK
    <3> HIDE DEF n
    <3> QED
      BY <3>1, <3>2, <3>3, <3>4 DEF Withdrawable
  <2> QED
    BY <2>1, <2>2
<1>9. ASSUME NEW d \in Clients, accepting'[d] # NoRow
      PROVE  AcceptOK(d)'
  <2>1. d # c /\ accepting'[d] = accepting[d] /\ AcceptOK(d) /\ accepting[d].id \in InviteIds
    BY <1>1, <1>9 DEF MembersOK, Acceptance
  <2>2. ~serial
    BY <1>5, <2>1 DEF AcceptOK, TenantsOK
  <2> QED
    BY <1>1, <1>8, <2>1, <2>2 DEF AcceptOK, Exists
<1>10. \A j \in InviteIds : invite'[j] # NoRow => tenant'[invite'[j].tenant] # NoRow
  BY <1>1, <1>8 DEF MembersOK, Exists
<1>11. \A j, k \in InviteIds :
         /\ Withdrawable(j)' /\ Withdrawable(k)'
         /\ invite'[j].tenant = invite'[k].tenant /\ invite'[j].email = invite'[k].email
         => j = k
  BY <1>8 DEF MembersOK, Withdrawable
<1>12. MembersOK'
  BY <1>1, <1>7, <1>8, <1>9, <1>10, <1>11 DEF MembersOK, Exists
<1> QED
  BY <1>6, <1>12

\* The connection is lost before the commit: nothing was written.
LEMMA MembersAbort ==
  ASSUME TenantsOK, MembersOK, NEW c \in Clients, AbortAccept(c)
  PROVE  TenantsOK' /\ MembersOK'
<1>1. /\ open' = open \ {c} /\ UNCHANGED <<serial, tenant, spent, user, seat, invite>>
      /\ accepting' \in [Clients -> Acceptance \cup {NoRow}]
      /\ accepting'[c] = NoRow /\ \A d \in Clients \ {c} : accepting'[d] = accepting[d]
  BY DEF AbortAccept, Leave, MembersOK
<1>2. ASSUME NEW d \in Clients, accepting'[d] # NoRow
      PROVE  AcceptOK(d)'
  BY <1>1, <1>2 DEF AcceptOK, MembersOK, Withdrawable, Exists
<1>3. MembersOK'
  BY <1>1, <1>2 DEF MembersOK, Withdrawable, Exists
<1> QED
  BY <1>1, <1>3, CloseStep

\* revokeInvite withdraws a pending one; with one connection nobody is redeeming it.
LEMMA MembersRevoke ==
  ASSUME TenantsOK, MembersOK, NEW i \in InviteIds, RevokeInvite(i)
  PROVE  MembersOK'
<1> DEFINE r == [invite[i] EXCEPT !.state = "revoked"]
<1>1. /\ Withdrawable(i) /\ MayRun /\ invite' = [invite EXCEPT ![i] = r]
      /\ UNCHANGED <<tenantVars, user, seat, accepting>>
  BY DEF RevokeInvite
<1>2. invite[i] \in InviteRow /\ invite[i] # NoRow
  BY <1>1 DEF Withdrawable, MembersOK
<1>3. /\ r \in InviteRow /\ r.state = "revoked"
      /\ r.tenant = invite[i].tenant /\ r.email = invite[i].email
  BY <1>2 DEF InviteRow
<1>4. serial => \A c \in Clients : accepting[c] = NoRow
  BY <1>1 DEF MayRun, MembersOK, AcceptOK
<1> HIDE DEF r
<1> QED
  BY <1>1, <1>2, <1>3, <1>4, MembersRewrite

\* Time passes for an invite, pending or not.
LEMMA MembersExpire ==
  ASSUME TenantsOK, MembersOK, NEW i \in InviteIds, InviteExpires(i)
  PROVE  MembersOK'
<1> DEFINE r == [invite[i] EXCEPT !.expired = TRUE]
<1>1. /\ invite[i] # NoRow /\ invite' = [invite EXCEPT ![i] = r]
      /\ UNCHANGED <<tenantVars, user, seat, accepting>>
  BY DEF InviteExpires
<1>2. invite[i] \in InviteRow
  BY <1>1 DEF MembersOK
<1>3. /\ r \in InviteRow /\ r.state = invite[i].state
      /\ r.tenant = invite[i].tenant /\ r.email = invite[i].email
  BY <1>2 DEF InviteRow
<1> HIDE DEF r
<1> QED
  BY <1>1, <1>2, <1>3, MembersRewrite

\* revokeMembership takes the seat; the user stays.
LEMMA MembersUnseat ==
  ASSUME TenantsOK, MembersOK, NEW t \in TenantIds, NEW e \in Emails, RevokeMembership(t, e)
  PROVE  MembersOK'
<1>1. /\ UNCHANGED <<tenantVars, user, invite, accepting>>
      /\ seat' \in [TenantIds \X Emails -> Roles \cup {NoRow}]
      /\ \A p \in TenantIds \X Emails : seat'[p] # NoRow => seat[p] # NoRow
  BY DEF RevokeMembership, MembersOK
<1> QED
  BY <1>1 DEF MembersOK, AcceptOK, tenantVars, Withdrawable, Exists

\* Every call of the members' part.
LEMMA MembersCall ==
  ASSUME TenantsOK, MembersOK, MemberCall
  PROVE  TenantsOK' /\ MembersOK' /\ Lasting
<1>1. ASSUME NEW i \in InviteIds, NEW t \in TenantIds, NEW e \in Emails, NEW r \in Roles,
             InviteMember(i, t, e, r)
      PROVE  TenantsOK' /\ MembersOK' /\ Lasting
  BY <1>1, MembersInvite, TenantsStay DEF InviteMember
<1>2. ASSUME NEW i \in InviteIds, RevokeInvite(i)
      PROVE  TenantsOK' /\ MembersOK' /\ Lasting
  BY <1>2, MembersRevoke, TenantsStay DEF RevokeInvite
<1>3. ASSUME NEW i \in InviteIds, InviteExpires(i)
      PROVE  TenantsOK' /\ MembersOK' /\ Lasting
  BY <1>3, MembersExpire, TenantsStay DEF InviteExpires
<1>4. ASSUME NEW t \in TenantIds, NEW e \in Emails, RevokeMembership(t, e)
      PROVE  TenantsOK' /\ MembersOK' /\ Lasting
  BY <1>4, MembersUnseat, TenantsStay DEF RevokeMembership
<1>5. ASSUME NEW c \in Clients, FinishAccept(c)
      PROVE  TenantsOK' /\ MembersOK' /\ Lasting
  BY <1>5, MembersFinish, CloseStep DEF FinishAccept, Leave
<1>6. ASSUME NEW c \in Clients, AbortAccept(c)
      PROVE  TenantsOK' /\ MembersOK' /\ Lasting
  BY <1>6, MembersAbort, CloseStep DEF AbortAccept, Leave
<1>7. ASSUME NEW c \in Clients, NEW i \in InviteIds, BeginAccept(c, i)
      PROVE  TenantsOK' /\ MembersOK' /\ Lasting
  BY <1>7, MembersBegin, OpenStep DEF BeginAccept
<1> QED
  BY <1>1, <1>2, <1>3, <1>4, <1>5, <1>6, <1>7 DEF MemberCall

-----------------------------------------------------------------------------
(* Workflows and orders.                                                     *)

\* Their rows keep what they promise under any step that leaves them alone and
\* takes no tenant away; a seed may note where it is.
LEMMA OrdersStay ==
  ASSUME TenantsOK, OrdersOK, Lasting, UNCHANGED flowVars,
         seeding' \in [todo : SUBSET Slugs, tenant : TenantIds \cup {NoRow}],
         \A c \in Clients : Minted(c) => c \in open'
  PROVE  OrdersOK'
<1>1. /\ token' = token /\ flow' = flow /\ orders' = orders /\ request' = request
      /\ spent' = spent
  BY DEF flowVars, Lasting
<1>2. \A t \in TenantIds : Exists(t) => tenant'[t] # NoRow
  BY DEF Lasting
<1>3. \A k \in TokenIds : token'[k] # NoRow => tenant'[token'[k].tenant] # NoRow
  BY <1>1, <1>2 DEF OrdersOK, TokenRow
<1>4. ASSUME NEW w \in FlowIds, flow[w] # NoRow
      PROVE  FlowOK(w)'
  <2>1. w[1] \in TenantIds /\ FlowOK(w)
    BY <1>4 DEF FlowIds, OrdersOK
  <2> QED
    BY <1>1, <1>2, <2>1 DEF FlowOK, Exists
<1>5. \A c \in Clients : (Minted(c)' <=> Minted(c)) /\ (Asking(c)' <=> Asking(c))
  BY <1>1 DEF Minted, Asking
<1>6. \A c \in Clients : Minted(c) => MintOK(c)'
  BY <1>1 DEF OrdersOK, MintOK
<1>7. \A c \in Clients : Asking(c) => AskOK(c)'
  BY <1>1 DEF OrdersOK, AskOK
<1>8. \A o \in orders : OrderOK(o)'
  BY <1>1 DEF OrdersOK, OrderOK
<1> QED
  BY <1>1, <1>3, <1>4, <1>5, <1>6, <1>7, <1>8 DEF OrdersOK, Exists

\* A reset takes the rows of the tenants it takes, but no workflow being edited.
LEMMA OrdersClear ==
  ASSUME TenantsOK, OrdersOK, ClearTenants, CascadeFlows, seeding' = seeding,
         \A w \in FlowIds : Locked(w) => flow[w].tenant \notin Cleared
  PROVE  OrdersOK'
<1>1. /\ \A u \in TenantIds : tenant'[u] = IF u \in Cleared THEN NoRow ELSE tenant[u]
      /\ spent' = spent \cup Cleared /\ Cleared \subseteq TenantIds /\ open' = open
  BY ClearStep
<1>2. \A t \in TenantIds : Exists(t) /\ t \notin Cleared => tenant'[t] # NoRow
  BY <1>1 DEF Exists
<1>3. /\ request' = request
      /\ orders' = {o \in orders : o.tenant \notin Cleared}
      /\ token' \in [TokenIds -> TokenRow \cup {NoRow}]
      /\ flow' \in [FlowIds -> FlowRow \cup {NoRow}]
      /\ \A k \in TokenIds : token'[k] # NoRow =>
           token'[k] = token[k] /\ token[k].tenant \notin Cleared
      /\ \A w \in FlowIds : flow'[w] # NoRow =>
           flow'[w] = flow[w] /\ flow[w].tenant \notin Cleared
      /\ \A w \in FlowIds : flow[w] # NoRow /\ flow[w].tenant \notin Cleared => flow'[w] # NoRow
  BY DEF CascadeFlows, Without, OrdersOK
<1>4. \A k \in TokenIds : token'[k] # NoRow => tenant'[token'[k].tenant] # NoRow
  BY <1>2, <1>3 DEF OrdersOK, TokenRow
<1>5. ASSUME NEW w \in FlowIds, flow'[w] # NoRow
      PROVE  FlowOK(w)'
  <2>1. w[1] \in TenantIds /\ FlowOK(w) /\ flow'[w] = flow[w] /\ w[1] \notin Cleared
    BY <1>3, <1>5 DEF FlowIds, OrdersOK, FlowOK
  <2> QED
    BY <1>2, <2>1 DEF FlowOK, Exists
<1>6. \A c \in Clients : (Minted(c)' <=> Minted(c)) /\ (Asking(c)' <=> Asking(c))
  BY <1>3 DEF Minted, Asking
<1>7. ASSUME NEW c \in Clients, Minted(c)
      PROVE  MintOK(c)'
  <2>1. MintOK(c)
    BY <1>7 DEF OrdersOK
  <2>2. Locked(request[c].flow)
    BY <1>7, <2>1 DEF Locked, Minted, MintOK
  <2> QED
    BY <1>1, <1>3, <2>1, <2>2 DEF MintOK
<1>8. ASSUME NEW c \in Clients, Asking(c)
      PROVE  AskOK(c)'
  <2> DEFINE w == request[c].flow
  <2>1. AskOK(c) /\ w \in FlowIds
    BY <1>8 DEF OrdersOK, AskOK
  <2>2. flow[w] # NoRow => FlowOK(w)
    BY <2>1 DEF OrdersOK
  <2>3. flow'[w] = NoRow => flow[w] = NoRow \/ w[1] \in Cleared
    BY <1>3, <2>1, <2>2 DEF FlowOK
  <2> QED
    BY <1>1, <1>3, <2>1, <2>3 DEF AskOK
<1>9. ASSUME NEW o \in orders' PROVE OrderOK(o)'
  <2>1. o \in orders /\ o \in OrderRow /\ o.tenant \notin Cleared /\ OrderOK(o)
    BY <1>3 DEF OrdersOK
  <2>2. o.flow \in FlowIds /\ FlowOK(o.flow)
    BY <2>1 DEF OrdersOK, OrderOK, OrderRow
  <2>3. flow'[o.flow] # NoRow /\ flow'[o.flow] = flow[o.flow]
    BY <1>3, <2>1, <2>2 DEF OrderOK, FlowOK
  <2> QED
    BY <2>1, <2>3 DEF OrderOK
<1>10. orders' \subseteq OrderRow /\ DOMAIN request' = Clients
  BY <1>3 DEF OrdersOK
<1>11. \A c, d \in Clients :
         Minted(c)' /\ Minted(d)' /\ request'[c].flow = request'[d].flow => c = d
  BY <1>3, <1>6 DEF OrdersOK
<1> QED
  BY <1>3, <1>4, <1>5, <1>6, <1>7, <1>8, <1>9, <1>10, <1>11 DEF OrdersOK, Exists

\* Tokens come and die, workflows appear and are archived, under whatever requests
\* are in hand: no workflow a request or an order relies on goes back or goes away.
LEMMA OrdersRewrite ==
  ASSUME TenantsOK, OrdersOK, UNCHANGED <<tenantVars, orders, request>>,
         seeding' \in [todo : SUBSET Slugs, tenant : TenantIds \cup {NoRow}],
         token' \in [TokenIds -> TokenRow \cup {NoRow}],
         \A k \in TokenIds : token'[k] # NoRow => Exists(token'[k].tenant),
         flow' \in [FlowIds -> FlowRow \cup {NoRow}],
         \A w \in FlowIds : flow'[w] # NoRow => FlowOK(w)',
         \A w \in FlowIds : flow[w] # NoRow =>
           /\ flow'[w] # NoRow
           /\ flow'[w].current = flow[w].current /\ flow'[w].versions = flow[w].versions
  PROVE  OrdersOK'
<1>1. /\ orders' = orders /\ request' = request /\ spent' = spent /\ open' = open
      /\ tenant' = tenant
  BY DEF tenantVars
<1>2. \A c \in Clients : (Minted(c)' <=> Minted(c)) /\ (Asking(c)' <=> Asking(c))
  BY <1>1 DEF Minted, Asking
<1>3. ASSUME NEW c \in Clients, Minted(c)
      PROVE  MintOK(c)'
  BY <1>1, <1>3 DEF OrdersOK, MintOK
<1>4. ASSUME NEW c \in Clients, Asking(c)
      PROVE  AskOK(c)'
  <2> DEFINE w == request[c].flow
  <2>1. AskOK(c) /\ w \in FlowIds
    BY <1>4 DEF OrdersOK, AskOK
  <2>2. flow'[w] # NoRow => request[c].current <= flow'[w].current
    <3>1. CASE flow[w] # NoRow
      BY <2>1, <3>1 DEF AskOK
    <3>2. CASE flow[w] = NoRow /\ flow'[w] # NoRow
      <4>1. flow'[w].current >= 1 /\ Exists(w[1])
        BY <1>1, <2>1, <3>2 DEF FlowOK, Exists
      <4>2. w[1] \notin spent
        BY <2>1, <4>1 DEF TenantsOK, FlowIds
      <4>3. request[c].current = 0
        BY <2>1, <3>2, <4>2 DEF AskOK
      <4>4. flow'[w].current \in Nat
        BY <2>1, <3>2 DEF FlowRow
      <4> QED
        BY <4>1, <4>3, <4>4
    <3> QED
      BY <3>1, <3>2
  <2>3. flow'[w] = NoRow => flow[w] = NoRow
    BY <2>1
  <2> QED
    BY <1>1, <2>1, <2>2, <2>3 DEF AskOK
<1>5. ASSUME NEW o \in orders PROVE OrderOK(o)'
  BY <1>1, <1>5 DEF OrdersOK, OrderOK, OrderRow
<1>6. \A k \in TokenIds : token'[k] # NoRow => tenant'[token'[k].tenant] # NoRow
  BY <1>1 DEF Exists
<1> QED
  BY <1>1, <1>2, <1>3, <1>4, <1>5, <1>6 DEF OrdersOK, Exists

\* A request goes one step further, and perhaps writes an order: the others' are not
\* touched.
LEMMA OrdersRequest ==
  ASSUME TenantsOK, OrdersOK, NEW c \in Clients,
         UNCHANGED <<tenant, spent, token, flow, seeding>>,
         \A d \in open : d # c => d \in open',
         DOMAIN request' = Clients,
         \A d \in Clients \ {c} : request'[d] = request[d],
         Minted(c)' => /\ MintOK(c)'
                       /\ \A d \in Clients \ {c} : Minted(d) => request[d].flow # request'[c].flow,
         Asking(c)' => AskOK(c)',
         orders' \subseteq OrderRow, \A o \in orders' : OrderOK(o)'
  PROVE  OrdersOK'
<1>1. \A d \in Clients \ {c} : (Minted(d)' <=> Minted(d)) /\ (Asking(d)' <=> Asking(d))
  BY DEF Minted, Asking
<1>2. ASSUME NEW d \in Clients \ {c}, Minted(d)'
      PROVE  MintOK(d)'
  BY <1>1, <1>2 DEF OrdersOK, MintOK
<1>3. ASSUME NEW d \in Clients \ {c}, Asking(d)'
      PROVE  AskOK(d)'
  BY <1>1, <1>3 DEF OrdersOK, AskOK
<1>4. \A w \in FlowIds : flow'[w] # NoRow => FlowOK(w)'
  BY DEF OrdersOK, FlowOK, Exists
<1>5. \A d, e \in Clients :
        Minted(d)' /\ Minted(e)' /\ request'[d].flow = request'[e].flow => d = e
  BY <1>1 DEF OrdersOK
<1> QED
  BY <1>1, <1>2, <1>3, <1>4, <1>5 DEF OrdersOK, Exists

\* A bearer is minted for a tenant that is there, or dies.
LEMMA OrdersTokens ==
  ASSUME TenantsOK, OrdersOK, NEW k \in TokenIds, NEW t \in TenantIds,
         MintToken(k, t) \/ TokenDies(k), seeding' = seeding
  PROVE  OrdersOK'
<1>1. /\ UNCHANGED <<tenantVars, flow, orders, request>> /\ flow' = flow /\ tenant' = tenant
      /\ token' \in [TokenIds -> TokenRow \cup {NoRow}]
      /\ \A j \in TokenIds : token'[j] # NoRow => Exists(token'[j].tenant)
  <2>1. CASE MintToken(k, t)
    <3>1. NewToken(t) \in TokenRow /\ NewToken(t).tenant = t
      BY DEF NewToken, TokenRow
    <3> QED
      BY <2>1, <3>1 DEF MintToken, OrdersOK, tenantVars
  <2>2. CASE TokenDies(k)
    <3> DEFINE n == [token[k] EXCEPT !.live = FALSE]
    <3>1. token[k] \in TokenRow /\ token[k] # NoRow
      BY <2>2 DEF TokenDies, OrdersOK
    <3>2. n \in TokenRow /\ n.tenant = token[k].tenant
      BY <3>1 DEF TokenRow
    <3>3. token' = [token EXCEPT ![k] = n]
      BY <2>2 DEF TokenDies
    <3> HIDE DEF n
    <3> QED
      BY <2>2, <3>1, <3>2, <3>3 DEF TokenDies, OrdersOK, tenantVars
  <2> QED
    BY <2>1, <2>2
<1>2. \A w \in FlowIds : flow'[w] # NoRow => FlowOK(w)'
  BY <1>1 DEF OrdersOK, FlowOK, Exists
<1> QED
  BY <1>1, <1>2, OrdersRewrite DEF OrdersOK

\* A workflow begins with its first version.
LEMMA FirstVersion ==
  ASSUME NEW t \in TenantIds
  PROVE  /\ NewFlow(t) \in FlowRow /\ NewFlow(t) # NoRow
         /\ NewFlow(t).tenant = t /\ NewFlow(t).current = 1
         /\ NewFlow(t).versions = 1..1
<1>1. NewFlow(t) \in FlowRow
  BY DEF NewFlow, FlowRow
<1> QED
  BY <1>1, FlowsAssumption DEF NewFlow

\* A workflow appears with its first version, or is archived with all of them.
LEMMA OrdersFlows ==
  ASSUME TenantsOK, OrdersOK, NEW w \in FlowIds,
         ArchiveWorkflow(w) \/ CreateWorkflow(w), seeding' = seeding
  PROVE  OrdersOK'
<1>1. UNCHANGED <<tenantVars, token, orders, request>> /\ tenant' = tenant /\ w[1] \in TenantIds
  BY DEF ArchiveWorkflow, CreateWorkflow, tenantVars, FlowIds
<1>2. PICK r \in FlowRow :
        /\ flow' = [flow EXCEPT ![w] = r] /\ r # NoRow
        /\ Exists(w[1]) /\ r.tenant = w[1] /\ r.current >= 1 /\ r.versions = 1..r.current
        /\ flow[w] # NoRow => r.current = flow[w].current /\ r.versions = flow[w].versions
  <2>1. CASE CreateWorkflow(w)
    <3> DEFINE r == NewFlow(w[1])
    <3>1. /\ r \in FlowRow /\ r # NoRow /\ r.tenant = w[1] /\ r.current = 1
          /\ r.versions = 1..1
      BY <1>1, FirstVersion
    <3>2. flow' = [flow EXCEPT ![w] = r] /\ Exists(w[1]) /\ flow[w] = NoRow
      BY <2>1 DEF CreateWorkflow
    <3> HIDE DEF r
    <3>3. r.current >= 1 /\ r.versions = 1..r.current
      BY <3>1
    <3> QED
      BY <3>1, <3>2, <3>3
  <2>2. CASE ArchiveWorkflow(w)
    <3> DEFINE r == [flow[w] EXCEPT !.state = "archived"]
    <3>1. flow[w] \in FlowRow /\ flow[w] # NoRow /\ FlowOK(w)
      BY <2>2 DEF ArchiveWorkflow, OrdersOK
    <3>2. /\ r \in FlowRow /\ r.tenant = flow[w].tenant /\ r.current = flow[w].current
          /\ r.versions = flow[w].versions
      BY <3>1 DEF FlowRow
    <3>3. flow' = [flow EXCEPT ![w] = r]
      BY <2>2 DEF ArchiveWorkflow
    <3>4. r # NoRow
      BY <3>2, FlowsAssumption
    <3> HIDE DEF r
    <3> QED
      BY <3>1, <3>2, <3>3, <3>4 DEF FlowOK
  <2> QED
    BY <2>1, <2>2
<1>3. /\ flow' \in [FlowIds -> FlowRow \cup {NoRow}]
      /\ flow'[w] = r /\ \A x \in FlowIds \ {w} : flow'[x] = flow[x]
  BY <1>2 DEF OrdersOK
<1>4. \A x \in FlowIds : flow'[x] # NoRow => FlowOK(x)'
  BY <1>1, <1>2, <1>3 DEF OrdersOK, FlowOK, Exists
<1>5. \A x \in FlowIds : flow[x] # NoRow =>
        /\ flow'[x] # NoRow
        /\ flow'[x].current = flow[x].current /\ flow'[x].versions = flow[x].versions
  BY <1>2, <1>3
<1> QED
  BY <1>1, <1>3, <1>4, <1>5, OrdersRewrite DEF OrdersOK, tenantVars

\* The seed's: a tenant's examples and its bearer.
LEMMA OrdersSeed ==
  ASSUME TenantsOK, OrdersOK, NEW k \in TokenIds, SeedFills(k)
  PROVE  OrdersOK'
<1> DEFINE t == seeding.tenant
           fits == Exists(t) /\ \A n \in FlowNames : flow[<<t, n>>] = NoRow
<1>1. /\ UNCHANGED <<tenantVars, orders, request>> /\ tenant' = tenant
      /\ seeding \in [todo : SUBSET Slugs, tenant : TenantIds \cup {NoRow}]
      /\ t \in TenantIds
  BY DEF SeedFills, OrdersOK, tenantVars
<1>2. seeding' \in [todo : SUBSET Slugs, tenant : TenantIds \cup {NoRow}]
  BY <1>1 DEF SeedFills, Unseeded
<1>3. CASE ~fits
  <2>1. flow' = flow /\ token' = token
    BY <1>3 DEF SeedFills
  <2>2. \A w \in FlowIds : flow'[w] # NoRow => FlowOK(w)'
    BY <1>1, <2>1 DEF OrdersOK, FlowOK, Exists
  <2> QED
    BY <1>1, <1>2, <2>1, <2>2, OrdersRewrite DEF OrdersOK
<1>4. CASE fits
  <2>1. /\ flow' = [w \in FlowIds |-> IF w[1] = t THEN NewFlow(t) ELSE flow[w]]
        /\ token' = [token EXCEPT ![k] = NewToken(t)]
    BY <1>4 DEF SeedFills, WithExamples
  <2>2. /\ NewToken(t) \in TokenRow /\ NewToken(t).tenant = t
    BY <1>1 DEF NewToken, TokenRow
  <2>3. \A w \in FlowIds : w[1] = t => flow[w] = NoRow
    BY <1>4 DEF FlowIds
  <2>4. Exists(t)
    BY <1>4
  <2> HIDE DEF t, fits
  <2>5. /\ flow' \in [FlowIds -> FlowRow \cup {NoRow}]
        /\ \A w \in FlowIds : flow'[w] = IF w[1] = t THEN NewFlow(t) ELSE flow[w]
    BY <1>1, <2>1, FirstVersion DEF OrdersOK
  <2>6. \A w \in FlowIds : flow'[w] # NoRow => FlowOK(w)'
    <3> SUFFICES ASSUME NEW w \in FlowIds, flow'[w] # NoRow PROVE FlowOK(w)'
      OBVIOUS
    <3>1. CASE w[1] = t
      <4>1. /\ flow'[w].tenant = t /\ flow'[w].current = 1 /\ flow'[w].versions = 1..1
        BY <1>1, <2>5, <3>1, FirstVersion
      <4> QED
        BY <1>1, <2>4, <3>1, <4>1 DEF FlowOK, Exists
    <3>2. CASE w[1] # t
      BY <1>1, <2>5, <3>2 DEF OrdersOK, FlowOK, Exists
    <3> QED
      BY <3>1, <3>2
  <2>7. /\ token' \in [TokenIds -> TokenRow \cup {NoRow}]
        /\ \A j \in TokenIds : token'[j] # NoRow => Exists(token'[j].tenant)
    BY <2>1, <2>2, <2>4 DEF OrdersOK
  <2>8. \A w \in FlowIds : flow[w] # NoRow => flow'[w] = flow[w]
    BY <2>3, <2>5
  <2> QED
    BY <1>1, <1>2, <2>5, <2>6, <2>7, <2>8, OrdersRewrite
<1> QED
  BY <1>3, <1>4

\* Every call of the seed.
LEMMA OrdersSeedCall ==
  ASSUME TenantsOK, OrdersOK, SeedCall
  PROVE  TenantsOK' /\ OrdersOK' /\ Lasting
<1> DEFINE Seeding == [todo : SUBSET Slugs, tenant : TenantIds \cup {NoRow}]
<1>0. seeding \in Seeding
  BY DEF OrdersOK
<1>1. ASSUME SeedBegins \/ SeedDies
      PROVE  TenantsOK' /\ OrdersOK' /\ Lasting
  <2>1. UNCHANGED <<tenantVars, flowVars>> /\ open' = open
    BY <1>1 DEF SeedBegins, SeedDies, tenantVars
  <2>2. seeding' \in Seeding
    BY <1>1, DemoAssumption DEF SeedBegins, SeedDies, Unseeded
  <2>3. \A c \in Clients : Minted(c) => c \in open'
    BY <2>1 DEF OrdersOK, MintOK
  <2> QED
    BY <2>1, <2>2, <2>3, TenantsStay, OrdersStay
<1>2. ASSUME NEW t \in TenantIds, NEW s \in Slugs, SeedProvisions(t, s)
      PROVE  TenantsOK' /\ OrdersOK' /\ Lasting
  <2>1. InsertTenant(t, s) /\ UNCHANGED flowVars /\ open' = open
    BY <1>2 DEF SeedProvisions, InsertTenant
  <2>2. seeding' \in Seeding
    BY <1>0, <1>2 DEF SeedProvisions
  <2>3. \A c \in Clients : Minted(c) => c \in open'
    BY <2>1 DEF OrdersOK, MintOK
  <2> QED
    BY <2>1, <2>2, <2>3, GrowStep, OrdersStay
<1>3. ASSUME NEW k \in TokenIds, SeedFills(k)
      PROVE  TenantsOK' /\ OrdersOK' /\ Lasting
  BY <1>3, OrdersSeed, TenantsStay DEF SeedFills
<1> QED
  BY <1>1, <1>2, <1>3 DEF SeedCall

\* updateWorkflow, the number: the workflow is nobody else's to edit until the commit.
LEMMA OrdersMint ==
  ASSUME TenantsOK, OrdersOK, NEW c \in Clients, NEW w \in FlowIds, Mint(c, w),
         seeding' = seeding
  PROVE  TenantsOK' /\ OrdersOK' /\ Lasting
<1> DEFINE r == [step |-> "minted", tenant |-> flow[w].tenant, flow |-> w,
                 version |-> flow[w].current + 1]
<1>1. /\ MayRun /\ open' = open \cup {c} /\ UNCHANGED <<serial, tenant, spent>>
      /\ UNCHANGED <<token, flow, orders>>
      /\ request' = [request EXCEPT ![c] = r]
      /\ flow[w] # NoRow /\ ~Locked(w)
  BY DEF Mint, CanMint
<1>2. r.step = "minted" /\ r.flow = w /\ r.version = flow[w].current + 1
  OBVIOUS
<1> HIDE DEF r
<1>3. /\ DOMAIN request' = Clients /\ request'[c] = r
      /\ \A d \in Clients \ {c} : request'[d] = request[d]
  BY <1>1 DEF OrdersOK
<1>4. MintOK(c)'
  BY <1>1, <1>2, <1>3 DEF MintOK
<1>5. \A d \in Clients \ {c} : Minted(d) => request[d].flow # w
  BY <1>1 DEF OrdersOK, MintOK, Minted, Locked
<1>6. ~Asking(c)'
  BY <1>2, <1>3 DEF Asking
<1>7. \A o \in orders' : OrderOK(o)'
  BY <1>1 DEF OrdersOK, OrderOK
<1> QED
  BY <1>1, <1>2, <1>3, <1>4, <1>5, <1>6, <1>7, OpenStep, OrdersRequest DEF OrdersOK

\* ... and the version under it.
LEMMA OrdersVersion ==
  ASSUME TenantsOK, OrdersOK, NEW c \in Clients, InsertVersion(c), seeding' = seeding
  PROVE  TenantsOK' /\ OrdersOK' /\ Lasting
<1> DEFINE w == request[c].flow
           v == request[c].version
           r == [flow[w] EXCEPT !.current = v, !.versions = @ \cup {v}]
<1>1. /\ Minted(c) /\ open' = open \ {c} /\ UNCHANGED <<serial, tenant, spent>>
      /\ flow' = [flow EXCEPT ![w].current = v, ![w].versions = @ \cup {v}]
      /\ request' = [request EXCEPT ![c] = NoRow]
      /\ UNCHANGED <<token, orders>>
  BY DEF InsertVersion, Done, Minted
<1>2. MintOK(c) /\ w \in FlowIds /\ flow[w] # NoRow /\ v = flow[w].current + 1
  BY <1>1 DEF OrdersOK, MintOK
<1>3. flow[w] \in FlowRow /\ FlowOK(w)
  BY <1>2 DEF OrdersOK
<1>4. flow' = [flow EXCEPT ![w] = r]
  BY <1>1, <1>2, <1>3 DEF OrdersOK, FlowRow
<1>6. flow[w].current \in Nat /\ flow[w].versions \subseteq Nat
  BY <1>3 DEF FlowRow
<1>5. /\ r \in FlowRow /\ r.tenant = flow[w].tenant /\ r.current = v
      /\ r.versions = flow[w].versions \cup {v}
  <2> DEFINE x == flow[w]
             vs == x.versions \cup {v}
  <2>1. r = [x EXCEPT !.current = v, !.versions = vs]
    OBVIOUS
  <2>2. x \in FlowRow /\ v \in Nat /\ vs \in SUBSET Nat
    BY <1>2, <1>3, <1>6
  <2> HIDE DEF x, v, vs, r
  <2>3. /\ r \in FlowRow /\ r.tenant = x.tenant /\ r.current = v /\ r.versions = vs
    BY <2>1, <2>2 DEF FlowRow
  <2> QED
    BY <2>3 DEF x, vs
<1> HIDE DEF w, v, r
<1>7. r # NoRow
  BY <1>5, FlowsAssumption
<1>8. r.versions = 1..v /\ v >= 1 /\ r.tenant = w[1] /\ Exists(w[1])
  BY <1>2, <1>3, <1>5, <1>6 DEF FlowOK
<1>9. /\ flow' \in [FlowIds -> FlowRow \cup {NoRow}]
      /\ flow'[w] = r /\ \A x \in FlowIds \ {w} : flow'[x] = flow[x]
  BY <1>2, <1>4, <1>5 DEF OrdersOK
<1>10. /\ DOMAIN request' = Clients /\ request'[c] = NoRow
       /\ \A d \in Clients \ {c} : request'[d] = request[d]
  BY <1>1 DEF OrdersOK
<1>11. \A x \in FlowIds : flow'[x] # NoRow => FlowOK(x)'
  BY <1>1, <1>5, <1>8, <1>9 DEF OrdersOK, FlowOK, Exists
<1>12. \A d \in Clients :
         (Minted(d)' <=> Minted(d) /\ d # c) /\ (Asking(d)' <=> Asking(d))
  BY <1>1, <1>10 DEF Minted, Asking
<1>13. ASSUME NEW d \in Clients, Minted(d)'
       PROVE  MintOK(d)'
  <2>1. Minted(d) /\ d # c /\ MintOK(d) /\ request'[d] = request[d]
    BY <1>10, <1>12, <1>13 DEF OrdersOK
  <2>2. request[d].flow # w
    BY <1>1, <2>1 DEF OrdersOK, w
  <2> QED
    BY <1>1, <1>9, <2>1, <2>2 DEF MintOK
<1>14. ASSUME NEW d \in Clients, Asking(d)'
       PROVE  AskOK(d)'
  <2>1. Asking(d) /\ d # c /\ AskOK(d) /\ request'[d] = request[d]
    BY <1>1, <1>10, <1>12, <1>14 DEF OrdersOK, Asking, Minted
  <2>2. CASE request[d].flow = w
    <3>1. flow'[w] # NoRow /\ flow'[w].current = flow[w].current + 1
      BY <1>2, <1>5, <1>7, <1>9
    <3>2. request[d].current <= flow[w].current /\ request[d].current \in Nat
      BY <1>2, <2>1, <2>2 DEF AskOK
    <3>3. request[d].current <= flow'[w].current
      BY <1>6, <3>1, <3>2
    <3> QED
      BY <1>1, <2>1, <2>2, <3>1, <3>3 DEF AskOK
  <2>3. CASE request[d].flow # w
    BY <1>1, <1>9, <2>1, <2>3 DEF AskOK
  <2> QED
    BY <2>2, <2>3
<1>15. ASSUME NEW o \in orders PROVE OrderOK(o)'
  BY <1>5, <1>7, <1>9 DEF OrdersOK, OrderOK, OrderRow
<1>16. /\ orders' \subseteq OrderRow
       /\ \A d, e \in Clients :
            Minted(d)' /\ Minted(e)' /\ request'[d].flow = request'[e].flow => d = e
       /\ \A k \in TokenIds : token'[k] # NoRow => tenant'[token'[k].tenant] # NoRow
  BY <1>1, <1>10, <1>12 DEF OrdersOK, Exists
<1>17. OrdersOK'
  BY <1>1, <1>9, <1>10, <1>11, <1>13, <1>14, <1>15, <1>16 DEF OrdersOK, Exists
<1> QED
  BY <1>1, <1>17, CloseStep

\* A request ends, served or not.
LEMMA OrdersDone ==
  ASSUME TenantsOK, OrdersOK, NEW c \in Clients, Done(c), UNCHANGED <<token, flow, seeding>>,
         orders' \subseteq OrderRow, \A o \in orders' : OrderOK(o)
  PROVE  TenantsOK' /\ OrdersOK' /\ Lasting
<1>1. /\ open' = open \ {c} /\ UNCHANGED <<serial, tenant, spent>>
      /\ DOMAIN request' = Clients /\ request'[c] = NoRow
      /\ \A d \in Clients \ {c} : request'[d] = request[d]
  BY DEF Done, OrdersOK
<1>2. ~Minted(c)' /\ ~Asking(c)'
  BY <1>1 DEF Minted, Asking
<1>3. \A o \in orders' : OrderOK(o)'
  BY DEF OrderOK
<1> QED
  BY <1>1, <1>2, <1>3, CloseStep, OrdersRequest

\* A submission asks: what is there now is the least it will be served with.
LEMMA OrdersAsk ==
  ASSUME TenantsOK, OrdersOK, NEW c \in Clients, NEW k \in TokenIds, NEW w \in FlowIds,
         Ask(c, k, w), seeding' = seeding
  PROVE  TenantsOK' /\ OrdersOK' /\ Lasting
<1> DEFINE n == IF flow[w] = NoRow THEN 0 ELSE flow[w].current
           r == [step |-> "resolved", tenant |-> token[k].tenant, flow |-> w, token |-> k,
                 wasLive |-> token[k].live, current |-> n]
<1>1. /\ UNCHANGED tenantVars /\ UNCHANGED <<token, flow, orders>>
      /\ request' = [request EXCEPT ![c] = r]
      /\ token[k] # NoRow /\ token[k].live
  BY DEF Ask, Resolves
<1>2. token[k] \in TokenRow /\ token[k].tenant \in TenantIds /\ token[k].live = TRUE
  BY <1>1 DEF OrdersOK, TokenRow
<1>3. n \in Nat /\ (flow[w] # NoRow => n = flow[w].current) /\ (flow[w] = NoRow => n = 0)
  BY DEF OrdersOK, FlowRow
<1> HIDE DEF n
<1>4. /\ r.step = "resolved" /\ r.flow = w /\ r.tenant = token[k].tenant
      /\ r.wasLive = token[k].live /\ r.current = n /\ r.token = k
  OBVIOUS
<1>5. r \in Resolution
  BY <1>2, <1>3 DEF Resolution
<1> HIDE DEF r
<1>6. /\ DOMAIN request' = Clients /\ request'[c] = r
      /\ \A d \in Clients \ {c} : request'[d] = request[d]
  BY <1>1 DEF OrdersOK
<1>7. ~Minted(c)'
  BY <1>4, <1>6 DEF Minted
<1>8. n <= n
  BY <1>3
<1>9. AskOK(c)'
  BY <1>1, <1>2, <1>3, <1>4, <1>5, <1>6, <1>8 DEF AskOK
<1>10. \A o \in orders' : OrderOK(o)'
  BY <1>1 DEF OrdersOK, OrderOK
<1>11. /\ open' = open /\ tenant' = tenant /\ spent' = spent /\ orders' \subseteq OrderRow
  BY <1>1 DEF tenantVars, OrdersOK
<1> QED
  BY <1>1, <1>6, <1>7, <1>9, <1>10, <1>11, TenantsStay, OrdersRequest

\* ... finds the workflow, if it is its tenant's ...
LEMMA OrdersLookUp ==
  ASSUME TenantsOK, OrdersOK, NEW c \in Clients, LookUp(c), seeding' = seeding
  PROVE  TenantsOK' /\ OrdersOK' /\ Lasting
<1> DEFINE w == request[c].flow
           found == flow[w] # NoRow /\ flow[w].tenant = request[c].tenant
           r == [request[c] EXCEPT !.step = "found"]
<1>1. /\ MayRun /\ UNCHANGED <<token, flow, orders>> /\ Asking(c)
      /\ request[c].step = "resolved"
  BY DEF LookUp, Asking
<1>2. /\ AskOK(c) /\ request[c] \in Resolution /\ w \in FlowIds
  BY <1>1 DEF OrdersOK, AskOK
<1>3. CASE ~found
  <2>1. Done(c)
    BY <1>3 DEF LookUp
  <2> QED
    BY <1>1, <2>1, OrdersDone DEF OrdersOK
<1>4. CASE found
  <2>1. /\ open' = open \cup {c} /\ UNCHANGED <<serial, tenant, spent>>
        /\ request' = [request EXCEPT ![c] = r]
        /\ w[1] = request[c].tenant
    BY <1>2, <1>4 DEF LookUp, OrdersOK, FlowOK
  <2>2. /\ r \in Resolution /\ r.step = "found" /\ r.flow = w
        /\ r.tenant = request[c].tenant /\ r.wasLive = request[c].wasLive
        /\ r.current = request[c].current
    BY <1>2 DEF Resolution
  <2> HIDE DEF r
  <2>3. /\ DOMAIN request' = Clients /\ request'[c] = r
        /\ \A d \in Clients \ {c} : request'[d] = request[d]
    BY <2>1 DEF OrdersOK
  <2>4. ~Minted(c)'
    BY <2>2, <2>3 DEF Minted
  <2>5. AskOK(c)'
    BY <1>1, <1>2, <2>1, <2>2, <2>3 DEF AskOK
  <2>6. \A o \in orders' : OrderOK(o)'
    BY <1>1 DEF OrdersOK, OrderOK
  <2> QED
    BY <1>1, <2>1, <2>3, <2>4, <2>5, <2>6, OpenStep, OrdersRequest DEF OrdersOK
<1> QED
  BY <1>3, <1>4

\* The newest of versions without a gap is the current one.
LEMMA NewestIsCurrent ==
  ASSUME OrdersOK, NEW c \in Clients, request[c].flow \in FlowIds,
         flow[request[c].flow] # NoRow
  PROVE  Pinned(c) = flow[request[c].flow].current
<1> DEFINE w == request[c].flow
           n == flow[w].current
<1>1. n \in Nat /\ n >= 1 /\ flow[w].versions = 1..n
  BY DEF OrdersOK, FlowOK, FlowRow
<1>2. Pinned(c) = CHOOSE v \in 1..n : \A u \in 1..n : u <= v
  BY <1>1 DEF Pinned
<1> HIDE DEF n
<1>3. n \in 1..n /\ \A u \in 1..n : u <= n
  BY <1>1
<1>4. \A v \in 1..n : (\A u \in 1..n : u <= v) => v = n
  BY <1>1, <1>3
<1> QED
  BY <1>2, <1>3, <1>4 DEF n

\* ... reads its newest version ...
LEMMA OrdersRead ==
  ASSUME TenantsOK, OrdersOK, NEW c \in Clients, ReadVersion(c), seeding' = seeding
  PROVE  TenantsOK' /\ OrdersOK' /\ Lasting
<1> DEFINE w == request[c].flow
           q == request[c]
           r == [step |-> "pinned", tenant |-> q.tenant, flow |-> q.flow, token |-> q.token,
                 wasLive |-> q.wasLive, current |-> q.current, version |-> Pinned(c)]
<1>1. /\ UNCHANGED <<token, flow, orders>> /\ Asking(c) /\ q.step = "found"
  BY DEF ReadVersion, Asking
<1>2. AskOK(c) /\ w \in FlowIds
  BY <1>1 DEF OrdersOK, AskOK
<1>3. CASE flow[w] = NoRow
  <2>1. Done(c)
    BY <1>3 DEF ReadVersion
  <2> QED
    BY <1>1, <2>1, OrdersDone DEF OrdersOK
<1>4. CASE flow[w] # NoRow
  <2>1. UNCHANGED tenantVars /\ request' = [request EXCEPT ![c] = r]
    BY <1>4 DEF ReadVersion
  <2>2. Pinned(c) = flow[w].current /\ flow[w].current \in Nat
    BY <1>2, <1>4, NewestIsCurrent DEF OrdersOK, FlowRow
  <2>3. /\ r.step = "pinned" /\ r.flow = w /\ r.tenant = q.tenant
        /\ r.wasLive = q.wasLive /\ r.current = q.current /\ r.version = Pinned(c)
    OBVIOUS
  <2> HIDE DEF r
  <2>4. /\ DOMAIN request' = Clients /\ request'[c] = r
        /\ \A d \in Clients \ {c} : request'[d] = request[d]
    BY <2>1 DEF OrdersOK
  <2>5. ~Minted(c)'
    BY <2>3, <2>4 DEF Minted
  <2>6. AskOK(c)'
    BY <1>1, <1>2, <1>4, <2>1, <2>2, <2>3, <2>4 DEF AskOK, tenantVars
  <2>7. \A o \in orders' : OrderOK(o)'
    BY <1>1 DEF OrdersOK, OrderOK
  <2>8. open' = open /\ tenant' = tenant /\ spent' = spent /\ orders' \subseteq OrderRow
    BY <1>1, <2>1 DEF tenantVars, OrdersOK
  <2> QED
    BY <1>1, <2>1, <2>4, <2>5, <2>6, <2>7, <2>8, TenantsStay, OrdersRequest
<1> QED
  BY <1>3, <1>4

\* ... and is an order under it, if what it refers to is there still.
LEMMA OrdersEnqueue ==
  ASSUME TenantsOK, OrdersOK, NEW c \in Clients, Enqueue(c), seeding' = seeding
  PROVE  TenantsOK' /\ OrdersOK' /\ Lasting
<1> DEFINE q == request[c]
           o == [tenant |-> q.tenant, flow |-> q.flow, version |-> q.version,
                 atLeast |-> q.current, wasLive |-> q.wasLive]
<1>1. /\ Asking(c) /\ q.step = "pinned" /\ Done(c) /\ UNCHANGED <<token, flow>>
      /\ orders' = IF References(c) THEN orders \cup {o} ELSE orders
  BY DEF Enqueue, Asking
<1>2. AskOK(c)
  BY <1>1 DEF OrdersOK
<1>3. References(c) => o \in OrderRow /\ OrderOK(o)
  <2>1. /\ q.tenant \in TenantIds /\ q.flow \in FlowIds /\ q.version \in Nat /\ q.current \in Nat
        /\ q.wasLive = TRUE /\ q.current <= q.version /\ q.flow[1] = q.tenant
    BY <1>1, <1>2 DEF AskOK
  <2>2. o \in OrderRow
    BY <2>1 DEF OrderRow
  <2>3. /\ o.tenant = q.tenant /\ o.flow = q.flow /\ o.version = q.version
        /\ o.atLeast = q.current /\ o.wasLive = q.wasLive
    OBVIOUS
  <2> HIDE DEF o
  <2>4. References(c) => OrderOK(o)
    BY <2>1, <2>3 DEF References, OrderOK
  <2> QED
    BY <2>2, <2>4
<1> HIDE DEF o
<1>4. orders' \subseteq OrderRow /\ \A x \in orders' : OrderOK(x)
  BY <1>1, <1>3 DEF OrdersOK
<1> QED
  BY <1>1, <1>4, OrdersDone

\* Every call of the orders' part.
LEMMA OrdersCall ==
  ASSUME TenantsOK, OrdersOK, OrderCall, seeding' = seeding
  PROVE  TenantsOK' /\ OrdersOK' /\ Lasting
<1>1. ASSUME NEW k \in TokenIds, TokenDies(k)
      PROVE  TenantsOK' /\ OrdersOK' /\ Lasting
  <2>1. UNCHANGED tenantVars /\ token[k] \in TokenRow
    BY <1>1 DEF TokenDies, OrdersOK
  <2>2. token[k].tenant \in TenantIds
    BY <2>1 DEF TokenRow
  <2> QED
    BY <1>1, <2>1, <2>2, OrdersTokens, TenantsStay
<1>2. ASSUME NEW k \in TokenIds, NEW t \in TenantIds, MintToken(k, t)
      PROVE  TenantsOK' /\ OrdersOK' /\ Lasting
  BY <1>2, OrdersTokens, TenantsStay DEF MintToken
<1>3. ASSUME NEW w \in FlowIds, ArchiveWorkflow(w) \/ CreateWorkflow(w)
      PROVE  TenantsOK' /\ OrdersOK' /\ Lasting
  BY <1>3, OrdersFlows, TenantsStay DEF ArchiveWorkflow, CreateWorkflow
<1>4. ASSUME NEW c \in Clients, AbortRequest(c)
      PROVE  TenantsOK' /\ OrdersOK' /\ Lasting
  BY <1>4, OrdersDone DEF AbortRequest, OrdersOK
<1> QED
  BY <1>1, <1>2, <1>3, <1>4, OrdersMint, OrdersAsk, OrdersVersion, OrdersLookUp, OrdersRead,
     OrdersEnqueue DEF OrderCall

-----------------------------------------------------------------------------
(* The console.                                                              *)

\* The console's rows keep what they promise under any step that leaves them alone
\* and takes no tenant away.
LEMMA ConsoleStay ==
  ASSUME TenantsOK, ConsoleOK, Lasting, UNCHANGED consoleVars
  PROVE  ConsoleOK'
<1>1. /\ limit' = limit /\ grant' = grant /\ audit' = audit /\ untold' = untold
      /\ command' = command
  BY DEF consoleVars
<1>2. \A t \in TenantIds : tenant'[t] = NoRow => ~Exists(t)
  BY DEF Lasting
<1>3. \A g \in GrantIds : grant'[g] # NoRow => tenant'[grant'[g].tenant] # NoRow
  BY <1>1, <1>2 DEF ConsoleOK, GrantRow
<1> QED
  BY <1>1, <1>2, <1>3 DEF ConsoleOK, Exists

\* A provision gives its tenant limits, and owes a receipt.
LEMMA ConsoleProvision ==
  ASSUME TenantsOK, ConsoleOK, NEW t \in TenantIds, NEW s \in Slugs, InsertTenant(t, s),
         InsertLimit(t)
  PROVE  ConsoleOK'
<1>1. Lasting /\ tenant'[t] # NoRow
  BY GrowStep
<1>2. /\ grant' = grant /\ audit' = audit /\ command' = command
      /\ untold' \subseteq TenantIds
      /\ limit' \in [TenantIds -> Limits \cup {NoRow}]
      /\ \A u \in TenantIds \ {t} : limit'[u] = limit[u]
  BY LimitsAssumption DEF InsertLimit, ConsoleOK
<1>3. \A u \in TenantIds : tenant'[u] = NoRow => ~Exists(u) /\ u # t
  BY <1>1 DEF Lasting
<1>4. \A g \in GrantIds : grant'[g] # NoRow => tenant'[grant'[g].tenant] # NoRow
  BY <1>2, <1>3 DEF ConsoleOK, GrantRow
<1> QED
  BY <1>2, <1>3, <1>4 DEF ConsoleOK, Exists

\* A reset takes the limits, the grants and the trail of the tenants it takes.
LEMMA ConsoleClear ==
  ASSUME TenantsOK, ConsoleOK, ClearTenants, CascadeConsole
  PROVE  ConsoleOK'
<1>1. /\ \A u \in TenantIds : tenant'[u] = IF u \in Cleared THEN NoRow ELSE tenant[u]
      /\ Cleared \subseteq TenantIds
  BY ClearStep
<1>2. /\ limit' \in [TenantIds -> Limits \cup {NoRow}]
      /\ \A u \in TenantIds : limit'[u] = IF u \in Cleared THEN NoRow ELSE limit[u]
      /\ untold' = untold /\ command' = command
  BY DEF CascadeConsole, ConsoleOK
<1>3. \A u \in TenantIds : audit'[u] = IF u \in Cleared THEN <<>> ELSE audit[u]
  BY DEF CascadeConsole
<1>4. audit' \in [TenantIds -> Seq(Entries)]
  <2>1. <<>> \in Seq(Entries)
    OBVIOUS
  <2> QED
    BY <2>1 DEF CascadeConsole, ConsoleOK
<1>5. /\ grant' \in [GrantIds -> GrantRow \cup {NoRow}]
      /\ \A g \in GrantIds : grant'[g] # NoRow =>
           grant'[g] = grant[g] /\ grant[g].tenant \notin Cleared
  BY DEF CascadeConsole, Without, ConsoleOK
<1>6. \A g \in GrantIds : grant'[g] # NoRow => tenant'[grant'[g].tenant] # NoRow
  BY <1>1, <1>5 DEF ConsoleOK, GrantRow, Exists
<1>7. \A t \in TenantIds : tenant'[t] = NoRow => limit'[t] = NoRow /\ audit'[t] = <<>>
  BY <1>1, <1>2, <1>3 DEF ConsoleOK, Exists
<1> QED
  BY <1>2, <1>4, <1>5, <1>6, <1>7 DEF ConsoleOK, Exists

\* A trail with one more entry is a trail.
LEMMA TrailGrows ==
  ASSUME ConsoleOK, NEW t \in TenantIds, NEW action \in Entries
  PROVE  /\ Append(audit[t], action) \in Seq(Entries)
         /\ Len(Append(audit[t], action)) = Len(audit[t]) + 1
         /\ Append(audit[t], action)[Len(audit[t]) + 1] = action
         /\ Len(audit[t]) \in Nat
BY AppendProperties DEF ConsoleOK

\* What the four changes do to the tables, told apart from who asked.
LEMMA ActStep ==
  ASSUME TenantsOK, ConsoleOK, NEW c \in Clients, Act(c)
  PROVE  TenantsOK' /\ ConsoleOK' /\ Lasting
<1> DEFINE m == command[c]
           t == m.tenant
<1>1. /\ UNCHANGED <<serial, open, spent, untold>> /\ m \in Command
      /\ command' = [command EXCEPT ![c] = NoRow]
  BY DEF Act, ConsoleOK
<1>2. command' \in [Clients -> Command \cup {NoRow}]
  BY <1>1 DEF ConsoleOK
<1>3. /\ t \in TenantIds
      /\ m.op = "limit" => m.to \in Limits
      /\ m.op = "state" => m.to \in States
      /\ m.op \in {"grant", "revoke"} => m.to \in GrantIds
  BY <1>1 DEF Command
<1> HIDE DEF m
<1>4. CASE UpdateEntitlements(c)
  <2> DEFINE moved == limit[t] # NoRow /\ m.to # TooLow
  <2>1. /\ m.op = "limit"
        /\ limit' = IF moved THEN [limit EXCEPT ![t] = m.to] ELSE limit
        /\ audit' = [audit EXCEPT ![t] = IF moved THEN Append(@, "entitlements.updated") ELSE @]
        /\ UNCHANGED <<tenant, grant>>
    BY <1>4 DEF UpdateEntitlements, m, Receipt
  <2>2. moved \in BOOLEAN /\ (moved => Exists(t))
    BY <1>3 DEF ConsoleOK
  <2> HIDE DEF moved
  <2>3. /\ audit' \in [TenantIds -> Seq(Entries)]
        /\ \A u \in TenantIds \ {t} : audit'[u] = audit[u]
        /\ ~moved => audit'[t] = audit[t]
    <3>0. "entitlements.updated" \in Entries
      BY DEF Entries
    <3>1. Append(audit[t], "entitlements.updated") \in Seq(Entries)
      BY <1>3, <3>0, TrailGrows
    <3>2. audit \in [TenantIds -> Seq(Entries)]
      BY DEF ConsoleOK
    <3> QED
      BY <1>3, <2>1, <2>2, <3>1, <3>2
  <2>4. /\ limit' \in [TenantIds -> Limits \cup {NoRow}]
        /\ \A u \in TenantIds \ {t} : limit'[u] = limit[u]
        /\ ~moved => limit' = limit
    BY <1>3, <2>1 DEF ConsoleOK
  <2>5. TenantsOK' /\ Lasting
    BY <1>1, <2>1, TenantsStay DEF tenantVars
  <2>6. ConsoleOK'
    BY <1>1, <1>2, <2>1, <2>2, <2>3, <2>4 DEF ConsoleOK, Exists
  <2> QED
    BY <2>5, <2>6
<1>5. CASE SetTenantState(c)
  <2> DEFINE moved == Exists(t) /\ tenant[t].state # m.to
  <2>1. /\ m.op = "state"
        /\ tenant' = IF moved THEN [tenant EXCEPT ![t].state = m.to] ELSE tenant
        /\ audit' = [audit EXCEPT ![t] = IF moved THEN Append(@, "tenant.state-changed") ELSE @]
        /\ UNCHANGED <<limit, grant>>
    BY <1>5 DEF SetTenantState, m, Receipt
  <2>2. moved \in BOOLEAN /\ (moved => Exists(t))
    BY DEF Exists
  <2>3. TenantsOK' /\ Lasting /\ \A u \in TenantIds : Exists(u)' <=> Exists(u)
    <3>1. CASE moved
      BY <1>1, <1>3, <2>1, <3>1, RestateStep
    <3>2. CASE ~moved
      BY <1>1, <2>1, <3>2, TenantsStay DEF tenantVars, Exists
    <3> QED
      BY <3>1, <3>2
  <2> HIDE DEF moved
  <2>4. /\ audit' \in [TenantIds -> Seq(Entries)]
        /\ \A u \in TenantIds \ {t} : audit'[u] = audit[u]
        /\ ~moved => audit'[t] = audit[t]
    <3>0. "tenant.state-changed" \in Entries
      BY DEF Entries
    <3>1. Append(audit[t], "tenant.state-changed") \in Seq(Entries)
      BY <1>3, <3>0, TrailGrows
    <3>2. audit \in [TenantIds -> Seq(Entries)]
      BY DEF ConsoleOK
    <3> QED
      BY <1>3, <2>1, <2>2, <3>1, <3>2
  <2>5. \A g \in GrantIds : grant[g] # NoRow => Exists(grant[g].tenant) /\ grant[g].tenant \in TenantIds
    BY DEF ConsoleOK, GrantRow
  <2>6. \A g \in GrantIds : grant'[g] # NoRow => tenant'[grant'[g].tenant] # NoRow
    BY <2>1, <2>3, <2>5 DEF Exists
  <2>7. ConsoleOK'
    BY <1>1, <1>2, <2>1, <2>2, <2>3, <2>4, <2>6 DEF ConsoleOK, Exists
  <2> QED
    BY <2>3, <2>7
<1>6. CASE GrantSupport(c)
  <2> DEFINE g == m.to
             made == Tied(t) /\ grant[g] = NoRow
             r == [tenant |-> t, revoked |-> FALSE]
  <2>1. /\ m.op = "grant"
        /\ grant' = IF made THEN [grant EXCEPT ![g] = r] ELSE grant
        /\ audit' = [audit EXCEPT ![t] = IF made THEN Append(@, "support.granted") ELSE @]
        /\ UNCHANGED <<tenant, limit>>
    BY <1>6 DEF GrantSupport, m, Receipt
  <2>2. made \in BOOLEAN /\ (made => Exists(t)) /\ g \in GrantIds
    BY <1>3, <2>1 DEF Tied
  <2>3. r \in GrantRow /\ r.tenant = t
    BY <1>3 DEF GrantRow
  <2> HIDE DEF made, r
  <2>4. /\ audit' \in [TenantIds -> Seq(Entries)]
        /\ \A u \in TenantIds \ {t} : audit'[u] = audit[u]
        /\ ~made => audit'[t] = audit[t]
    <3>0. "support.granted" \in Entries
      BY DEF Entries
    <3>1. Append(audit[t], "support.granted") \in Seq(Entries)
      BY <1>3, <3>0, TrailGrows
    <3>2. audit \in [TenantIds -> Seq(Entries)]
      BY DEF ConsoleOK
    <3> QED
      BY <1>3, <2>1, <2>2, <3>1, <3>2
  <2>5. /\ grant' \in [GrantIds -> GrantRow \cup {NoRow}]
        /\ \A h \in GrantIds : grant'[h] # NoRow => Exists(grant'[h].tenant)
    BY <2>1, <2>2, <2>3 DEF ConsoleOK
  <2>6. TenantsOK' /\ Lasting
    BY <1>1, <2>1, TenantsStay DEF tenantVars
  <2>7. ConsoleOK'
    BY <1>1, <1>2, <2>1, <2>2, <2>4, <2>5 DEF ConsoleOK, Exists
  <2> QED
    BY <2>6, <2>7
<1>7. CASE RevokeGrant(c)
  <2> DEFINE g == m.to
             closed == grant[g] # NoRow /\ grant[g].tenant = t /\ ~grant[g].revoked
             r == [grant[g] EXCEPT !.revoked = TRUE]
  <2>1. /\ m.op = "revoke"
        /\ grant' = IF closed THEN [grant EXCEPT ![g] = r] ELSE grant
        /\ audit' = [audit EXCEPT ![t] = IF closed THEN Append(@, "support.revoked") ELSE @]
        /\ UNCHANGED <<tenant, limit>>
    BY <1>7 DEF RevokeGrant, m, Receipt
  <2>2. g \in GrantIds /\ (closed => grant[g] \in GrantRow)
    BY <1>3, <2>1 DEF ConsoleOK
  <2>3. closed \in BOOLEAN /\ (closed => Exists(t))
    BY <2>2 DEF ConsoleOK
  <2>4. closed => r \in GrantRow /\ r.tenant = t
    BY <2>2 DEF GrantRow
  <2> HIDE DEF closed, r
  <2>5. /\ audit' \in [TenantIds -> Seq(Entries)]
        /\ \A u \in TenantIds \ {t} : audit'[u] = audit[u]
        /\ ~closed => audit'[t] = audit[t]
    <3>0. "support.revoked" \in Entries
      BY DEF Entries
    <3>1. Append(audit[t], "support.revoked") \in Seq(Entries)
      BY <1>3, <3>0, TrailGrows
    <3>2. audit \in [TenantIds -> Seq(Entries)]
      BY DEF ConsoleOK
    <3> QED
      BY <1>3, <2>1, <2>3, <3>1, <3>2
  <2>6. /\ grant' \in [GrantIds -> GrantRow \cup {NoRow}]
        /\ \A h \in GrantIds : grant'[h] # NoRow => Exists(grant'[h].tenant)
    BY <2>1, <2>2, <2>3, <2>4 DEF ConsoleOK
  <2>7. TenantsOK' /\ Lasting
    BY <1>1, <2>1, TenantsStay DEF tenantVars
  <2>8. ConsoleOK'
    BY <1>1, <1>2, <2>1, <2>3, <2>5, <2>6 DEF ConsoleOK, Exists
  <2> QED
    BY <2>7, <2>8
<1> QED
  BY <1>4, <1>5, <1>6, <1>7 DEF Act

\* Every call of the console.
LEMMA ConsoleStep ==
  ASSUME TenantsOK, ConsoleOK, ConsoleCall
  PROVE  TenantsOK' /\ ConsoleOK' /\ Lasting
<1>1. ASSUME NEW c \in Clients, NEW t \in TenantIds, NEW m \in Commands(t), LookUpTenant(c, m)
      PROVE  TenantsOK' /\ ConsoleOK' /\ Lasting
  <2>1. m \in Command
    BY DEF Commands, Command
  <2>2. /\ UNCHANGED <<tenantVars, limit, grant, audit, untold>> /\ tenant' = tenant
        /\ command' = [command EXCEPT ![c] = m]
    BY <1>1 DEF LookUpTenant, tenantVars
  <2>3. ConsoleOK'
    BY <2>1, <2>2 DEF ConsoleOK, Exists
  <2> QED
    BY <2>2, <2>3, TenantsStay
<1>2. ASSUME NEW t \in TenantIds, TellProvisioned(t)
      PROVE  TenantsOK' /\ ConsoleOK' /\ Lasting
  <2>1. /\ UNCHANGED <<tenantVars, limit, grant, command>> /\ tenant' = tenant
        /\ untold' \subseteq untold
        /\ audit' = IF Exists(t) THEN [audit EXCEPT ![t] = Append(@, "tenant.provisioned")]
                    ELSE audit
    BY <1>2 DEF TellProvisioned, Tied, tenantVars
  <2>2. "tenant.provisioned" \in Entries
    BY DEF Entries
  <2>3. Append(audit[t], "tenant.provisioned") \in Seq(Entries)
    BY <2>2, TrailGrows
  <2>4. /\ audit' \in [TenantIds -> Seq(Entries)]
        /\ \A u \in TenantIds : ~Exists(u) => audit'[u] = audit[u]
    BY <2>1, <2>3 DEF ConsoleOK
  <2>5. ConsoleOK'
    BY <2>1, <2>4 DEF ConsoleOK, Exists
  <2> QED
    BY <2>1, <2>5, TenantsStay
<1>3. ASSUME ConsoleCrash
      PROVE  TenantsOK' /\ ConsoleOK' /\ Lasting
  <2>1. /\ UNCHANGED <<tenantVars, limit, grant, audit>> /\ tenant' = tenant
        /\ untold' = {} /\ command' \in [Clients -> Command \cup {NoRow}]
    BY <1>3 DEF ConsoleCrash, tenantVars
  <2>2. ConsoleOK'
    BY <2>1 DEF ConsoleOK, Exists
  <2> QED
    BY <2>1, <2>2, TenantsStay
<1> QED
  BY <1>1, <1>2, <1>3, ActStep DEF ConsoleCall

-----------------------------------------------------------------------------
(* The invariant.                                                            *)

\* Nobody is there at first.
LEMMA CInit ==
  ASSUME Init
  PROVE  CInv
<1>1. TenantsOK
  BY DEF Init, TenancyInit, TenantsOK, Exists
<1>2. PartOK
  BY DEF Init, TenancyInit, WorkflowsInit, PartOK
<1>3. MembersOK
  BY DEF Init, TenancyInit, MembersOK, Withdrawable
<1>4. OrdersOK
  BY DEF Init, WorkflowsInit, DemoInit, Unseeded, OrdersOK, Minted, Asking
<1>5. ConsoleOK
  <2>1. <<>> \in Seq(Entries)
    OBVIOUS
  <2>2. audit \in [TenantIds -> Seq(Entries)]
    BY <2>1 DEF Init, ConsoleInit
  <2> QED
    BY <2>2 DEF Init, ConsoleInit, ConsoleOK
<1> QED
  BY <1>1, <1>2, <1>3, <1>4, <1>5 DEF CInv

\* The rows of one part lie still under the calls of another, whose transactions
\* are none of theirs.
LEMMA CStep ==
  ASSUME CInv, [Next]_vars
  PROVE  CInv'
<1> USE DEF CInv
<1>0. /\ \A c \in Clients : accepting[c] # NoRow => part = "members" /\ c \in open
      /\ \A c \in Clients : Minted(c) => part = "orders" /\ c \in open
  BY DEF PartOK, MembersOK, AcceptOK, OrdersOK, MintOK, Minted
<1>1. ASSUME NEW t \in TenantIds, NEW s \in Slugs, NEW e \in Emails, Provision(t, s, e)
      PROVE  CInv'
  <2>1. /\ InsertTenant(t, s) /\ open' = open /\ UNCHANGED <<flowVars, seeding, part>>
        /\ InsertOwner(t, e) \/ UNCHANGED memberVars
        /\ InsertLimit(t) \/ UNCHANGED consoleVars
        /\ accepting' = accepting /\ request' = request /\ serial' = serial
    BY <1>1 DEF Provision, InsertTenant, InsertOwner, memberVars, flowVars
  <2>2. TenantsOK' /\ Lasting
    BY <2>1, GrowStep
  <2>3. MembersOK'
    BY <1>0, <2>1, <2>2, MembersProvision, MembersStay
  <2>4. OrdersOK'
    BY <1>0, <2>1, <2>2, OrdersStay DEF OrdersOK
  <2>5. ConsoleOK'
    BY <2>1, <2>2, ConsoleProvision, ConsoleStay
  <2>6. PartOK'
    BY <2>1 DEF PartOK
  <2> QED
    BY <2>2, <2>3, <2>4, <2>5, <2>6
<1>2. ASSUME ClearDemo
      PROVE  CInv'
  <2>1. /\ ClearTenants /\ CascadeMembers /\ CascadeFlows /\ CascadeConsole
        /\ \A w \in FlowIds : Locked(w) => flow[w].tenant \notin Cleared
        /\ seeding' = seeding /\ part' = part /\ accepting' = accepting
        /\ request' = request /\ serial' = serial
    BY <1>2 DEF ClearDemo, ClearTenants, CascadeMembers, CascadeFlows
  <2>2. TenantsOK'
    BY <2>1, ClearStep
  <2>3. MembersOK' /\ OrdersOK' /\ ConsoleOK'
    BY <2>1, MembersClear, OrdersClear, ConsoleClear
  <2>4. PartOK'
    BY <2>1 DEF PartOK
  <2> QED
    BY <2>2, <2>3, <2>4
<1>3. ASSUME part = "members", MemberCall, UNCHANGED <<flowVars, seeding, consoleVars, part>>
      PROVE  CInv'
  <2>1. TenantsOK' /\ MembersOK' /\ Lasting
    BY <1>3, MembersCall
  <2>2. \A c \in Clients : ~Minted(c)
    BY <1>0, <1>3
  <2>3. OrdersOK' /\ ConsoleOK'
    BY <1>3, <2>1, <2>2, OrdersStay, ConsoleStay DEF OrdersOK
  <2>4. PartOK'
    BY <1>3 DEF PartOK, flowVars
  <2> QED
    BY <2>1, <2>3, <2>4
<1>4. ASSUME part = "orders", UNCHANGED <<memberVars, consoleVars, part>>,
             TenantsOK' /\ OrdersOK' /\ Lasting
      PROVE  CInv'
  <2>1. \A c \in Clients : accepting[c] = NoRow
    BY <1>0, <1>4
  <2>2. MembersOK' /\ ConsoleOK'
    BY <1>4, <2>1, MembersStay, ConsoleStay
  <2>3. PartOK'
    BY <1>4 DEF PartOK, memberVars
  <2> QED
    BY <1>4, <2>2, <2>3
<1>5. ASSUME part = "orders", OrderCall, UNCHANGED <<memberVars, seeding, consoleVars, part>>
      PROVE  CInv'
  BY <1>4, <1>5, OrdersCall
<1>6. ASSUME part = "orders", SeedCall, UNCHANGED <<memberVars, consoleVars, part>>
      PROVE  CInv'
  BY <1>4, <1>6, OrdersSeedCall
<1>7. ASSUME part = "console", ConsoleCall, UNCHANGED <<memberVars, flowVars, seeding, part>>
      PROVE  CInv'
  <2>1. TenantsOK' /\ ConsoleOK' /\ Lasting
    BY <1>7, ConsoleStep
  <2>2. \A c \in Clients : ~Minted(c) /\ accepting[c] = NoRow
    BY <1>0, <1>7
  <2>3. MembersOK' /\ OrdersOK'
    BY <1>7, <2>1, <2>2, MembersStay, OrdersStay DEF OrdersOK
  <2>4. PartOK'
    BY <1>7, <2>1 DEF PartOK, memberVars, flowVars, Lasting
  <2> QED
    BY <2>1, <2>3, <2>4
<1>8. CASE UNCHANGED vars
  <2>1. UNCHANGED <<tenantVars, memberVars, flowVars, seeding, consoleVars, part>>
    BY <1>8 DEF vars
  <2>2. TenantsOK' /\ Lasting /\ open' = open /\ serial' = serial
    BY <2>1, TenantsStay DEF tenantVars
  <2>3. MembersOK' /\ OrdersOK' /\ ConsoleOK'
    BY <1>0, <2>1, <2>2, MembersStay, OrdersStay, ConsoleStay DEF OrdersOK
  <2>4. PartOK'
    BY <2>1, <2>2 DEF PartOK, memberVars, flowVars
  <2> QED
    BY <2>2, <2>3, <2>4
<1> QED
  BY <1>1, <1>2, <1>3, <1>5, <1>6, <1>7, <1>8 DEF Next

\* The control plane keeps its invariant, whatever calls of whichever clients come
\* between each other and the resets.
THEOREM ControlPlaneInvariant == Spec => []CInv
<1>1. Init => CInv
  BY CInit
<1>2. CInv /\ [Next]_vars => CInv'
  BY CStep
<1> QED
  BY <1>1, <1>2, PTL DEF Spec

-----------------------------------------------------------------------------
(* What follows.                                                             *)

\* Rows have their shape, a slug has one tenant, a pending invite one address, and
\* no row outlives its tenant: for every set of ids and any calls in flight when a
\* tenant is cleared (sql/001, 003, 004, 007, 008).
THEOREM NoRowOutlivesItsTenant == Spec => []RowsAreSound
<1>1. CInv => RowsAreSound
  <2> SUFFICES ASSUME CInv PROVE RowsAreSound
    OBVIOUS
  <2> USE DEF CInv
  <2>1. \A t \in TenantIds : Exists(t) => tenant[t] \in TenantRow
    BY DEF TenantsOK, Exists
  <2>2. ASSUME NEW s \in Slugs
        PROVE  Cardinality({t \in TenantIds : Exists(t) /\ tenant[t].slug = s}) <= 1
    <3> DEFINE S == {t \in TenantIds : Exists(t) /\ tenant[t].slug = s}
    <3>1. \A t, u \in S : t = u
      BY DEF TenantsOK
    <3> HIDE DEF S
    <3>2. CASE S = {}
      <4>1. Cardinality(S) = 0
        BY <3>2, FS_EmptySet
      <4> QED
        BY <4>1 DEF S
    <3>3. CASE S # {}
      <4>1. PICK t \in S : TRUE
        BY <3>3
      <4>2. S = {t}
        BY <3>1, <4>1
      <4>3. Cardinality(S) = 1
        BY <4>2, FS_Singleton
      <4> QED
        BY <4>3 DEF S
    <3> QED
      BY <3>2, <3>3
  <2>3. /\ \A i \in InviteIds : invite[i] # NoRow => Exists(invite[i].tenant)
        /\ \A k \in TokenIds : token[k] # NoRow => Exists(token[k].tenant)
        /\ \A w \in FlowIds : flow[w] # NoRow => Exists(flow[w].tenant)
        /\ \A g \in GrantIds : grant[g] # NoRow => Exists(grant[g].tenant)
    BY DEF MembersOK, OrdersOK, FlowOK, ConsoleOK
  <2>4. /\ DOMAIN invite = InviteIds /\ DOMAIN token = TokenIds
        /\ DOMAIN flow = FlowIds /\ DOMAIN grant = GrantIds
    BY DEF MembersOK, OrdersOK, ConsoleOK
  <2>5. \A r \in RowsOf(invite) \cup RowsOf(token) \cup RowsOf(flow) \cup RowsOf(grant) :
          Exists(r.tenant)
    BY <2>3, <2>4 DEF RowsOf
  <2>6. /\ \A p \in user : Exists(p[1])
        /\ \A p \in DOMAIN seat : seat[p] # NoRow => p \in user
    BY DEF MembersOK
  <2>7. \A t \in TenantIds : ~Exists(t) => limit[t] = NoRow /\ audit[t] = <<>>
    BY DEF ConsoleOK
  <2>8. \A o \in orders : Exists(o.tenant)
    <3> TAKE o \in orders
    <3>1. o.flow \in FlowIds /\ OrderOK(o)
      BY DEF OrdersOK, OrderRow
    <3> QED
      BY <3>1 DEF OrdersOK, OrderOK, FlowOK
  <2>9. \A i, j \in InviteIds :
          i # j /\ Usable(i) /\ Usable(j)
            => invite[i].tenant # invite[j].tenant \/ invite[i].email # invite[j].email
    BY DEF MembersOK, Usable, Withdrawable
  <2> QED
    BY <2>1, <2>2, <2>5, <2>6, <2>7, <2>8, <2>9 DEF RowsAreSound
<1> QED
  BY <1>1, ControlPlaneInvariant, PTL

\* An order runs under a version of its own tenant's workflow, no older than the one
\* that was current when it was asked for, by a bearer that was live then
\* (workflows/store.ts 228-304, server/api.ts 160-181).
THEOREM PinsHold == Spec => []OrdersPinTheCurrent
<1>1. CInv => OrdersPinTheCurrent
  <2> SUFFICES ASSUME CInv PROVE OrdersPinTheCurrent
    OBVIOUS
  <2> USE DEF CInv
  <2>1. \A w \in FlowIds : flow[w] # NoRow => flow[w].versions = 1..flow[w].current
    BY DEF OrdersOK, FlowOK
  <2>2. ASSUME NEW o \in orders
        PROVE  /\ o.wasLive /\ o.version >= o.atLeast
               /\ flow[o.flow] # NoRow /\ flow[o.flow].tenant = o.tenant
               /\ o.version \in flow[o.flow].versions
    <3>1. /\ o.flow \in FlowIds /\ OrderOK(o) /\ o.version \in Nat /\ o.atLeast \in Nat
      BY DEF OrdersOK, OrderRow
    <3>2. FlowOK(o.flow)
      BY <3>1 DEF OrdersOK, OrderOK
    <3> QED
      BY <3>1, <3>2 DEF OrderOK, FlowOK
  <2> QED
    BY <2>1, <2>2 DEF OrdersPinTheCurrent
<1> QED
  BY <1>1, ControlPlaneInvariant, PTL

\* On the engine that serialises, no invite that has been redeemed or withdrawn
\* changes again (tenancy/members.ts 101-173).
THEOREM InvitesSettle == Spec => InviteSettlesOnce
<1> DEFINE Once(i) == invite[i] # NoRow /\ invite'[i] # NoRow /\ invite'[i].state # invite[i].state
                        => invite[i].state = "pending"
<1>1. CInv /\ [Next]_vars => [serial => \A i \in InviteIds : Once(i)]_vars
  <2> SUFFICES ASSUME CInv, Next, serial, NEW i \in InviteIds PROVE Once(i)
    BY DEF Once
  <2> USE DEF CInv
  <2>0. ASSUME invite' = invite PROVE Once(i)
    BY <2>0
  <2>1. ASSUME NEW t \in TenantIds, NEW s \in Slugs, NEW e \in Emails, Provision(t, s, e)
        PROVE  Once(i)
    BY <2>0, <2>1 DEF Provision, InsertOwner, memberVars
  <2>2. ASSUME ClearDemo PROVE Once(i)
    <3>1. invite'[i] # NoRow => invite'[i] = invite[i]
      BY <2>2 DEF ClearDemo, CascadeMembers, Without, MembersOK
    <3> QED
      BY <3>1
  <2>3. ASSUME UNCHANGED memberVars PROVE Once(i)
    BY <2>0, <2>3 DEF memberVars
  <2>4. ASSUME MemberCall PROVE Once(i)
    <3>1. ASSUME NEW j \in InviteIds, NEW t \in TenantIds, NEW e \in Emails, NEW r \in Roles,
                 InviteMember(j, t, e, r)
          PROVE  Once(i)
      BY <3>1 DEF InviteMember, MembersOK
    <3>2. ASSUME NEW j \in InviteIds, RevokeInvite(j)
          PROVE  Once(i)
      BY <3>2 DEF RevokeInvite, Withdrawable, MembersOK
    <3>3. ASSUME NEW j \in InviteIds, InviteExpires(j)
          PROVE  Once(i)
      <4> DEFINE r == [invite[j] EXCEPT !.expired = TRUE]
      <4>1. invite[j] \in InviteRow /\ invite' = [invite EXCEPT ![j] = r]
        BY <3>3 DEF InviteExpires, MembersOK
      <4>2. r.state = invite[j].state
        BY <4>1 DEF InviteRow
      <4> HIDE DEF r
      <4> QED
        BY <4>1, <4>2 DEF MembersOK
    <3>4. ASSUME NEW c \in Clients, FinishAccept(c)
          PROVE  Once(i)
      <4>1. accepting[c].id \in InviteIds /\ Withdrawable(accepting[c].id)
        BY <3>4 DEF FinishAccept, MembersOK, Acceptance, AcceptOK
      <4> QED
        BY <3>4, <4>1 DEF FinishAccept, MembersOK, Withdrawable
    <3>5. ASSUME NEW c \in Clients, AbortAccept(c)
          PROVE  Once(i)
      BY <2>0, <3>5 DEF AbortAccept
    <3>6. ASSUME NEW c \in Clients, NEW j \in InviteIds, BeginAccept(c, j)
          PROVE  Once(i)
      BY <2>0, <3>6 DEF BeginAccept
    <3>7. ASSUME NEW t \in TenantIds, NEW e \in Emails, RevokeMembership(t, e)
          PROVE  Once(i)
      BY <2>0, <3>7 DEF RevokeMembership
    <3> QED
      BY <2>4, <3>1, <3>2, <3>3, <3>4, <3>5, <3>6, <3>7 DEF MemberCall
  <2> HIDE DEF Once
  <2> QED
    BY <2>1, <2>2, <2>3, <2>4 DEF Next
<1> QED
  BY <1>1, ControlPlaneInvariant, PTL DEF Spec, InviteSettlesOnce, Once

-----------------------------------------------------------------------------
(* Receipts.                                                                 *)

GrantsOf(t) == {g \in GrantIds : grant[g] # NoRow /\ grant[g].tenant = t}
ClosedOf(t) == {g \in GrantsOf(t) : grant[g].revoked}
Told(t, action) == Len(audit'[t]) > Len(audit[t]) /\ audit'[t] = Append(audit[t], action)

Recorded(t) ==
  /\ (tenant'[t] # tenant[t]) <=> Told(t, "tenant.state-changed")
  /\ (GrantsOf(t)' # GrantsOf(t)) <=> Told(t, "support.granted")
  /\ (ClosedOf(t)' # ClosedOf(t)) <=> Told(t, "support.revoked")
  /\ limit'[t] # limit[t] => Told(t, "entitlements.updated")

\* One entry tells one thing.
LEMMA OneEntry ==
  ASSUME ConsoleOK, NEW t \in TenantIds, NEW a \in Entries, audit'[t] = Append(audit[t], a)
  PROVE  Told(t, a) /\ \A b \in Entries : Told(t, b) => b = a
<1>1. /\ Len(audit'[t]) = Len(audit[t]) + 1 /\ Len(audit[t]) \in Nat
      /\ audit'[t][Len(audit[t]) + 1] = a
  BY TrailGrows
<1>2. Told(t, a)
  BY <1>1 DEF Told
<1>3. ASSUME NEW b \in Entries, Told(t, b) PROVE b = a
  <2>1. audit'[t] = Append(audit[t], b)
    BY <1>3 DEF Told
  <2>2. Append(audit[t], b)[Len(audit[t]) + 1] = b
    BY TrailGrows
  <2> QED
    BY <1>1, <2>1, <2>2
<1> QED
  BY <1>2, <1>3

\* Nothing is told of a tenant to whom nothing happens.
LEMMA NothingToTell ==
  ASSUME ConsoleOK, NEW t \in TenantIds,
         tenant'[t] = tenant[t], limit'[t] = limit[t], audit'[t] = audit[t],
         \A g \in GrantIds : grant'[g] = grant[g] \/ (g \notin GrantsOf(t) /\ g \notin GrantsOf(t)')
  PROVE  Recorded(t)
<1>1. Len(audit[t]) \in Nat
  BY DEF ConsoleOK
<1>2. \A a : ~Told(t, a)
  BY <1>1 DEF Told
<1>3. GrantsOf(t)' = GrantsOf(t)
  BY DEF GrantsOf
<1>4. ClosedOf(t)' = ClosedOf(t)
  BY <1>3 DEF GrantsOf, ClosedOf
<1> QED
  BY <1>2, <1>3, <1>4 DEF Recorded

\* The members' and the orders' calls change no tenant's row, and a seed only adds.
LEMMA TenantsUntouched ==
  ASSUME MemberCall \/ OrderCall \/ SeedCall, NEW t \in TenantIds, Exists(t), TenantsOK
  PROVE  tenant'[t] = tenant[t]
<1>1. CASE MemberCall
  <2>1. tenant' = tenant
    BY <1>1 DEF MemberCall, InviteMember, RevokeInvite, InviteExpires, RevokeMembership,
       FinishAccept, AbortAccept, BeginAccept, Leave, tenantVars
  <2> QED
    BY <2>1
<1>2. CASE OrderCall
  <2>1. ASSUME NEW c \in Clients,
               \/ InsertVersion(c) \/ LookUp(c) \/ ReadVersion(c) \/ Enqueue(c)
               \/ AbortRequest(c)
        PROVE  tenant' = tenant
    BY <2>1 DEF InsertVersion, LookUp, ReadVersion, Enqueue, AbortRequest, Done, tenantVars
  <2>2. ASSUME NEW c \in Clients, NEW w \in FlowIds, NEW k \in TokenIds,
               Mint(c, w) \/ Ask(c, k, w)
        PROVE  tenant' = tenant
    BY <2>2 DEF Mint, Ask, tenantVars
  <2>3. ASSUME NEW w \in FlowIds, ArchiveWorkflow(w) \/ CreateWorkflow(w)
        PROVE  tenant' = tenant
    BY <2>3 DEF ArchiveWorkflow, CreateWorkflow, tenantVars
  <2>4. ASSUME NEW k \in TokenIds, NEW u \in TenantIds, TokenDies(k) \/ MintToken(k, u)
        PROVE  tenant' = tenant
    BY <2>4 DEF TokenDies, MintToken, tenantVars
  <2>5. ASSUME NEW c \in Clients, NEW w \in FlowIds, Mint(c, w)
        PROVE  tenant' = tenant
    BY <2>5 DEF Mint
  <2>6. ASSUME NEW k \in TokenIds, TokenDies(k)
        PROVE  tenant' = tenant
    BY <2>6 DEF TokenDies, tenantVars
  <2> QED
    BY <1>2, <2>1, <2>2, <2>3, <2>4, <2>5, <2>6 DEF OrderCall
<1>3. CASE SeedCall
  <2>1. ASSUME NEW u \in TenantIds, NEW s \in Slugs, SeedProvisions(u, s)
        PROVE  tenant'[t] = tenant[t]
    <3>1. InsertTenant(u, s) /\ t # u
      BY <2>1 DEF SeedProvisions, InsertTenant
    <3> QED
      BY <3>1, GrowStep
  <2>2. ASSUME NEW k \in TokenIds, SeedFills(k)
        PROVE  tenant' = tenant
    BY <2>2 DEF SeedFills, tenantVars
  <2> QED
    BY <1>3, <2>1, <2>2 DEF SeedCall, SeedBegins, SeedDies, tenantVars
<1> QED
  BY <1>1, <1>2, <1>3

\* A change and its entry are made together, or neither is.
LEMMA ActIsRecorded ==
  ASSUME TenantsOK, ConsoleOK, NEW c \in Clients, Act(c), NEW u \in TenantIds, Exists(u)
  PROVE  Recorded(u)
<1> DEFINE m == command[c]
           t == m.tenant
<1>1. m \in Command
  BY DEF Act, ConsoleOK
<1>2. /\ t \in TenantIds
      /\ m.op = "state" => m.to \in States
      /\ m.op \in {"grant", "revoke"} => m.to \in GrantIds
  BY <1>1 DEF Command
<1> HIDE DEF m
<1>3. audit \in [TenantIds -> Seq(Entries)]
  BY DEF ConsoleOK
<1>4. /\ "entitlements.updated" \in Entries /\ "tenant.state-changed" \in Entries
      /\ "support.granted" \in Entries /\ "support.revoked" \in Entries
  BY DEF Entries
<1>5. CASE UpdateEntitlements(c)
  <2> DEFINE moved == limit[t] # NoRow /\ m.to # TooLow
  <2>1. /\ limit' = IF moved THEN [limit EXCEPT ![t] = m.to] ELSE limit
        /\ audit' = [audit EXCEPT ![t] = IF moved THEN Append(@, "entitlements.updated") ELSE @]
        /\ tenant' = tenant /\ grant' = grant
    BY <1>5 DEF UpdateEntitlements, m, Receipt
  <2> HIDE DEF moved
  <2>2. CASE u # t \/ ~moved
    <3>1. limit'[u] = limit[u] /\ audit'[u] = audit[u]
      BY <1>2, <1>3, <2>1, <2>2 DEF ConsoleOK
    <3> QED
      BY <2>1, <3>1, NothingToTell
  <2>3. CASE u = t /\ moved
    <3>1. audit'[u] = Append(audit[u], "entitlements.updated")
      BY <1>2, <1>3, <2>1, <2>3
    <3>2. /\ Told(u, "entitlements.updated")
          /\ \A b \in Entries : Told(u, b) => b = "entitlements.updated"
      BY <1>4, <3>1, OneEntry
    <3>3. GrantsOf(u)' = GrantsOf(u) /\ ClosedOf(u)' = ClosedOf(u)
      BY <2>1 DEF GrantsOf, ClosedOf
    <3> QED
      BY <1>4, <2>1, <3>2, <3>3 DEF Recorded
  <2> QED
    BY <2>2, <2>3
<1>6. CASE SetTenantState(c)
  <2> DEFINE moved == Exists(t) /\ tenant[t].state # m.to
  <2>1. /\ tenant' = IF moved THEN [tenant EXCEPT ![t].state = m.to] ELSE tenant
        /\ audit' = [audit EXCEPT ![t] = IF moved THEN Append(@, "tenant.state-changed") ELSE @]
        /\ limit' = limit /\ grant' = grant
    BY <1>6 DEF SetTenantState, m, Receipt
  <2>2. moved => tenant'[t] # tenant[t]
    <3>1. moved => tenant[t] \in TenantRow
      BY <1>2 DEF TenantsOK, Exists
    <3>2. moved => tenant'[t].state = m.to
      BY <1>2, <2>1, <3>1 DEF TenantsOK, TenantRow
    <3> QED
      BY <3>2
  <2>3. u # t \/ ~moved => tenant'[u] = tenant[u]
    BY <1>2, <2>1 DEF TenantsOK
  <2> HIDE DEF moved
  <2>4. CASE u # t \/ ~moved
    <3>1. audit'[u] = audit[u]
      BY <1>2, <1>3, <2>1, <2>4
    <3> QED
      BY <2>1, <2>3, <2>4, <3>1, NothingToTell
  <2>5. CASE u = t /\ moved
    <3>1. audit'[u] = Append(audit[u], "tenant.state-changed")
      BY <1>2, <1>3, <2>1, <2>5
    <3>2. /\ Told(u, "tenant.state-changed")
          /\ \A b \in Entries : Told(u, b) => b = "tenant.state-changed"
      BY <1>4, <3>1, OneEntry
    <3>3. GrantsOf(u)' = GrantsOf(u) /\ ClosedOf(u)' = ClosedOf(u)
      BY <2>1 DEF GrantsOf, ClosedOf
    <3> QED
      BY <1>4, <2>1, <2>2, <2>5, <3>2, <3>3 DEF Recorded
  <2> QED
    BY <2>4, <2>5
<1>7. CASE GrantSupport(c)
  <2> DEFINE g == m.to
             made == Tied(t) /\ grant[g] = NoRow
             r == [tenant |-> t, revoked |-> FALSE]
  <2>1. /\ grant' = IF made THEN [grant EXCEPT ![g] = r] ELSE grant
        /\ audit' = [audit EXCEPT ![t] = IF made THEN Append(@, "support.granted") ELSE @]
        /\ limit' = limit /\ tenant' = tenant /\ m.op = "grant"
    BY <1>7 DEF GrantSupport, m, Receipt
  <2>2. g \in GrantIds /\ (made => grant[g] = NoRow)
    BY <1>2, <2>1
  <2>3. r.tenant = t /\ r.revoked = FALSE /\ r # NoRow
    <3>1. r \in GrantRow /\ r.tenant = t /\ r.revoked = FALSE
      BY <1>2 DEF GrantRow
    <3> QED
      BY <3>1, GrantsAssumption
  <2> HIDE DEF made, r
  <2>4. /\ \A h \in GrantIds \ {g} : grant'[h] = grant[h]
        /\ made => grant'[g] = r
        /\ ~made => grant'[g] = grant[g]
    BY <2>1, <2>2 DEF ConsoleOK
  <2>5. CASE u # t \/ ~made
    <3>1. audit'[u] = audit[u]
      BY <1>2, <1>3, <2>1, <2>5
    <3>2. \A h \in GrantIds : grant'[h] = grant[h] \/ (h \notin GrantsOf(u) /\ h \notin GrantsOf(u)')
      BY <2>2, <2>3, <2>4, <2>5 DEF GrantsOf
    <3> QED
      BY <2>1, <3>1, <3>2, NothingToTell
  <2>6. CASE u = t /\ made
    <3>1. audit'[u] = Append(audit[u], "support.granted")
      BY <1>2, <1>3, <2>1, <2>6
    <3>2. /\ Told(u, "support.granted")
          /\ \A b \in Entries : Told(u, b) => b = "support.granted"
      BY <1>4, <3>1, OneEntry
    <3>3. g \in GrantsOf(u)' /\ g \notin GrantsOf(u)
      BY <2>2, <2>3, <2>4, <2>6 DEF GrantsOf
    <3>4. ClosedOf(u)' = ClosedOf(u)
      BY <2>2, <2>3, <2>4, <2>6 DEF GrantsOf, ClosedOf
    <3> QED
      BY <1>4, <2>1, <3>2, <3>3, <3>4 DEF Recorded
  <2> QED
    BY <2>5, <2>6
<1>8. CASE RevokeGrant(c)
  <2> DEFINE g == m.to
             closed == grant[g] # NoRow /\ grant[g].tenant = t /\ ~grant[g].revoked
             r == [grant[g] EXCEPT !.revoked = TRUE]
  <2>1. /\ grant' = IF closed THEN [grant EXCEPT ![g] = r] ELSE grant
        /\ audit' = [audit EXCEPT ![t] = IF closed THEN Append(@, "support.revoked") ELSE @]
        /\ limit' = limit /\ tenant' = tenant /\ m.op = "revoke"
    BY <1>8 DEF RevokeGrant, m, Receipt
  <2>2. g \in GrantIds /\ (closed => grant[g] \in GrantRow)
    BY <1>2, <2>1 DEF ConsoleOK
  <2>3. closed => r \in GrantRow /\ r.tenant = t /\ r.revoked = TRUE
    BY <2>2 DEF GrantRow
  <2>4. closed => r # NoRow /\ grant[g] # NoRow /\ grant[g].tenant = t /\ ~grant[g].revoked
    BY <2>3, GrantsAssumption
  <2> HIDE DEF closed, r
  <2>5. /\ \A h \in GrantIds \ {g} : grant'[h] = grant[h]
        /\ closed => grant'[g] = r
        /\ ~closed => grant'[g] = grant[g]
    BY <2>1, <2>2 DEF ConsoleOK
  <2>6. CASE u # t \/ ~closed
    <3>1. audit'[u] = audit[u]
      BY <1>2, <1>3, <2>1, <2>6
    <3>2. \A h \in GrantIds : grant'[h] = grant[h] \/ (h \notin GrantsOf(u) /\ h \notin GrantsOf(u)')
      BY <2>2, <2>3, <2>4, <2>5, <2>6 DEF GrantsOf
    <3> QED
      BY <2>1, <3>1, <3>2, NothingToTell
  <2>7. CASE u = t /\ closed
    <3>1. audit'[u] = Append(audit[u], "support.revoked")
      BY <1>2, <1>3, <2>1, <2>7
    <3>2. /\ Told(u, "support.revoked")
          /\ \A b \in Entries : Told(u, b) => b = "support.revoked"
      BY <1>4, <3>1, OneEntry
    <3>3. GrantsOf(u)' = GrantsOf(u)
      BY <2>2, <2>3, <2>4, <2>5, <2>7 DEF GrantsOf
    <3>4. g \in ClosedOf(u)' /\ g \notin ClosedOf(u)
      BY <2>2, <2>3, <2>4, <2>5, <2>7 DEF GrantsOf, ClosedOf
    <3> QED
      BY <1>4, <2>1, <3>2, <3>3, <3>4 DEF Recorded
  <2> QED
    BY <2>6, <2>7
<1> QED
  BY <1>5, <1>6, <1>7, <1>8 DEF Act

\* Every change of a tenant's limits, state and grants is told by an audit entry of
\* the same transaction, and an entry tells what did happen, whatever came between
\* the look-up of the tenant and the change (server/operator-api.ts 144-335).
THEOREM ChangesHaveReceipts == Spec => EveryChangeHasReceipt
<1>1. CInv /\ [Next]_vars =>
        [\A t \in TenantIds : Exists(t) /\ Exists(t)' => Recorded(t)]_vars
  <2> SUFFICES ASSUME CInv, Next, NEW u \in TenantIds, Exists(u), Exists(u)'
               PROVE  Recorded(u)
    OBVIOUS
  <2> USE DEF CInv
  <2>1. ASSUME NEW t \in TenantIds, NEW s \in Slugs, NEW e \in Emails, Provision(t, s, e)
        PROVE  Recorded(u)
    <3>1. u # t /\ tenant'[u] = tenant[u]
      BY <2>1, GrowStep DEF Provision, InsertTenant
    <3>2. limit'[u] = limit[u] /\ audit' = audit /\ grant' = grant
      BY <2>1, <3>1 DEF Provision, InsertLimit, ConsoleOK, consoleVars
    <3> QED
      BY <3>1, <3>2, NothingToTell
  <2>2. ASSUME ClearDemo
        PROVE  Recorded(u)
    <3>1. u \notin Cleared /\ tenant'[u] = tenant[u]
      BY <2>2, ClearStep DEF ClearDemo, Exists
    <3>2. limit'[u] = limit[u] /\ audit'[u] = audit[u]
      BY <2>2, <3>1 DEF ClearDemo, CascadeConsole
    <3>3. \A g \in GrantIds : grant'[g] = grant[g] \/ (g \notin GrantsOf(u) /\ g \notin GrantsOf(u)')
      BY <2>2, <3>1 DEF ClearDemo, CascadeConsole, Without, GrantsOf, ConsoleOK
    <3> QED
      BY <3>1, <3>2, <3>3, NothingToTell
  <2>3. ASSUME MemberCall \/ OrderCall \/ SeedCall, UNCHANGED consoleVars
        PROVE  Recorded(u)
    <3>1. tenant'[u] = tenant[u]
      BY <2>3, TenantsUntouched
    <3> QED
      BY <2>3, <3>1, NothingToTell DEF consoleVars
  <2>4. ASSUME NEW c \in Clients, Act(c)
        PROVE  Recorded(u)
    BY <2>4, ActIsRecorded
  <2>5. ASSUME NEW c \in Clients, NEW t \in TenantIds, NEW m \in Commands(t), LookUpTenant(c, m)
        PROVE  Recorded(u)
    BY <2>5, NothingToTell DEF LookUpTenant, tenantVars
  <2>6. ASSUME ConsoleCrash
        PROVE  Recorded(u)
    BY <2>6, NothingToTell DEF ConsoleCrash, tenantVars
  <2>7. ASSUME NEW t \in TenantIds, TellProvisioned(t)
        PROVE  Recorded(u)
    <3>1. tenant' = tenant /\ limit' = limit /\ grant' = grant
      BY <2>7 DEF TellProvisioned, tenantVars
    <3>2. CASE u # t \/ ~Tied(t)
      <4>1. audit'[u] = audit[u]
        BY <2>7, <3>2 DEF TellProvisioned, ConsoleOK
      <4> QED
        BY <3>1, <4>1, NothingToTell
    <3>3. CASE u = t /\ Tied(t)
      <4>1. /\ "tenant.provisioned" \in Entries /\ "tenant.state-changed" \in Entries
            /\ "support.granted" \in Entries /\ "support.revoked" \in Entries
        BY DEF Entries
      <4>2. audit'[u] = Append(audit[u], "tenant.provisioned")
        BY <2>7, <3>3 DEF TellProvisioned, ConsoleOK
      <4>3. \A b \in Entries : Told(u, b) => b = "tenant.provisioned"
        BY <4>1, <4>2, OneEntry
      <4>4. GrantsOf(u)' = GrantsOf(u) /\ ClosedOf(u)' = ClosedOf(u)
        BY <3>1 DEF GrantsOf, ClosedOf
      <4> QED
        BY <3>1, <4>1, <4>3, <4>4 DEF Recorded
    <3> QED
      BY <3>2, <3>3
  <2> QED
    BY <2>1, <2>2, <2>3, <2>4, <2>5, <2>6, <2>7 DEF Next, ConsoleCall
<1>2. (\A t \in TenantIds : Exists(t) /\ Exists(t)' => Recorded(t)) =>
        \A t \in TenantIds : Exists(t) /\ Exists(t)' =>
          LET grants == {g \in GrantIds : grant[g] # NoRow /\ grant[g].tenant = t}
              closed == {g \in grants : grant[g].revoked}
              told(action) == Len(audit'[t]) > Len(audit[t]) /\ audit'[t] = Append(audit[t], action)
          IN /\ (tenant'[t] # tenant[t]) <=> told("tenant.state-changed")
             /\ (grants' # grants) <=> told("support.granted")
             /\ (closed' # closed) <=> told("support.revoked")
             /\ limit'[t] # limit[t] => told("entitlements.updated")
  BY DEF Recorded, GrantsOf, ClosedOf, Told
<1> QED
  BY <1>1, <1>2, ControlPlaneInvariant, PTL DEF Spec, EveryChangeHasReceipt
=============================================================================
