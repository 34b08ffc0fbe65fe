-------------------------------- MODULE Tenancy -------------------------------
(***************************************************************************)
(* Tenants and the people in them: tenancy/provision.ts, tenancy/members.ts,   *)
(* demo/reset.ts and the tables of sql/001 and sql/003.  A tenant's id is       *)
(* used once; deleting its row deletes every row that belongs to it.           *)
(*                                                                         *)
(* A call that is one transaction of one statement, or whose statements no      *)
(* other can come between, is one step.  The calls whose later statements rely  *)
(* on an earlier read are taken apart; `open` holds the clients inside such a   *)
(* transaction, and on the engine with a single connection (serial) nobody     *)
(* else's runs meanwhile.                                                   *)
(***************************************************************************)
EXTENDS Naturals, FiniteSets, Sequences

CONSTANTS
  TenantIds, Slugs,
  DemoSlugs,    \* the slugs the reset may clear
  Emails, Roles,
  InviteIds,
  Clients,      \* requests being served at one time
  NoRow         \* no such row

ASSUME DemoAssumption == DemoSlugs \subseteq Slugs
ASSUME RolesAssumption == "owner" \in Roles

States == {"active", "suspended"}
TenantRow == [slug : Slugs, state : States]
InviteRow == [tenant : TenantIds, email : Emails, role : Roles,
              state : {"pending", "accepted", "revoked"}, expired : BOOLEAN]

ASSUME TenancyAssumption == NoRow \notin TenantRow /\ NoRow \notin InviteRow

VARIABLES
  serial,     \* the engine is PGlite: one transaction at a time
  open,       \* clients inside a transaction of several steps
  tenant,     \* row of `tenants`: slug and state
  spent,      \* ids a deleted tenant had
  user,       \* rows of `users`: <<tenant, email>>
  seat,       \* rows of `memberships`: the role of <<tenant, email>>
  invite,     \* rows of `invites`
  accepting   \* what a client's acceptInvite has read

tenantVars == <<serial, open, tenant, spent>>
memberVars == <<user, seat, invite, accepting>>

MayRun == serial => open = {}
Exists(t) == tenant[t] # NoRow
SlugTaken(s) == \E t \in TenantIds : Exists(t) /\ tenant[t].slug = s

TenancyInit ==
  /\ serial \in BOOLEAN
  /\ open = {}
  /\ tenant = [t \in TenantIds |-> NoRow]
  /\ spent = {}
  /\ user = {}
  /\ seat = [p \in TenantIds \X Emails |-> NoRow]
  /\ invite = [i \in InviteIds |-> NoRow]
  /\ accepting = [c \in Clients |-> NoRow]

-----------------------------------------------------------------------------
\* provisionTenant: the tenant, its owner and the owner's seat, all or nothing; a
\* slug in use is refused by the unique index.
InsertTenant(t, s) ==
  /\ MayRun
  /\ ~Exists(t) /\ t \notin spent /\ ~SlugTaken(s)
  /\ tenant' = [tenant EXCEPT ![t] = [slug |-> s, state |-> "active"]]
  /\ UNCHANGED <<serial, open, spent>>

InsertOwner(t, e) ==
  /\ user' = user \cup {<<t, e>>}
  /\ seat' = [seat EXCEPT ![<<t, e>>] = "owner"]
  /\ UNCHANGED <<invite, accepting>>

\* inviteMember: at most one pending invite of an address in a tenant.
InviteMember(i, t, e, r) ==
  /\ MayRun /\ Exists(t) /\ invite[i] = NoRow
  /\ \A j \in InviteIds : invite[j] # NoRow =>
       ~(invite[j].tenant = t /\ invite[j].email = e /\ invite[j].state = "pending")
  /\ invite' = [invite EXCEPT ![i] = [tenant |-> t, email |-> e, role |-> r,
                                      state |-> "pending", expired |-> FALSE]]
  /\ UNCHANGED <<tenantVars, user, seat, accepting>>

\* The one read that decides whether a token may be redeemed.
Usable(i) == invite[i] # NoRow /\ invite[i].state = "pending" /\ ~invite[i].expired

\* acceptInvite: the read, and ...
BeginAccept(c, i) ==
  /\ MayRun /\ c \notin open
  /\ Usable(i)
  /\ open' = open \cup {c}
  /\ accepting' = [accepting EXCEPT ![c] = [id |-> i, row |-> invite[i]]]
  /\ UNCHANGED <<serial, tenant, spent, user, seat, invite>>

Leave(c) ==
  /\ open' = open \ {c}
  /\ accepting' = [accepting EXCEPT ![c] = NoRow]
  /\ UNCHANGED <<serial, tenant, spent>>

\* ... the user, the seat and the invite, by its id and whatever its state is by
\* now.  A tenant deleted meanwhile is refused by the foreign key.
FinishAccept(c) ==
  /\ accepting[c] # NoRow
  /\ LET i == accepting[c].id
         r == accepting[c].row
         p == <<r.tenant, r.email>>
     IN IF Exists(r.tenant)
        THEN /\ user' = user \cup {p}
             /\ seat' = [seat EXCEPT ![p] = r.role]
             /\ invite' = [invite EXCEPT ![i].state = "accepted"]
        ELSE UNCHANGED <<user, seat, invite>>
  /\ Leave(c)

\* The connection or the process is lost before the commit.
AbortAccept(c) ==
  /\ accepting[c] # NoRow
  /\ Leave(c)
  /\ UNCHANGED <<user, seat, invite>>

\* As if any invite could be withdrawn.
WithdrawableEver(i) == invite[i] # NoRow
Withdrawable(i) == invite[i] # NoRow /\ invite[i].state = "pending"

RevokeInvite(i) ==
  /\ MayRun /\ Withdrawable(i)
  /\ invite' = [invite EXCEPT ![i].state = "revoked"]
  /\ UNCHANGED <<tenantVars, user, seat, accepting>>

RevokeMembership(t, e) ==
  /\ MayRun /\ seat[<<t, e>>] # NoRow
  /\ seat' = [seat EXCEPT ![<<t, e>>] = NoRow]
  /\ UNCHANGED <<tenantVars, user, invite, accepting>>

InviteExpires(i) ==
  /\ invite[i] # NoRow /\ ~invite[i].expired
  /\ invite' = [invite EXCEPT ![i].expired = TRUE]
  /\ UNCHANGED <<tenantVars, user, seat, accepting>>

-----------------------------------------------------------------------------
\* clearDemo: the demo's tenants, and by cascade every row of theirs.
Cleared == {t \in TenantIds : Exists(t) /\ tenant[t].slug \in DemoSlugs}

ClearTenants ==
  /\ MayRun /\ Cleared # {}
  /\ tenant' = [t \in TenantIds |-> IF t \in Cleared THEN NoRow ELSE tenant[t]]
  /\ spent' = spent \cup Cleared
  /\ UNCHANGED <<serial, open>>

Without(rows, T) ==
  [k \in DOMAIN rows |-> IF rows[k] # NoRow /\ rows[k].tenant \in T THEN NoRow ELSE rows[k]]

CascadeMembers ==
  /\ user' = {p \in user : p[1] \notin Cleared}
  /\ seat' = [p \in DOMAIN seat |-> IF p[1] \in Cleared THEN NoRow ELSE seat[p]]
  /\ invite' = Without(invite, Cleared)
  /\ UNCHANGED accepting
=============================================================================
