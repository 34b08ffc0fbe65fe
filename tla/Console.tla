-------------------------------- MODULE Console -------------------------------
(***************************************************************************)
(* The operator's console: server/operator-api.ts over operator/tenants.ts,    *)
(* operator/grants.ts and operator/audit.ts, with the tables of sql/003 and     *)
(* sql/008.  A request looks the tenant up in one transaction and acts in the   *)
(* next, which writes the change and its audit entry together.                *)
(***************************************************************************)
EXTENDS Tenancy

CONSTANTS
  Limits,       \* values of one entitlement: those the bounds allow, and TooLow
  TooLow,
  Default,      \* what provisioning gives
  GrantIds,
  MaxAudit      \* bound: audit entries of one tenant

ASSUME LimitsAssumption == {TooLow, Default} \subseteq Limits

GrantRow == [tenant : TenantIds, revoked : BOOLEAN]

ASSUME GrantsAssumption == NoRow \notin GrantRow

VARIABLES
  limit,      \* rows of `entitlements`, one limit standing for the five
  grant,      \* rows of `support_grants`: lapsing is nothing written
  audit,      \* rows of `audit_log`, per tenant, oldest first
  untold,     \* tenants provisioned whose first audit entry is not written yet
  command     \* the request a client has had its tenant looked up for

consoleVars == <<limit, grant, audit, untold, command>>

ConsoleInit ==
  /\ limit = [t \in TenantIds |-> NoRow]
  /\ grant = [g \in GrantIds |-> NoRow]
  /\ audit = [t \in TenantIds |-> <<>>]
  /\ untold = {}
  /\ command = [c \in Clients |-> NoRow]

Commands(t) ==
  [op : {"limit"}, tenant : {t}, to : Limits] \cup [op : {"state"}, tenant : {t}, to : States]
    \cup [op : {"grant", "revoke"}, tenant : {t}, to : GrantIds]

\* onTenant: an id that is not there is answered 404.
LookUpTenant(c, m) ==
  /\ MayRun /\ command[c] = NoRow /\ Exists(m.tenant)
  /\ Len(audit[m.tenant]) < MaxAudit
  /\ command' = [command EXCEPT ![c] = m]
  /\ UNCHANGED <<tenantVars, limit, grant, audit, untold>>

\* As if an entry were written of a change that was not made too.
ReceiptAlways(t, action, changed) ==
  audit' = [audit EXCEPT ![t] = Append(@, action)]
Receipt(t, action, changed) ==
  audit' = [audit EXCEPT ![t] = IF changed THEN Append(@, action) ELSE @]

\* A value out of bounds is refused before the write, a missing row after it.
UpdateEntitlements(c) ==
  LET t == command[c].tenant
      moved == limit[t] # NoRow /\ command[c].to # TooLow
  IN /\ command[c].op = "limit"
     /\ limit' = IF moved THEN [limit EXCEPT ![t] = command[c].to] ELSE limit
     /\ Receipt(t, "entitlements.updated", moved)
     /\ UNCHANGED <<tenant, grant>>

SetTenantState(c) ==
  LET t == command[c].tenant
      moved == Exists(t) /\ tenant[t].state # command[c].to
  IN /\ command[c].op = "state"
     /\ tenant' = IF moved THEN [tenant EXCEPT ![t].state = command[c].to] ELSE tenant
     /\ Receipt(t, "tenant.state-changed", moved)
     /\ UNCHANGED <<limit, grant>>

Tied(t) == Exists(t)

\* The insert is refused by its foreign key when the tenant is gone; an id in use
\* stands for a request its own checks refuse.
GrantSupport(c) ==
  LET t == command[c].tenant
      g == command[c].to
      made == Tied(t) /\ grant[g] = NoRow
  IN /\ command[c].op = "grant"
     /\ grant' = IF made THEN [grant EXCEPT ![g] = [tenant |-> t, revoked |-> FALSE]]
                         ELSE grant
     /\ Receipt(t, "support.granted", made)
     /\ UNCHANGED <<tenant, limit>>

\* Another tenant's grant, none, and one revoked before are one answer; one past its
\* time can be revoked still.
RevokeGrant(c) ==
  LET t == command[c].tenant
      g == command[c].to
      closed == grant[g] # NoRow /\ grant[g].tenant = t /\ ~grant[g].revoked
  IN /\ command[c].op = "revoke"
     /\ grant' = IF closed THEN [grant EXCEPT ![g].revoked = TRUE] ELSE grant
     /\ Receipt(t, "support.revoked", closed)
     /\ UNCHANGED <<tenant, limit>>

Act(c) ==
  /\ MayRun /\ command[c] # NoRow
  /\ \/ UpdateEntitlements(c)
     \/ SetTenantState(c)
     \/ GrantSupport(c)
     \/ RevokeGrant(c)
  /\ command' = [command EXCEPT ![c] = NoRow]
  /\ UNCHANGED <<serial, open, spent, untold>>

\* The second half of a provision: its receipt, in a transaction of its own, and
\* refused when the tenant is gone by then.
TellProvisioned(t) ==
  /\ MayRun /\ t \in untold
  /\ untold' = untold \ {t}
  /\ audit' = IF Tied(t) THEN [audit EXCEPT ![t] = Append(@, "tenant.provisioned")] ELSE audit
  /\ UNCHANGED <<tenantVars, limit, grant, command>>

InsertLimit(t) ==
  /\ limit' = [limit EXCEPT ![t] = Default]
  /\ untold' = untold \cup {t}
  /\ UNCHANGED <<grant, audit, command>>

\* The process dies with what it had in hand.
ConsoleCrash ==
  /\ untold # {} \/ \E c \in Clients : command[c] # NoRow
  /\ untold' = {}
  /\ command' = [c \in Clients |-> NoRow]
  /\ UNCHANGED <<tenantVars, limit, grant, audit>>

CascadeConsole ==
  /\ limit' = [t \in TenantIds |-> IF t \in Cleared THEN NoRow ELSE limit[t]]
  /\ grant' = Without(grant, Cleared)
  /\ audit' = [t \in TenantIds |-> IF t \in Cleared THEN <<>> ELSE audit[t]]
  /\ UNCHANGED <<untold, command>>
=============================================================================
