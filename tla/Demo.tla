---------------------------------- MODULE Demo ---------------------------------
(***************************************************************************)
(* The public demo: demo/seed.ts and demo/reset.ts, run by a timer or by hand   *)
(* beside the server.  A reset clears the demo's tenants in one transaction;    *)
(* a seed then provisions each, and fills it in a transaction of its own.       *)
(* Each call relies on what an earlier one left, and others run between them.   *)
(***************************************************************************)
EXTENDS Workflows

VARIABLE seeding  \* slugs a running seed has left, and the tenant it has to fill

Unseeded == [todo |-> {}, tenant |-> NoRow]

DemoInit == seeding = Unseeded

NoDemo == \A s \in DemoSlugs : ~SlugTaken(s)

\* seedDemo up to its loop: a demo tenant that exists is refused.
SeedBegins ==
  /\ MayRun /\ seeding = Unseeded
  /\ NoDemo
  /\ seeding' = [todo |-> DemoSlugs, tenant |-> NoRow]
  /\ UNCHANGED <<tenantVars, flowVars>>

\* The rows of the next tenant; a slug taken since ends the seed (SeedDies).
SeedProvisions(t, s) ==
  /\ seeding.tenant = NoRow /\ s \in seeding.todo
  /\ InsertTenant(t, s)
  /\ seeding' = [todo |-> seeding.todo \ {s}, tenant |-> t]
  /\ UNCHANGED flowVars

\* seedExampleWorkflows: every example, as its first version.
WithExamples(t) == [w \in FlowIds |-> IF w[1] = t THEN NewFlow(t) ELSE flow[w]]

\* The tenant's workflows and its bearer, together.  A slug a user of the tenant
\* took, or a tenant cleared by now, fails it, and the seed with it.
SeedFills(k) ==
  /\ MayRun /\ seeding.tenant # NoRow /\ token[k] = NoRow
  /\ LET t == seeding.tenant
         fits == Exists(t) /\ \A n \in FlowNames : flow[<<t, n>>] = NoRow
     IN /\ flow' = IF fits THEN WithExamples(t) ELSE flow
        /\ token' = IF fits THEN [token EXCEPT ![k] = NewToken(t)] ELSE token
        /\ seeding' = IF fits THEN [seeding EXCEPT !.tenant = NoRow] ELSE Unseeded
  /\ UNCHANGED <<tenantVars, orders, request>>

\* The tool is ended, or the database refuses it: what it committed stays.
SeedDies ==
  /\ seeding # Unseeded
  /\ seeding' = Unseeded
  /\ UNCHANGED <<tenantVars, flowVars>>
=============================================================================
