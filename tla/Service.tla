-------------------------------- MODULE Service -------------------------------
(***************************************************************************)
(* One process of the service as a whole: its life (Lifecycle) and the event   *)
(* streams it serves (EventStream).  A tick publishes what it did to the bus,   *)
(* the streams live and die with the process, and a stop waits for them.       *)
(***************************************************************************)
EXTENDS Lifecycle, EventStream

ASSUME TenantsAssumption == Tenants \in Seq(Range(Tenants))

vars == <<procVars, streamVars>>

Init == ProcInit /\ StreamInit

StreamsFollow == IF proc' = "down" THEN StreamsDie ELSE UNCHANGED streamVars

Accepting == proc = "up" /\ stage \in {"none", "runner"}
Live == {k \in Conns : conn[k].held}
Flushed == \A k \in Conns : conn[k].phase # "opening"

\* The runner reports what the tick in hand has committed.
TickPublishes ==
  /\ sweeping > 0 /\ queue # <<>>
  /\ Publish(Head(queue))
  /\ UNCHANGED procVars

TickIsOver(t) == (\E ok \in BOOLEAN : TickEnds(t, ok)) /\ UNCHANGED streamVars

Connect(k) == Accepting /\ Request(k) /\ UNCHANGED procVars

StreamStep(k) ==
  /\ Serve(k) \/ Refuse(k) \/ Listen(k) \/ Drop(k) \/ Finish(k) \/ Read(k)
  /\ UNCHANGED procVars

Stopping == StopStep(Live = {}, Flushed) /\ StreamsFollow
Exits == Exit /\ StreamsFollow

Next ==
  \/ Start /\ StreamsFollow
  \/ Migrate /\ StreamsFollow
  \/ OtherInstanceMigrates /\ StreamsFollow
  \/ Bind /\ StreamsFollow
  \/ Listening /\ StreamsFollow
  \/ PortTaken /\ StreamsFollow
  \/ TickReads /\ StreamsFollow
  \/ TickFindsNoDatabase /\ StreamsFollow
  \/ \E t \in Range(Tenants) : TickIsOver(t)
  \/ TickPublishes
  \/ \E s \in Signals : Signal(s) /\ StreamsFollow
  \/ Crash /\ StreamsFollow
  \/ Stopping
  \/ Exits
  \/ \E k \in Conns : Connect(k)
  \/ \E k \in Conns : StreamStep(k)

\* The event loop runs what is ready; the database answers sooner or later.  A tick
\* ends: every await of it does, and of the one the code does not bound, reading the
\* body of an answer (gateway/client.ts 278-282 clears the timeout at the headers),
\* that is asked of the gateway and its network.  Nothing is asked of browsers or
\* signals.
Fairness ==
  /\ WF_vars(TickReads /\ StreamsFollow)
  /\ \A t \in Range(Tenants) : WF_vars(TickIsOver(t))
  /\ WF_vars(Stopping) /\ WF_vars(Exits)
  /\ \A k \in Conns : WF_vars((Serve(k) \/ Listen(k) \/ Finish(k)) /\ UNCHANGED procVars)

Spec == Init /\ [][Next]_vars /\ Fairness

-----------------------------------------------------------------------------
(* Properties.                                                              *)

\* Types; requests are served on the newest schema only; one live connection of
\* the browser, and frames in flight on no other (db/migrate.ts 45-87, main.ts
\* 71-86, server/app.ts 158-202).
TypeOK ==
  /\ file \in Files /\ env \in Envs
  /\ proc \in {"down", "migrating", "binding", "up"}
  /\ seen <= applied /\ applied <= Migrations
  /\ proc \in {"binding", "up"} => seen = Migrations /\ ~ConfigRefused
  /\ sweeping \in {0, 1} /\ (sweeping = 1 <=> queue # <<>>)
  /\ armed \subseteq Signals
  /\ stage # "none" => proc = "up"
  /\ Len(published) <= MaxSeq
  /\ \A k \in Conns :
       /\ conn[k].phase \in {"closed", "asking", "opening", "open", "orphan"}
       /\ conn[k].pipe # <<>> => conn[k].held
       /\ conn[k] # Closed => proc = "up"
  /\ Cardinality(Live) <= 1

\* A browser that has seen an event of this process is never handed, over any
\* number of broken connections, a stream of its tenant's events with one missing,
\* repeated or out of order, unless it is told of the gap (ops/events.ts 114-127,
\* server/app.ts 175-183).
NoSilentHole == ~hole

\* A process that ends its stop by itself has no sweep in flight and no live
\* connection when its engine is closed (main.ts 115-123, runner/schedule.ts
\* 139-143).
OneSignalDrains ==
  [][proc = "up" /\ exit' = "exit 0" /\ proc' = "down" => sweeping = 0 /\ Live = {}]_vars

\* While a process stays up, every tenant is ticked again and again, whatever the
\* ticks of the others end in (runner/schedule.ts 79-98).
EveryTenantTicked ==
  \A t \in Range(Tenants) :
    <>[](proc = "up" /\ stage = "none" /\ Setting("runner.enabled") # "off")
      => []<><<TickIsOver(t)>>_vars

\* A stop that was asked for comes to its end, or a browser holds its stream open
\* (main.ts 115-123).
StopEnds == stage # "none" ~> proc = "down" \/ Live # {}
=============================================================================
