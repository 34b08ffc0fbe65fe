----------------------------- MODULE EventStream ------------------------------
(***************************************************************************)
(* The event bus (ops/events.ts) and the stream a browser holds open on it     *)
(* (the /events route of server/app.ts).  The bus numbers events from 1 in     *)
(* every process, keeps the last BufferSize of them for clients that come      *)
(* back, and calls the listeners of the event's tenant.  The client is the      *)
(* external one the route is written for: it sends the id of the last event it  *)
(* saw when it reconnects, as an EventSource does.  The repository's own page    *)
(* never sends one (dashboard/page.ts 574-603): it is the client whose id        *)
(* stays 0, and polls.  What was written to a connection that broke is lost.     *)
(***************************************************************************)
EXTENDS Naturals, Sequences, FiniteSets, Functions

CONSTANTS
  Watcher,      \* the tenant whose browser watches the stream
  Conns,        \* HTTP connections the browser may use, one live at a time
  BufferSize,   \* the ring: events kept for replay
  MaxSeq        \* bound: events of one process

ASSUME BufferAssumption == BufferSize \in Nat \ {0} /\ MaxSeq \in Nat

VARIABLES
  published,  \* tenants of the events of this process, in order: #seq is its length
  conn,       \* per connection: phase, whether the browser still holds it, frames in flight
  lastId,     \* the browser's last event id, 0 before the first
  current,    \* that id is of an event of the running process
  hole        \* history: the browser was handed a stream with an event missing, untold

streamVars == <<published, conn, lastId, current, hole>>

\* Phases of a connection at the server: "asking" while the token is looked up,
\* "opening" while the log line is written, "open" once the close is listened
\* for, "orphan" when the browser had gone before that.
Closed == [phase |-> "closed", held |-> FALSE, pipe |-> <<>>]
Subscribed(k) == conn[k].phase \in {"opening", "open", "orphan"}

StreamInit ==
  /\ published = <<>>
  /\ conn = [k \in Conns |-> Closed]
  /\ lastId = 0
  /\ current = FALSE
  /\ hole = FALSE

Seq1 == Len(published)
Oldest == IF Seq1 > BufferSize THEN Seq1 - BufferSize + 1 ELSE 1

\* As if the comparison were off by one.
HasGapLater(after) == Seq1 > 0 /\ after > 0 /\ after + 1 < Oldest - 1

\* hasGapSince: the ring no longer reaches back to the event after this one.
HasGapSince(after) == Seq1 > 0 /\ after > 0 /\ after < Oldest - 1

\* The ring is filled in the order of the ids, and filtered in that order.
InOrder(S) ==
  CHOOSE s \in [1..Cardinality(S) -> S] : \A i, j \in DOMAIN s : i < j => s[i] < s[j]

Replay(t, after) == InOrder({s \in Oldest..Seq1 : published[s] = t /\ s > after})

Gap == 0      \* the `event: gap` frame; any other frame is the id of an event

Publish(t) ==
  /\ Seq1 < MaxSeq
  /\ published' = Append(published, t)
  /\ conn' = [k \in Conns |->
       IF t = Watcher /\ Subscribed(k) /\ conn[k].held
       THEN [conn[k] EXCEPT !.pipe = Append(@, Seq1 + 1)] ELSE conn[k]]
  /\ UNCHANGED <<lastId, current, hole>>

\* The browser connects when it holds no connection.
Request(k) ==
  /\ conn[k] = Closed
  /\ \A j \in Conns : ~conn[j].held
  /\ conn' = [conn EXCEPT ![k] = [Closed EXCEPT !.phase = "asking", !.held = TRUE]]
  /\ UNCHANGED <<published, lastId, current, hole>>

\* The handler from the token's lookup to its first await: the gap, the replay and
\* the subscription happen in one turn, so that no event falls between them.
Serve(k) ==
  /\ conn[k].phase = "asking"
  /\ conn' = [conn EXCEPT ![k].phase = "opening",
                          ![k].pipe = IF ~conn[k].held THEN <<>>
                                      ELSE (IF HasGapSince(lastId) THEN <<Gap>> ELSE <<>>)
                                           \o Replay(Watcher, lastId)]
  /\ UNCHANGED <<published, lastId, current, hole>>

\* The token names nobody, or the lookup fails.
Refuse(k) ==
  /\ conn[k].phase = "asking"
  /\ conn' = [conn EXCEPT ![k] = Closed]
  /\ UNCHANGED <<published, lastId, current, hole>>

\* The log line is written; the close of a connection that is already closed is
\* never heard.
Listen(k) ==
  /\ conn[k].phase = "opening"
  /\ conn' = [conn EXCEPT ![k].phase = IF conn[k].held THEN "open" ELSE "orphan"]
  /\ UNCHANGED <<published, lastId, current, hole>>

\* The browser goes away or the network cuts it off.
Drop(k) ==
  /\ conn[k].held
  /\ conn' = [conn EXCEPT ![k].held = FALSE, ![k].pipe = <<>>]
  /\ UNCHANGED <<published, lastId, current, hole>>

\* finish(): the server hears of the close, takes the listener off and the timer.
Finish(k) ==
  /\ conn[k].phase = "open" /\ ~conn[k].held
  /\ conn' = [conn EXCEPT ![k] = Closed]
  /\ UNCHANGED <<published, lastId, current, hole>>

\* The browser reads a frame.  A gap tells the page to reload: what it holds after
\* that is whole.
Read(k) ==
  /\ conn[k].pipe # <<>>
  /\ LET f == Head(conn[k].pipe)
         skipped == {s \in 1..Seq1 : lastId < s /\ s < f /\ published[s] = Watcher}
     IN IF f = Gap
        THEN /\ current' = FALSE
             /\ UNCHANGED <<lastId, hole>>
        ELSE /\ lastId' = f
             /\ current' = TRUE
             /\ hole' = (hole \/ (current /\ (f <= lastId \/ skipped # {})))
  /\ conn' = [conn EXCEPT ![k].pipe = Tail(@)]
  /\ UNCHANGED published

\* The process is gone, with its bus and every socket; the browser keeps its id.
StreamsDie ==
  /\ published' = <<>>
  /\ conn' = [k \in Conns |-> Closed]
  /\ current' = FALSE
  /\ UNCHANGED <<lastId, hole>>
=============================================================================
