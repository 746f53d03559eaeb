------------------------------ MODULE Lifecycle -----------------------------
(***************************************************************************)
(* The FairVM node lifecycle and its event bus (src/fairvm/src/lib.rs,     *)
(* consensus/basic.rs, event.rs).                                          *)
(*                                                                         *)
(* FairVM keeps is_running and an optional consensus engine; a             *)
(* BasicConsensus is "initialized" while its `state` is Some.  Events go   *)
(* through one tokio broadcast channel of capacity Cap.  Every FairVM      *)
(* start() calls EventHandlerManager::start, which subscribes a new        *)
(* receiver, snapshots the handler list and spawns a task that loops on    *)
(* recv() and calls every handler of its snapshot; the loop ends on the    *)
(* first Err of recv, a Lagged error included.  Each FairVM method takes   *)
(* &mut self or holds the manager's lock, so each is one action; each      *)
(* spawned loop is a task of its own whose steps interleave with them.     *)
(* An event is its position in the channel: the payload is left out.      *)
(***************************************************************************)
EXTENDS Naturals, Sequences, FiniteSets, Functions

CONSTANTS
  Handlers,    \* the EventHandler objects a client may register
  Cap,         \* the channel's capacity (tokio rounds it up to a power of 2)
  MaxStarts,   \* bound on start() calls
  MaxPublish,  \* bound on publish_event() calls by clients
  MaxHandlers  \* bound on the length of the handler list

ASSUME LifecycleAssumption ==
  /\ Cap \in Nat \ {0} /\ MaxStarts \in Nat /\ MaxPublish \in Nat
  /\ MaxHandlers \in Nat

VARIABLES
  running,    \* FairVM.is_running
  consensus,  \* FairVM.consensus is Some(BasicConsensus)
  engInit,    \* that BasicConsensus's state is Some
  handlers,   \* EventHandlerManager.handlers, in order
  sent,       \* number of messages the channel has accepted (its tail)
  loops,      \* the spawned recv loops: snapshot, next position, alive
  starts,     \* start() calls so far
  published,  \* publish_event() calls so far
  result      \* outcome of the last FairVM call

vars == <<running, consensus, engInit, handlers, sent, loops, starts,
          published, result>>

-----------------------------------------------------------------------------
(* broadcast::Sender::send succeeds only while some receiver is alive.     *)
Receivers == {l \in DOMAIN loops : loops[l].alive}

(* A receiver whose next position has been overwritten gets Lagged.        *)
Lagged(l) == loops[l].next + Cap <= sent

Init ==
  /\ running = FALSE
  /\ consensus = FALSE
  /\ engInit = FALSE
  /\ handlers = <<>>
  /\ sent = 0
  /\ loops = <<>>
  /\ starts = 0
  /\ published = 0
  /\ result = "ok"

(* set_consensus(BasicConsensus::new()): refused while running; otherwise  *)
(* the new engine's initialize (Ok on a fresh engine) and install it.      *)
SetConsensus ==
  /\ IF running
     THEN result' = "err" /\ UNCHANGED <<consensus, engInit>>
     ELSE /\ consensus' = TRUE /\ engInit' = TRUE
          /\ result' = "ok"
  /\ UNCHANGED <<running, handlers, sent, loops, starts, published>>

\* Mutation of Start: BasicConsensus::start does not check its state.
StartNoInitCheck ==
  /\ starts < MaxStarts
  /\ starts' = starts + 1
  /\ IF running
     THEN result' = "err" /\ UNCHANGED <<loops, sent, running>>
     ELSE /\ loops' = Append(loops, [snap |-> handlers, next |-> sent + 1,
                                     alive |-> TRUE])
          /\ IF FALSE
             THEN result' = "err" /\ UNCHANGED <<sent, running>>
             ELSE /\ sent' = IF consensus THEN sent + 1 ELSE sent
                  /\ running' = TRUE
                  /\ result' = "ok"
  /\ UNCHANGED <<consensus, engInit, handlers, published>>

(* start(): refused while running.  Otherwise start_event_handling first   *)
(* (a new loop subscribed at the channel's tail, with the current          *)
(* handlers); then, with an engine, BasicConsensus::start, an Err          *)
(* NotInitialized if its state is None, and the publish of a Consensus     *)
(* event (the new loop is a receiver, so the send succeeds); then          *)
(* is_running.                                                             *)
Start ==
  /\ starts < MaxStarts
  /\ starts' = starts + 1
  /\ IF running
     THEN result' = "err" /\ UNCHANGED <<loops, sent, running>>
     ELSE /\ loops' = Append(loops, [snap |-> handlers, next |-> sent + 1,
                                     alive |-> TRUE])
          /\ IF consensus /\ ~engInit
             THEN result' = "err" /\ UNCHANGED <<sent, running>>
             ELSE /\ sent' = IF consensus THEN sent + 1 ELSE sent
                  /\ running' = TRUE
                  /\ result' = "ok"
  /\ UNCHANGED <<consensus, engInit, handlers, published>>

(* stop(): refused unless running; BasicConsensus::stop sets its state to  *)
(* None (its Err AlreadyStopped would be returned first); the spawned      *)
(* loops are not told.                                                     *)
Stop ==
  /\ IF ~running \/ (consensus /\ ~engInit)
     THEN result' = "err" /\ UNCHANGED <<running, engInit>>
     ELSE /\ engInit' = FALSE
          /\ running' = FALSE
          /\ result' = "ok"
  /\ UNCHANGED <<consensus, handlers, sent, loops, starts, published>>

(* add_event_handler(h): Vec::push, a handler already listed included.    *)
AddHandler(h) ==
  /\ Len(handlers) < MaxHandlers
  /\ handlers' = Append(handlers, h)
  /\ result' = "ok"
  /\ UNCHANGED <<running, consensus, engInit, sent, loops, starts,
                 published>>

(* remove_event_handler(i): Vec::remove when the index is in range.        *)
RemoveHandler(i) ==
  /\ i \in DOMAIN handlers
  /\ handlers' = [j \in 1..Len(handlers) - 1 |->
                    IF j < i THEN handlers[j] ELSE handlers[j + 1]]
  /\ result' = "ok"
  /\ UNCHANGED <<running, consensus, engInit, sent, loops, starts,
                 published>>

(* publish_event(e): an Err when no receiver is alive.                     *)
PublishEvent ==
  /\ published < MaxPublish
  /\ published' = published + 1
  /\ IF Receivers = {}
     THEN result' = "err" /\ UNCHANGED sent
     ELSE sent' = sent + 1 /\ result' = "ok"
  /\ UNCHANGED <<running, consensus, engInit, handlers, loops, starts>>

\* Mutation of LoopRecv: the position advances by two.
LoopRecvSkip(l) ==
  /\ loops[l].alive /\ loops[l].next <= sent
  /\ loops' = IF Lagged(l) THEN [loops EXCEPT ![l].alive = FALSE]
                           ELSE [loops EXCEPT ![l].next = @ + 2]
  /\ UNCHANGED <<running, consensus, engInit, handlers, sent, starts,
                 published, result>>

(* One turn of a spawned loop: recv() a message that is there; Lagged ends *)
(* the loop; otherwise every handler of the snapshot, once per entry, is  *)
(* called with it.  The handlers are client code: their calls change no    *)
(* state of the node.                                                      *)
LoopRecv(l) ==
  /\ loops[l].alive /\ loops[l].next <= sent
  /\ loops' = IF Lagged(l) THEN [loops EXCEPT ![l].alive = FALSE]
                           ELSE [loops EXCEPT ![l].next = @ + 1]
  /\ UNCHANGED <<running, consensus, engInit, handlers, sent, starts,
                 published, result>>

Next ==
  \/ SetConsensus \/ Start \/ Stop \/ PublishEvent
  \/ \E h \in Handlers : AddHandler(h)
  \/ \E i \in 1..MaxHandlers : RemoveHandler(i)
  \/ \E l \in DOMAIN loops : LoopRecv(l)

Spec == Init /\ [][Next]_vars

(* Loop l, if it has been spawned, takes a turn.                           *)
Recv(l) == IF l \in DOMAIN loops THEN LoopRecv(l) ELSE FALSE

(* tokio polls a spawned task whose receiver has a message.                *)
FairSpec == Spec /\ \A l \in 1..MaxStarts : WF_vars(Recv(l))

-----------------------------------------------------------------------------
\* Every variable has the type of its Rust field.
TypeOK ==
  /\ running \in BOOLEAN /\ consensus \in BOOLEAN /\ engInit \in BOOLEAN
  /\ handlers \in Seq(Handlers)
  /\ sent \in Nat
  /\ \A l \in DOMAIN loops : /\ loops[l].snap \in Seq(Handlers)
                             /\ loops[l].next \in 1..sent + 1
                             /\ loops[l].alive \in BOOLEAN
  /\ result \in {"ok", "err"}

\* A running FairVM's consensus engine is initialized, across any order of
\* set_consensus, start and stop: start refuses an engine that stop has
\* reset, and set_consensus never swaps the engine of a running node.
RunningImpliesEngineInitialized == running /\ consensus => engInit

\* Every message the channel accepts at or after a loop's subscription is
\* eventually received by that loop (and passed to its handlers).
EventuallyReceived ==
  \A l \in 1..MaxStarts, e \in 1..MaxStarts + MaxPublish :
    (IF l \in DOMAIN loops THEN loops[l].next <= e /\ e <= sent ELSE FALSE)
      ~> (IF l \in DOMAIN loops THEN loops[l].next > e ELSE FALSE)

=============================================================================
