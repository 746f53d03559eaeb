--------------------------- MODULE LifecycleProofs --------------------------
(***************************************************************************)
(* Proof, for every set of handlers, capacity and bounds, that a running   *)
(* FairVM never holds a consensus engine that stop() has reset, and that   *)
(* every variable keeps the type of its Rust field (TypeOK), in particular *)
(* that no recv loop's position ever passes the channel's tail.            *)
(***************************************************************************)
EXTENDS Lifecycle, SequenceTheorems, TLAPS

\* RunningImpliesEngineInitialized with the types of the three flags it
\* relates; inductive as it stands.
EngineInv ==
  /\ running \in BOOLEAN /\ consensus \in BOOLEAN /\ engInit \in BOOLEAN
  /\ RunningImpliesEngineInitialized

LEMMA InitEngineInv == Init => EngineInv
BY DEF Init, EngineInv, RunningImpliesEngineInitialized

\* Each FairVM call, handler-list change and loop turn preserves EngineInv.
LEMMA NextEngineInv == EngineInv /\ [Next]_vars => EngineInv'
<1> SUFFICES ASSUME EngineInv, [Next]_vars PROVE EngineInv'
  OBVIOUS
<1>1. CASE SetConsensus
  BY <1>1, Zenon DEF SetConsensus, EngineInv, RunningImpliesEngineInitialized
<1>2. CASE Start
  <2>1. CASE running
    BY <1>2, <2>1, Zenon DEF Start, EngineInv, RunningImpliesEngineInitialized
  <2>2. CASE ~running /\ consensus /\ ~engInit
    BY <1>2, <2>2, Zenon DEF Start, EngineInv, RunningImpliesEngineInitialized
  <2>3. CASE ~running /\ ~(consensus /\ ~engInit)
    BY <1>2, <2>3, Zenon DEF Start, EngineInv, RunningImpliesEngineInitialized
  <2>. QED
    BY <2>1, <2>2, <2>3
<1>3. CASE Stop
  BY <1>3, Zenon DEF Stop, EngineInv, RunningImpliesEngineInitialized
<1>4. CASE PublishEvent
  BY <1>4, Zenon DEF PublishEvent, EngineInv, RunningImpliesEngineInitialized
<1>5. CASE \E h \in Handlers : AddHandler(h)
  <2>1. UNCHANGED <<running, consensus, engInit>>
    BY <1>5 DEF AddHandler
  <2>. QED
    BY <2>1 DEF EngineInv, RunningImpliesEngineInitialized
<1>6. CASE \E i \in 1..MaxHandlers : RemoveHandler(i)
  <2>1. UNCHANGED <<running, consensus, engInit>>
    BY <1>6 DEF RemoveHandler
  <2>. QED
    BY <2>1 DEF EngineInv, RunningImpliesEngineInitialized
<1>7. CASE \E l \in DOMAIN loops : LoopRecv(l)
  <2>1. UNCHANGED <<running, consensus, engInit>>
    BY <1>7 DEF LoopRecv
  <2>. QED
    BY <2>1 DEF EngineInv, RunningImpliesEngineInitialized
<1>8. CASE UNCHANGED vars
  BY <1>8 DEF vars, EngineInv, RunningImpliesEngineInitialized
<1>. QED
  BY <1>1, <1>2, <1>3, <1>4, <1>5, <1>6, <1>7, <1>8 DEF Next

\* In every behaviour of the node, a running FairVM's consensus engine is
\* initialized: start() refuses an engine reset by stop(), and
\* set_consensus() never replaces the engine of a running node (checked
\* by the run lifecycle on a small instance).
THEOREM EngineInitializedWhileRunning == Spec => []RunningImpliesEngineInitialized
<1>1. EngineInv => RunningImpliesEngineInitialized
  BY DEF EngineInv
<1>. QED
  BY InitEngineInv, NextEngineInv, <1>1, PTL DEF Spec

-----------------------------------------------------------------------------
(* The type of a spawned loop: its handler snapshot, its next position and *)
(* whether it is alive.                                                    *)
LoopRec == [snap : Seq(Handlers), next : Nat, alive : BOOLEAN]

\* TypeOK with the list of loops typed as a whole (TypeOK constrains each
\* loop but not that loops is a sequence, which Append needs).
TypeInv == TypeOK /\ loops \in Seq(LoopRec)

LEMMA InitTypeInv == Init => TypeInv
<1> SUFFICES ASSUME Init PROVE TypeInv
  OBVIOUS
<1>2. loops \in Seq(LoopRec) /\ DOMAIN loops = {}
  BY DEF Init
<1>3. handlers \in Seq(Handlers) /\ sent \in Nat
  BY DEF Init
<1>. QED
  BY <1>2, <1>3 DEF Init, TypeInv, TypeOK

\* One turn of loop l keeps every loop's position within the channel: it
\* advances only a position that is not past the tail.
LEMMA LoopRecvType ==
  ASSUME TypeInv, NEW l \in DOMAIN loops, LoopRecv(l)
  PROVE  TypeInv'
<1>0. /\ loops \in Seq(LoopRec) /\ sent \in Nat
      /\ \A k \in DOMAIN loops : loops[k].next \in 1..sent + 1
  BY DEF TypeInv, TypeOK
<1>1. UNCHANGED <<running, consensus, engInit, handlers, sent, result>>
  BY DEF LoopRecv
<1>2. /\ l \in 1..Len(loops)
      /\ loops[l] \in LoopRec
      /\ loops[l].next <= sent
  BY <1>0 DEF LoopRecv
\* Either branch replaces loop l by a record of the same type whose
\* position is at most one past the tail.
<1>3. \E rec \in LoopRec :
        /\ loops' = [loops EXCEPT ![l] = rec]
        /\ rec.snap = loops[l].snap
        /\ rec.next \in 1..sent + 1
  <2>1. CASE Lagged(l)
    <3> DEFINE upd == [loops[l] EXCEPT !.alive = FALSE]
    <3>1. upd \in LoopRec /\ upd.snap = loops[l].snap /\ upd.next \in 1..sent + 1
      BY <1>0, <1>2 DEF LoopRec
    <3>2. loops' = [loops EXCEPT ![l] = upd]
      BY <2>1 DEF LoopRecv
    <3>. QED
      BY <3>1, <3>2
  <2>2. CASE ~Lagged(l)
    <3> DEFINE upd == [loops[l] EXCEPT !.next = @ + 1]
    <3>0. loops[l].next + 1 \in 1..sent + 1
      BY <1>0, <1>2 DEF LoopRec
    <3>1. upd = [snap |-> loops[l].snap, next |-> loops[l].next + 1,
                 alive |-> loops[l].alive]
      BY <1>2 DEF LoopRec
    <3>2. upd \in LoopRec /\ upd.snap = loops[l].snap /\ upd.next \in 1..sent + 1
      BY <1>2, <3>0, <3>1 DEF LoopRec
    <3>3. loops' = [loops EXCEPT ![l] = upd]
      BY <2>2 DEF LoopRecv
    <3>. QED
      BY <3>2, <3>3
  <2>. QED
    BY <2>1, <2>2
<1>4. loops' \in Seq(LoopRec)
      /\ \A k \in DOMAIN loops' : /\ loops'[k].snap \in Seq(Handlers)
                                  /\ loops'[k].next \in 1..sent + 1
                                  /\ loops'[k].alive \in BOOLEAN
  <2>1. PICK rec \in LoopRec : /\ loops' = [loops EXCEPT ![l] = rec]
                               /\ rec.next \in 1..sent + 1
    BY <1>3
  <2>2. /\ loops' \in Seq(LoopRec) /\ Len(loops') = Len(loops)
        /\ \A j \in 1..Len(loops) : loops'[j] = IF j = l THEN rec ELSE loops[j]
    BY <1>0, <1>2, <2>1, ExceptSeq
  <2>3. DOMAIN loops' = 1..Len(loops) /\ DOMAIN loops = 1..Len(loops)
    BY <1>0, <2>2, LenProperties
  <2>4. ASSUME NEW k \in 1..Len(loops)
        PROVE  /\ loops'[k].snap \in Seq(Handlers)
               /\ loops'[k].next \in 1..sent + 1
               /\ loops'[k].alive \in BOOLEAN
    <3>1. CASE k = l
      BY <2>1, <2>2, <3>1 DEF LoopRec
    <3>2. CASE k # l
      <4>1. loops'[k] = loops[k] /\ loops[k] \in LoopRec
        BY <1>0, <2>2, <3>2
      <4>2. loops[k].next \in 1..sent + 1
        BY <1>0, <2>3
      <4>. QED
        BY <4>1, <4>2 DEF LoopRec
    <3>. QED
      BY <3>1, <3>2
  <2>. QED
    BY <2>2, <2>3, <2>4
<1>. QED
  BY <1>0, <1>1, <1>4 DEF TypeInv, TypeOK

\* start() appends a loop subscribed at the tail and sends at most one
\* message.
LEMMA StartType == TypeInv /\ Start => TypeInv'
<1> SUFFICES ASSUME TypeInv, Start PROVE TypeInv'
  OBVIOUS
<1>0. /\ loops \in Seq(LoopRec) /\ sent \in Nat
      /\ handlers \in Seq(Handlers) /\ running \in BOOLEAN
      /\ \A k \in DOMAIN loops : loops[k].next \in 1..sent + 1
  BY DEF TypeInv, TypeOK
<1>1. CASE running
  BY <1>1 DEF Start, TypeInv, TypeOK
<1>2. CASE ~running
  <2> DEFINE lp == [snap |-> handlers, next |-> sent + 1, alive |-> TRUE]
  <2>1. loops' = Append(loops, lp)
    BY <1>2 DEF Start
  <2>2. UNCHANGED <<consensus, engInit, handlers>>
    BY DEF Start
  <2>3. /\ running' \in BOOLEAN /\ result' \in {"ok", "err"}
        /\ (sent' = sent \/ sent' = sent + 1)
    BY <1>0, <1>2 DEF Start
  <2>4. sent' \in Nat /\ sent + 1 \in 1..sent' + 1
    BY <1>0, <2>3
  <2>5. lp \in LoopRec
    BY <1>0 DEF LoopRec
  <2>6. /\ loops' \in Seq(LoopRec) /\ Len(loops') = Len(loops) + 1
        /\ \A k \in 1..Len(loops) : loops'[k] = loops[k]
        /\ loops'[Len(loops) + 1] = lp
    BY <1>0, <2>1, <2>5, AppendProperties
  <2>7. /\ Len(loops) \in Nat /\ DOMAIN loops = 1..Len(loops)
        /\ DOMAIN loops' = 1..Len(loops) + 1
    BY <1>0, <2>6, LenProperties
  <2>8. ASSUME NEW k \in DOMAIN loops'
        PROVE  /\ loops'[k].snap \in Seq(Handlers)
               /\ loops'[k].next \in 1..sent' + 1
               /\ loops'[k].alive \in BOOLEAN
    <3>1. CASE k \in 1..Len(loops)
      <4>1. loops'[k] = loops[k] /\ loops[k] \in LoopRec
        BY <1>0, <2>6, <2>7, <3>1
      <4>2. loops[k].next \in 1..sent' + 1
        BY <1>0, <2>3, <2>4, <2>7, <3>1
      <4>. QED
        BY <4>1, <4>2 DEF LoopRec
    <3>2. CASE k = Len(loops) + 1
      <4>1. loops'[k] = lp
        BY <2>6, <3>2
      <4>2. lp.snap \in Seq(Handlers) /\ lp.next \in 1..sent' + 1
            /\ lp.alive \in BOOLEAN
        BY <1>0, <2>4
      <4>. QED
        BY <4>1, <4>2
    <3>. QED
      BY <2>7, <3>1, <3>2
  <2>9. /\ handlers' \in Seq(Handlers)
        /\ consensus' \in BOOLEAN /\ engInit' \in BOOLEAN
    BY <1>0, <2>2 DEF TypeInv, TypeOK
  <2>. QED
    BY <2>3, <2>4, <2>6, <2>8, <2>9 DEF TypeInv, TypeOK
<1>. QED
  BY <1>1, <1>2

\* remove_event_handler(i): Vec::remove leaves a sequence of handlers.
LEMMA RemoveHandlerType ==
  ASSUME TypeInv, NEW i \in 1..MaxHandlers, RemoveHandler(i)
  PROVE  TypeInv'
<1> USE DEF TypeInv, TypeOK
<1>1. handlers' \in Seq(Handlers)
  <2>1. Len(handlers) - 1 \in Nat
    BY DEF RemoveHandler
  <2>. QED
    BY <2>1 DEF RemoveHandler
<1>. QED
  BY <1>1 DEF RemoveHandler

LEMMA NextTypeInv == TypeInv /\ [Next]_vars => TypeInv'
<1> SUFFICES ASSUME TypeInv, [Next]_vars PROVE TypeInv'
  OBVIOUS
<1>1. CASE SetConsensus
  BY <1>1 DEF SetConsensus, TypeInv, TypeOK
<1>2. CASE Start
  BY <1>2, StartType
<1>3. CASE Stop
  BY <1>3 DEF Stop, TypeInv, TypeOK
<1>4. CASE PublishEvent
  BY <1>4 DEF PublishEvent, TypeInv, TypeOK
<1>5. CASE \E h \in Handlers : AddHandler(h)
  BY <1>5 DEF AddHandler, TypeInv, TypeOK
<1>6. CASE \E i \in 1..MaxHandlers : RemoveHandler(i)
  BY <1>6, RemoveHandlerType
<1>7. CASE \E l \in DOMAIN loops : LoopRecv(l)
  BY <1>7, LoopRecvType
<1>8. CASE UNCHANGED vars
  BY <1>8 DEF vars, TypeInv, TypeOK
<1>. QED
  BY <1>1, <1>2, <1>3, <1>4, <1>5, <1>6, <1>7, <1>8 DEF Next

\* In every behaviour of the node, the variables keep their types: in
\* particular each spawned recv loop's next position stays between 1 and
\* one past the channel's tail, whatever the order of start, publish and
\* loop turns (checked by the run lifecycle on a small instance).
THEOREM LifecycleTypeCorrect == Spec => []TypeOK
<1>1. TypeInv => TypeOK
  BY DEF TypeInv
<1>. QED
  BY InitTypeInv, NextTypeInv, <1>1, PTL DEF Spec
=============================================================================
