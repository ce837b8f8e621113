--------------------------- MODULE RespProxyProofs --------------------------
(***************************************************************************)
(* The promises of the RESP proxy's gate hold for any number of            *)
(* connections, control threads and gate moves.                            *)
(***************************************************************************)
EXTENDS RespProxy, FiniteSetTheorems, TLAPS

USE ZenonT(60)

(* The mover that drains is the one that holds the lock of the moves, and    *)
(* the gate is the one it closed.                                            *)
DrainOwned ==
  \A m \in Movers :
    /\ mpc[m] = "drain" <=> transitions = m
    /\ mpc[m] = "drain" => gate = kind[m] /\ gate \in Kinds

(* Once drained, the count is zero and the gate stays shut, so no delivery   *)
(* passes it before a restore.                                               *)
SealedShut == sealed # "no" => gate # "forwarding" /\ delivering = 0

(* A connection accepted under a timeout cut-off got no further than the     *)
(* loop that holds it.                                                       *)
BornHeldWaits ==
  \A c \in bornHeld :
    /\ gate # "forwarding"
    /\ store[c] = "none"
    /\ pc[c] \in {"enter", "begin", "top", "held", "leave", "shut", "done"}

(* A connection is registered between Enter and Leave, and has both its      *)
(* sockets shut when its thread is done.                                     *)
Registered ==
  \A c \in Conns :
    /\ pc[c] \in {"new", "refuse", "enter"} => c \notin live /\ store[c] = "none"
    /\ pc[c] = "shut" => c \notin live
    /\ pc[c] = "done" => sock[c] = "shut" /\ store[c] # "open" /\ c \notin live

ProxyInv == TypeOK /\ CountExact /\ DrainOwned /\ SealedShut /\ BornHeldWaits /\ Registered

(* What the program counter of one thread does to the deliveries under way. *)
LEMMA InFlightMove ==
  ASSUME TypeOK, NEW c \in Conns, NEW l \in ConnLabels, At(c, l)
  PROVE  /\ l \in {"write", "written", "raised"} => InFlight' = InFlight \cup {c}
         /\ l \notin {"write", "written", "raised"} => InFlight' = InFlight \ {c}
BY DEF TypeOK, At, InFlight

(* The deliveries under way are finitely many. *)
LEMMA InFlightFinite == IsFiniteSet(InFlight) /\ Cardinality(InFlight) \in Nat
<1>1. InFlight \in SUBSET Conns
  BY DEF InFlight
<1>2. IsFiniteSet(InFlight)
  BY <1>1, ProxyAssumption, FS_Subset
<1> QED
  BY <1>2, FS_CardinalityType

(* The count is positive while a delivery is under way. *)
LEMMA CountPositive ==
  ASSUME TypeOK, CountExact, NEW c \in InFlight
  PROVE  delivering - 1 \in Nat
<1>1. Cardinality(InFlight) # 0
  BY InFlightFinite, FS_EmptySet
<1> QED
  BY SMTT(60), <1>1, InFlightFinite DEF CountExact

(* Every step of a connection's thread keeps the types. *)
LEMMA ConnTypes ==
  ASSUME TypeOK, CountExact, NEW c \in Conns, ConnStep(c)
  PROVE  TypeOK'
<1> USE DEF TypeOK, ConnLabels, Kinds, gateVars, moverVars
<1>1. UNCHANGED <<gateVars, resets, moverVars>>
  BY DEF ConnStep
<1>2. CASE Accept(c)
  BY SMTT(60), <1>1, <1>2 DEF Accept, At, CountUp, Counters
<1>3. CASE Refuse(c)
  BY SMTT(60), <1>1, <1>3 DEF Refuse, At, CountUp, Counters
<1>4. CASE Enter(c)
  BY SMTT(60), <1>1, <1>4 DEF Enter, At, CountUp, Counters
<1>5. CASE Begin(c)
  BY <1>1, <1>5 DEF Begin, At
<1>6. CASE Top(c)
  <2>1. PICK l \in {"leave", "held", "dial", "recv"} : At(c, l)
    BY <1>6 DEF Top
  <2> QED
    BY SMTT(60), <1>1, <1>6, <2>1 DEF Top, At
<1>7. CASE Held(c)
  BY <1>1, <1>7 DEF Held, At
<1>8. CASE Dial(c)
  BY SMTT(60), <1>1, <1>8 DEF Dial, At, CountUp, Counters
<1>9. CASE DialFails(c)
  BY <1>1, <1>9 DEF DialFails, At
<1>10. CASE RecvNothing(c)
  BY <1>1, <1>10 DEF RecvNothing, At, NextDirection
<1>11. CASE RecvChunk(c)
  BY <1>1, <1>11 DEF RecvChunk, At
<1>12. CASE RecvEnd(c)
  BY <1>1, <1>12 DEF RecvEnd, At
<1>13. CASE PassGate(c)
  BY SMTT(60), <1>1, <1>13 DEF PassGate, At
<1>14. CASE DropChunk(c)
  BY <1>1, <1>14 DEF DropChunk, At, NextDirection
<1>15. CASE Write(c)
  BY <1>1, <1>15 DEF Write, At
<1>16. CASE Release(c)
  <2>1. delivering - 1 \in Nat
    BY <1>16, CountPositive DEF Release, InFlight
  <2> QED
    BY <1>1, <1>16, <2>1 DEF Release, At, NextDirection
<1>17. CASE ReleaseRaised(c)
  <2>1. delivering - 1 \in Nat
    BY <1>17, CountPositive DEF ReleaseRaised, InFlight
  <2> QED
    BY <1>1, <1>17, <2>1 DEF ReleaseRaised, At
<1>18. CASE IdleExpired(c)
  BY <1>1, <1>18 DEF IdleExpired, At
<1>19. CASE Reclaim(c)
  BY SMTT(60), <1>1, <1>19 DEF Reclaim, At, CountUp, Counters
<1>20. CASE Leave(c)
  BY <1>1, <1>20 DEF Leave, At
<1>21. CASE Shut(c)
  BY <1>1, <1>21 DEF Shut, At
<1> QED
  BY <1>2, <1>3, <1>4, <1>5, <1>6, <1>7, <1>8, <1>9, <1>10, <1>11, <1>12, <1>13, <1>14, <1>15, <1>16,
     <1>17, <1>18, <1>19, <1>20, <1>21 DEF ConnStep, Carry

(* Every step of a control thread keeps the types. *)
LEMMA MoveTypes ==
  ASSUME TypeOK, DrainOwned, NEW m \in Movers,
         (\E k \in Kinds : CutOff(m, k)) \/ FinishMove(m) \/ Restore(m)
  PROVE  TypeOK'
<1> USE DEF TypeOK, connVars, moverVars, gateVars
<1>1. ASSUME NEW k \in Kinds, CutOff(m, k) PROVE TypeOK'
  <2>1. Cardinality(live) \in Nat
    BY ProxyAssumption, FS_Subset, FS_CardinalityType
  <2>2. counters' \in [Counters -> Nat]
    BY SMTT(60), <1>1, <2>1 DEF CutOff, CountUp, Counters
  <2>3. moves' \in 0..MaxMoves
    BY SMTT(60), <1>1, ProxyAssumption DEF CutOff, MayMove
  <2> QED
    BY <1>1, <2>2, <2>3 DEF CutOff, Kinds
<1>2. CASE Drained(m)
  BY <1>2 DEF Drained, DrainOwned
<1>3. CASE ShutOne(m)
  BY SMTT(60), <1>3 DEF ShutOne
<1>4. CASE CutOffReturns(m)
  BY <1>4 DEF CutOffReturns
<1>5. CASE Restore(m)
  BY SMTT(60), <1>5, ProxyAssumption DEF Restore, MayMove
<1> QED
  BY <1>1, <1>2, <1>3, <1>4, <1>5 DEF FinishMove

(* The delivery count is exact: it goes up with the pass of the gate and down *)
(* in the finally, and no other step of the thread enters or leaves a write.  *)
LEMMA ConnCounts ==
  ASSUME TypeOK, CountExact, NEW c \in Conns, ConnStep(c)
  PROVE  CountExact'
<1> DEFINE W == {"write", "written", "raised"}
<1> USE DEF CountExact
<1>1. c \in InFlight <=> pc[c] \in W
  BY DEF InFlight
<1>2. ASSUME NEW l \in ConnLabels, At(c, l), l \in W <=> pc[c] \in W, UNCHANGED delivering
      PROVE  CountExact'
  <2>1. InFlight' = InFlight
    BY <1>1, <1>2, InFlightMove
  <2> QED
    BY <1>2, <2>1
<1>3. CASE Accept(c)
  <2>1. (\E l \in {"refuse", "enter"} : At(c, l)) /\ UNCHANGED delivering
    BY <1>3 DEF Accept
  <2> QED
    BY <1>2, <1>3, <2>1 DEF Accept, ConnLabels
<1>4. CASE Refuse(c)
  <2>1. (\E l \in {"done"} : At(c, l)) /\ UNCHANGED delivering
    BY <1>4 DEF Refuse
  <2> QED
    BY <1>2, <1>4, <2>1 DEF Refuse, ConnLabels
<1>5. CASE Enter(c)
  <2>1. (\E l \in {"begin"} : At(c, l)) /\ UNCHANGED delivering
    BY <1>5 DEF Enter
  <2> QED
    BY <1>2, <1>5, <2>1 DEF Enter, ConnLabels
<1>6. CASE Begin(c)
  <2>1. (\E l \in {"top", "leave"} : At(c, l)) /\ UNCHANGED delivering
    BY <1>6 DEF Begin
  <2> QED
    BY <1>2, <1>6, <2>1 DEF Begin, ConnLabels
<1>7. CASE Top(c)
  <2>1. (\E l \in {"leave", "held", "dial", "recv"} : At(c, l)) /\ UNCHANGED delivering
    BY <1>7 DEF Top, TypeOK, Kinds
  <2> QED
    BY <1>2, <1>7, <2>1 DEF Top, ConnLabels
<1>8. CASE Held(c)
  <2>1. (\E l \in {"leave", "top"} : At(c, l)) /\ UNCHANGED delivering
    BY <1>8 DEF Held
  <2> QED
    BY <1>2, <1>8, <2>1 DEF Held, ConnLabels
<1>9. CASE Dial(c)
  <2>1. (\E l \in {"recv"} : At(c, l)) /\ UNCHANGED delivering
    BY <1>9 DEF Dial
  <2> QED
    BY <1>2, <1>9, <2>1 DEF Dial, ConnLabels
<1>10. CASE DialFails(c)
  <2>1. (\E l \in {"leave"} : At(c, l)) /\ UNCHANGED delivering
    BY <1>10 DEF DialFails
  <2> QED
    BY <1>2, <1>10, <2>1 DEF DialFails, ConnLabels
<1>11. CASE RecvNothing(c)
  <2>1. (\E l \in {"recv", "idle"} : At(c, l)) /\ UNCHANGED delivering
    BY <1>11 DEF RecvNothing, NextDirection
  <2> QED
    BY <1>2, <1>11, <2>1 DEF RecvNothing, ConnLabels
<1>12. CASE RecvChunk(c)
  <2>1. (\E l \in {"send"} : At(c, l)) /\ UNCHANGED delivering
    BY <1>12 DEF RecvChunk
  <2> QED
    BY <1>2, <1>12, <2>1 DEF RecvChunk, ConnLabels
<1>13. CASE RecvEnd(c)
  <2>1. (\E l \in {"leave"} : At(c, l)) /\ UNCHANGED delivering
    BY <1>13 DEF RecvEnd
  <2> QED
    BY <1>2, <1>13, <2>1 DEF RecvEnd, ConnLabels
<1>14. CASE PassGate(c)
  <2>1. InFlight' = InFlight \cup {c} /\ c \notin InFlight
    BY <1>1, <1>14, InFlightMove DEF PassGate, ConnLabels
  <2>2. Cardinality(InFlight \cup {c}) = Cardinality(InFlight) + 1
    BY <2>1, InFlightFinite, FS_AddElement
  <2> QED
    BY <1>14, <2>1, <2>2 DEF PassGate
<1>15. CASE DropChunk(c)
  <2>1. (\E l \in {"recv", "idle"} : At(c, l)) /\ UNCHANGED delivering
    BY <1>15 DEF DropChunk, NextDirection
  <2> QED
    BY <1>2, <1>15, <2>1 DEF DropChunk, ConnLabels
<1>16. CASE Write(c)
  <2>1. (\E l \in {"written", "raised"} : At(c, l)) /\ UNCHANGED delivering
    BY <1>16 DEF Write
  <2> QED
    BY <1>2, <1>16, <2>1 DEF Write, ConnLabels
<1>17. CASE Release(c)
  <2>1. \E l \in {"recv", "idle"} : At(c, l)
    BY <1>17 DEF Release, NextDirection
  <2>2. InFlight' = InFlight \ {c} /\ c \in InFlight
    BY <1>1, <1>17, <2>1, InFlightMove DEF Release, ConnLabels
  <2>3. Cardinality(InFlight \ {c}) = Cardinality(InFlight) - 1
    BY <2>2, InFlightFinite, FS_RemoveElement
  <2> QED
    BY <1>17, <2>2, <2>3 DEF Release
<1>18. CASE ReleaseRaised(c)
  <2>1. \E l \in {"leave"} : At(c, l)
    BY <1>18 DEF ReleaseRaised
  <2>2. InFlight' = InFlight \ {c} /\ c \in InFlight
    BY <1>1, <1>18, <2>1, InFlightMove DEF ReleaseRaised, ConnLabels
  <2>3. Cardinality(InFlight \ {c}) = Cardinality(InFlight) - 1
    BY <2>2, InFlightFinite, FS_RemoveElement
  <2> QED
    BY <1>18, <2>2, <2>3 DEF ReleaseRaised
<1>19. CASE IdleExpired(c)
  <2>1. (\E l \in {"top", "reclaim"} : At(c, l)) /\ UNCHANGED delivering
    BY <1>19 DEF IdleExpired
  <2> QED
    BY <1>2, <1>19, <2>1 DEF IdleExpired, ConnLabels
<1>20. CASE Reclaim(c)
  <2>1. (\E l \in {"leave", "top"} : At(c, l)) /\ UNCHANGED delivering
    BY <1>20 DEF Reclaim
  <2> QED
    BY <1>2, <1>20, <2>1 DEF Reclaim, ConnLabels
<1>21. CASE Leave(c)
  <2>1. (\E l \in {"shut"} : At(c, l)) /\ UNCHANGED delivering
    BY <1>21 DEF Leave
  <2> QED
    BY <1>2, <1>21, <2>1 DEF Leave, ConnLabels
<1>22. CASE Shut(c)
  <2>1. (\E l \in {"done"} : At(c, l)) /\ UNCHANGED delivering
    BY <1>22 DEF Shut
  <2> QED
    BY <1>2, <1>22, <2>1 DEF Shut, ConnLabels
<1> QED
  BY <1>3, <1>4, <1>5, <1>6, <1>7, <1>8, <1>9, <1>10, <1>11, <1>12, <1>13, <1>14, <1>15, <1>16, <1>17,
     <1>18, <1>19, <1>20, <1>21, <1>22 DEF ConnStep, Carry

(* The steps of the connections keep the three facts about gate and sockets. *)
LEMMA ConnKeeps ==
  ASSUME ProxyInv, NEW c \in Conns, ConnStep(c)
  PROVE  DrainOwned' /\ SealedShut' /\ BornHeldWaits' /\ Registered'
<1> USE DEF ProxyInv
<1>1. UNCHANGED <<gate, transitions, sealed, mpc, kind>>
  BY DEF ConnStep, gateVars, moverVars
<1>2. DrainOwned'
  BY <1>1 DEF DrainOwned
<1>3. CASE Accept(c)
  <2>1. SealedShut'
    BY <1>1, <1>3 DEF SealedShut, Accept
  <2>2. BornHeldWaits'
    BY SMTT(60), <1>1, <1>3 DEF BornHeldWaits, Registered, TypeOK, Kinds, Accept, At, CountUp
  <2>3. Registered'
    BY <1>3 DEF Registered, TypeOK, Accept, At, CountUp
  <2> QED
    BY <1>2, <2>1, <2>2, <2>3
<1>4. CASE Refuse(c)
  <2>1. SealedShut'
    BY <1>1, <1>4 DEF SealedShut, Refuse
  <2>2. BornHeldWaits'
    BY <1>1, <1>4 DEF BornHeldWaits, Registered, TypeOK, Kinds, Refuse, At, CountUp
  <2>3. Registered'
    BY <1>4 DEF Registered, TypeOK, Refuse, At, CountUp
  <2> QED
    BY <1>2, <2>1, <2>2, <2>3
<1>5. CASE Enter(c)
  <2>1. SealedShut'
    BY <1>1, <1>5 DEF SealedShut, Enter
  <2>2. BornHeldWaits'
    BY SMTT(60), <1>1, <1>5 DEF BornHeldWaits, Registered, TypeOK, Kinds, Enter, At, CountUp
  <2>3. Registered'
    BY <1>5 DEF Registered, TypeOK, Enter, At, CountUp
  <2> QED
    BY <1>2, <2>1, <2>2, <2>3
<1>6. CASE Begin(c)
  <2>1. SealedShut'
    BY <1>1, <1>6 DEF SealedShut, Begin
  <2>2. BornHeldWaits'
    BY SMTT(60), <1>1, <1>6 DEF BornHeldWaits, Registered, TypeOK, Kinds, Begin, At
  <2>3. Registered'
    BY <1>6 DEF Registered, TypeOK, Begin, At
  <2> QED
    BY <1>2, <2>1, <2>2, <2>3
<1>7. CASE Top(c)
  <2>1. SealedShut'
    BY <1>1, <1>7 DEF SealedShut, Top
  <2>2. BornHeldWaits'
    BY SMTT(60), <1>1, <1>7 DEF BornHeldWaits, Registered, TypeOK, Kinds, Top, At
  <2>3. Registered'
    <3>1. PICK l \in {"leave", "held", "dial", "recv"} : At(c, l)
      BY <1>7 DEF Top, TypeOK, Kinds
    <3>2. /\ pc[c] = "top"
          /\ pc' = [pc EXCEPT ![c] = l]
          /\ UNCHANGED <<live, store, sock>>
      BY <1>7, <3>1 DEF Top, At
    <3>3. Registered /\ pc \in [Conns -> ConnLabels]
      BY DEF TypeOK
    <3> HIDE DEF TypeOK, ProxyInv
    <3> QED
      BY <3>2, <3>3 DEF Registered
  <2> QED
    BY <1>2, <2>1, <2>2, <2>3
<1>8. CASE Held(c)
  <2>1. SealedShut'
    BY <1>1, <1>8 DEF SealedShut, Held
  <2>2. BornHeldWaits'
    BY SMTT(60), <1>1, <1>8 DEF BornHeldWaits, Registered, TypeOK, Kinds, Held, At
  <2>3. Registered'
    BY SMTT(60), <1>8 DEF Registered, TypeOK, Held, At
  <2> QED
    BY <1>2, <2>1, <2>2, <2>3
<1>9. CASE Dial(c)
  <2>1. SealedShut'
    BY <1>1, <1>9 DEF SealedShut, Dial
  <2>2. BornHeldWaits'
    BY SMTT(60), <1>1, <1>9 DEF BornHeldWaits, Registered, TypeOK, Kinds, Dial, At, CountUp
  <2>3. Registered'
    BY SMTT(60), <1>9 DEF Registered, TypeOK, Dial, At, CountUp
  <2> QED
    BY <1>2, <2>1, <2>2, <2>3
<1>10. CASE DialFails(c)
  <2>1. SealedShut'
    BY <1>1, <1>10 DEF SealedShut, DialFails
  <2>2. BornHeldWaits'
    BY SMTT(60), <1>1, <1>10 DEF BornHeldWaits, Registered, TypeOK, Kinds, DialFails, At
  <2>3. Registered'
    BY <1>10 DEF Registered, TypeOK, DialFails, At
  <2> QED
    BY <1>2, <2>1, <2>2, <2>3
<1>11. CASE RecvNothing(c)
  <2>1. SealedShut'
    BY <1>1, <1>11 DEF SealedShut, RecvNothing
  <2>2. BornHeldWaits'
    BY SMTT(60), <1>1, <1>11 DEF BornHeldWaits, Registered, TypeOK, Kinds, RecvNothing, At, NextDirection
  <2>3. Registered'
    BY SMTT(60), <1>11 DEF Registered, TypeOK, RecvNothing, At, NextDirection
  <2> QED
    BY <1>2, <2>1, <2>2, <2>3
<1>12. CASE RecvChunk(c)
  <2>1. SealedShut'
    BY <1>1, <1>12 DEF SealedShut, RecvChunk
  <2>2. BornHeldWaits'
    BY SMTT(60), <1>1, <1>12 DEF BornHeldWaits, Registered, TypeOK, Kinds, RecvChunk, At
  <2>3. Registered'
    BY <1>12 DEF Registered, TypeOK, RecvChunk, At
  <2> QED
    BY <1>2, <2>1, <2>2, <2>3
<1>13. CASE RecvEnd(c)
  <2>1. SealedShut'
    BY <1>1, <1>13 DEF SealedShut, RecvEnd
  <2>2. BornHeldWaits'
    BY <1>1, <1>13 DEF BornHeldWaits, Registered, TypeOK, Kinds, RecvEnd, At
  <2>3. Registered'
    BY <1>13 DEF Registered, TypeOK, RecvEnd, At
  <2> QED
    BY <1>2, <2>1, <2>2, <2>3
<1>14. CASE PassGate(c)
  <2>1. SealedShut'
    BY <1>1, <1>14 DEF SealedShut, PassGate
  <2>2. BornHeldWaits'
    BY <1>1, <1>14 DEF BornHeldWaits, Registered, TypeOK, Kinds, PassGate, At
  <2>3. Registered'
    BY <1>14 DEF Registered, TypeOK, PassGate, At
  <2> QED
    BY <1>2, <2>1, <2>2, <2>3
<1>15. CASE DropChunk(c)
  <2>1. SealedShut'
    BY <1>1, <1>15 DEF SealedShut, DropChunk
  <2>2. BornHeldWaits'
    BY SMTT(60), <1>1, <1>15 DEF BornHeldWaits, Registered, TypeOK, Kinds, DropChunk, At, NextDirection
  <2>3. Registered'
    BY SMTT(60), <1>15 DEF Registered, TypeOK, DropChunk, At, NextDirection
  <2> QED
    BY <1>2, <2>1, <2>2, <2>3
<1>16. CASE Write(c)
  <2>1. SealedShut'
    BY <1>1, <1>16 DEF SealedShut, Write
  <2>2. BornHeldWaits'
    BY SMTT(60), <1>1, <1>16 DEF BornHeldWaits, Registered, TypeOK, Kinds, Write, At
  <2>3. Registered'
    BY SMTT(60), <1>16 DEF Registered, TypeOK, Write, At
  <2> QED
    BY <1>2, <2>1, <2>2, <2>3
<1>17. CASE Release(c)
  <2>1. SealedShut'
    <3>1. c \in InFlight
      BY <1>17 DEF Release, InFlight
    <3>2. delivering # 0
      BY <3>1, CountPositive, InFlightFinite, FS_EmptySet DEF CountExact
    <3> QED
      BY <1>1, <3>2 DEF SealedShut
  <2>2. BornHeldWaits'
    BY SMTT(60), <1>1, <1>17 DEF BornHeldWaits, Registered, TypeOK, Kinds, Release, At, NextDirection
  <2>3. Registered'
    BY SMTT(60), <1>17 DEF Registered, TypeOK, Release, At, NextDirection
  <2> QED
    BY <1>2, <2>1, <2>2, <2>3
<1>18. CASE ReleaseRaised(c)
  <2>1. SealedShut'
    <3>1. c \in InFlight
      BY <1>18 DEF ReleaseRaised, InFlight
    <3>2. delivering # 0
      BY <3>1, CountPositive, InFlightFinite, FS_EmptySet DEF CountExact
    <3> QED
      BY <1>1, <3>2 DEF SealedShut
  <2>2. BornHeldWaits'
    BY SMTT(60), <1>1, <1>18 DEF BornHeldWaits, Registered, TypeOK, Kinds, ReleaseRaised, At
  <2>3. Registered'
    BY <1>18 DEF Registered, TypeOK, ReleaseRaised, At
  <2> QED
    BY <1>2, <2>1, <2>2, <2>3
<1>19. CASE IdleExpired(c)
  <2>1. SealedShut'
    BY <1>1, <1>19 DEF SealedShut, IdleExpired
  <2>2. BornHeldWaits'
    BY SMTT(60), <1>1, <1>19 DEF BornHeldWaits, Registered, TypeOK, Kinds, IdleExpired, At
  <2>3. Registered'
    BY SMTT(60), <1>19 DEF Registered, TypeOK, IdleExpired, At
  <2> QED
    BY <1>2, <2>1, <2>2, <2>3
<1>20. CASE Reclaim(c)
  <2>1. SealedShut'
    BY <1>1, <1>20 DEF SealedShut, Reclaim
  <2>2. BornHeldWaits'
    BY SMTT(60), <1>1, <1>20 DEF BornHeldWaits, Registered, TypeOK, Kinds, Reclaim, At, CountUp
  <2>3. Registered'
    BY SMTT(60), <1>20 DEF Registered, TypeOK, Reclaim, At, CountUp
  <2> QED
    BY <1>2, <2>1, <2>2, <2>3
<1>21. CASE Leave(c)
  <2>1. SealedShut'
    BY <1>1, <1>21 DEF SealedShut, Leave
  <2>2. BornHeldWaits'
    BY <1>1, <1>21 DEF BornHeldWaits, Registered, TypeOK, Kinds, Leave, At
  <2>3. Registered'
    BY <1>21 DEF Registered, TypeOK, Leave, At
  <2> QED
    BY <1>2, <2>1, <2>2, <2>3
<1>22. CASE Shut(c)
  <2>1. SealedShut'
    BY <1>1, <1>22 DEF SealedShut, Shut
  <2>2. BornHeldWaits'
    BY SMTT(60), <1>1, <1>22 DEF BornHeldWaits, Registered, TypeOK, Kinds, Shut, At
  <2>3. Registered'
    BY SMTT(60), <1>22 DEF Registered, TypeOK, Shut, At
  <2> QED
    BY <1>2, <2>1, <2>2, <2>3
<1> QED
  BY <1>3, <1>4, <1>5, <1>6, <1>7, <1>8, <1>9, <1>10, <1>11, <1>12, <1>13, <1>14, <1>15, <1>16, <1>17,
     <1>18, <1>19, <1>20, <1>21, <1>22 DEF ConnStep, Carry

(* So do the steps of the control threads. *)
LEMMA MoveKeeps ==
  ASSUME ProxyInv, NEW m \in Movers,
         (\E k \in Kinds : CutOff(m, k)) \/ FinishMove(m) \/ Restore(m)
  PROVE  CountExact' /\ DrainOwned' /\ SealedShut' /\ BornHeldWaits' /\ Registered'
<1> USE DEF ProxyInv, connVars, moverVars, gateVars
<1>1. ASSUME UNCHANGED <<pc, delivering>> PROVE CountExact'
  BY <1>1 DEF CountExact, InFlight
<1>2. ASSUME NEW k \in Kinds, CutOff(m, k)
      PROVE  CountExact' /\ DrainOwned' /\ SealedShut' /\ BornHeldWaits' /\ Registered'
  <2>1. DrainOwned'
    BY SMTT(60), <1>2, ProxyAssumption DEF CutOff, MayMove, DrainOwned, TypeOK
  <2>2. SealedShut'
    BY <1>2 DEF CutOff, SealedShut, Kinds
  <2>3. BornHeldWaits'
    BY <1>2 DEF CutOff, BornHeldWaits, Kinds
  <2>4. Registered'
    BY <1>2 DEF CutOff, Registered
  <2> QED
    BY <1>1, <1>2, <2>1, <2>2, <2>3, <2>4 DEF CutOff
<1>3. CASE Drained(m)
  <2>1. DrainOwned'
    BY SMTT(60), <1>3, ProxyAssumption DEF Drained, DrainOwned, TypeOK
  <2>2. SealedShut'
    BY <1>3 DEF Drained, SealedShut, DrainOwned, Kinds
  <2>3. BornHeldWaits' /\ Registered'
    BY <1>3 DEF Drained, BornHeldWaits, Registered
  <2> QED
    BY <1>1, <1>3, <2>1, <2>2, <2>3 DEF Drained
<1>4. CASE ShutOne(m)
  <2>1. DrainOwned' /\ SealedShut'
    BY <1>4 DEF ShutOne, DrainOwned, SealedShut
  <2>2. BornHeldWaits'
    BY SMTT(60), <1>4 DEF ShutOne, BornHeldWaits, TypeOK
  <2>3. Registered'
    BY SMTT(60), <1>4 DEF ShutOne, Registered, TypeOK
  <2> QED
    BY <1>1, <1>4, <2>1, <2>2, <2>3 DEF ShutOne
<1>5. CASE CutOffReturns(m)
  <2>1. DrainOwned'
    BY <1>5 DEF CutOffReturns, DrainOwned, TypeOK
  <2>2. SealedShut' /\ BornHeldWaits' /\ Registered'
    BY <1>5 DEF CutOffReturns, SealedShut, BornHeldWaits, Registered
  <2> QED
    BY <1>1, <1>5, <2>1, <2>2 DEF CutOffReturns
<1>6. CASE Restore(m)
  <2>1. DrainOwned'
    BY <1>6, ProxyAssumption DEF Restore, MayMove, DrainOwned
  <2>2. SealedShut' /\ BornHeldWaits' /\ Registered'
    BY <1>6 DEF Restore, SealedShut, BornHeldWaits, Registered
  <2> QED
    BY <1>1, <1>6, <2>1, <2>2 DEF Restore
<1> QED
  BY <1>2, <1>3, <1>4, <1>5, <1>6 DEF FinishMove

(* The proxy starts forwarding, with nothing accepted and nobody moving the gate. *)
LEMMA ProxyInit == Init => ProxyInv
<1> SUFFICES ASSUME Init PROVE ProxyInv
  OBVIOUS
<1>1. TypeOK
  BY SMTT(60), ProxyAssumption DEF Init, TypeOK, ConnLabels, Kinds
<1>2. CountExact
  <2>1. InFlight = {}
    BY DEF Init, InFlight
  <2> QED
    BY <2>1, FS_EmptySet DEF Init, CountExact
<1>3. DrainOwned
  BY ProxyAssumption DEF Init, DrainOwned
<1>4. SealedShut /\ BornHeldWaits /\ Registered
  BY DEF Init, SealedShut, BornHeldWaits, Registered
<1> QED
  BY <1>1, <1>2, <1>3, <1>4 DEF ProxyInv

(* A reset of the counters disturbs none of it. *)
LEMMA ResetKeeps == ProxyInv /\ ResetCounters => ProxyInv'
<1> SUFFICES ASSUME ProxyInv, ResetCounters PROVE ProxyInv'
  OBVIOUS
<1> USE DEF ProxyInv, ResetCounters, gateVars, connVars, moverVars
<1>1. TypeOK'
  BY SMTT(60), ProxyAssumption DEF TypeOK
<1>2. CountExact'
  BY DEF CountExact, InFlight
<1>3. DrainOwned' /\ SealedShut' /\ BornHeldWaits' /\ Registered'
  BY DEF DrainOwned, SealedShut, BornHeldWaits, Registered
<1> QED
  BY <1>1, <1>2, <1>3

(* Every step keeps the inductive invariant. *)
LEMMA ProxyStep == ProxyInv /\ [Next]_vars => ProxyInv'
<1> SUFFICES ASSUME ProxyInv, [Next]_vars PROVE ProxyInv'
  OBVIOUS
<1>1. ASSUME NEW c \in Conns, ConnStep(c) PROVE ProxyInv'
  BY <1>1, ConnTypes, ConnCounts, ConnKeeps DEF ProxyInv
<1>2. ASSUME NEW m \in Movers, (\E k \in Kinds : CutOff(m, k)) \/ FinishMove(m) \/ Restore(m)
      PROVE  ProxyInv'
  BY <1>2, MoveTypes, MoveKeeps DEF ProxyInv
<1>3. CASE UNCHANGED vars
  <2> USE <1>3 DEF vars, gateVars, connVars, moverVars
  <2>1. TypeOK'
    BY DEF ProxyInv, TypeOK
  <2>2. CountExact'
    BY DEF ProxyInv, CountExact, InFlight
  <2>3. DrainOwned' /\ SealedShut'
    BY DEF ProxyInv, DrainOwned, SealedShut
  <2>4. BornHeldWaits' /\ Registered'
    BY DEF ProxyInv, BornHeldWaits, Registered
  <2> QED
    BY <2>1, <2>2, <2>3, <2>4 DEF ProxyInv
<1> QED
  BY <1>1, <1>2, <1>3, ResetKeeps DEF Next

(* The inductive invariant of the proxy holds in every reachable state. *)
THEOREM ProxyInvariant == Spec => []ProxyInv
  BY ProxyInit, ProxyStep, PTL DEF Spec

(* Every variable of the proxy keeps its type, and the delivery count never   *)
(* goes below zero.                                                           *)
THEOREM ProxyTypes == Spec => []TypeOK
<1>1. ProxyInv => TypeOK
  BY DEF ProxyInv
<1> QED
  BY <1>1, ProxyInvariant, PTL

(* The count a cut-off waits on is exactly the deliveries under way, also     *)
(* after writes that raised and chunks that were dropped.                     *)
THEOREM DeliveriesCounted == Spec => []CountExact
<1>1. ProxyInv => CountExact
  BY DEF ProxyInv
<1> QED
  BY <1>1, ProxyInvariant, PTL

(* After cut_off returned and until a restore, no byte is written, in either  *)
(* direction, whatever a thread read before.                                  *)
THEOREM CutOffIsQuiet == Spec => []CutOffQuiet
<1>1. ProxyInv => CutOffQuiet
  BY InFlightFinite, FS_EmptySet DEF ProxyInv, CountExact, SealedShut, CutOffQuiet
<1> QED
  BY <1>1, ProxyInvariant, PTL

(* No cut-off answers about a gate that another call moved meanwhile.         *)
THEOREM CutOffOwnsGate == Spec => []GateIsOwn
<1>1. ProxyInv => GateIsOwn
  BY DEF ProxyInv, DrainOwned, GateIsOwn
<1> QED
  BY <1>1, ProxyInvariant, PTL

(* A connection opened under a timeout cut-off never reaches the store before *)
(* a restore.                                                                 *)
THEOREM HeldReachesNothing == Spec => []HeldTouchesNoStore
<1>1. ProxyInv => HeldTouchesNoStore
  BY DEF ProxyInv, BornHeldWaits, HeldTouchesNoStore
<1> QED
  BY <1>1, ProxyInvariant, PTL

(* A connection that ended left no socket open and is not listed as live.     *)
THEOREM EndedIsGone == Spec => []NothingLeaks
<1>1. ProxyInv => NothingLeaks
  BY DEF ProxyInv, Registered, NothingLeaks
<1> QED
  BY <1>1, ProxyInvariant, PTL
=============================================================================
