-------------------------- MODULE RequestFlowProofs -------------------------
(***************************************************************************)
(* The fail_first_n window is exact for any number of requests, endpoints, *)
(* scenario blocks and control writes: the places that requests take in a  *)
(* window are the numbers from one to the counter, each taken once.        *)
(***************************************************************************)
EXTENDS RequestFlow, FiniteSetTheorems, TLAPS

USE ZenonT(60)

Before == {"new", "arrived", "read"}

(* The length of the window in the block that the request read. *)
N(r) == snap[r].block.n

WindowTypes ==
  /\ failCount \in Nat /\ epoch \in Nat /\ window \in Nat
  /\ DOMAIN scenario = DOMAIN DefaultBlock /\ scenario.n \in Nat
  /\ ctl.kind = "post" => ctl.update \in Posts /\ "n" \in DOMAIN ctl.update
  /\ pc \in [Requests -> Before \cup {"resolved", "done", "dead"}]
  /\ DOMAIN snap = Requests /\ DOMAIN fate = Requests
  /\ \A r \in Requests :
       /\ N(r) \in Nat /\ snap[r].window \in Nat
       /\ fate[r].slot \in Nat /\ fate[r].epoch \in Nat

(* Windows are numbered in the order they open: a block that is still to be   *)
(* stored gets a number that no request has read, and no request has a place  *)
(* in a window of the future.                                                 *)
EpochsOrdered ==
  /\ window <= epoch /\ (ctl.kind = "post" => window < epoch)
  /\ \A r \in Requests : snap[r].window <= window /\ fate[r].epoch <= epoch

(* A request takes its place after it has read its block. *)
UnresolvedHasNoPlace == \A r \in Requests : pc[r] \in Before => fate[r].slot = 0

(* The places of the current window: from one to the counter, each taken once. *)
PlacesWithin == \A r \in Takers : fate[r].slot <= failCount
PlacesDistinct == \A r, q \in Takers : fate[r].slot = fate[q].slot => r = q
PlacesTaken == \A k \in 1..failCount : \E r \in Takers : fate[r].slot = k

(* A window keeps its length until it is closed: the blocks read under one     *)
(* window number that have a window agree on it.                               *)
OneLength ==
  /\ \A r \in Requests : snap[r].window = window /\ N(r) > 0 => scenario.n \in {0, N(r)}
  /\ \A r, q \in Requests : snap[r].window = snap[q].window /\ N(r) > 0 /\ N(q) > 0 => N(r) = N(q)

(* A request with a place in the window has its mode by that place. *)
ModeByPlace ==
  \A r \in Requests : fate[r].slot > 0 =>
    /\ N(r) > 0
    /\ fate[r].mode = IF fate[r].slot > N(r) THEN snap[r].block.then ELSE snap[r].block.mode

WindowInv ==
  /\ WindowTypes /\ EpochsOrdered /\ UnresolvedHasNoPlace
  /\ PlacesWithin /\ PlacesDistinct /\ PlacesTaken /\ OneLength /\ ModeByPlace

(* A block that was merged with an update keeps its keys; its window has the *)
(* length of the update, or the one it had.                                  *)
LEMMA MergeFacts ==
  ASSUME NEW b, DOMAIN b = DOMAIN DefaultBlock, NEW u \in Posts
  PROVE  /\ DOMAIN Merge(b, u) = DOMAIN DefaultBlock
         /\ Merge(b, u).n = IF "n" \in DOMAIN u THEN u["n"] ELSE b.n
<1>1. "n" \in DOMAIN DefaultBlock
  BY DEF DefaultBlock
<1> QED
  BY <1>1 DEF Merge

(* At the start the window is closed and nobody has a place. *)
LEMMA InitWindowInv == Init => WindowInv
<1> SUFFICES ASSUME Init PROVE WindowInv
  OBVIOUS
<1> USE DEF Init
<1>1. \A r \in Requests : N(r) = 0 /\ snap[r].window = 0 /\ fate[r].slot = 0 /\ fate[r].epoch = 0
  BY DEF N, NoSnap, NoFate, DefaultBlock
<1>2. scenario.n = 0 /\ ctl.kind = "idle" /\ Takers = {}
  BY SMTT(60), <1>1 DEF DefaultBlock, Idle, Takers
<1>3. WindowTypes
  BY SMTT(60), <1>1, <1>2 DEF WindowTypes, Before
<1>4. EpochsOrdered /\ UnresolvedHasNoPlace /\ OneLength /\ ModeByPlace
  BY SMTT(60), <1>1, <1>2 DEF EpochsOrdered, UnresolvedHasNoPlace, OneLength, ModeByPlace
<1>5. PlacesWithin /\ PlacesDistinct /\ PlacesTaken
  BY SMTT(60), <1>2 DEF PlacesWithin, PlacesDistinct, PlacesTaken
<1> QED
  BY <1>3, <1>4, <1>5 DEF WindowInv

-----------------------------------------------------------------------------
(* The steps of a request                                                  *)

(* A step that neither reads a block nor takes a place. *)
LEMMA OtherStep ==
  ASSUME WindowInv, NEW r \in Requests, NEW from, NEW to \in {"arrived", "done", "dead"},
         Move(r, from, to), to = "arrived" => from = "new",
         UNCHANGED <<control, snap, fate>>
  PROVE  WindowInv'
<1> USE DEF WindowInv
<1>0. /\ UNCHANGED <<scenario, failCount, ctl, epoch, window, snap, fate>>
      /\ pc[r] = from /\ pc' = [pc EXCEPT ![r] = to]
  BY DEF control, Move
<1>1. WindowTypes'
  BY <1>0 DEF WindowTypes, N, Before
<1>2. EpochsOrdered'
  BY <1>0 DEF EpochsOrdered
<1>3. UnresolvedHasNoPlace'
  BY <1>0 DEF WindowTypes, UnresolvedHasNoPlace, Before
<1>4. PlacesWithin' /\ PlacesDistinct' /\ PlacesTaken'
  BY SMTT(60), <1>0 DEF PlacesWithin, PlacesDistinct, PlacesTaken, Takers
<1>5. OneLength' /\ ModeByPlace'
  BY SMTT(60), <1>0 DEF OneLength, ModeByPlace, N
<1> QED
  BY <1>1, <1>2, <1>3, <1>4, <1>5

(* The snapshot of the block: the length it has agrees with every request that *)
(* read this window before.                                                    *)
LEMMA SnapshotStep ==
  ASSUME WindowInv, NEW r \in Requests, Snapshot(r)
  PROVE  WindowInv'
<1> USE DEF WindowInv
<1>0. /\ UNCHANGED <<scenario, failCount, ctl, epoch, window, fate>>
      /\ pc[r] = "arrived" /\ pc' = [pc EXCEPT ![r] = "read"]
      /\ snap' = [snap EXCEPT ![r] = [block |-> scenario, window |-> window]]
  BY DEF Snapshot, Move, control
<1>a. \A q \in Requests : N(q)' = (IF q = r THEN scenario.n ELSE N(q))
  BY <1>0 DEF WindowTypes, N
<1>b. \A q \in Requests : snap'[q].window = IF q = r THEN window ELSE snap[q].window
  BY <1>0 DEF WindowTypes
<1>c. fate[r].slot = 0
  BY <1>0 DEF UnresolvedHasNoPlace, Before
<1>1. WindowTypes'
  BY <1>0, <1>a, <1>b DEF WindowTypes, Before
<1>2. EpochsOrdered'
  BY SMTT(60), <1>0, <1>b DEF WindowTypes, EpochsOrdered
<1>3. UnresolvedHasNoPlace'
  BY <1>0, <1>c DEF WindowTypes, UnresolvedHasNoPlace
<1>4. PlacesWithin' /\ PlacesDistinct' /\ PlacesTaken'
  BY <1>0 DEF PlacesWithin, PlacesDistinct, PlacesTaken, Takers
<1>5. OneLength'
  BY SMTT(60), <1>0, <1>a, <1>b DEF WindowTypes, OneLength
<1>6. ModeByPlace'
  <2> SUFFICES ASSUME NEW q \in Requests, fate[q].slot > 0
               PROVE  /\ N(q)' > 0
                      /\ fate[q].mode = IF fate[q].slot > N(q)' THEN snap'[q].block.then ELSE snap'[q].block.mode
    BY <1>0 DEF ModeByPlace
  <2>1. q # r /\ snap'[q] = snap[q]
    BY SMTT(60), <1>0, <1>c DEF WindowTypes
  <2> QED
    BY <1>a, <2>1 DEF ModeByPlace
<1> QED
  BY <1>1, <1>2, <1>3, <1>4, <1>5, <1>6

(* A request that reads no open window, or is not targeted, takes no place. *)
LEMMA NoPlaceStep ==
  ASSUME WindowInv, NEW r \in Requests, ResolveMode(r),
         ~(N(r) > 0 /\ Targets(snap[r].block, req[r].ep))
  PROVE  WindowInv'
<1> USE DEF WindowInv
<1>0. /\ UNCHANGED <<scenario, failCount, ctl, epoch, window, snap>>
      /\ pc[r] = "read" /\ pc' = [pc EXCEPT ![r] = "resolved"]
  BY DEF ResolveMode, Move, N
<1>a. PICK t, m : fate' = [fate EXCEPT ![r] = [targeted |-> t, epoch |-> epoch, slot |-> 0, mode |-> m]]
  BY DEF ResolveMode, N
<1>b. fate[r].slot = 0
  BY <1>0 DEF UnresolvedHasNoPlace, Before
<1>c. \A q \in Requests : /\ fate'[q].slot = fate[q].slot
                          /\ q # r => fate'[q] = fate[q]
                          /\ fate'[r].epoch = epoch
  BY <1>a, <1>b DEF WindowTypes
<1>1. WindowTypes'
  BY <1>0, <1>a, <1>c DEF WindowTypes, N, Before
<1>2. EpochsOrdered'
  BY SMTT(60), <1>0, <1>c DEF WindowTypes, EpochsOrdered
<1>3. UnresolvedHasNoPlace'
  BY <1>0, <1>c DEF WindowTypes, UnresolvedHasNoPlace, Before
<1>4. Takers' = Takers
  BY SMTT(60), <1>0, <1>b, <1>c DEF Takers
<1>5. PlacesWithin' /\ PlacesDistinct' /\ PlacesTaken'
  <2>1. \A q \in Takers : q \in Requests
    BY DEF Takers
  <2> QED
    BY SMTT(60), <1>0, <1>c, <1>4, <2>1 DEF PlacesWithin, PlacesDistinct, PlacesTaken
<1>6. OneLength'
  BY <1>0 DEF OneLength, N
<1>7. ModeByPlace'
  BY SMTT(60), <1>0, <1>b, <1>c DEF ModeByPlace, N
<1> QED
  BY <1>1, <1>2, <1>3, <1>5, <1>6, <1>7

(* A targeted request under an open window takes the next place. *)
LEMMA PlaceStep ==
  ASSUME WindowInv, NEW r \in Requests, ResolveMode(r),
         N(r) > 0, Targets(snap[r].block, req[r].ep)
  PROVE  WindowInv'
<1> USE DEF WindowInv
<1> DEFINE mode == IF failCount + 1 > N(r) THEN snap[r].block.then ELSE snap[r].block.mode
<1>0. /\ UNCHANGED <<scenario, ctl, epoch, window, snap>>
      /\ failCount' = failCount + 1
      /\ pc[r] = "read" /\ pc' = [pc EXCEPT ![r] = "resolved"]
      /\ fate' = [fate EXCEPT ![r] = [targeted |-> TRUE, epoch |-> epoch, slot |-> failCount + 1, mode |-> mode]]
  BY DEF ResolveMode, Move, N, ConsumeFail
<1>b. fate[r].slot = 0 /\ r \notin Takers
  BY SMTT(60), <1>0 DEF UnresolvedHasNoPlace, Before, Takers
<1>c. /\ fate'[r].slot = failCount + 1 /\ fate'[r].epoch = epoch /\ fate'[r].mode = mode
      /\ \A q \in Requests : q # r => fate'[q] = fate[q]
  BY <1>0 DEF WindowTypes
<1>1. WindowTypes'
  BY SMTT(60), <1>0, <1>c DEF WindowTypes, N, Before
<1>2. EpochsOrdered'
  BY SMTT(60), <1>0, <1>c DEF WindowTypes, EpochsOrdered
<1>3. UnresolvedHasNoPlace'
  BY <1>0, <1>c DEF WindowTypes, UnresolvedHasNoPlace, Before
<1>4. Takers' = Takers \cup {r}
  BY SMTT(60), <1>0, <1>c DEF Takers, WindowTypes
<1>d. \A q \in Takers : q \in Requests /\ q # r /\ fate'[q] = fate[q] /\ fate[q].slot \in Nat
  BY <1>b, <1>c DEF Takers, WindowTypes
<1>5. PlacesWithin'
  BY SMTT(60), <1>0, <1>c, <1>4, <1>d DEF PlacesWithin, WindowTypes
<1>6. PlacesDistinct'
  BY SMTT(60), <1>0, <1>c, <1>4, <1>d DEF PlacesWithin, PlacesDistinct, WindowTypes
<1>7. PlacesTaken'
  <2> SUFFICES ASSUME NEW k \in 1..(failCount + 1) PROVE \E q \in Takers' : fate'[q].slot = k
    BY <1>0 DEF PlacesTaken
  <2>1. CASE k = failCount + 1
    BY <1>c, <1>4, <2>1
  <2>2. CASE k \in 1..failCount
    BY <1>4, <1>d, <2>2 DEF PlacesTaken
  <2> QED
    BY SMTT(60), <2>1, <2>2 DEF WindowTypes
<1>8. OneLength'
  BY <1>0 DEF OneLength, N
<1>9. ModeByPlace'
  BY <1>0, <1>c DEF ModeByPlace, N
<1> QED
  BY <1>1, <1>2, <1>3, <1>5, <1>6, <1>7, <1>8, <1>9

-----------------------------------------------------------------------------
(* The control writes                                                      *)

(* reset_fail opens a new epoch: nobody has a place in it yet. *)
LEMMA RestartStep ==
  ASSUME WindowInv, failCount' = 0, epoch' = epoch + 1,
         ctl'.kind = "post" => ctl'.update \in Posts /\ "n" \in DOMAIN ctl'.update,
         UNCHANGED <<scenario, window, pc, snap, fate>>
  PROVE  WindowInv'
<1> USE DEF WindowInv
<1>1. WindowTypes'
  BY SMTT(60) DEF WindowTypes, N
<1>2. EpochsOrdered'
  BY SMTT(60) DEF WindowTypes, EpochsOrdered
<1>3. UnresolvedHasNoPlace' /\ OneLength' /\ ModeByPlace'
  BY DEF UnresolvedHasNoPlace, OneLength, ModeByPlace, N
<1>4. Takers' = {}
  BY SMTT(60) DEF Takers, EpochsOrdered, WindowTypes
<1>5. PlacesWithin' /\ PlacesDistinct' /\ PlacesTaken'
  BY SMTT(60), <1>4 DEF PlacesWithin, PlacesDistinct, PlacesTaken
<1> QED
  BY <1>1, <1>2, <1>3, <1>5

(* The block of a POST with fail_first_n is stored under the new epoch, which *)
(* no request has read yet.                                                   *)
LEMMA StoreStep ==
  ASSUME WindowInv, StoreBlock
  PROVE  WindowInv'
<1> USE DEF WindowInv, StoreBlock, UNCHANGEDRequests
<1>0. ctl.update \in Posts /\ "n" \in DOMAIN ctl.update /\ ctl.update["n"] \in Nat /\ ctl'.kind = "idle"
  BY FlowAssumption DEF WindowTypes, Idle
<1>a. DOMAIN scenario' = DOMAIN DefaultBlock /\ scenario'.n \in Nat
  BY <1>0, MergeFacts DEF WindowTypes
<1>1. WindowTypes'
  BY <1>0, <1>a DEF WindowTypes, N
<1>2. EpochsOrdered'
  BY SMTT(60), <1>0 DEF WindowTypes, EpochsOrdered
<1>3. UnresolvedHasNoPlace' /\ ModeByPlace'
  BY DEF UnresolvedHasNoPlace, ModeByPlace, N
<1>4. PlacesWithin' /\ PlacesDistinct' /\ PlacesTaken'
  BY DEF PlacesWithin, PlacesDistinct, PlacesTaken, Takers
<1>5. OneLength'
  <2>1. \A r \in Requests : snap[r].window < window'
    BY SMTT(60) DEF WindowTypes, EpochsOrdered
  <2> QED
    BY SMTT(60), <2>1 DEF OneLength, N, WindowTypes
<1> QED
  BY <1>1, <1>2, <1>3, <1>4, <1>5

(* Any other write keeps the length of the window or closes it, and leaves *)
(* the counter alone.                                                      *)
LEMMA KeepStep ==
  ASSUME WindowInv, DOMAIN scenario' = DOMAIN DefaultBlock, scenario'.n \in {0, scenario.n},
         ctl' = ctl \/ ctl'.kind = "reset",
         UNCHANGED <<failCount, epoch, window, pc, snap, fate>>
  PROVE  WindowInv'
<1> USE DEF WindowInv
<1>1. WindowTypes'
  BY SMTT(60) DEF WindowTypes, N
<1>2. EpochsOrdered'
  BY DEF EpochsOrdered
<1>3. UnresolvedHasNoPlace' /\ ModeByPlace'
  BY DEF UnresolvedHasNoPlace, ModeByPlace, N
<1>4. PlacesWithin' /\ PlacesDistinct' /\ PlacesTaken'
  BY DEF PlacesWithin, PlacesDistinct, PlacesTaken, Takers
<1>5. OneLength'
  BY DEF OneLength, N
<1> QED
  BY <1>1, <1>2, <1>3, <1>4, <1>5

(* Every step keeps the window consistent. *)
LEMMA NextWindowInv == WindowInv /\ [Next]_vars => WindowInv'
<1> SUFFICES ASSUME WindowInv, [Next]_vars PROVE WindowInv'
  OBVIOUS
<1>d. DefaultBlock.n = 0
  BY DEF DefaultBlock
<1>1. CASE UNCHANGED vars
  <2>1. /\ DOMAIN scenario' = DOMAIN DefaultBlock /\ scenario'.n = scenario.n
        /\ UNCHANGED <<ctl, failCount, epoch, window, pc, snap, fate>>
    BY <1>1 DEF vars, WindowInv, WindowTypes
  <2> QED
    BY <2>1, KeepStep
<1>2. ASSUME NEW r \in Requests, Step(r) PROVE WindowInv'
  <2>1. ASSUME NEW q \in Queries, Arrive(r, q) PROVE WindowInv'
    BY <2>1, OtherStep DEF Arrive
  <2>2. CASE Snapshot(r)
    BY <2>2, SnapshotStep
  <2>3. CASE ResolveMode(r)
    BY <2>3, PlaceStep, NoPlaceStep
  <2>4. ServeDown(r) \/ ServeDirect(r) \/ ServeParseError(r) =>
          Move(r, "resolved", "done") /\ UNCHANGED <<control, snap, fate>>
    BY DEF ServeDown, ServeDirect, ServeParseError, Serving, Answer
  <2>5. ServeCanned(r) \/ ServeMethodDown(r) \/ ServeFault(r) \/ ServeContent(r) =>
          Move(r, "resolved", "done") /\ UNCHANGED <<control, snap, fate>>
    BY DEF ServeCanned, ServeMethodDown, ServeFault, ServeContent, Parsed, Serving, Answer
  <2>6. AnswerUpgrade(r) => Move(r, "resolved", "done") /\ UNCHANGED <<control, snap, fate>>
    BY DEF AnswerUpgrade, Answer
  <2>7. ContentRaises(r) => Move(r, "resolved", "dead") /\ UNCHANGED <<control, snap, fate>>
    BY DEF ContentRaises
  <2>8. CASE Move(r, "resolved", "done") /\ UNCHANGED <<control, snap, fate>>
    BY <2>8, OtherStep
  <2>9. CASE Move(r, "resolved", "dead") /\ UNCHANGED <<control, snap, fate>>
    BY <2>9, OtherStep
  <2> QED
    BY <1>2, <2>1, <2>2, <2>3, <2>4, <2>5, <2>6, <2>7, <2>8, <2>9 DEF Step
<1>3. CASE Write
  <2>1. ASSUME NEW u \in Posts, RestartWindow(u) PROVE WindowInv'
    BY <2>1, RestartStep DEF RestartWindow, UNCHANGEDRequests
  <2>2. ASSUME NEW u \in Posts, StoreOnly(u) PROVE WindowInv'
    <3>1. DOMAIN scenario' = DOMAIN DefaultBlock /\ scenario'.n = scenario.n
      BY <2>2, MergeFacts DEF StoreOnly, WindowInv, WindowTypes
    <3> QED
      BY <2>2, <3>1, KeepStep DEF StoreOnly, UNCHANGEDRequests
  <2>3. CASE StoreBlock
    BY <2>3, StoreStep
  <2>4. CASE ResetBlock
    BY <1>d, <2>4, KeepStep DEF ResetBlock, UNCHANGEDRequests
  <2>5. CASE ResetCount
    BY <2>5, RestartStep DEF ResetCount, UNCHANGEDRequests, Idle
  <2>6. CASE Sweep
    BY <1>d, <2>6, KeepStep DEF Sweep, UNCHANGEDRequests
  <2> QED
    BY <1>3, <2>1, <2>2, <2>3, <2>4, <2>5, <2>6 DEF Write
<1> QED
  BY <1>1, <1>2, <1>3 DEF Next

-----------------------------------------------------------------------------
(* Counting                                                                *)

(* The requests with one of the first n places are as many as those places. *)
LEMMA FirstPlaces ==
  ASSUME WindowInv, NEW n \in Nat
  PROVE  Cardinality({r \in Takers : fate[r].slot <= n}) = MinOf(n, failCount)
<1> DEFINE F == {r \in Takers : fate[r].slot <= n}
           k == MinOf(n, failCount)
           place == [r \in F |-> fate[r].slot]
<1>1. failCount \in Nat /\ k \in Nat /\ k <= n /\ k <= failCount /\ (k = n \/ k = failCount)
  BY SMTT(60) DEF WindowInv, WindowTypes, MinOf
<1>2. \A r \in F : fate[r].slot \in 1..k
  BY SMTT(60), <1>1 DEF WindowInv, WindowTypes, PlacesWithin, Takers, MinOf
<1>3. place \in Injection(F, 1..k)
  BY <1>2 DEF Injection, IsInjective, WindowInv, PlacesDistinct
<1>4. place \in Surjection(F, 1..k)
  <2>1. \A j \in 1..k : \E r \in F : place[r] = j
    BY SMTT(60), <1>1 DEF WindowInv, PlacesTaken
  <2> QED
    BY <1>2, <2>1 DEF Surjection
<1>5. ExistsBijection(F, 1..k)
  BY <1>3, <1>4 DEF ExistsBijection, Bijection
<1>6. IsFiniteSet(F)
  <2>1. F \subseteq Requests
    BY DEF Takers
  <2> QED
    BY <2>1, FlowAssumption, FS_Subset
<1>7. Cardinality(1..k) = Cardinality(F)
  BY <1>5, <1>6, FS_Bijection
<1>8. Cardinality(1..k) = k
  BY SMTT(60), <1>1, FS_Interval
<1> HIDE DEF F, k
<1>9. Cardinality(F) = k
  BY <1>7, <1>8
<1> QED
  BY <1>9 DEF F, k

(* When every request with a place in the window read the block that opened   *)
(* it, exactly the first fail_first_n of them get the fault mode              *)
(* (resolve_mode in fault_policy.py, consume_fail in domain/provider.py).     *)
THEOREM WindowExactHolds == Spec => []WindowExact
<1>1. WindowInv => WindowExact
  <2> SUFFICES ASSUME WindowInv,
                      \A r \in Takers : ~Stale(r) /\ snap[r].block.mode # snap[r].block.then,
                      NEW q \in Takers
               PROVE  Cardinality({r \in Takers : Faulted(r)}) = MinOf(N(q), failCount)
    BY DEF WindowExact, N
  <2>1. \A r \in Takers : /\ r \in Requests /\ fate[r].slot > 0 /\ fate[r].slot \in Nat
                          /\ N(r) \in Nat /\ N(r) > 0 /\ snap[r].window = epoch
    BY DEF Takers, Stale, WindowInv, WindowTypes, ModeByPlace
  <2>2. \A r \in Takers : N(r) = N(q)
    BY <2>1 DEF WindowInv, OneLength
  <2>3. \A r \in Takers : Faulted(r) <=> fate[r].slot <= N(q)
    BY SMTT(60), <2>1, <2>2 DEF WindowInv, ModeByPlace, Faulted
  <2>4. {r \in Takers : Faulted(r)} = {r \in Takers : fate[r].slot <= N(q)}
    BY <2>3
  <2> QED
    BY <2>1, <2>4, FirstPlaces
<1> QED
  BY <1>1, InitWindowInv, NextWindowInv, PTL DEF Spec

-----------------------------------------------------------------------------
(* The answers                                                             *)

Verdict == {"none", "drop", "down", "hang", "rate_limit", "error"}

AnswerTypes ==
  /\ DOMAIN scenario = DOMAIN DefaultBlock /\ OverridesLabelled(scenario.over)
  /\ ctl.kind = "post" => ctl.update \in Posts
  /\ pc \in [Requests -> Before \cup {"resolved", "done", "dead"}]
  /\ DOMAIN req = Requests /\ DOMAIN snap = Requests /\ DOMAIN fate = Requests
  /\ DOMAIN row = Requests /\ DOMAIN result = Requests
  /\ \A r \in Requests : OverridesLabelled(snap[r].block.over)
  /\ \A r \in Requests : pc[r] # "new" => req[r].method \in Methods

(* A resolved request knows whether its block targets it; when it does not, it *)
(* has no place in the window.                                                 *)
Resolved(r) ==
  /\ fate[r].targeted <=> Targets(snap[r].block, req[r].ep)
  /\ ~Targets(snap[r].block, req[r].ep) => fate[r].slot = 0

FateScoped == \A r \in Requests : pc[r] \in {"resolved", "done"} => Resolved(r)

AnswerInv == AnswerTypes /\ FateScoped /\ RowTellsReply /\ FaultsScoped

(* A row and a reply that agree, in the scope of the block. *)
Tells(x, y) ==
  /\ x.latency = y.latency
  /\ (x.status = "hang") <=> (y.action = "hang")
  /\ (x.status = "drop_connection") <=> (y.action = "drop")
  /\ (x.status = "down") <=> (y.body = "down")

Scoped(r, y) ==
  ~fate[r].targeted => y.body \notin {"fault", "down", "canned"} /\ y.latency = 0 /\ ~y.shape

(* The labels of a merged block are those of the block or of the update. *)
LEMMA MergeLabels ==
  ASSUME NEW b, DOMAIN b = DOMAIN DefaultBlock, OverridesLabelled(b.over), NEW u \in Posts
  PROVE  OverridesLabelled(Merge(b, u).over)
<1>1. "over" \in DOMAIN DefaultBlock
  BY DEF DefaultBlock
<1>2. Merge(b, u).over = IF "over" \in DOMAIN u THEN u["over"] ELSE b.over
  BY <1>1 DEF Merge
<1> QED
  BY <1>2, OverrideAssumption

(* The default block has no override. *)
LEMMA DefaultLabels == OverridesLabelled(DefaultBlock.over)
BY DEF OverridesLabelled, DefaultBlock, NoOverride

(* Nothing is answered at the start. *)
LEMMA InitAnswerInv == Init => AnswerInv
<1> SUFFICES ASSUME Init PROVE AnswerInv
  OBVIOUS
<1> USE DEF Init
<1>1. AnswerTypes
  BY DefaultLabels DEF AnswerTypes, Before, Idle, NoSnap
<1>2. FateScoped /\ RowTellsReply /\ FaultsScoped
  BY DEF FateScoped, RowTellsReply, FaultsScoped
<1> QED
  BY <1>1, <1>2 DEF AnswerInv

(* A step that answers no request and resolves none. *)
LEMMA QuietStep ==
  ASSUME AnswerInv, AnswerTypes',
         \A q \in Requests : pc'[q] \in {"resolved", "done"} => pc'[q] = pc[q] /\ req'[q] = req[q] /\ snap'[q] = snap[q],
         \A q \in Requests : pc'[q] = "done" => row'[q] = row[q],
         UNCHANGED <<fate, result>>
  PROVE  AnswerInv'
<1> USE DEF AnswerInv
<1>1. FateScoped'
  BY DEF FateScoped, Resolved, Targets
<1>2. RowTellsReply'
  BY DEF RowTellsReply
<1>3. FaultsScoped'
  BY DEF FaultsScoped, Targets
<1> QED
  BY <1>1, <1>2, <1>3

(* An answer whose row tells the reply, in the scope of the block. *)
LEMMA AnswerStep ==
  ASSUME AnswerInv, NEW r \in Requests, Move(r, "resolved", "done"),
         NEW x, NEW y, DOMAIN y = DOMAIN NoResult, Answer(r, x, y), Tells(x, y), Scoped(r, y)
  PROVE  AnswerInv'
<1> USE DEF AnswerInv
<1>0. /\ UNCHANGED <<scenario, ctl, req, snap, fate>>
      /\ pc[r] = "resolved" /\ pc' = [pc EXCEPT ![r] = "done"]
      /\ row' = [row EXCEPT ![r] = x]
      /\ result' = [result EXCEPT ![r] =
           [y EXCEPT !.chosen = fate[r].targeted /\ snap[r].block.chosen]]
  BY DEF Answer, Move, control
<1>a. /\ row'[r] = x /\ result'[r].action = y.action /\ result'[r].latency = y.latency
      /\ result'[r].shape = y.shape /\ result'[r].body = y.body
      /\ ~fate[r].targeted => ~result'[r].chosen
  BY <1>0 DEF AnswerTypes, NoResult
<1>b. \A q \in Requests : q # r => pc'[q] = pc[q] /\ row'[q] = row[q] /\ result'[q] = result[q]
  BY <1>0 DEF AnswerTypes
<1>1. AnswerTypes'
  BY <1>0 DEF AnswerTypes
<1>2. FateScoped'
  BY <1>0, <1>b DEF FateScoped, Resolved, Targets
<1>3. RowTellsReply'
  <2> SUFFICES ASSUME NEW q \in Requests, pc'[q] = "done" PROVE Tells(row'[q], result'[q])
    BY DEF RowTellsReply, Tells
  <2>1. CASE q = r
    BY <1>a, <2>1 DEF Tells
  <2>2. CASE q # r
    BY <1>b, <2>2 DEF RowTellsReply, Tells
  <2> QED
    BY <2>1, <2>2
<1>4. FaultsScoped'
  <2> SUFFICES ASSUME NEW q \in Requests, pc'[q] = "done", ~Targets(snap[q].block, req[q].ep)
               PROVE  /\ result'[q].body \notin {"fault", "down", "canned"}
                      /\ result'[q].latency = 0 /\ ~result'[q].chosen /\ ~result'[q].shape
                      /\ fate[q].slot = 0
    BY <1>0 DEF FaultsScoped, Targets
  <2>1. CASE q = r
    <3>1. ~fate[r].targeted /\ fate[r].slot = 0
      BY <1>0, <2>1 DEF FateScoped, Resolved
    <3> QED
      BY <1>a, <2>1, <3>1 DEF Scoped
  <2>2. CASE q # r
    BY <1>b, <2>2 DEF FaultsScoped
  <2> QED
    BY <2>1, <2>2
<1> QED
  BY <1>1, <1>2, <1>3, <1>4

(* Off target there is no override, no latency and no verdict; the verdicts *)
(* are those the ladder knows, and a canned body has a label of its own.    *)
LEMMA OffTarget ==
  ASSUME NEW r \in Requests, ~fate[r].targeted
  PROVE  /\ EffectiveLatency(r) = 0 /\ ~HasCannedBody(r) /\ Verdicts(r) = {"none"} /\ ~IsDown(r)
BY DEF EffectiveLatency, HasCannedBody, Verdicts, IsDown, Shadow, MethodOverride, NoOverride

(* Every verdict is one of the ladder. *)
LEMMA VerdictsKnown ==
  ASSUME NEW r \in Requests
  PROVE  Verdicts(r) \subseteq Verdict
BY DEF Verdicts, Ladder, Verdict

(* down, and the answers to a body that does not parse. *)
LEMMA EarlyAnswers ==
  ASSUME AnswerInv, NEW r \in Requests, ServeDown(r) \/ ServeDirect(r) \/ ServeParseError(r)
  PROVE  AnswerInv'
<1> DEFINE X(st) == [status |-> st, latency |-> 0, parsed |-> FALSE]
           Y(a, b) == [NoResult EXCEPT !.action = a, !.body = b]
<1>0. \A a, b : DOMAIN Y(a, b) = DOMAIN NoResult
  BY DEF NoResult
<1>1. CASE ServeDown(r)
  <2>1. Move(r, "resolved", "done") /\ Answer(r, X("down"), Y("no_body", "down")) /\ fate[r].targeted
    BY <1>1 DEF ServeDown, Serving, IsDown
  <2>2. Tells(X("down"), Y("no_body", "down")) /\ Scoped(r, Y("no_body", "down"))
    BY <2>1 DEF Tells, Scoped, NoResult
  <2> HIDE DEF X, Y
  <2> QED
    BY <1>0, <2>1, <2>2, AnswerStep
<1>2. CASE ServeDirect(r)
  <2> DEFINE b == UnreadableReply(req[r].ep)
  <2>1. Move(r, "resolved", "done") /\ Answer(r, X("error"), Y("respond", b))
    BY <1>2 DEF ServeDirect, Serving
  <2>2. b \in {"unreadable", "direct"}
    BY DEF UnreadableReply
  <2> HIDE DEF b
  <2>3. Tells(X("error"), Y("respond", b)) /\ Scoped(r, Y("respond", b))
    BY <2>2 DEF Tells, Scoped, NoResult
  <2> HIDE DEF X, Y
  <2> QED
    BY <1>0, <2>1, <2>3, AnswerStep
<1>3. CASE ServeParseError(r)
  <2>1. Move(r, "resolved", "done") /\ Answer(r, X("parse_error"), Y("respond", "parse_error"))
    BY <1>3 DEF ServeParseError, Serving
  <2>2. Tells(X("parse_error"), Y("respond", "parse_error")) /\ Scoped(r, Y("respond", "parse_error"))
    BY DEF Tells, Scoped, NoResult
  <2> HIDE DEF X, Y
  <2> QED
    BY <1>0, <2>1, <2>2, AnswerStep
<1> QED
  BY <1>1, <1>2, <1>3

(* A reply with a body waits for the latency of its row. *)
LEMMA WrittenStep ==
  ASSUME AnswerInv, NEW r \in Requests, Move(r, "resolved", "done"), NEW st, NEW b,
         st \notin {"hang", "drop_connection", "down"}, b # "down",
         ~fate[r].targeted => b \notin {"fault", "canned"},
         Answer(r, RowOf(r, st, EffectiveLatency(r)), Written(r, b))
  PROVE  AnswerInv'
<1> DEFINE x == RowOf(r, st, EffectiveLatency(r))
           y == Written(r, b)
<1>1. /\ DOMAIN y = DOMAIN NoResult
      /\ y.action = "respond" /\ y.latency = EffectiveLatency(r) /\ y.body = b
      /\ ~fate[r].targeted => ~y.shape
  BY DEF Written, NoResult
<1>2. x.status = st /\ x.latency = EffectiveLatency(r)
  BY DEF RowOf
<1> HIDE DEF x, y
<1>3. Tells(x, y)
  BY <1>1, <1>2 DEF Tells
<1>4. Scoped(r, y)
  BY <1>1, OffTarget DEF Scoped
<1>5. Answer(r, x, y)
  BY DEF x, y
<1> QED
  BY <1>1, <1>3, <1>4, <1>5, AnswerStep

(* The answers to a request that was parsed. *)
LEMMA ParsedAnswers ==
  ASSUME AnswerInv, NEW r \in Requests,
         ServeCanned(r) \/ ServeMethodDown(r) \/ ServeFault(r) \/ ServeContent(r)
  PROVE  AnswerInv'
<1>0. /\ Move(r, "resolved", "done") /\ pc[r] = "resolved" /\ req[r].method \in Methods
      /\ OverridesLabelled(snap[r].block.over)
  BY DEF ServeCanned, ServeMethodDown, ServeFault, ServeContent, Parsed, Serving, Move, AnswerInv, AnswerTypes
<1>1. CASE ServeCanned(r)
  <2>1. HasCannedBody(r) /\ fate[r].targeted
    BY <1>1, OffTarget DEF ServeCanned
  <2>2. MethodOverride(r)["canned"] \in {"success", "error"}
    BY <1>0, <2>1 DEF HasCannedBody, MethodOverride, OverridesLabelled
  <2> QED
    BY <1>0, <1>1, <2>1, <2>2, WrittenStep DEF ServeCanned
<1>2. CASE ServeMethodDown(r)
  <2> DEFINE l == EffectiveLatency(r)
             x == RowOf(r, "down", l)
             y == [NoResult EXCEPT !.action = "no_body", !.latency = l, !.body = "down"]
  <2>1. fate[r].targeted
    BY SMTT(60), <1>2, OffTarget DEF ServeMethodDown
  <2>2. Answer(r, x, y)
    BY <1>2 DEF ServeMethodDown
  <2>3. Tells(x, y) /\ Scoped(r, y) /\ DOMAIN y = DOMAIN NoResult
    BY <2>1 DEF Tells, Scoped, RowOf, NoResult
  <2> HIDE DEF l, x, y
  <2> QED
    BY <1>0, <2>2, <2>3, AnswerStep
<1>3. CASE ServeFault(r)
  <2>1. PICK v \in Verdicts(r) \ {"none", "down"} :
          Answer(r, RowOf(r, StatusLabel(v), IF v = "hang" THEN 0 ELSE EffectiveLatency(r)), FaultReply(r, v))
    BY <1>3 DEF ServeFault
  <2>2. v \in {"drop", "hang", "rate_limit", "error"} /\ fate[r].targeted
    BY <2>1, OffTarget, VerdictsKnown DEF Verdict
  <2>3. CASE v = "hang"
    <3> DEFINE x == RowOf(r, "hang", 0)
               y == [NoResult EXCEPT !.action = "hang", !.body = "fault"]
    <3>1. Answer(r, x, y)
      BY <2>1, <2>3 DEF StatusLabel, FaultReply
    <3>2. Tells(x, y) /\ Scoped(r, y) /\ DOMAIN y = DOMAIN NoResult
      BY <2>2 DEF Tells, Scoped, RowOf, NoResult
    <3> HIDE DEF x, y
    <3> QED
      BY <1>0, <3>1, <3>2, AnswerStep
  <2>4. CASE v = "drop"
    <3> DEFINE l == EffectiveLatency(r)
               x == RowOf(r, "drop_connection", l)
               y == [NoResult EXCEPT !.action = "drop", !.latency = l, !.body = "fault"]
    <3>1. Answer(r, x, y)
      BY <2>1, <2>4 DEF StatusLabel, FaultReply
    <3>2. Tells(x, y) /\ Scoped(r, y) /\ DOMAIN y = DOMAIN NoResult
      BY <2>2 DEF Tells, Scoped, RowOf, NoResult
    <3> HIDE DEF l, x, y
    <3> QED
      BY <1>0, <3>1, <3>2, AnswerStep
  <2>5. CASE v \in {"rate_limit", "error"}
    <3>1. Answer(r, RowOf(r, v, EffectiveLatency(r)), Written(r, "fault"))
      BY <2>1, <2>5 DEF StatusLabel, FaultReply
    <3> QED
      BY <1>0, <2>2, <2>5, <3>1, WrittenStep
  <2> QED
    BY <2>2, <2>3, <2>4, <2>5
<1>4. CASE ServeContent(r)
  <2> DEFINE b == Content(r)
             st == IF b = "error" THEN "error" ELSE "success"
  <2>1. b \in {"default", "custom", "error"}
    BY <1>0 DEF Content, OverridesLabelled
  <2>2. Answer(r, RowOf(r, st, EffectiveLatency(r)), Written(r, b))
    BY <1>4 DEF ServeContent
  <2>3. st \notin {"hang", "drop_connection", "down"} /\ b # "down" /\ b \notin {"fault", "canned"}
    <3> HIDE DEF b
    <3> QED
      BY <2>1
  <2> HIDE DEF b, st
  <2> QED
    BY <1>0, <2>2, <2>3, WrittenStep
<1> QED
  BY <1>1, <1>2, <1>3, <1>4

(* The decision of an upgrade request. *)
LEMMA UpgradeAnswer ==
  ASSUME AnswerInv, NEW r \in Requests, AnswerUpgrade(r)
  PROVE  AnswerInv'
<1> DEFINE X(v) == IF v = "none" THEN NoRow ELSE [status |-> StatusLabel(v), latency |-> 0, parsed |-> FALSE]
           act(v) == IF v \in {"hang", "drop"} THEN v ELSE "respond"
           bod(v) == IF v = "none" THEN "switching" ELSE IF v = "down" THEN "down" ELSE "fault"
           Y(v) == [NoResult EXCEPT !.action = act(v), !.body = bod(v)]
<1>1. PICK v \in (IF fate[r].targeted THEN Ladder(fate[r].mode, snap[r].block.dice) ELSE {"none"}) :
        Answer(r, X(v), Y(v))
  BY DEF AnswerUpgrade
<1>2. v \in Verdict /\ (~fate[r].targeted => v = "none")
  BY <1>1 DEF Ladder, Verdict
<1>3. /\ DOMAIN Y(v) = DOMAIN NoResult /\ Y(v).action = act(v) /\ Y(v).body = bod(v)
      /\ Y(v).latency = 0 /\ ~Y(v).shape
  BY DEF NoResult
<1> HIDE DEF Y
<1>4. Tells(X(v), Y(v))
  BY <1>2, <1>3 DEF Tells, NoRow, StatusLabel, Verdict
<1>5. Scoped(r, Y(v))
  BY <1>2, <1>3 DEF Scoped
<1>6. Move(r, "resolved", "done")
  BY DEF AnswerUpgrade
<1> HIDE DEF X, act, bod
<1> QED
  BY <1>1, <1>3, <1>4, <1>5, <1>6, AnswerStep

(* The steps of a request before its answer, and the one that raises. *)
LEMMA UnansweredStep ==
  ASSUME AnswerInv, NEW r \in Requests,
         (\E q \in Queries : Arrive(r, q)) \/ Snapshot(r) \/ ContentRaises(r)
  PROVE  AnswerInv'
<1> USE DEF AnswerInv, Move, control
<1>1. ASSUME NEW q \in Queries, Arrive(r, q) PROVE AnswerInv'
  <2>0. /\ pc[r] = "new" /\ pc' = [pc EXCEPT ![r] = "arrived"] /\ req' = [req EXCEPT ![r] = q]
        /\ row' = row \/ row' = [row EXCEPT ![r].status = "in_flight"]
        /\ UNCHANGED <<scenario, ctl, snap, fate, result>>
    BY <1>1 DEF Arrive
  <2>1. q.method \in Methods
    BY DEF Queries
  <2>2. AnswerTypes'
    BY <2>0, <2>1 DEF AnswerTypes, Before
  <2>3. \A p \in Requests : p # r => pc'[p] = pc[p] /\ req'[p] = req[p] /\ row'[p] = row[p]
    BY <2>0 DEF AnswerTypes
  <2>4. pc'[r] = "arrived"
    BY <2>0 DEF AnswerTypes
  <2> QED
    BY <2>0, <2>2, <2>3, <2>4, QuietStep
<1>2. CASE Snapshot(r)
  <2>0. /\ pc[r] = "arrived" /\ pc' = [pc EXCEPT ![r] = "read"]
        /\ snap' = [snap EXCEPT ![r] = [block |-> scenario, window |-> window]]
        /\ UNCHANGED <<scenario, ctl, req, fate, row, result>>
    BY <1>2 DEF Snapshot
  <2>1. \A p \in Requests : snap'[p].block = (IF p = r THEN scenario ELSE snap[p].block)
    BY <2>0 DEF AnswerTypes
  <2>c. pc' \in [Requests -> Before \cup {"resolved", "done", "dead"}] /\ DOMAIN snap' = Requests
    BY <2>0 DEF AnswerTypes, Before
  <2>d. \A p \in Requests : OverridesLabelled(snap'[p].block.over)
    BY <2>1 DEF AnswerTypes
  <2>e. \A p \in Requests : pc'[p] # "new" => req[p].method \in Methods
    BY <2>0 DEF AnswerTypes
  <2>2. AnswerTypes'
    BY <2>0, <2>c, <2>d, <2>e DEF AnswerTypes
  <2>3. pc'[r] = "read" /\ \A p \in Requests : p # r => pc'[p] = pc[p] /\ snap'[p] = snap[p]
    BY <2>0 DEF AnswerTypes
  <2> QED
    BY <2>0, <2>2, <2>3, QuietStep
<1>3. CASE ContentRaises(r)
  <2>0. /\ pc[r] = "resolved" /\ pc' = [pc EXCEPT ![r] = "dead"]
        /\ UNCHANGED <<scenario, ctl, req, snap, fate, row, result>>
    BY <1>3 DEF ContentRaises
  <2>1. AnswerTypes'
    BY <2>0 DEF AnswerTypes
  <2>2. pc'[r] = "dead" /\ \A p \in Requests : p # r => pc'[p] = pc[p]
    BY <2>0 DEF AnswerTypes
  <2> QED
    BY <2>0, <2>1, <2>2, QuietStep
<1> QED
  BY <1>1, <1>2, <1>3

(* resolve_mode asks the filters of the block that the request read. *)
LEMMA ResolveStep ==
  ASSUME AnswerInv, NEW r \in Requests, ResolveMode(r)
  PROVE  AnswerInv'
<1> USE DEF AnswerInv
<1>0. /\ pc[r] = "read" /\ pc' = [pc EXCEPT ![r] = "resolved"]
      /\ UNCHANGED <<scenario, ctl, req, snap, row, result>>
  BY DEF ResolveMode, Move
<1>1. PICK t, k, m : /\ fate' = [fate EXCEPT ![r] = [targeted |-> t, epoch |-> epoch, slot |-> k, mode |-> m]]
                     /\ t = Targets(snap[r].block, req[r].ep)
                     /\ ~Targets(snap[r].block, req[r].ep) => k = 0
  <2> DEFINE b == snap[r].block
             tg == Targets(b, req[r].ep)
  <2>1. CASE b.n > 0 /\ tg
    <3>1. tg = TRUE
      BY <2>1 DEF Targets
    <3> QED
      BY <2>1, <3>1 DEF ResolveMode
  <2>2. CASE ~(b.n > 0 /\ tg)
    BY <2>2 DEF ResolveMode
  <2> QED
    BY <2>1, <2>2
<1>2. /\ fate'[r].targeted = t /\ fate'[r].slot = k /\ pc'[r] = "resolved"
      /\ \A q \in Requests : q # r => fate'[q] = fate[q] /\ pc'[q] = pc[q]
  BY <1>0, <1>1 DEF AnswerTypes
<1>3. AnswerTypes'
  BY <1>0, <1>1 DEF AnswerTypes, Before
<1>4. FateScoped'
  <2> SUFFICES ASSUME NEW q \in Requests, pc'[q] \in {"resolved", "done"} PROVE Resolved(q)'
    BY DEF FateScoped
  <2>1. CASE q = r
    BY <1>0, <1>1, <1>2, <2>1 DEF Resolved, Targets
  <2>2. CASE q # r
    BY <1>0, <1>2, <2>2 DEF FateScoped, Resolved, Targets
  <2> QED
    BY <2>1, <2>2
<1>5. RowTellsReply'
  BY <1>0, <1>2 DEF RowTellsReply
<1>6. FaultsScoped'
  BY <1>0, <1>2 DEF FaultsScoped, Targets
<1> QED
  BY <1>3, <1>4, <1>5, <1>6

(* Control writes answer nobody: the blocks that requests read stay as read. *)
LEMMA WriteStep ==
  ASSUME AnswerInv, Write
  PROVE  AnswerInv'
<1> USE DEF AnswerInv
<1>0. UNCHANGED <<pc, req, snap, fate, row, result>>
  BY DEF Write, RestartWindow, StoreOnly, StoreBlock, ResetBlock, ResetCount, Sweep, UNCHANGEDRequests
<1>1. DOMAIN scenario' = DOMAIN DefaultBlock /\ OverridesLabelled(scenario'.over)
  <2>1. UNCHANGED scenario \/ scenario' = DefaultBlock \/ \E u \in Posts : scenario' = Merge(scenario, u)
    BY DEF Write, RestartWindow, StoreOnly, StoreBlock, ResetBlock, ResetCount, Sweep, AnswerTypes
  <2> QED
    BY SMTT(60), <2>1, DefaultLabels, MergeLabels, MergeFacts DEF AnswerTypes
<1>2. ctl'.kind = "post" => ctl'.update \in Posts
  BY SMTT(60) DEF Write, RestartWindow, StoreOnly, StoreBlock, ResetBlock, ResetCount, Sweep, AnswerTypes, Idle
<1>3. AnswerTypes'
  BY <1>0, <1>1, <1>2 DEF AnswerTypes
<1> QED
  BY <1>0, <1>3, QuietStep

(* Every step keeps the answers true to the block that was read. *)
LEMMA NextAnswerInv == AnswerInv /\ [Next]_vars => AnswerInv'
<1> SUFFICES ASSUME AnswerInv, [Next]_vars PROVE AnswerInv'
  OBVIOUS
<1>1. CASE UNCHANGED vars
  <2>1. AnswerTypes'
    BY <1>1 DEF vars, AnswerInv, AnswerTypes
  <2> QED
    BY <1>1, <2>1, QuietStep DEF vars
<1>2. CASE Write
  BY <1>2, WriteStep
<1>3. ASSUME NEW r \in Requests, Step(r) PROVE AnswerInv'
  BY <1>3, UnansweredStep, ResolveStep, EarlyAnswers, ParsedAnswers, UpgradeAnswer DEF Step
<1> QED
  BY <1>1, <1>2, <1>3 DEF Next

(* A block reaches no request outside its filters (targets in fault_policy.py *)
(* and serve in listeners/base.py).                                           *)
THEOREM FaultsScopedHolds == Spec => []FaultsScoped
<1>1. AnswerInv => FaultsScoped
  BY DEF AnswerInv
<1> QED
  BY <1>1, InitAnswerInv, NextAnswerInv, PTL DEF Spec

(* The history row of an answered request says what the adapter does with it *)
(* (finalize in listeners/base.py).                                          *)
THEOREM RowTellsReplyHolds == Spec => []RowTellsReply
<1>1. AnswerInv => RowTellsReply
  BY DEF AnswerInv
<1> QED
  BY <1>1, InitAnswerInv, NextAnswerInv, PTL DEF Spec
=============================================================================
