------------------------- MODULE CatchupSyncerProofs -------------------------
(***************************************************************************)
(* Proofs about CatchupSyncer for every value of the constants.           *)
(***************************************************************************)
EXTENDS CatchupSyncer, TLAPS

(* Type correctness: every reachable state gives each variable of the     *)
(* catch-up syncer a value of its type (TypeOK).                          *)
THEOREM TypeCorrect == Spec => []TypeOK
<1>1. Init => TypeOK
  <2> SUFFICES ASSUME Init PROVE TypeOK
    OBVIOUS
  <2> USE ConstantsAssumption DEF Init, Heights
  <2>1. pc \in [Procs -> PCs]
    BY DEF PCs
  <2>2. diff \in [Procs -> {0, StopThreshold}] /\ target \in [Procs -> Heights]
    OBVIOUS
  <2>3. /\ workState \in {Started, Stopped}
        /\ currentBestHeight \in Heights
        /\ ourHeight \in Heights
        /\ bestPeer \in Heights \cup {NoPeer}
        /\ envChanges \in 0..MaxEnvChanges
    OBVIOUS
  <2>4. QED
    BY <2>1, <2>2, <2>3 DEF TypeOK
<1>2. TypeOK /\ [Next]_vars => TypeOK'
  <2> SUFFICES ASSUME TypeOK, [Next]_vars PROVE TypeOK'
    OBVIOUS
  <2> USE DEF TypeOK, PCs, Body, syncerVars
  <2>1. ASSUME NEW v \in BOOLEAN, EnableEvent(v) PROVE TypeOK'
    BY <2>1 DEF EnableEvent
  <2>2. ASSUME NEW p \in Procs, Trigger(p) PROVE TypeOK'
    BY <2>2 DEF Trigger
  <2>3. ASSUME NEW p \in Procs, SyncToLatest(p) PROVE TypeOK'
    <3>1. CASE IsSyncing(p)
      BY <3>1 DEF IsSyncing
    <3>2. CASE SetSyncFlag(p)
      BY <3>2 DEF SetSyncFlag
    <3>3. CASE CheckUpToDate(p)
      BY <3>3 DEF CheckUpToDate
    <3>4. CASE NotifyStarted(p)
      BY <3>4 DEF NotifyStarted, NotifyWorkingStateChanged
    <3>5. CASE BestPeerInfo(p)
      BY <3>5 DEF BestPeerInfo
    <3>6. CASE SynchroniseOk(p)
      BY <3>6, ConstantsAssumption DEF SynchroniseOk, Heights
    <3>7. CASE SynchroniseFail(p)
      BY <3>7, ConstantsAssumption DEF SynchroniseFail, Heights
    <3>8. CASE NotifyStopped(p)
      BY <3>8 DEF NotifyStopped, NotifyWorkingStateChanged
    <3>9. CASE UnsetSyncFlag(p)
      BY <3>9 DEF UnsetSyncFlag
    <3>10. QED
      BY <2>3, <3>1, <3>2, <3>3, <3>4, <3>5, <3>6, <3>7, <3>8, <3>9
         DEF SyncToLatest
  <2>4. CASE QuitLoopSync
    BY <2>4 DEF QuitLoopSync
  <2>5. CASE QuitEventLoop
    BY <2>5 DEF QuitEventLoop
  <2>6. CASE PeerHeadChanged
    BY <2>6, ConstantsAssumption DEF PeerHeadChanged
  <2>7. CASE Terminated \/ UNCHANGED vars
    BY <2>7 DEF Terminated, vars
  <2>8. QED
    BY <2>1, <2>2, <2>3, <2>4, <2>5, <2>6, <2>7 DEF Next
<1>3. QED
  BY <1>1, <1>2, PTL DEF Spec

(* The sync flag is held only by a running cycle: in every reachable      *)
(* state, c.syncFlag set implies that some syncToLatest goroutine is       *)
(* between setSyncFlag and its deferred unsetSyncFlag.  The invariant is   *)
(* inductive on its own given TypeOK: only SetSyncFlag sets the flag, and *)
(* it puts its goroutine into the cycle; only UnsetSyncFlag takes a        *)
(* goroutine out of the cycle, and it clears the flag.                     *)
THEOREM FlagInvariant == Spec => []FlagHeldOnlyByRunningCycle
<1> DEFINE Inv == FlagHeldOnlyByRunningCycle
<1> USE DEF FlagHeldOnlyByRunningCycle, InCycle
<1>1. Init => Inv
  BY DEF Init
<1>2. TypeOK /\ Inv /\ [Next]_vars => Inv'
  <2> SUFFICES ASSUME TypeOK, Inv, [Next]_vars PROVE Inv'
    OBVIOUS
  <2> USE DEF TypeOK
  <2>1. ASSUME NEW v \in BOOLEAN, EnableEvent(v) PROVE Inv'
    BY <2>1 DEF EnableEvent
  <2>2. ASSUME NEW p \in Procs, Trigger(p) PROVE Inv'
    \* p goes from idle to start: it was not in the cycle before or after
    BY <2>2 DEF Trigger, Body
  <2>3. ASSUME NEW p \in Procs, SyncToLatest(p) PROVE Inv'
    <3>1. CASE IsSyncing(p)
      BY <3>1 DEF IsSyncing, Body
    <3>2. CASE SetSyncFlag(p)
      \* p itself is the witness
      BY <3>2 DEF SetSyncFlag, Body
    <3>3. CASE UnsetSyncFlag(p)
      BY <3>3 DEF UnsetSyncFlag
    <3>4. CASE CheckUpToDate(p) \/ NotifyStarted(p) \/ BestPeerInfo(p)
               \/ SynchroniseOk(p) \/ SynchroniseFail(p) \/ NotifyStopped(p)
      \* the flag is unchanged and p moves from one point of Body to another
      <4>1. /\ syncFlag' = syncFlag
            /\ pc[p] \in Body
            /\ pc' = [pc EXCEPT ![p] = pc'[p]]
            /\ pc'[p] \in Body
        BY <3>4 DEF CheckUpToDate, NotifyStarted, BestPeerInfo,
                    SynchroniseOk, SynchroniseFail, NotifyStopped, Body,
                    syncerVars
      <4>2. QED
        BY <4>1
    <3>5. QED
      BY <2>3, <3>1, <3>2, <3>3, <3>4 DEF SyncToLatest
  <2>4. CASE QuitLoopSync
    BY <2>4 DEF QuitLoopSync
  <2>5. CASE QuitEventLoop
    BY <2>5 DEF QuitEventLoop
  <2>6. CASE PeerHeadChanged
    BY <2>6 DEF PeerHeadChanged
  <2>7. CASE Terminated \/ UNCHANGED vars
    BY <2>7 DEF Terminated, vars
  <2>8. QED
    BY <2>1, <2>2, <2>3, <2>4, <2>5, <2>6, <2>7 DEF Next
<1>3. QED
  BY <1>1, <1>2, TypeCorrect, PTL DEF Spec
=============================================================================
