--------------------------- MODULE CatchupSyncer ---------------------------
(***************************************************************************)
(* The catch-up syncer of an OG node (src/og/syncer/catchup_syncer.go).    *)
(*                                                                         *)
(* loopSync reacts to timer ticks and new-peer events by starting a fresh *)
(* goroutine running syncToLatest; eventLoop toggles Enabled; Stop sends   *)
(* quit to loopSync and then to eventLoop.  Each syncToLatest goroutine is *)
(* a process p \in Procs whose program counter pc[p] marks the point       *)
(* between two of its accesses to shared state: every call that takes      *)
(* c.mu (isSyncing, setSyncFlag, NotifyWorkingStateChanged,                *)
(* unsetSyncFlag) is one atomic step, and so is each call into a           *)
(* collaborator (BestPeerInfo, Downloader.Synchronise).                   *)
(*                                                                         *)
(* Heights are abstracted to 0..MaxHeight; the best peer is NoPeer when    *)
(* BestPeerInfo returns an error.  The Downloader is the collaborator the *)
(* spec describes: Synchronise either brings the local height up to the    *)
(* target or fails having committed a prefix of it, and fails once         *)
(* Terminate has been called.                                              *)
(***************************************************************************)
EXTENDS Naturals

CONSTANTS
    Procs,            \* goroutine slots for concurrent syncToLatest calls
    MaxHeight,        \* largest sequencer height of any chain
    MaxEnvChanges,    \* bound on peer-head changes made by the network
    StopThreshold,    \* stopSyncHeightDiffThreashold
    StartThreshold,   \* startSyncHeightDiffThreashold
    BootStrapNode,    \* c.BootStrapNode
    NoPeer            \* BestPeerInfo returned an error

ASSUME ConstantsAssumption ==
    /\ Procs # {}
    /\ MaxHeight \in Nat
    /\ MaxEnvChanges \in Nat
    /\ StopThreshold \in Nat
    /\ StartThreshold \in Nat
    /\ BootStrapNode \in BOOLEAN
    /\ NoPeer \notin Nat

Started == "Started"
Stopped == "Stopped"
Heights == 0..MaxHeight

VARIABLES
    enabled,           \* c.Enabled
    loopRunning,       \* loopSync has not received quit
    eventLoopRunning,  \* eventLoop has not received quitLoopEvent
    dlTerminated,      \* Downloader.Terminate has been called
    syncFlag,          \* c.syncFlag
    workState,         \* c.WorkState
    currentBestHeight, \* c.currentBestHeight
    ourHeight,         \* height of the local DAG (NodeStatusDataProvider)
    bestPeer,          \* best peer's head height, or NoPeer
    envChanges,        \* peer-head changes made so far
    pc,                \* pc[p]: where goroutine p is in syncToLatest
    diff,              \* diff[p]: the local variable diff of syncToLatest
    target             \* target[p]: seqId passed to Synchronise

vars == << enabled, loopRunning, eventLoopRunning, dlTerminated, syncFlag,
           workState, currentBestHeight, ourHeight, bestPeer, envChanges,
           pc, diff, target >>

syncerVars == << enabled, loopRunning, eventLoopRunning, dlTerminated >>

\* The program points of syncToLatest between setSyncFlag and the deferred
\* unsetSyncFlag: a goroutine here is running a catch-up cycle.
Body == {"check", "notifyStarted", "best", "sync", "notifyStopped", "unset"}
PCs == {"idle", "start", "set"} \cup Body

InCycle(p) == pc[p] \in Body

-----------------------------------------------------------------------------
(* Mutant: the comparison made strict (seqId < ourId + maxDiff). *)
isUpToDateStrict(maxDiff) ==
    IF bestPeer = NoPeer THEN BootStrapNode
                         ELSE bestPeer < ourHeight + maxDiff

(* isUpToDate(maxDiff) *)
isUpToDate(maxDiff) ==
    IF bestPeer = NoPeer THEN BootStrapNode
                         ELSE bestPeer <= ourHeight + maxDiff

(* CacheNewTxEnabled(): the admission signal read by the tx buffer. *)
CacheNewTxEnabled ==
    \/ workState = Stopped
    \/ ~(ourHeight + StartThreshold * 3 < currentBestHeight)

(* NotifyWorkingStateChanged(status), under c.mu: a change only. *)
NotifyWorkingStateChanged(status) ==
    workState' = status

-----------------------------------------------------------------------------
Init ==
    /\ enabled = FALSE
    /\ loopRunning = TRUE
    /\ eventLoopRunning = TRUE
    /\ dlTerminated = FALSE
    /\ syncFlag = FALSE
    \* the zero value of CatchupSyncerStatus is Started; the owner may set it
    /\ workState \in {Started, Stopped}
    /\ currentBestHeight = 0
    /\ ourHeight \in Heights
    /\ bestPeer \in Heights \cup {NoPeer}
    /\ envChanges = 0
    /\ pc = [p \in Procs |-> "idle"]
    /\ diff = [p \in Procs |-> 0]
    /\ target = [p \in Procs |-> 0]

(* eventLoop: case v := <-c.EnableEvent *)
EnableEvent(v) ==
    /\ eventLoopRunning
    /\ enabled' = v
    /\ UNCHANGED << loopRunning, eventLoopRunning, dlTerminated, syncFlag,
                    workState, currentBestHeight, ourHeight, bestPeer,
                    envChanges, pc, diff, target >>

(* Mutant: loopSync keeps spawning syncToLatest after it has quit. *)
TriggerIgnoringQuit(p) ==
    /\ enabled
    /\ pc[p] = "idle"
    /\ pc' = [pc EXCEPT ![p] = "start"]
    /\ UNCHANGED << enabled, loopRunning, eventLoopRunning, dlTerminated,
                    syncFlag, workState, currentBestHeight, ourHeight,
                    bestPeer, envChanges, diff, target >>

(* loopSync: a new-peer event or a timer tick while Enabled runs           *)
(* `go c.syncToLatest()` in a free goroutine slot p.                       *)
Trigger(p) ==
    /\ loopRunning
    /\ enabled
    /\ pc[p] = "idle"
    /\ pc' = [pc EXCEPT ![p] = "start"]
    /\ UNCHANGED << enabled, loopRunning, eventLoopRunning, dlTerminated,
                    syncFlag, workState, currentBestHeight, ourHeight,
                    bestPeer, envChanges, diff, target >>

(* loopSync: case <-c.quit, then the deferred Downloader.Terminate(). *)
QuitLoopSync ==
    /\ loopRunning
    /\ loopRunning' = FALSE
    /\ dlTerminated' = TRUE
    /\ UNCHANGED << enabled, eventLoopRunning, syncFlag, workState,
                    currentBestHeight, ourHeight, bestPeer, envChanges,
                    pc, diff, target >>

(* eventLoop: case <-c.quitLoopEvent; Stop sends it after c.quit. *)
QuitEventLoop ==
    /\ ~loopRunning
    /\ eventLoopRunning
    /\ eventLoopRunning' = FALSE
    /\ UNCHANGED << enabled, loopRunning, dlTerminated, syncFlag, workState,
                    currentBestHeight, ourHeight, bestPeer, envChanges,
                    pc, diff, target >>

(* syncToLatest: if c.isSyncing() { return nil } *)
IsSyncing(p) ==
    /\ pc[p] = "start"
    /\ pc' = [pc EXCEPT ![p] = IF syncFlag THEN "idle" ELSE "set"]
    /\ UNCHANGED << syncerVars, syncFlag, workState, currentBestHeight,
                    ourHeight, bestPeer, envChanges, diff, target >>

(* syncToLatest: c.setSyncFlag(); var diff uint64 = 0 *)
SetSyncFlag(p) ==
    /\ pc[p] = "set"
    /\ syncFlag' = TRUE
    /\ diff' = [diff EXCEPT ![p] = 0]
    /\ pc' = [pc EXCEPT ![p] = "check"]
    /\ UNCHANGED << syncerVars, workState, currentBestHeight, ourHeight,
                    bestPeer, envChanges, target >>

(* syncToLatest: the loop condition !c.isUpToDate(diff) *)
CheckUpToDate(p) ==
    /\ pc[p] = "check"
    /\ pc' = [pc EXCEPT ![p] = IF isUpToDate(diff[p]) THEN "notifyStopped"
                                                      ELSE "notifyStarted"]
    /\ UNCHANGED << syncerVars, syncFlag, workState, currentBestHeight,
                    ourHeight, bestPeer, envChanges, diff, target >>

(* Mutant: the loop holds diff at the start threshold instead. *)
NotifyStartedStartDiff(p) ==
    /\ pc[p] = "notifyStarted"
    /\ NotifyWorkingStateChanged(Started)
    /\ diff' = [diff EXCEPT ![p] = StartThreshold]
    /\ pc' = [pc EXCEPT ![p] = "best"]
    /\ UNCHANGED << syncerVars, syncFlag, currentBestHeight, ourHeight,
                    bestPeer, envChanges, target >>

(* loop body: NotifyWorkingStateChanged(Started); diff = stop threshold *)
NotifyStarted(p) ==
    /\ pc[p] = "notifyStarted"
    /\ NotifyWorkingStateChanged(Started)
    /\ diff' = [diff EXCEPT ![p] = StopThreshold]
    /\ pc' = [pc EXCEPT ![p] = "best"]
    /\ UNCHANGED << syncerVars, syncFlag, currentBestHeight, ourHeight,
                    bestPeer, envChanges, target >>

(* Mutant: the error return skips unsetSyncFlag (no defer). *)
BestPeerInfoNoDefer(p) ==
    /\ pc[p] = "best"
    /\ IF bestPeer = NoPeer
         THEN /\ pc' = [pc EXCEPT ![p] = "idle"]
              /\ UNCHANGED << currentBestHeight, target >>
         ELSE /\ currentBestHeight' = bestPeer
              /\ target' = [target EXCEPT ![p] = bestPeer]
              /\ pc' = [pc EXCEPT ![p] = "sync"]
    /\ UNCHANGED << syncerVars, syncFlag, workState, ourHeight, bestPeer,
                    envChanges, diff >>

(* loop body: BestPeerInfo(); on error return err, else record seqId. *)
BestPeerInfo(p) ==
    /\ pc[p] = "best"
    /\ IF bestPeer = NoPeer
         THEN /\ pc' = [pc EXCEPT ![p] = "unset"]
              /\ UNCHANGED << currentBestHeight, target >>
         ELSE /\ currentBestHeight' = bestPeer
              /\ target' = [target EXCEPT ![p] = bestPeer]
              /\ pc' = [pc EXCEPT ![p] = "sync"]
    /\ UNCHANGED << syncerVars, syncFlag, workState, ourHeight, bestPeer,
                    envChanges, diff >>

(* loop body: Downloader.Synchronise succeeds; the loop goes round. *)
SynchroniseOk(p) ==
    /\ pc[p] = "sync"
    /\ ~dlTerminated
    /\ ourHeight' = IF target[p] > ourHeight THEN target[p] ELSE ourHeight
    /\ pc' = [pc EXCEPT ![p] = "check"]
    /\ UNCHANGED << syncerVars, syncFlag, workState, currentBestHeight,
                    bestPeer, envChanges, diff, target >>

(* loop body: Downloader.Synchronise fails after committing a prefix;     *)
(* syncToLatest returns err.                                               *)
SynchroniseFail(p) ==
    /\ pc[p] = "sync"
    /\ \E h \in (ourHeight..target[p]) \cup {ourHeight} : ourHeight' = h
    /\ pc' = [pc EXCEPT ![p] = "unset"]
    /\ UNCHANGED << syncerVars, syncFlag, workState, currentBestHeight,
                    bestPeer, envChanges, diff, target >>

(* after the loop: NotifyWorkingStateChanged(Stopped); return nil *)
NotifyStopped(p) ==
    /\ pc[p] = "notifyStopped"
    /\ NotifyWorkingStateChanged(Stopped)
    /\ pc' = [pc EXCEPT ![p] = "unset"]
    /\ UNCHANGED << syncerVars, syncFlag, currentBestHeight, ourHeight,
                    bestPeer, envChanges, diff, target >>

(* the deferred c.unsetSyncFlag() on every return after setSyncFlag *)
UnsetSyncFlag(p) ==
    /\ pc[p] = "unset"
    /\ syncFlag' = FALSE
    /\ pc' = [pc EXCEPT ![p] = "idle"]
    /\ UNCHANGED << syncerVars, workState, currentBestHeight, ourHeight,
                    bestPeer, envChanges, diff, target >>

(* The network: a head announcement (HandleSequencerHeader -> SetPeerHead) *)
(* or a peer joining or leaving changes what BestPeerInfo returns.          *)
PeerHeadChanged ==
    /\ envChanges < MaxEnvChanges
    /\ \E h \in (Heights \cup {NoPeer}) \ {bestPeer} : bestPeer' = h
    /\ envChanges' = envChanges + 1
    /\ UNCHANGED << syncerVars, syncFlag, workState, currentBestHeight,
                    ourHeight, pc, diff, target >>

(* Both loops have quit and every goroutine has returned. *)
Terminated ==
    /\ ~loopRunning /\ ~eventLoopRunning
    /\ \A p \in Procs : pc[p] = "idle"
    /\ UNCHANGED vars

SyncToLatest(p) ==
    \/ IsSyncing(p) \/ SetSyncFlag(p) \/ CheckUpToDate(p)
    \/ NotifyStarted(p) \/ BestPeerInfo(p) \/ SynchroniseOk(p)
    \/ SynchroniseFail(p) \/ NotifyStopped(p) \/ UnsetSyncFlag(p)

Next ==
    \/ \E v \in BOOLEAN : EnableEvent(v)
    \/ \E p \in Procs : Trigger(p) \/ SyncToLatest(p)
    \/ QuitLoopSync \/ QuitEventLoop
    \/ PeerHeadChanged
    \/ Terminated

Spec == Init /\ [][Next]_vars

(* Goroutines are scheduled, the 6s timer keeps firing while Enabled, and  *)
(* the Downloader eventually succeeds against a peer that stays put.       *)
Fairness ==
    /\ \A p \in Procs :
         /\ WF_vars(Trigger(p))
         /\ WF_vars(SyncToLatest(p))
         /\ SF_vars(SynchroniseOk(p))

FairSpec == Spec /\ Fairness

-----------------------------------------------------------------------------
TypeOK ==
    /\ enabled \in BOOLEAN
    /\ loopRunning \in BOOLEAN
    /\ eventLoopRunning \in BOOLEAN
    /\ dlTerminated \in BOOLEAN
    /\ syncFlag \in BOOLEAN
    /\ workState \in {Started, Stopped}
    /\ currentBestHeight \in Heights
    /\ ourHeight \in Heights
    /\ bestPeer \in Heights \cup {NoPeer}
    /\ envChanges \in 0..MaxEnvChanges
    /\ pc \in [Procs -> PCs]
    /\ diff \in [Procs -> {0, StopThreshold}]
    /\ target \in [Procs -> Heights]

(* The sync-in-flight flag is only ever held by a running cycle: whenever  *)
(* c.syncFlag is set, some syncToLatest goroutine is between setSyncFlag   *)
(* and its deferred unsetSyncFlag.  If an early return skipped the unset,   *)
(* every later trigger would see isSyncing() and the node never syncs.     *)
FlagHeldOnlyByRunningCycle ==
    syncFlag => \E p \in Procs : InCycle(p)

(* Only one catch-up cycle runs at a time (spec section 3): no two         *)
(* syncToLatest goroutines are past setSyncFlag at once.                    *)
MutualExclusion ==
    \A p, q \in Procs : InCycle(p) /\ InCycle(q) => p = q

(* CacheNewTxEnabled rejects new transactions only during a large catch-up: *)
(* when it returns false, a syncToLatest cycle is running.                   *)
CacheRejectsOnlyWhileSyncing ==
    ~CacheNewTxEnabled => \E p \in Procs : InCycle(p)

(* Convergence: once the syncer stays enabled and running and the best     *)
(* peer stays reachable, the node ends up within StopThreshold of it with  *)
(* status Stopped, and stays there.                                         *)
Convergence ==
    <>[](enabled /\ loopRunning /\ bestPeer # NoPeer)
        => <>[](workState = Stopped /\ isUpToDate(StopThreshold))

(* Shutdown drains: after loopSync has quit, every syncToLatest goroutine  *)
(* eventually returns and the sync flag is released for good.               *)
ShutdownDrains ==
    ~loopRunning ~> [](~syncFlag /\ \A p \in Procs : pc[p] = "idle")
=============================================================================
