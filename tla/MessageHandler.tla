--------------------------- MODULE MessageHandler ---------------------------
(***************************************************************************)
(* The sync handlers of IncomingMessageHandler (src/og/message_handler.go) *)
(* other than the header range scan (module HeaderQuery), running         *)
(* concurrently with the local DAG growing.                                 *)
(*                                                                         *)
(* Sequencers are their numbers 0..tip and a sequencer's hash is its      *)
(* number; MaxTip + 1 is a sequencer hash the DAG never holds.  Plain     *)
(* transactions are the model values Txs.  Each handler call is one step  *)
(* except HandleTxsResponse, whose read of LatestSequencer() and whose    *)
(* AddRemoteTxs call are separate steps (the DAG may grow in between).     *)
(* out is the last output of a handler: the message it sent or its call  *)
(* into the TxBuffer, the Downloader or the Hub.                           *)
(***************************************************************************)
EXTENDS Naturals, Sequences, FiniteSets

CONSTANTS
    Txs,               \* transactions (model values)
    MaxTip,            \* the DAG grows up to sequencer MaxTip
    BodySize,          \* BodySize[n]: len(bodyData) of sequencer n's bundle
    SoftResponseLimit, \* softResponseLimit (bytes)
    MaxBlockFetch,     \* downloader.MaxBlockFetch
    MaxReq,            \* longest hash list in a request
    Peers,             \* peer ids (model values)
    None               \* an absent value (nil pointer, no message yet)

ASSUME MessageHandlerAssumption ==
    /\ MaxTip \in Nat
    /\ BodySize \in [0..MaxTip -> Nat \ {0}]
    /\ SoftResponseLimit \in Nat \ {0}
    /\ MaxBlockFetch \in Nat \ {0}
    /\ MaxReq \in Nat
    /\ None \notin Nat \cup Txs

SeqIds == 0..(MaxTip + 1)       \* sequencer hashes a peer may name
Items == Txs \cup SeqIds
MaxBodySize == CHOOSE b \in {BodySize[n] : n \in 0..MaxTip} :
                   \A m \in 0..MaxTip : BodySize[m] <= b

\* hash lists of at most MaxReq entries
Lists(S) == UNION {[1..n -> S] : n \in 0..MaxReq}

\* the sequencers of the responses a peer sends us: one the DAG holds and one
\* it does not (the handlers pass them on without looking at them)
Payload == {0, MaxTip + 1}

\* the hashes a fetch-by-hash request names: the transactions, the genesis,
\* the last sequencer the DAG will hold and one it never holds
FetchHashes == Txs \cup {0, MaxTip, MaxTip + 1}

\* how one body of a MessageBodiesResponse decodes
BodyKinds == {"ok", "nilSequencer", "decodeError"}

VARIABLES
    tip,      \* number of the latest sequencer in the DAG
    pool,     \* transactions in the TxPool
    dagTxs,   \* transactions confirmed in the DAG
    out,      \* the last output of a handler: a message sent to the peer or
              \* a call into the TxBuffer, the Downloader or the Hub
    txsResp   \* HandleTxsResponse in progress: [seq, lseq] or None

vars == << tip, pool, dagTxs, out, txsResp >>

-----------------------------------------------------------------------------
(* The DAG and TxPool lookups (external storage collaborator). *)
Known(h) == IF h \in Txs THEN h \in pool \cup dagTxs ELSE h <= tip
GetSequencerByHash(h) == IF h <= tip THEN h ELSE None
GetSequencerById(id) == IF id <= tip THEN id ELSE None
GetSequencer(h, id) == IF id <= tip /\ h = id THEN id ELSE None

(* HandleFetchByHashRequest's loop: the hashes of keep, in request order, *)
(* each appended as it is met.                                             *)
Found(hashes, keep) ==
    LET f[i \in 0..Len(hashes)] ==
          IF i = 0 THEN << >>
          ELSE IF hashes[i] \in keep THEN Append(f[i - 1], hashes[i])
          ELSE f[i - 1]
    IN f[Len(hashes)]

(* HandleBodiesRequest's loop: body i is appended when every hash up to i *)
(* resolves and, before it, the bytes are below the limit and the count    *)
(* below MaxBlockFetch.                                                     *)
BytesBefore(req, i) ==
    LET sz[j \in 0..(i - 1)] == IF j = 0 THEN 0
                                ELSE sz[j - 1] + BodySize[req[j]]
    IN sz[i - 1]

(* Mutant: the byte limit is not checked. *)
BodiesTakenNoByteLimit(req) ==
    LET ok(i) == \A j \in 1..i : GetSequencerByHash(req[j]) # None
                                 /\ j - 1 < MaxBlockFetch
    IN {i \in 1..Len(req) : ok(i)}

BodiesTaken(req) ==
    LET ok(i) == \A j \in 1..i : /\ GetSequencerByHash(req[j]) # None
                                 /\ BytesBefore(req, j) < SoftResponseLimit
                                 /\ j - 1 < MaxBlockFetch
    IN {i \in 1..Len(req) : ok(i)}

(* HandleBodiesResponse's loop: slot i is set when no body before it and   *)
(* not body i failed to decode or lacked a sequencer.                      *)
SlotsSet(kinds) ==
    {i \in 1..Len(kinds) : \A j \in 1..i : kinds[j] = "ok"}

-----------------------------------------------------------------------------
Init ==
    /\ tip \in 0..MaxTip
    /\ pool \in SUBSET Txs
    /\ dagTxs = Txs \ pool
    /\ out = None
    /\ txsResp = None

(* The DAG commits the next sequencer, confirming some pooled txs. *)
DagAppend ==
    /\ tip < MaxTip
    /\ tip' = tip + 1
    /\ \E c \in SUBSET pool : pool' = pool \ c /\ dagTxs' = dagTxs \cup c
    /\ UNCHANGED << out, txsResp >>

(* HandleFetchByHashRequest: look each hash up in the pool, then the DAG; *)
(* an empty request is not answered.                                       *)
HandleFetchByHashRequest(hashes) ==
    /\ Len(hashes) > 0
    /\ out' = [kind |-> "fetchResponse",
               txs |-> Found(hashes, {h \in Txs : Known(h)}),
               seqs |-> Found(hashes, {h \in FetchHashes \ Txs : Known(h)})]
    /\ UNCHANGED << tip, pool, dagTxs, txsResp >>

(* HandleFetchByHashResponse: unless both lists are empty, AddRemoteTx    *)
(* every tx and then every sequencer.                                      *)
HandleFetchByHashResponse(txs, seqs) ==
    /\ Len(txs) + Len(seqs) > 0
    /\ out' = [kind |-> "addRemoteTx", items |-> txs \o seqs]
    /\ UNCHANGED << tip, pool, dagTxs, txsResp >>

(* HandleHeaderResponse: the condition len > 0 || !filter always holds,   *)
(* so every batch, empty included, goes to DeliverHeaders.                 *)
HandleHeaderResponse(headers) ==
    /\ out' = [kind |-> "deliverHeaders", headers |-> headers]
    /\ UNCHANGED << tip, pool, dagTxs, txsResp >>

(* HandleBodiesRequest: bundle each resolved sequencer until a hash does  *)
(* not resolve, the bytes reach the limit or MaxBlockFetch bodies.         *)
HandleBodiesRequest(req) ==
    /\ LET n == Cardinality(BodiesTaken(req))
       IN out' = [kind |-> "bodiesResponse", bodies |-> [i \in 1..n |-> req[i]],
                  bytes |-> BytesBefore(req, n + 1)]
    /\ UNCHANGED << tip, pool, dagTxs, txsResp >>

(* HandleBodiesResponse: decode until the first bad body; DeliverBodies   *)
(* gets both arrays at full length, unset slots nil.                      *)
HandleBodiesResponse(bodies, kinds) ==
    /\ Len(kinds) = Len(bodies)
    /\ out' = [kind |-> "deliverBodies",
               seqs |-> [i \in 1..Len(bodies) |->
                           IF i \in SlotsSet(kinds) THEN bodies[i] ELSE None]]
    /\ UNCHANGED << tip, pool, dagTxs, txsResp >>

(* HandleTxsRequest: by hash and id when a hash is given and the id is    *)
(* not 0, else by id; the response carries the sequencer or nil.           *)
HandleTxsRequest(id, hash) ==
    /\ LET seq == IF hash # None /\ id # 0 THEN GetSequencer(hash, id)
                                           ELSE GetSequencerById(id)
       IN out' = [kind |-> "txsResponse", id |-> id, hash |-> hash, seq |-> seq]
    /\ UNCHANGED << tip, pool, dagTxs, txsResp >>

(* Mutant: a response without a sequencer is not dropped. *)
HandleTxsResponseReadNoNilCheck(seq) ==
    /\ txsResp = None
    /\ txsResp' = [seq |-> seq, lseq |-> tip]
    /\ UNCHANGED << tip, pool, dagTxs, out >>

(* HandleTxsResponse up to lseq := Dag.LatestSequencer(); a nil sequencer *)
(* is dropped.                                                              *)
HandleTxsResponseRead(seq) ==
    /\ txsResp = None
    /\ seq # None
    /\ txsResp' = [seq |-> seq, lseq |-> tip]
    /\ UNCHANGED << tip, pool, dagTxs, out >>

(* HandleTxsResponse: if lseq.Number() < seq.Number(), AddRemoteTxs. *)
HandleTxsResponseAdd ==
    /\ txsResp # None
    /\ out' = IF txsResp.lseq < txsResp.seq
               THEN [kind |-> "addRemoteTxs", seq |-> txsResp.seq, tip |-> tip]
               ELSE out
    /\ txsResp' = None
    /\ UNCHANGED << tip, pool, dagTxs >>

(* HandleSequencerHeader: a nil hash is ignored, else SetPeerHead.  The   *)
(* goroutines it starts per missing height have empty bodies.              *)
HandleSequencerHeader(p, hash, number) ==
    /\ hash # None
    /\ out' = [kind |-> "setPeerHead", peer |-> p, hash |-> hash,
               number |-> number]
    /\ UNCHANGED << tip, pool, dagTxs, txsResp >>

(* HandlePing: answer with a pong.  HandlePong changes nothing. *)
HandlePing ==
    /\ out' = [kind |-> "pong"]
    /\ UNCHANGED << tip, pool, dagTxs, txsResp >>

Next ==
    \/ DagAppend
    \/ \E h \in Lists(FetchHashes) : HandleFetchByHashRequest(h)
    \/ \E t \in Lists(Txs), s \in Lists(Payload) :
          HandleFetchByHashResponse(t, s)
    \/ \E h \in Lists(Payload) : HandleHeaderResponse(h)
    \/ \E r \in Lists(SeqIds) : HandleBodiesRequest(r)
    \/ \E b \in Lists(Payload) : \E k \in [1..Len(b) -> BodyKinds] :
          HandleBodiesResponse(b, k)
    \/ \E id \in SeqIds, h \in SeqIds \cup {None} : HandleTxsRequest(id, h)
    \/ \E s \in SeqIds \cup {None} : HandleTxsResponseRead(s)
    \/ HandleTxsResponseAdd
    \/ \E p \in Peers, h \in SeqIds \cup {None}, n \in SeqIds :
          HandleSequencerHeader(p, h, n)
    \/ HandlePing

Spec == Init /\ [][Next]_vars

-----------------------------------------------------------------------------
Outputs ==
    [kind : {"fetchResponse"}, txs : Seq(Txs), seqs : Seq(SeqIds)]
    \cup [kind : {"addRemoteTx"}, items : Seq(Items)]
    \cup [kind : {"deliverHeaders"}, headers : Seq(SeqIds)]
    \cup [kind : {"bodiesResponse"}, bodies : Seq(0..MaxTip), bytes : Nat]
    \cup [kind : {"deliverBodies"}, seqs : Seq(SeqIds \cup {None})]
    \cup [kind : {"txsResponse"}, id : SeqIds, hash : SeqIds \cup {None},
          seq : 0..MaxTip \cup {None}]
    \cup [kind : {"addRemoteTxs"}, seq : SeqIds, tip : 0..MaxTip]
    \cup [kind : {"setPeerHead"}, peer : Peers, hash : SeqIds, number : SeqIds]
    \cup [kind : {"pong"}]

TypeOK ==
    /\ tip \in 0..MaxTip
    /\ pool \subseteq Txs /\ dagTxs \subseteq Txs
    /\ out \in {None} \cup Outputs
    /\ txsResp \in {None} \cup [seq : SeqIds, lseq : 0..MaxTip]

(* A bodies response stays within MaxBlockFetch bodies, and the byte       *)
(* budget is overshot by at most the one body appended while the bytes     *)
(* were still below it.                                                     *)
BodiesResponseBounded ==
    out # None /\ out.kind = "bodiesResponse" =>
        /\ Len(out.bodies) <= MaxBlockFetch
        /\ out.bytes < SoftResponseLimit + MaxBodySize

(* A bodies response never exceeds the byte budget (spec section 3). *)
BodiesWithinByteBudget ==
    out # None /\ out.kind = "bodiesResponse" => out.bytes <= SoftResponseLimit

(* A tx-set response answers the sequencer the request named: when the     *)
(* request carries a hash, the sequencer returned, if any, has that hash   *)
(* (spec: resolve by hash and id when both are given).                     *)
TxsResponseMatchesHash ==
    out # None /\ out.kind = "txsResponse" /\ out.hash # None /\ out.seq # None
        => out.seq = out.hash

(* A tx-set response at or below the local tip never reaches the tx       *)
(* buffer (spec section 8): every AddRemoteTxs call is for a sequencer     *)
(* above the tip at the moment of the call.                                 *)
StaleTxsNeverBuffered ==
    out # None /\ out.kind = "addRemoteTxs" => out.seq > out.tip
=============================================================================
