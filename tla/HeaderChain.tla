----------------------------- MODULE HeaderChain -----------------------------
(***************************************************************************)
(* The local sequencer chain a MessageHeaderRequest is answered from, the  *)
(* requests a peer may send, and the spec's reference answer.  Shared by  *)
(* the handler's loop (HeaderQuery) and the spec's one-step answer         *)
(* (HeaderQueryAbstract).                                                  *)
(*                                                                         *)
(* The chain is 0..Tip; the sequencer at number n has hash n + 1, and 0   *)
(* is the empty hash.  uint64 arithmetic is taken modulo 2^W.              *)
(***************************************************************************)
EXTENDS Integers, Sequences

CONSTANTS
    W,                 \* bit width of the uint64 fields, scaled down
    Tip,               \* number of the latest local sequencer
    MaxHeaderFetch,    \* downloader.MaxHeaderFetch
    SoftResponseLimit, \* softResponseLimit (bytes)
    EstHeaderSize,     \* estHeaderRlpSize (bytes)
    Amounts,           \* query.Amount values a peer may send
    Skips              \* query.Skip values a peer may send

M == 2 ^ W

ASSUME HeaderQueryAssumption ==
    /\ W \in Nat \ {0}
    /\ M \in Nat
    /\ Tip \in Nat /\ Tip + 1 < M
    /\ MaxHeaderFetch \in Nat \ {0}
    /\ SoftResponseLimit \in Nat \ {0}
    /\ EstHeaderSize \in Nat \ {0}
    /\ Amounts \subseteq 0..(M - 1)
    /\ Skips \subseteq 0..(M - 1)

Nil == -1                        \* a nil *types.Sequencer
EmptyHash == 0
UnknownHash == Tip + 2           \* a hash the local DAG does not hold
Hashes == 0..(Tip + 2)
Numbers == 0..(M - 1)

HashOf(n) == n + 1

(* The Dag lookups used by the handler (external storage collaborator). *)
GetSequencerByHash(h) == IF h \in 1..(Tip + 1) THEN h - 1 ELSE Nil
GetSequencer(h, n) == IF n <= Tip /\ HashOf(n) = h THEN n ELSE Nil
GetSequencerById(n) == IF n <= Tip THEN n ELSE Nil

(* int(query.Amount): a uint64 at or above 2^63 becomes negative. *)
AmountInt(a) == IF a >= M \div 2 THEN a - M ELSE a

Queries == [hash : Hashes, number : Numbers, amount : Amounts,
            skip : Skips, reverse : BOOLEAN]

-----------------------------------------------------------------------------
(* The reference result of a header query, from the spec: start at the     *)
(* origin's number and walk by skip + 1 towards genesis (reverse) or the   *)
(* tip, for as long as the chain has headers there, taking at most         *)
(* amount, MaxHeaderFetch, and ByteCap: the number of headers appended     *)
(* while the estimated bytes so far are below the soft limit, which lets   *)
(* the last of them cross it by up to EstHeaderSize - 1 bytes.             *)
ByteCap == (SoftResponseLimit + EstHeaderSize - 1) \div EstHeaderSize

MinOf(a, b) == IF a <= b THEN a ELSE b

RefStart(q) ==
    IF q.hash # EmptyHash THEN GetSequencerByHash(q.hash) ELSE
    IF q.number <= Tip THEN q.number ELSE Nil

(* The step between consecutive headers, the number of the k-th header   *)
(* after the origin, how many headers of the walk the chain holds, and     *)
(* how many the response may carry.                                         *)
RefStep(q) == q.skip + 1

RefAt(q, k) ==
    IF q.reverse THEN RefStart(q) - k * RefStep(q)
                 ELSE RefStart(q) + k * RefStep(q)

RefAvail(q) ==
    IF RefStart(q) = Nil THEN 0
    ELSE IF q.reverse THEN RefStart(q) \div RefStep(q) + 1
                      ELSE (Tip - RefStart(q)) \div RefStep(q) + 1

RefCount(q) ==
    MinOf(MinOf(RefAvail(q), q.amount), MinOf(MaxHeaderFetch, ByteCap))

RefHeaders(q) == [i \in 1..RefCount(q) |-> RefAt(q, i - 1)]
=============================================================================
