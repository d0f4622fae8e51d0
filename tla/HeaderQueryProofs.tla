-------------------------- MODULE HeaderQueryProofs --------------------------
(***************************************************************************)
(* Proofs about HandleHeaderRequest's loop (HeaderQuery) for every value  *)
(* of the constants: whatever query a peer sends, the loop keeps its      *)
(* variables in their types and its response within the amount asked     *)
(* for and MaxHeaderFetch, and below the byte budget plus one header.     *)
(***************************************************************************)
EXTENDS HeaderQuery, TLAPS

USE HeaderQueryAssumption

(* A header the loop resolves is a number of the local chain: each Dag    *)
(* lookup returns Nil or a sequencer of 0..Tip.                            *)
LEMMA OriginInChain ==
    ASSUME NEW h \in Hashes, NEW n \in Numbers
    PROVE  /\ GetSequencerByHash(h) \in (0..Tip) \cup {Nil}
           /\ GetSequencer(h, n) \in (0..Tip) \cup {Nil}
           /\ GetSequencerById(n) \in (0..Tip) \cup {Nil}
BY DEF GetSequencerByHash, GetSequencer, GetSequencerById, Hashes, Numbers,
       HashOf

(* Advancing a query of the loop keeps it a query with the same amount,   *)
(* skip and direction, whichever branch of the advance is taken.           *)
LEMMA AdvanceType ==
    ASSUME NEW o \in 0..Tip, NEW q \in Queries
    PROVE  /\ Advance(o, q).q \in Queries
           /\ Advance(o, q).q.amount = q.amount
           /\ Advance(o, q).q.skip = q.skip
           /\ Advance(o, q).q.reverse = q.reverse
           /\ Advance(o, q).unknown \in BOOLEAN
           /\ Advance(o, q).panic \in BOOLEAN
<1> DEFINE step == (q.skip + 1) % M
<1>a. M \in Nat \ {0}
  OBVIOUS
<1>b. q.skip \in 0..(M - 1)
  BY Zenon DEF Queries
<1>0. M \in Nat \ {0} /\ q.skip \in 0..(M - 1)
  BY <1>a, <1>b
<1>1. step \in 0..(M - 1) /\ M \in Nat \ {0}
  BY <1>0 DEF step
<1>2. \A x \in Int : x % M \in Numbers
  BY <1>1 DEF Numbers
<1>3. \A x \in Numbers : GetSequencerById(x) # Nil =>
                           /\ GetSequencerById(x) = x
                           /\ x \in 0..Tip
                           /\ HashOf(x) \in Hashes
  BY DEF GetSequencerById, Nil, Numbers, HashOf, Hashes
<1>4. o \in Numbers
  BY DEF Numbers
<1> DEFINE Ok(r) == /\ r.q \in Queries
                   /\ r.q.amount = q.amount
                   /\ r.q.skip = q.skip
                   /\ r.q.reverse = q.reverse
                   /\ r.unknown \in BOOLEAN
                   /\ r.panic \in BOOLEAN
<1>5. /\ Ok([q |-> q, unknown |-> TRUE, panic |-> FALSE])
      /\ Ok([q |-> q, unknown |-> FALSE, panic |-> TRUE])
  OBVIOUS
<1>6. CASE hashMode /\ q.reverse
  <2> DEFINE seq == GetSequencerById((q.number - step) % M)
  <2>1. q.number - step \in Int
    BY <1>1 DEF Queries, Numbers
  <2>2. seq # Nil => Ok([q |-> [q EXCEPT !.hash = HashOf(seq), !.number = seq],
                          unknown |-> HashOf(seq) = EmptyHash,
                          panic |-> FALSE])
    BY <1>2, <1>3, <2>1 DEF Queries
  <2>3. Advance(o, q) = IF step = 0
                          THEN [q |-> q, unknown |-> TRUE, panic |-> FALSE]
                          ELSE IF seq = Nil
                            THEN [q |-> q, unknown |-> FALSE, panic |-> TRUE]
                            ELSE [q |-> [q EXCEPT !.hash = HashOf(seq),
                                                  !.number = seq],
                                  unknown |-> HashOf(seq) = EmptyHash,
                                  panic |-> FALSE]
    BY <1>6, Zenon DEF Advance
  <2>4. CASE step = 0
    BY <1>5, <2>3, <2>4
  <2>5. CASE step # 0 /\ seq = Nil
    BY <1>5, <2>3, <2>5
  <2>6. CASE step # 0 /\ seq # Nil
    BY <2>2, <2>3, <2>6
  <2>7. QED
    BY <2>4, <2>5, <2>6
<1>7. CASE hashMode /\ ~q.reverse
  <2> DEFINE next == (o + step) % M
             old == GetSequencerById((next - step) % M)
  <2>1. next \in Numbers /\ (next - step) \in Int
    BY <1>1, <1>2, <1>4 DEF Numbers
  <2>2. GetSequencerById(next) # Nil =>
          Ok([q |-> [q EXCEPT !.hash = HashOf(next), !.number = next],
              unknown |-> FALSE, panic |-> FALSE])
    BY <1>3, <2>1 DEF Queries
  <2>3. Advance(o, q) =
          IF next <= o \/ GetSequencerById(next) = Nil
            THEN [q |-> q, unknown |-> TRUE, panic |-> FALSE]
          ELSE IF old = Nil
            THEN [q |-> q, unknown |-> FALSE, panic |-> TRUE]
          ELSE IF HashOf(old) = q.hash
            THEN [q |-> [q EXCEPT !.hash = HashOf(next), !.number = next],
                  unknown |-> FALSE, panic |-> FALSE]
          ELSE [q |-> q, unknown |-> TRUE, panic |-> FALSE]
    BY <1>7 DEF Advance
  <2>4. CASE next <= o \/ GetSequencerById(next) = Nil \/ old = Nil
    BY <1>5, <2>3, <2>4
  <2>5. CASE ~(next <= o \/ GetSequencerById(next) = Nil \/ old = Nil)
    <3>1. CASE HashOf(old) = q.hash
      BY <2>2, <2>3, <2>5, <3>1
    <3>2. CASE HashOf(old) # q.hash
      BY <1>5, <2>3, <2>5, <3>2
    <3>3. QED
      BY <3>1, <3>2
  <2>6. QED
    BY <2>4, <2>5
<1>8. CASE ~hashMode /\ q.reverse
  <2>1. q.number >= step =>
          Ok([q |-> [q EXCEPT !.number = q.number - step],
              unknown |-> FALSE, panic |-> FALSE])
    BY <1>1 DEF Queries, Numbers
  <2>2. Advance(o, q) =
          IF q.number >= step
            THEN [q |-> [q EXCEPT !.number = q.number - step],
                  unknown |-> FALSE, panic |-> FALSE]
            ELSE [q |-> q, unknown |-> TRUE, panic |-> FALSE]
    BY <1>8 DEF Advance
  <2>3. QED
    BY <1>5, <2>1, <2>2 DEF Ok
<1>9. CASE ~hashMode /\ ~q.reverse
  <2>1. Ok([q |-> [q EXCEPT !.number = (q.number + step) % M],
            unknown |-> FALSE, panic |-> FALSE])
    BY <1>1, <1>2 DEF Queries, Numbers
  <2>2. Advance(o, q) = [q |-> [q EXCEPT !.number = (q.number + step) % M],
                         unknown |-> FALSE, panic |-> FALSE]
    BY <1>9 DEF Advance
  <2>3. QED
    BY <2>1, <2>2 DEF Ok
<1>10. QED
  BY <1>6, <1>7, <1>8, <1>9 DEF Ok

(* An append made while bytes < SoftResponseLimit keeps the number of    *)
(* headers within ByteCap, the count of headers the byte budget admits.    *)
LEMMA ByteCapStep ==
    ASSUME NEW L \in Nat, L * EstHeaderSize < SoftResponseLimit
    PROVE  L + 1 <= ByteCap
<1> DEFINE E == EstHeaderSize
           X == SoftResponseLimit + EstHeaderSize - 1
<1>1. E \in Nat \ {0} /\ X \in Nat
  OBVIOUS
<1>2. (L + 1) * E <= X
  OBVIOUS
<1>3. QED
  BY <1>1, <1>2 DEF ByteCap

(* ByteCap headers overshoot the soft limit by less than one header. *)
LEMMA ByteCapBytes ==
    ASSUME NEW L \in Nat, L <= ByteCap
    PROVE  L * EstHeaderSize < SoftResponseLimit + EstHeaderSize
<1> DEFINE E == EstHeaderSize
           X == SoftResponseLimit + EstHeaderSize - 1
<1>1. E \in Nat \ {0} /\ X \in Nat /\ ByteCap \in Nat
  BY DEF ByteCap
<1>2. ByteCap * E <= X
  <2>1. X = (X \div E) * E + (X % E) /\ X % E \in 0..(E - 1)
    BY <1>1
  <2>2. X \div E \in Nat
    BY <1>1
  <2>. QED  BY <1>1, <2>1, <2>2 DEF ByteCap
<1>3. L * E <= ByteCap * E
  <2>1. ByteCap \in Nat
    BY <1>1 DEF ByteCap
  <2>2. (ByteCap - L) * E \in Nat
    BY <1>1, <2>1
  <2>3. ByteCap * E = L * E + (ByteCap - L) * E
    BY <1>1, <2>1
  <2>. QED  BY <2>2, <2>3
<1>. QED  BY <1>1, <1>2, <1>3 DEF E, X

-----------------------------------------------------------------------------
(* The response caps as an inductive invariant.  ResponseCapped alone is  *)
(* not inductive: the loop condition reads query.amount and bytes, so the *)
(* invariant also records that the loop never changes the amount and that *)
(* bytes counts EstHeaderSize per appended header.                         *)
IInv ==
    /\ TypeOK
    /\ query.amount = input.amount
    /\ bytes = Len(headers) * EstHeaderSize
    /\ Len(headers) <= MaxHeaderFetch
    /\ Len(headers) <= ByteCap
    /\ Len(headers) <= input.amount

(* The loop condition only lets an iteration run below every cap: fewer   *)
(* headers than amount as an int (which is never above amount as a       *)
(* uint64), than MaxHeaderFetch, and bytes below the soft limit.           *)
LEMMA LoopConditionBounds ==
    ASSUME IInv, LoopCondition
    PROVE  /\ Len(headers) + 1 <= input.amount
           /\ Len(headers) + 1 <= MaxHeaderFetch
           /\ Len(headers) + 1 <= ByteCap
<1>1. input.amount \in 0..(M - 1) /\ M \in Nat \ {0}
  <2>1. input \in Queries
    BY DEF IInv, TypeOK
  <2>2. input.amount \in 0..(M - 1)
    BY <2>1, Zenon DEF Queries
  <2>3. QED
    BY <2>2
<1>2. Len(headers) \in Nat
  BY DEF IInv, TypeOK
<1>3. AmountInt(input.amount) <= input.amount
  BY <1>1 DEF AmountInt
<1>4. Len(headers) * EstHeaderSize < SoftResponseLimit
  BY DEF IInv, LoopCondition
<1>5. Len(headers) + 1 <= ByteCap
  BY <1>2, <1>4, ByteCapStep
<1>6. Len(headers) < AmountInt(input.amount)
  BY DEF IInv, LoopCondition
<1>7. Len(headers) < MaxHeaderFetch
  BY DEF LoopCondition
<1>8. QED
  BY <1>1, <1>2, <1>3, <1>5, <1>6, <1>7 DEF AmountInt

(* IInv holds initially: the response is empty and query is input. *)
LEMMA InitIInv == Init => IInv
<1> SUFFICES ASSUME Init PROVE IInv
  OBVIOUS
<1>1. input.amount \in Nat
  <2>1. input.amount \in 0..(M - 1)
    BY Zenon DEF Init, Queries
  <2>2. QED
    BY <2>1
<1>2. 0 <= ByteCap
  <2>1. 0 * EstHeaderSize < SoftResponseLimit
    OBVIOUS
  <2>2. 0 + 1 <= ByteCap
    BY <2>1, ByteCapStep
  <2>3. QED
    BY <2>2 DEF ByteCap
<1>3. TypeOK
  <2>1. input \in Queries /\ query \in Queries
    BY DEF Init
  <2>2. headers \in Seq(0..Tip) /\ bytes \in Nat
    BY DEF Init
  <2>3. QED
    BY <2>1, <2>2, Zenon DEF Init, TypeOK, Queries
<1>4. QED
  BY <1>1, <1>2, <1>3 DEF Init, IInv

(* Every step of the handler keeps IInv: an iteration that appends does   *)
(* so below every cap and keeps the query a query with the same amount;   *)
(* an iteration that breaks, the send and the stutter leave the response  *)
(* and the counters alone.                                                 *)
LEMMA NextIInv == IInv /\ [Next]_vars => IInv'
<1> SUFFICES ASSUME IInv, [Next]_vars PROVE IInv'
  OBVIOUS
<1>1. CASE Iterate
  <2> DEFINE o == Origin
             q == Resolved(o)
             a == Advance(o, q)
  <2>1. query \in Queries /\ input \in Queries
    BY DEF IInv, TypeOK, Queries
  <2>2. o \in (0..Tip) \cup {Nil}
    <3>1. query.hash \in Hashes /\ query.number \in Numbers
      BY <2>1, Zenon DEF Queries
    <3>2. QED
      BY <3>1, OriginInChain DEF Origin
  <2>3. CASE o = Nil
    <3>1. /\ UNCHANGED << query, headers, bytes, unknown, input >>
          /\ phase' = "sent"
          /\ first' \in BOOLEAN
      BY <1>1, <2>3 DEF Iterate
    <3>2. QED
      BY <3>1 DEF IInv, TypeOK
  <2>4. CASE o # Nil
    <3>1. o \in 0..Tip /\ q \in Queries /\ q.amount = query.amount
      <4>1. o \in 0..Tip
        BY <2>2, <2>4 DEF Nil
      <4>2. o \in Numbers
        BY <4>1 DEF Numbers
      <4>3. QED
        BY <2>1, <4>1, <4>2 DEF Resolved, Queries
    <3>2. /\ a.q \in Queries /\ a.q.amount = query.amount
          /\ a.unknown \in BOOLEAN /\ a.panic \in BOOLEAN
      BY <3>1, AdvanceType
    <3>3. /\ headers' = Append(headers, o)
          /\ bytes' = bytes + EstHeaderSize
          /\ first' \in BOOLEAN
          /\ query' = a.q
          /\ unknown' = a.unknown
          /\ phase' \in {"loop", "panic"}
          /\ input' = input
      BY <1>1, <2>4 DEF Iterate
    <3>4. /\ Len(headers) + 1 <= input.amount
          /\ Len(headers) + 1 <= MaxHeaderFetch
          /\ Len(headers) + 1 <= ByteCap
      BY <1>1, LoopConditionBounds DEF Iterate
    <3>5. headers \in Seq(0..Tip) /\ bytes = Len(headers) * EstHeaderSize
      BY DEF IInv, TypeOK
    <3>6. /\ headers' \in Seq(0..Tip)
          /\ Len(headers') = Len(headers) + 1
          /\ bytes' = Len(headers') * EstHeaderSize
          /\ bytes' \in Nat
      BY <3>1, <3>3, <3>5
    <3>7. TypeOK'
      BY <2>1, <3>2, <3>3, <3>6, Zenon DEF TypeOK, Queries
    <3>8. QED
      BY <2>1, <3>2, <3>3, <3>4, <3>6, <3>7 DEF IInv, TypeOK
  <2>5. QED
    BY <2>4, <2>3
<1>2. CASE SendResponse
  BY <1>2 DEF SendResponse, IInv, TypeOK
<1>3. CASE Done \/ UNCHANGED vars
  BY <1>3 DEF Done, vars, IInv, TypeOK
<1>4. QED
  BY <1>1, <1>2, <1>3 DEF Next

(* The handler's state stays well typed and within the caps whatever a    *)
(* peer asks for.                                                           *)
THEOREM IInvInvariant == Spec => []IInv
BY InitIInv, NextIInv, PTL DEF Spec

(* Type correctness of HandleHeaderRequest's loop (TypeOK). *)
THEOREM TypeCorrect == Spec => []TypeOK
BY IInvInvariant, PTL DEF IInv

(* Whatever query a peer sends, HandleHeaderRequest's response holds at   *)
(* most amount headers and at most MaxHeaderFetch, and overshoots the     *)
(* soft byte limit by less than one header (ResponseCapped), for every    *)
(* chain length, word width and limit.                                      *)
THEOREM ResponseCappedTheorem == Spec => []ResponseCapped
<1>1. IInv => ResponseCapped
  <2> SUFFICES ASSUME IInv PROVE ResponseCapped
    OBVIOUS
  <2>1. Len(headers) \in Nat
    BY DEF IInv, TypeOK
  <2>2. Len(headers) * EstHeaderSize < SoftResponseLimit + EstHeaderSize
    BY <2>1, ByteCapBytes DEF IInv
  <2>. QED  BY <2>2 DEF IInv, ResponseCapped
<1>2. QED
  BY <1>1, IInvInvariant, PTL

=============================================================================
