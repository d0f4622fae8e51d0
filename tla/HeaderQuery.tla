---------------------------- MODULE HeaderQuery ----------------------------
(***************************************************************************)
(* HandleHeaderRequest (src/og/message_handler.go): the bounded range scan *)
(* that answers a peer's MessageHeaderRequest from the local sequencer     *)
(* chain.  One Iterate step is one pass of the for loop, the resolution   *)
(* of the current header, its append and the advance; SendResponse is the *)
(* reply after the loop.                                                   *)
(*                                                                         *)
(* The local chain is the canonical sequencer chain 0..Tip; the sequencer *)
(* at number n has hash n + 1, and 0 is the empty hash.  A header is       *)
(* represented by its number.  uint64 arithmetic is taken modulo 2^W.      *)
(***************************************************************************)
EXTENDS HeaderChain

VARIABLES
    input,    \* the MessageHeaderRequest as received
    query,    \* the local copy of query, advanced by the loop
    first,    \* first
    headers,  \* headers: the numbers of the sequencers appended so far
    bytes,    \* bytes
    unknown,  \* unknown
    phase     \* "loop", "sent" (SendToPeer done) or "panic" (nil deref)

vars == << input, query, first, headers, bytes, unknown, phase >>

hashMode == input.hash # EmptyHash

-----------------------------------------------------------------------------
(* Mutant: the byte budget is not checked. *)
LoopConditionNoByteLimit ==
    /\ ~unknown
    /\ Len(headers) < AmountInt(query.amount)
    /\ Len(headers) < MaxHeaderFetch

(* The for-loop condition of HandleHeaderRequest. *)
LoopCondition ==
    /\ ~unknown
    /\ Len(headers) < AmountInt(query.amount)
    /\ bytes < SoftResponseLimit
    /\ Len(headers) < MaxHeaderFetch

(* Mutant: number mode takes the queried number without a lookup. *)
OriginUnchecked ==
    IF hashMode
      THEN IF first THEN GetSequencerByHash(query.hash)
                    ELSE GetSequencer(query.hash, query.number)
      ELSE query.number

(* The header the iteration resolves, and the query after the hash-mode    *)
(* first lookup has back-filled its number.                                 *)
Origin ==
    IF hashMode
      THEN IF first THEN GetSequencerByHash(query.hash)
                    ELSE GetSequencer(query.hash, query.number)
      ELSE GetSequencerById(query.number)

Resolved(o) ==
    IF hashMode /\ first /\ o # Nil THEN [query EXCEPT !.number = o] ELSE query

(* Mutant: every case advances by skip rather than skip + 1. *)
AdvanceBySkip(o, q) ==
    LET step == q.skip % M
    IN
    CASE hashMode /\ q.reverse ->
           IF step = 0 THEN [q |-> q, unknown |-> TRUE, panic |-> FALSE]
           ELSE LET seq == GetSequencerById((q.number - step) % M)
                IN IF seq = Nil
                     THEN [q |-> q, unknown |-> FALSE, panic |-> TRUE]
                     ELSE [q |-> [q EXCEPT !.hash = HashOf(seq),
                                           !.number = seq],
                           unknown |-> HashOf(seq) = EmptyHash,
                           panic |-> FALSE]
      [] hashMode /\ ~q.reverse ->
           LET next == (o + step) % M
               old == GetSequencerById((next - step) % M)
           IN IF next <= o \/ GetSequencerById(next) = Nil
                THEN [q |-> q, unknown |-> TRUE, panic |-> FALSE]
              ELSE IF old = Nil
                THEN [q |-> q, unknown |-> FALSE, panic |-> TRUE]
              ELSE IF HashOf(old) = q.hash
                THEN [q |-> [q EXCEPT !.hash = HashOf(next), !.number = next],
                      unknown |-> FALSE, panic |-> FALSE]
              ELSE [q |-> q, unknown |-> TRUE, panic |-> FALSE]
      [] ~hashMode /\ q.reverse ->
           IF q.number >= step
             THEN [q |-> [q EXCEPT !.number = q.number - step],
                   unknown |-> FALSE, panic |-> FALSE]
             ELSE [q |-> q, unknown |-> TRUE, panic |-> FALSE]
      [] OTHER ->
           [q |-> [q EXCEPT !.number = (q.number + step) % M],
            unknown |-> FALSE, panic |-> FALSE]

(* The advance after appending origin o to the response, from the query q *)
(* as resolved: the new query, unknown, and whether a nil sequencer was    *)
(* dereferenced.                                                            *)
Advance(o, q) ==
    LET step == (q.skip + 1) % M
    IN
    CASE hashMode /\ q.reverse ->
           IF step = 0 THEN [q |-> q, unknown |-> TRUE, panic |-> FALSE]
           ELSE LET seq == GetSequencerById((q.number - step) % M)
                IN IF seq = Nil
                     THEN [q |-> q, unknown |-> FALSE, panic |-> TRUE]
                     ELSE [q |-> [q EXCEPT !.hash = HashOf(seq),
                                           !.number = seq],
                           unknown |-> HashOf(seq) = EmptyHash,
                           panic |-> FALSE]
      [] hashMode /\ ~q.reverse ->
           LET next == (o + step) % M
               old == GetSequencerById((next - step) % M)
           IN IF next <= o \/ GetSequencerById(next) = Nil
                THEN [q |-> q, unknown |-> TRUE, panic |-> FALSE]
              ELSE IF old = Nil
                THEN [q |-> q, unknown |-> FALSE, panic |-> TRUE]
              ELSE IF HashOf(old) = q.hash
                THEN [q |-> [q EXCEPT !.hash = HashOf(next), !.number = next],
                      unknown |-> FALSE, panic |-> FALSE]
              ELSE [q |-> q, unknown |-> TRUE, panic |-> FALSE]
      [] ~hashMode /\ q.reverse ->
           IF q.number >= step
             THEN [q |-> [q EXCEPT !.number = q.number - step],
                   unknown |-> FALSE, panic |-> FALSE]
             ELSE [q |-> q, unknown |-> TRUE, panic |-> FALSE]
      [] OTHER ->
           [q |-> [q EXCEPT !.number = (q.number + step) % M],
            unknown |-> FALSE, panic |-> FALSE]

-----------------------------------------------------------------------------
Init ==
    /\ input \in Queries
    /\ query = input
    /\ first = TRUE
    /\ headers = << >>
    /\ bytes = 0
    /\ unknown = FALSE
    /\ phase = "loop"

(* One pass of the for loop of HandleHeaderRequest. *)
Iterate ==
    /\ phase = "loop"
    /\ LoopCondition
    /\ LET o == Origin
           q == Resolved(o)
           a == Advance(o, q)
       IN IF o = Nil
            THEN \* break: the loop ends on an unresolved header
                 /\ phase' = "sent"
                 /\ first' = (first /\ ~hashMode)
                 /\ UNCHANGED << query, headers, bytes, unknown >>
            ELSE /\ headers' = Append(headers, o)
                 /\ bytes' = bytes + EstHeaderSize
                 /\ first' = (first /\ ~hashMode)
                 /\ query' = a.q
                 /\ unknown' = a.unknown
                 /\ phase' = IF a.panic THEN "panic" ELSE "loop"
    /\ UNCHANGED input

(* The loop condition fails: marshal the response and SendToPeer. *)
SendResponse ==
    /\ phase = "loop"
    /\ ~LoopCondition
    /\ phase' = "sent"
    /\ UNCHANGED << input, query, first, headers, bytes, unknown >>

(* The handler has returned (or the goroutine has panicked). *)
Done ==
    /\ phase # "loop"
    /\ UNCHANGED vars

Next == Iterate \/ SendResponse \/ Done

Spec == Init /\ [][Next]_vars

-----------------------------------------------------------------------------
TypeOK ==
    /\ input \in Queries
    /\ query \in [hash : Hashes, number : Numbers, amount : Amounts,
                  skip : Skips, reverse : BOOLEAN]
    /\ first \in BOOLEAN
    /\ headers \in Seq(0..Tip)
    /\ bytes \in Nat
    /\ unknown \in BOOLEAN
    /\ phase \in {"loop", "sent", "panic"}

(* The loop implements the spec's one-step answer: until SendToPeer the  *)
(* peer has no response, and the response it gets is the walk the spec    *)
(* describes (the headers from the origin, skip + 1 apart, in the          *)
(* direction of the reverse flag, up to the end of the chain or the first *)
(* cap).  A panicking handler never answers, which the abstract spec      *)
(* allows as stuttering.                                                   *)
Abstract == INSTANCE HeaderQueryAbstract
    WITH request <- input,
         response <- IF phase = "sent" THEN headers ELSE << -1 >>

ImplementsAbstract == Abstract!Spec

(* Whatever a peer sends, the response holds at most amount (as an int)   *)
(* and MaxHeaderFetch headers, and its estimated size overshoots the soft *)
(* byte limit by less than one header: the loop checks bytes against the  *)
(* limit before each append and never after it, so the last header may    *)
(* cross the limit (the overshoot handler_bodies_budget shows for bodies). *)
ResponseCapped ==
    /\ Len(headers) <= MaxHeaderFetch
    /\ Len(headers) * EstHeaderSize < SoftResponseLimit + EstHeaderSize
    /\ AmountInt(input.amount) >= 0 => Len(headers) <= input.amount

(* No query from a peer makes the handler dereference a nil sequencer.     *)
NoNilDereference ==
    phase # "panic"

(* The response is ordered by number as the reverse flag says: strictly    *)
(* increasing for a forward query, strictly decreasing for a reverse one.  *)
WalkOrderFollowsReverseFlag ==
    \A i \in 1..(Len(headers) - 1) :
        IF input.reverse THEN headers[i + 1] < headers[i]
                         ELSE headers[i] < headers[i + 1]
=============================================================================
