----------------------- MODULE HeaderQueryRefinement -----------------------
(***************************************************************************)
(* Proof that HandleHeaderRequest's loop (HeaderQuery) implements the      *)
(* spec's one-step answer (HeaderQueryAbstract) under the refinement       *)
(* mapping Abstract of HeaderQuery, for every chain and every cap, for the *)
(* requests whose uint64 arithmetic does not wrap.                         *)
(***************************************************************************)
EXTENDS HeaderQueryProofs

USE HeaderQueryAssumption


-----------------------------------------------------------------------------
(* The refinement of HeaderQueryAbstract holds for the requests whose      *)
(* arithmetic does not wrap: the walk's next number stays below 2^W, and   *)
(* int(amount) is amount.  TLC shows it fails otherwise (header_order).   *)
NoWrap ==
    /\ \A sk \in Skips : Tip + sk + 1 < M
    /\ \A a \in Amounts : a < M \div 2

(* The headers appended so far are the first ones of the spec's walk. *)
WalkPrefix ==
    \A i \in 1..Len(headers) : headers[i] = RefAt(input, i - 1)

(* While the loop runs and has not met an unknown header, query names the *)
(* next header of the walk: in hash mode, before the first lookup it is    *)
(* the request itself and afterwards the next header (number and hash) of *)
(* the chain; in number mode its number is the next number of the walk,   *)
(* which is in the chain exactly while the walk has headers left.          *)
NextOk ==
    /\ query.skip = input.skip
    /\ query.reverse = input.reverse
    /\ IF hashMode
         THEN IF first
                THEN query = input /\ Len(headers) = 0
                ELSE /\ Len(headers) < RefAvail(input)
                     /\ query.number = RefAt(input, Len(headers))
                     /\ query.hash = HashOf(query.number)
         ELSE /\ query.number = IF RefStart(input) = Nil THEN input.number
                                ELSE RefAt(input, Len(headers))
              /\ (query.number <= Tip) = (Len(headers) < RefAvail(input))

(* The inductive invariant of the refinement. *)
RInv ==
    /\ IInv
    /\ WalkPrefix
    /\ Len(headers) <= RefCount(input)
    /\ phase = "sent" => Len(headers) = RefCount(input)
    /\ phase = "loop" /\ unknown => Len(headers) = RefAvail(input)
    /\ phase = "loop" /\ ~unknown => NextOk

-----------------------------------------------------------------------------
(* Counting the multiples of a step: k steps of d fit in x exactly when k  *)
(* is below x \div d + 1.                                                  *)
LEMMA StepsFit ==
    ASSUME NEW x \in Nat, NEW d \in Nat \ {0}, NEW k \in Nat
    PROVE  (k * d <= x) <=> (k < x \div d + 1)
<1>1. k * d <= x => k <= x \div d
  OBVIOUS
<1>2. (x \div d) * d <= x
  OBVIOUS
<1>3. k <= x \div d => k * d <= (x \div d) * d
  OBVIOUS
<1>4. QED
  BY <1>1, <1>2, <1>3

(* The k-th header after the origin is in the chain exactly while the walk *)
(* has more than k headers, and the next one is one step further.          *)
LEMMA WalkAt ==
    ASSUME NEW q \in Queries, RefStart(q) \in 0..Tip, NEW k \in Nat
    PROVE  /\ RefAt(q, k) \in Int
           /\ (k < RefAvail(q)) <=> (RefAt(q, k) \in 0..Tip)
           /\ RefAt(q, k + 1) = IF q.reverse THEN RefAt(q, k) - RefStep(q)
                                             ELSE RefAt(q, k) + RefStep(q)
<1> DEFINE s == RefStart(q)
           d == RefStep(q)
<1>1. d \in Nat \ {0} /\ s \in 0..Tip
  <2>0. q.skip \in 0..(M - 1) /\ M \in Nat
    BY Zenon DEF Queries
  <2>1. q.skip \in Nat
    BY <2>0
  <2>2. QED
    BY <2>1 DEF RefStep
<1>2. RefAt(q, k) \in Int
  BY <1>1 DEF RefAt
<1>3. CASE q.reverse
  <2>1. RefAt(q, k) = s - k * d /\ RefAt(q, k + 1) = s - (k + 1) * d
    BY <1>3 DEF RefAt
  <2>2. RefAvail(q) = s \div d + 1
    BY <1>1, <1>3 DEF RefAvail, Nil
  <2>3. (k * d <= s) <=> (k < s \div d + 1)
    BY <1>1, StepsFit
  <2>4. QED
    BY <1>1, <1>2, <1>3, <2>1, <2>2, <2>3
<1>4. CASE ~q.reverse
  <2>1. RefAt(q, k) = s + k * d /\ RefAt(q, k + 1) = s + (k + 1) * d
    BY <1>4 DEF RefAt
  <2>2. RefAvail(q) = (Tip - s) \div d + 1
    BY <1>1, <1>4 DEF RefAvail, Nil
  <2>3. (k * d <= Tip - s) <=> (k < (Tip - s) \div d + 1)
    BY <1>1, StepsFit
  <2>4. QED
    BY <1>1, <1>2, <1>4, <2>1, <2>2, <2>3
<1>5. QED
  BY <1>3, <1>4


(* The byte budget is spent exactly when ByteCap headers have been taken. *)
LEMMA ByteCapExact ==
    ASSUME NEW L \in Nat
    PROVE  /\ ByteCap \in Nat
           /\ (L * EstHeaderSize < SoftResponseLimit) <=> (L < ByteCap)
<1> DEFINE E == EstHeaderSize
           X == SoftResponseLimit + EstHeaderSize - 1
<1>1. E \in Nat \ {0} /\ X \in Nat
  OBVIOUS
<1>2. ((L + 1) * E <= X) <=> (L + 1 < X \div E + 1)
  BY <1>1, StepsFit
<1>3. X \div E \in Nat
  BY <1>1
<1>4. QED
  BY <1>1, <1>2, <1>3 DEF ByteCap

(* The response length the spec prescribes is the least of the four caps. *)
LEMMA CountIsLeast ==
    ASSUME NEW q \in Queries
    PROVE  /\ RefAvail(q) \in Nat
           /\ RefCount(q) \in Nat
           /\ RefCount(q) <= RefAvail(q)
           /\ RefCount(q) <= q.amount
           /\ RefCount(q) <= MaxHeaderFetch
           /\ RefCount(q) <= ByteCap
           /\ \A L \in Nat :
                 /\ L <= RefCount(q)
                 /\ \/ L >= RefAvail(q) \/ L >= q.amount
                    \/ L >= MaxHeaderFetch \/ L >= ByteCap
                 => L = RefCount(q)
<1>1. q.amount \in 0..(M - 1) /\ q.skip \in 0..(M - 1)
  BY Zenon DEF Queries
<1>2. ByteCap \in Nat
  BY ByteCapExact
<1>3. RefAvail(q) \in Nat
  <2>1. RefStep(q) \in Nat \ {0}
    BY <1>1 DEF RefStep
  <2>2. CASE RefStart(q) = Nil
    BY <2>2 DEF RefAvail
  <2>3. CASE RefStart(q) # Nil
    <3>1. RefStart(q) \in 0..Tip
      <4>1. q.hash \in Hashes /\ q.number \in Numbers
        BY Zenon DEF Queries
      <4>2. QED
        BY <2>3, <4>1, OriginInChain DEF RefStart, Numbers, Nil
    <3>2. QED
      BY <2>1, <2>3, <3>1 DEF RefAvail
  <2>4. QED
    BY <2>2, <2>3
<1>4. QED
  BY <1>1, <1>2, <1>3 DEF RefCount, MinOf


(* A request either names no header of the chain, and its walk is empty,  *)
(* or names one, and its walk has at least that header.                     *)
LEMMA StartCases ==
    ASSUME NEW q \in Queries
    PROVE  \/ RefStart(q) = Nil /\ RefAvail(q) = 0
           \/ RefStart(q) \in 0..Tip /\ RefAvail(q) \in Nat \ {0}
<1>1. q.hash \in Hashes /\ q.number \in Numbers /\ q.skip \in 0..(M - 1)
  BY Zenon DEF Queries
<1>2. RefStep(q) \in Nat \ {0}
  BY <1>1 DEF RefStep
<1>3. RefStart(q) \in (0..Tip) \cup {Nil}
  BY <1>1, OriginInChain DEF RefStart, Numbers, Nil
<1>4. CASE RefStart(q) = Nil
  BY <1>4 DEF RefAvail
<1>5. CASE RefStart(q) \in 0..Tip
  BY <1>2, <1>5 DEF RefAvail, Nil
<1>6. QED
  BY <1>3, <1>4, <1>5

(* uint64 subtraction and addition of numbers within one word of 0. *)
LEMMA ModSmall ==
    ASSUME NEW y \in Int, -M < y, y < M
    PROVE  y % M = IF y < 0 THEN y + M ELSE y
<1>1. M \in Nat \ {0}
  OBVIOUS
<1>2. QED
  BY <1>1


(* Rewriting the origin of a query leaves its other fields alone. *)
LEMMA ExceptFields ==
    ASSUME NEW q \in Queries, NEW h, NEW n
    PROVE  /\ LET r == [q EXCEPT !.hash = h, !.number = n]
              IN  r.hash = h /\ r.number = n
           /\ LET r == [q EXCEPT !.number = n]
              IN  /\ r.number = n /\ r.hash = q.hash
                  /\ r.skip = q.skip /\ r.reverse = q.reverse
<1>1. DOMAIN q = {"hash", "number", "amount", "skip", "reverse"}
  BY Zenon DEF Queries
<1>2. QED
  BY <1>1

(* The advance after appending the L-th header of the walk: unless the     *)
(* handler panics, either the walk is exhausted (unknown) or the query     *)
(* names the next header of the walk.                                       *)
LEMMA AdvanceNext ==
    ASSUME NoWrap, input \in Queries,
           NEW L \in Nat, L < RefAvail(input), RefStart(input) \in 0..Tip,
           NEW q \in Queries,
           q.number = RefAt(input, L),
           q.skip = input.skip, q.reverse = input.reverse,
           hashMode => q.hash = HashOf(q.number)
    PROVE  LET a == Advance(RefAt(input, L), q)
           IN  /\ a.q.skip = input.skip
               /\ a.q.reverse = input.reverse
               /\ ~a.panic /\ a.unknown => L + 1 = RefAvail(input)
               /\ ~a.panic /\ ~a.unknown =>
                     /\ a.q.number = RefAt(input, L + 1)
                     /\ IF hashMode
                          THEN /\ L + 1 < RefAvail(input)
                               /\ a.q.hash = HashOf(a.q.number)
                          ELSE (a.q.number <= Tip) = (L + 1 < RefAvail(input))
<1> DEFINE o == RefAt(input, L)
           d == RefStep(input)
           a == Advance(o, q)
           nx == RefAt(input, L + 1)
<1> USE DEF o, d, a, nx
<1>1. /\ d \in Nat \ {0}
      /\ Tip + d < M
      /\ M \in Nat
      /\ RefAvail(input) \in Nat
  <2>0. RefAvail(input) \in Nat
    BY CountIsLeast
  <2>1. input.skip \in Skips /\ input.skip \in 0..(M - 1)
    BY Zenon DEF Queries
  <2>2. QED
    BY <2>0, <2>1 DEF NoWrap, RefStep
<1>2. /\ o \in 0..Tip
      /\ nx = IF input.reverse THEN o - d ELSE o + d
      /\ (L + 1 < RefAvail(input)) <=> (nx \in 0..Tip)
  BY WalkAt
<1>3. (q.skip + 1) % M = d
  BY <1>1, ModSmall DEF RefStep
<1>4. a.q.skip = input.skip /\ a.q.reverse = input.reverse
  <2>1. o \in 0..Tip /\ q \in Queries
    BY <1>2
  <2>2. QED
    BY <2>1, AdvanceType
<1> USE <1>1, <1>2, <1>3, <1>4
<1>5. CASE hashMode /\ input.reverse
  <2>0. Advance(o, q) =
          IF d = 0 THEN [q |-> q, unknown |-> TRUE, panic |-> FALSE]
          ELSE LET seq == GetSequencerById((q.number - d) % M)
               IN IF seq = Nil
                    THEN [q |-> q, unknown |-> FALSE, panic |-> TRUE]
                    ELSE [q |-> [q EXCEPT !.hash = HashOf(seq),
                                          !.number = seq],
                          unknown |-> HashOf(seq) = EmptyHash,
                          panic |-> FALSE]
    BY <1>3, <1>5 DEF Advance
  <2>1. CASE o >= d
    <3>1. (o - d) % M = nx /\ nx \in 0..Tip
      BY <1>1, <1>2, <1>5, <2>1, ModSmall
    <3>2. GetSequencerById(nx) = nx /\ HashOf(nx) # EmptyHash
      BY <3>1 DEF GetSequencerById, HashOf, EmptyHash
    <3>3. GetSequencerById((q.number - d) % M) = nx /\ d # 0 /\ nx # Nil
      BY <3>1, <3>2 DEF Nil
    <3>4. a = [q |-> [q EXCEPT !.hash = HashOf(nx), !.number = nx],
               unknown |-> HashOf(nx) = EmptyHash, panic |-> FALSE]
      BY <2>0, <3>3
    <3>5. /\ a.panic = FALSE /\ a.unknown = FALSE
          /\ a.q.number = nx /\ a.q.hash = HashOf(nx)
      <4>1. (HashOf(nx) = EmptyHash) = FALSE
        BY <3>2
      <4>2. a = [q |-> [q EXCEPT !.hash = HashOf(nx), !.number = nx],
                 unknown |-> FALSE, panic |-> FALSE]
        BY <3>4, <4>1
      <4>3. /\ a.panic = FALSE /\ a.unknown = FALSE
            /\ a.q = [q EXCEPT !.hash = HashOf(nx), !.number = nx]
        BY <4>2
      <4>4. /\ [q EXCEPT !.hash = HashOf(nx), !.number = nx].number = nx
            /\ [q EXCEPT !.hash = HashOf(nx), !.number = nx].hash = HashOf(nx)
        BY ExceptFields
      <4>5. QED
        BY <4>3, <4>4
    <3>6. QED
      BY <1>5, <3>1, <3>5
  <2>2. CASE o < d
    <3>1. (o - d) % M = o - d + M /\ o - d + M > Tip
      BY <1>1, <1>2, <2>2, ModSmall
    <3>2. GetSequencerById(o - d + M) = Nil
      BY <3>1 DEF GetSequencerById
    <3>3. GetSequencerById((q.number - d) % M) = Nil /\ d # 0
      BY <3>1, <3>2
    <3>4. a.panic = TRUE
      BY <2>0, <3>3
    <3>5. QED
      BY <3>4
  <2>3. QED
    BY <1>1, <1>2, <2>1, <2>2
<1>6. CASE hashMode /\ ~input.reverse
  <2>0. Advance(o, q) =
          LET next == (o + d) % M
              old == GetSequencerById((next - d) % M)
          IN IF next <= o \/ GetSequencerById(next) = Nil
               THEN [q |-> q, unknown |-> TRUE, panic |-> FALSE]
             ELSE IF old = Nil
               THEN [q |-> q, unknown |-> FALSE, panic |-> TRUE]
             ELSE IF HashOf(old) = q.hash
               THEN [q |-> [q EXCEPT !.hash = HashOf(next), !.number = next],
                     unknown |-> FALSE, panic |-> FALSE]
             ELSE [q |-> q, unknown |-> TRUE, panic |-> FALSE]
    BY <1>3, <1>6 DEF Advance
  <2>1. (o + d) % M = nx /\ nx > o /\ (nx - d) % M = o
    <3>1. nx = o + d /\ o + d \in 0..(M - 1) /\ nx > o
      BY <1>6
    <3>2. (o + d) % M = o + d
      BY <3>1, ModSmall
    <3>3. (nx - d) % M = o
      BY <3>1, ModSmall
    <3>4. QED
      BY <3>1, <3>2, <3>3
  <2>2. CASE nx > Tip
    <3>1. GetSequencerById(nx) = Nil
      BY <2>2 DEF GetSequencerById
    <3>2. a.panic = FALSE /\ a.unknown = TRUE
      BY <2>0, <2>1, <3>1
    <3>3. QED
      BY <2>2, <3>2
  <2>3. CASE nx <= Tip
    <3>1. /\ GetSequencerById(nx) = nx
          /\ GetSequencerById(o) = o
          /\ HashOf(o) = q.hash
          /\ nx # Nil /\ o # Nil
      BY <1>2, <1>6, <2>1, <2>3 DEF GetSequencerById, Nil
    <3>2. /\ a.panic = FALSE /\ a.unknown = FALSE
          /\ a.q.number = nx /\ a.q.hash = HashOf(nx)
      BY <2>0, <2>1, <3>1
    <3>3. QED
      BY <1>6, <2>1, <2>3, <3>2
  <2>4. QED
    BY <2>2, <2>3, <1>2
<1>7. CASE ~hashMode /\ input.reverse
  <2>0. Advance(o, q) =
          IF q.number >= d
            THEN [q |-> [q EXCEPT !.number = q.number - d],
                  unknown |-> FALSE, panic |-> FALSE]
            ELSE [q |-> q, unknown |-> TRUE, panic |-> FALSE]
    BY <1>3, <1>7 DEF Advance
  <2>1. CASE o >= d
    <3>0. q.number >= d /\ q.number - d = nx
      BY <1>7, <2>1
    <3>1. a.panic = FALSE /\ a.unknown = FALSE /\ a.q.number = nx
      BY <2>0, <3>0 DEF Queries
    <3>2. QED
      BY <1>7, <2>1, <3>1
  <2>2. CASE o < d
    <3>0. ~(q.number >= d)
      BY <2>2
    <3>1. a.panic = FALSE /\ a.unknown = TRUE
      BY <2>0, <3>0
    <3>2. QED
      BY <1>7, <2>2, <3>1
  <2>3. QED
    BY <1>1, <1>2, <2>1, <2>2
<1>8. CASE ~hashMode /\ ~input.reverse
  <2>0. Advance(o, q) = [q |-> [q EXCEPT !.number = (q.number + d) % M],
                         unknown |-> FALSE, panic |-> FALSE]
    BY <1>3, <1>8 DEF Advance
  <2>1. (o + d) % M = nx
    BY <1>1, <1>2, <1>8, ModSmall
  <2>2. a.panic = FALSE /\ a.unknown = FALSE /\ a.q.number = nx
    BY <2>0, <2>1 DEF Queries
  <2>3. QED
    BY <1>8, <2>2
<1>9. QED
  BY <1>4, <1>5, <1>6, <1>7, <1>8

(* While the loop runs without an unknown header, the header it resolves   *)
(* is the next one of the walk, or nil once the walk is exhausted; the     *)
(* resolved query then names that header.                                  *)
LEMMA OriginIsNext ==
    ASSUME RInv, phase = "loop", ~unknown
    PROVE  LET L == Len(headers)
           IN  /\ Origin = IF L < RefAvail(input) THEN RefAt(input, L) ELSE Nil
               /\ L < RefAvail(input) =>
                    /\ RefStart(input) \in 0..Tip
                    /\ Resolved(Origin) \in Queries
                    /\ Resolved(Origin).number = RefAt(input, L)
                    /\ Resolved(Origin).skip = input.skip
                    /\ Resolved(Origin).reverse = input.reverse
                    /\ hashMode =>
                         Resolved(Origin).hash = HashOf(Resolved(Origin).number)
<1> DEFINE L == Len(headers)
<1> USE DEF L
<1>1. NextOk
  BY DEF RInv
<1>2. /\ input \in Queries /\ query \in Queries /\ L \in Nat
      /\ first \in BOOLEAN
  <2>1. TypeOK
    BY DEF RInv, IInv
  <2>2. query \in Queries
    BY Zenon, <2>1 DEF TypeOK, Queries
  <2>3. QED
    BY <2>1, <2>2 DEF TypeOK
<1>3. \/ RefStart(input) = Nil /\ RefAvail(input) = 0
      \/ RefStart(input) \in 0..Tip /\ RefAvail(input) \in Nat \ {0}
  BY <1>2, StartCases
<1>4. RefStep(input) \in Nat
  <2>1. input.skip \in 0..(M - 1)
    BY Zenon, <1>2 DEF Queries
  <2>2. QED
    BY <2>1 DEF RefStep
<1>5. CASE hashMode /\ first
  <2>1. query = input /\ L = 0
    BY <1>1, <1>5 DEF NextOk
  <2>2. Origin = RefStart(input)
    BY <1>5, <2>1 DEF Origin, RefStart, hashMode
  <2>3. CASE RefStart(input) = Nil
    BY <1>3, <2>1, <2>2, <2>3 DEF Nil
  <2>4. CASE RefStart(input) \in 0..Tip
    <3>1. RefAt(input, 0) = RefStart(input) /\ 0 < RefAvail(input)
      BY <1>3, <1>4, <2>4 DEF RefAt, Nil
    <3>2. /\ Resolved(Origin) = [input EXCEPT !.number = RefStart(input)]
          /\ RefStart(input) = input.hash - 1
      BY <1>5, <2>1, <2>2, <2>4 DEF Resolved, RefStart, hashMode,
         GetSequencerByHash, Nil
    <3>3. RefStart(input) \in Numbers
      BY <2>4 DEF Numbers
    <3>4. [input EXCEPT !.number = RefStart(input)] \in Queries
      BY Zenon, <1>2, <3>3 DEF Queries
    <3>5. /\ Resolved(Origin).number = RefStart(input)
          /\ Resolved(Origin).hash = input.hash
          /\ Resolved(Origin).skip = input.skip
          /\ Resolved(Origin).reverse = input.reverse
      BY <1>2, <3>2, ExceptFields
    <3>6. Resolved(Origin) \in Queries
      BY <3>2, <3>4
    <3>7. hashMode => Resolved(Origin).hash = HashOf(Resolved(Origin).number)
      <4>1. input.hash \in Hashes
        BY Zenon, <1>2 DEF Queries
      <4>2. QED
        BY <3>2, <3>5, <4>1 DEF HashOf, Hashes
    <3>8. QED
      BY <2>1, <2>2, <2>4, <3>1, <3>5, <3>6, <3>7
  <2>5. QED
    BY <1>3, <2>3, <2>4
<1>6. CASE hashMode /\ ~first
  <2>1. /\ L < RefAvail(input)
        /\ query.number = RefAt(input, L)
        /\ query.hash = HashOf(query.number)
    BY <1>1, <1>6 DEF NextOk
  <2>2. RefStart(input) \in 0..Tip /\ RefAt(input, L) \in 0..Tip
    BY <1>2, <1>3, <2>1, WalkAt
  <2>3. Origin = RefAt(input, L) /\ Resolved(Origin) = query
    BY <1>6, <2>1, <2>2 DEF Origin, Resolved, GetSequencer
  <2>4. QED
    BY <1>1, <1>2, <1>6, <2>1, <2>2, <2>3 DEF NextOk
<1>7. CASE ~hashMode
  <2>1. Origin = GetSequencerById(query.number) /\ Resolved(Origin) = query
    BY <1>7 DEF Origin, Resolved
  <2>2. CASE RefStart(input) = Nil
    <3>0. input.number \in Numbers
      BY Zenon, <1>2 DEF Queries
    <3>1. query.number = input.number /\ input.number > Tip
      BY <1>1, <1>7, <2>2, <3>0 DEF NextOk, RefStart, hashMode, Nil, Numbers
    <3>2. Origin = Nil
      BY <2>1, <3>0, <3>1 DEF GetSequencerById, Numbers
    <3>3. ~(L < RefAvail(input))
      BY <1>2, <1>3, <2>2 DEF Nil
    <3>4. QED
      BY <3>2, <3>3
  <2>3. CASE RefStart(input) \in 0..Tip
    <3>1. /\ query.number = RefAt(input, L)
          /\ (query.number <= Tip) = (L < RefAvail(input))
      BY <1>1, <1>7, <2>3 DEF NextOk, Nil
    <3>2. query.number \in Numbers
      BY Zenon, <1>2 DEF Queries
    <3>3. QED
      BY <1>1, <1>2, <1>7, <2>1, <2>3, <3>1, <3>2 DEF GetSequencerById, NextOk,
         Numbers, Nil
  <2>4. QED
    BY <1>3, <2>2, <2>3
<1>8. QED
  BY <1>5, <1>6, <1>7

-----------------------------------------------------------------------------
(* The handler starts in RInv: nothing is appended, and query is the       *)
(* request, whose number in number mode is the origin of the walk.         *)
LEMMA InitRInv == Init => RInv
<1> SUFFICES ASSUME Init PROVE RInv
  OBVIOUS
<1>1. IInv
  BY InitIInv
<1>2. input \in Queries /\ Len(headers) = 0
  BY DEF Init
<1>3. RefCount(input) \in Nat
  BY <1>2, CountIsLeast
<1>4. input.number \in Numbers /\ input.skip \in 0..(M - 1)
  BY Zenon, <1>2 DEF Queries
<1>5. RefAt(input, 0) = RefStart(input)
  BY <1>2, <1>4, StartCases DEF RefAt, RefStep, Nil
<1>6. ~hashMode =>
        /\ query.number = IF RefStart(input) = Nil THEN input.number
                          ELSE RefAt(input, 0)
        /\ (query.number <= Tip) = (0 < RefAvail(input))
  <2>0. SUFFICES ASSUME ~hashMode
               PROVE  /\ query.number = IF RefStart(input) = Nil
                                        THEN input.number
                                        ELSE RefAt(input, 0)
                      /\ (query.number <= Tip) = (0 < RefAvail(input))
    OBVIOUS
  <2>1. CASE RefStart(input) = Nil
    <3>1. input.number > Tip /\ RefAvail(input) = 0
      BY <1>2, <1>4, <2>0, <2>1, StartCases DEF RefStart, hashMode, Nil,
         Numbers
    <3>2. QED
      BY <1>4, <2>1, <3>1 DEF Init, Numbers
  <2>2. CASE RefStart(input) \in 0..Tip
    <3>1. RefStart(input) = input.number /\ 0 < RefAvail(input)
      BY <1>2, <2>0, <2>2, StartCases DEF RefStart, hashMode, Nil
    <3>2. QED
      BY <1>5, <2>2, <3>1 DEF Init, Nil
  <2>3. QED
    BY <1>2, <2>1, <2>2, StartCases
<1>7. NextOk
  BY <1>2, <1>6 DEF Init, NextOk
<1>8. QED
  BY <1>1, <1>2, <1>3, <1>7 DEF Init, RInv, WalkPrefix

(* A length within all four caps is within the spec's response length. *)
LEMMA CountIsGreatest ==
    ASSUME NEW q \in Queries, NEW L \in Nat,
           L <= RefAvail(q), L <= q.amount, L <= MaxHeaderFetch, L <= ByteCap
    PROVE  L <= RefCount(q)
<1>1. RefAvail(q) \in Nat /\ ByteCap \in Nat /\ q.amount \in 0..(M - 1)
  <2>1. q.amount \in 0..(M - 1)
    BY Zenon DEF Queries
  <2>2. QED
    BY <2>1, CountIsLeast, ByteCapExact
<1>2. QED
  BY <1>1 DEF RefCount, MinOf

(* Every step of the handler keeps RInv, for the requests that do not wrap. *)
LEMMA NextRInv ==
    ASSUME NoWrap, RInv, [Next]_vars
    PROVE  RInv'
<1> DEFINE L == Len(headers)
<1> USE DEF L
<1>1. IInv'
  BY NextIInv DEF RInv
<1>2. /\ input \in Queries /\ L \in Nat
      /\ RefAvail(input) \in Nat /\ RefCount(input) \in Nat
      /\ RefCount(input) <= RefAvail(input)
      /\ RefCount(input) <= input.amount
      /\ RefCount(input) <= MaxHeaderFetch
      /\ RefCount(input) <= ByteCap
      /\ \A n \in Nat :
            /\ n <= RefCount(input)
            /\ \/ n >= RefAvail(input) \/ n >= input.amount
               \/ n >= MaxHeaderFetch \/ n >= ByteCap
            => n = RefCount(input)
  <2>1. input \in Queries /\ L \in Nat
    BY DEF RInv, IInv, TypeOK
  <2>2. QED
    BY <2>1, CountIsLeast
<1>3. L <= RefCount(input) /\ WalkPrefix
  BY DEF RInv
<1>4. CASE UNCHANGED vars
  BY <1>4 DEF RInv, IInv, TypeOK, WalkPrefix, NextOk, vars, hashMode
<1>5. CASE Done
  BY <1>5 DEF Done, RInv, IInv, TypeOK, WalkPrefix, NextOk, vars, hashMode
<1>6. CASE SendResponse
  <2>1. /\ phase = "loop" /\ ~LoopCondition /\ phase' = "sent"
        /\ UNCHANGED << input, query, first, headers, bytes, unknown >>
    BY <1>6 DEF SendResponse
  <2>2. L = RefCount(input)
    <3>1. query.amount = input.amount /\ bytes = L * EstHeaderSize
      BY DEF RInv, IInv
    <3>0. input.amount \in Amounts /\ input.amount \in Nat /\ ByteCap \in Nat
      <4>1. input.amount \in Amounts /\ input.amount \in 0..(M - 1)
        BY Zenon, <1>2 DEF Queries
      <4>2. input.amount \in Nat
        BY <4>1
      <4>3. ByteCap \in Nat
        BY DEF ByteCap
      <4>4. QED
        BY <4>1, <4>2, <4>3
    <3>2. AmountInt(input.amount) = input.amount
      <4>1. input.amount < M \div 2
        BY <3>0 DEF NoWrap
      <4>2. QED
        BY <3>0, <4>1 DEF AmountInt
    <3>3. unknown => L = RefAvail(input)
      BY <2>1 DEF RInv
    <3>4. (L * EstHeaderSize < SoftResponseLimit) <=> (L < ByteCap)
      BY <1>2, ByteCapExact
    <3>5. \/ L >= RefAvail(input) \/ L >= input.amount
          \/ L >= MaxHeaderFetch \/ L >= ByteCap
      BY <1>2, <2>1, <3>0, <3>1, <3>2, <3>3, <3>4 DEF LoopCondition
    <3>6. QED
      BY <1>2, <1>3, <3>5
  <2>3. QED
    BY <1>1, <1>3, <2>1, <2>2 DEF RInv, WalkPrefix
<1>7. CASE Iterate
  <2>1. /\ phase = "loop" /\ LoopCondition /\ ~unknown
        /\ input' = input
    BY <1>7 DEF Iterate, LoopCondition
  <2>2. /\ Origin = IF L < RefAvail(input) THEN RefAt(input, L) ELSE Nil
        /\ L < RefAvail(input) =>
             /\ RefStart(input) \in 0..Tip
             /\ Resolved(Origin) \in Queries
             /\ Resolved(Origin).number = RefAt(input, L)
             /\ Resolved(Origin).skip = input.skip
             /\ Resolved(Origin).reverse = input.reverse
             /\ hashMode =>
                  Resolved(Origin).hash = HashOf(Resolved(Origin).number)
    BY <2>1, OriginIsNext DEF RInv
  <2>3. CASE ~(L < RefAvail(input))
    <3>1. Origin = Nil
      BY <2>2, <2>3
    <3>2. /\ phase' = "sent"
          /\ UNCHANGED << query, headers, bytes, unknown, input >>
      BY <1>7, <3>1 DEF Iterate
    <3>3. L = RefCount(input)
      BY <1>2, <1>3, <2>3
    <3>4. QED
      BY <1>1, <1>3, <3>2, <3>3 DEF RInv, WalkPrefix
  <2>4. CASE L < RefAvail(input)
    <3> DEFINE o == RefAt(input, L)
               q == Resolved(Origin)
               a == Advance(o, q)
    <3> USE DEF o, q, a
    <3>1. Origin = o /\ o # Nil /\ o \in 0..Tip
      BY <1>2, <2>2, <2>4, WalkAt DEF Nil
    <3>2. /\ headers' = Append(headers, o)
          /\ first' = (first /\ ~hashMode)
          /\ query' = a.q
          /\ unknown' = a.unknown
          /\ phase' = IF a.panic THEN "panic" ELSE "loop"
      BY <1>7, <3>1 DEF Iterate
    <3>3. /\ a.q.skip = input.skip
          /\ a.q.reverse = input.reverse
          /\ ~a.panic /\ a.unknown => L + 1 = RefAvail(input)
          /\ ~a.panic /\ ~a.unknown =>
                /\ a.q.number = RefAt(input, L + 1)
                /\ IF hashMode
                     THEN /\ L + 1 < RefAvail(input)
                          /\ a.q.hash = HashOf(a.q.number)
                     ELSE (a.q.number <= Tip) = (L + 1 < RefAvail(input))
      BY <1>2, <2>2, <2>4, AdvanceNext
    <3>4. Len(headers') = L + 1 /\ WalkPrefix'
      <4>1. headers \in Seq(0..Tip)
        BY DEF RInv, IInv, TypeOK
      <4>2. Len(headers') = L + 1
        BY <3>2, <4>1
      <4>3. \A i \in 1..(L + 1) : headers'[i] = RefAt(input, i - 1)
        <5>1. SUFFICES ASSUME NEW i \in 1..(L + 1)
                       PROVE  headers'[i] = RefAt(input, i - 1)
          OBVIOUS
        <5>2. CASE i <= L
          <6>1. headers'[i] = headers[i]
            BY <3>2, <4>1, <5>2
          <6>2. QED
            BY <1>3, <5>2, <6>1 DEF WalkPrefix
        <5>3. CASE i = L + 1
          BY <3>2, <4>1, <5>3
        <5>4. QED
          BY <5>2, <5>3
      <4>4. QED
        BY <2>1, <4>2, <4>3 DEF WalkPrefix
    <3>5. L + 1 <= RefCount(input)
      <4>1. /\ L + 1 <= input.amount
            /\ L + 1 <= MaxHeaderFetch
            /\ L + 1 <= ByteCap
        BY <2>1, LoopConditionBounds DEF RInv
      <4>2. QED
        BY <1>2, <2>4, <4>1, CountIsGreatest
    <3>6. phase' = "loop" /\ unknown' => Len(headers') = RefAvail(input')
      BY <2>1, <3>2, <3>3, <3>4
    <3>7. phase' = "loop" /\ ~unknown' => NextOk'
      <4>1. SUFFICES ASSUME phase' = "loop", ~unknown'
                     PROVE  NextOk'
        OBVIOUS
      <4>2. ~a.panic /\ ~a.unknown
        BY <3>2, <4>1
      <4>3. hashMode' = hashMode /\ first' = (first /\ ~hashMode)
        BY <2>1, <3>2 DEF hashMode
      <4>4. RefStart(input) # Nil
        BY <2>2, <2>4 DEF Nil
      <4>5. QED
        BY <2>1, <3>2, <3>3, <3>4, <4>2, <4>3, <4>4 DEF NextOk
    <3>8. QED
      BY <1>1, <2>1, <3>2, <3>4, <3>5, <3>6, <3>7 DEF RInv
  <2>5. QED
    BY <2>3, <2>4
<1>8. QED
  BY <1>4, <1>5, <1>6, <1>7 DEF Next

(* The abstract module is built on the same chain: its requests and its   *)
(* walk are the ones of HeaderChain.                                        *)
LEMMA SameChain ==
    /\ Abstract!Queries = Queries
    /\ \A r : Abstract!RefHeaders(r) = RefHeaders(r)
    /\ Abstract!NoResponse = << -1 >>
BY DEF Abstract!Queries, Abstract!Hashes, Abstract!Numbers, Abstract!M,
       Abstract!RefHeaders, Abstract!RefCount, Abstract!MinOf,
       Abstract!RefAvail, Abstract!RefStart, Abstract!RefStep, Abstract!RefAt,
       Abstract!ByteCap, Abstract!GetSequencerByHash, Abstract!Nil,
       Abstract!EmptyHash, Abstract!NoResponse,
       Queries, Hashes, Numbers, M, RefHeaders, RefCount, MinOf, RefAvail,
       RefStart, RefStep, RefAt, ByteCap, GetSequencerByHash, Nil, EmptyHash

-----------------------------------------------------------------------------
(* RInv holds in every state of the handler, for the requests that do not *)
(* wrap.                                                                    *)
THEOREM RInvInvariant ==
    ASSUME NoWrap
    PROVE  Spec => []RInv
<1>1. RInv /\ [Next]_vars => RInv'
  BY NextRInv
<1>2. QED
  BY <1>1, InitRInv, PTL DEF Spec

(* HandleHeaderRequest implements the spec's one-step answer               *)
(* (ImplementsAbstract): the peer sees no response until SendToPeer, and   *)
(* then exactly the reference walk RefHeaders, for every chain, word width *)
(* and cap, whenever the walk's numbers and int(amount) do not wrap.       *)
THEOREM RefinementTheorem ==
    ASSUME NoWrap
    PROVE  Spec => ImplementsAbstract
<1> DEFINE resp == IF phase = "sent" THEN headers ELSE << -1 >>
<1>1. Init => Abstract!Init
  BY SameChain DEF Init, Abstract!Init
<1>2. RInv /\ RInv' /\ [Next]_vars
        => [Abstract!Answer]_<< input, resp >>
  <2>1. SUFFICES ASSUME RInv, RInv', [Next]_vars
                 PROVE  [Abstract!Answer]_<< input, resp >>
    OBVIOUS
  <2>0. /\ Iterate => phase = "loop" /\ input' = input
        /\ SendResponse => phase = "loop" /\ input' = input
        /\ Done \/ UNCHANGED vars => UNCHANGED << phase, headers, input >>
    <3>1. Iterate => phase = "loop" /\ input' = input
      BY Zenon DEF Iterate
    <3>2. SendResponse => phase = "loop" /\ input' = input
      BY DEF SendResponse
    <3>3. Done \/ UNCHANGED vars => UNCHANGED << phase, headers, input >>
      BY DEF Done, vars
    <3>4. QED
      BY <3>1, <3>2, <3>3
  <2>2. input' = input
    BY <2>0, <2>1 DEF Next
  <2>3. CASE phase = "loop" /\ phase' = "sent"
    <3>1. headers' = RefHeaders(input)
      <4>1. headers' \in Seq(0..Tip) /\ input \in Queries
        BY <2>1, <2>2 DEF RInv, IInv, TypeOK
      <4>2. Len(headers') = RefCount(input) /\ RefCount(input) \in Nat
        BY <2>1, <2>2, <2>3, <4>1, CountIsLeast DEF RInv
      <4>3. \A i \in 1..RefCount(input) : headers'[i] = RefAt(input, i - 1)
        BY <2>1, <2>2, <4>2 DEF RInv, WalkPrefix
      <4>4. headers' = [i \in 1..RefCount(input) |-> headers'[i]]
        BY <4>1, <4>2
      <4>5. QED
        BY <4>3, <4>4 DEF RefHeaders
    <3>2. QED
      BY <2>2, <2>3, <3>1, SameChain DEF Abstract!Answer
  <2>4. CASE ~(phase = "loop" /\ phase' = "sent")
    <3>1. phase = "sent" => phase' = "sent" /\ headers' = headers
      BY <2>0, <2>1 DEF Next
    <3>2. phase' = "sent" => phase = "sent"
      BY <2>0, <2>1, <2>4 DEF Next
    <3>3. QED
      BY <2>2, <3>1, <3>2
  <2>5. QED
    BY <2>3, <2>4
<1>3. QED
  BY <1>1, <1>2, RInvInvariant, InitRInv, PTL
     DEF Spec, ImplementsAbstract, Abstract!Spec

=============================================================================
