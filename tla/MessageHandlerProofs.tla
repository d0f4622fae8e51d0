------------------------ MODULE MessageHandlerProofs ------------------------
(***************************************************************************)
(* Proofs about the sync handlers of module MessageHandler.               *)
(***************************************************************************)
EXTENDS MessageHandler, NatFacts, FiniteSetTheorems, SequenceTheorems, TLAPS

USE MessageHandlerAssumption

(* sz is the running byte count of HandleBodiesRequest's loop over the     *)
(* first n hashes of req: the fixed point BytesBefore's LET defines.       *)
SzEq(req, sz, n) ==
    sz = [j \in 0..n |-> IF j = 0 THEN 0 ELSE sz[j - 1] + BodySize[req[j]]]

(* BytesBefore is the last entry of the byte count chosen by its LET. *)
LEMMA BytesDef ==
    ASSUME NEW req, NEW i
    PROVE  BytesBefore(req, i) = (CHOOSE sz : SzEq(req, sz, i - 1))[i - 1]
BY DEF BytesBefore, SzEq

(* The loop's byte count over any number of hashes exists. *)
LEMMA SzExists ==
    ASSUME NEW req, NEW n \in Nat
    PROVE  \E sz : SzEq(req, sz, n)
<1> DEFINE T == {m \in 0..n : ~\E sz : SzEq(req, sz, m)}
<1> USE DEF T
<1>1. SUFFICES ASSUME ~\E sz : SzEq(req, sz, n) PROVE FALSE
  OBVIOUS
<1>0. n \in T
  BY <1>1
<1>2. PICK m \in T : \A k \in T : m <= k
  <2>1. T \in SUBSET Nat
    OBVIOUS
  <2>. QED  BY <1>0, <2>1, NatMin
<1>3. CASE m = 0
  <2>1. SzEq(req, [j \in 0..0 |-> 0], 0)
    BY DEF SzEq
  <2>. QED  BY <2>1, <1>2, <1>3
<1>4. CASE m # 0
  <2>1. m - 1 \notin T
    BY <1>2, <1>4
  <2>2. PICK g : SzEq(req, g, m - 1)
    BY <2>1, <1>2, <1>4
  <2> DEFINE h == [j \in 0..m |-> IF j < m THEN g[j]
                                   ELSE g[m - 1] + BodySize[req[m]]]
  <2> USE DEF h
  <2>3. \A j \in 0..m : h[j] = IF j = 0 THEN 0 ELSE h[j - 1] + BodySize[req[j]]
    <3>1. \A j \in 0..(m - 1) : g[j] = IF j = 0 THEN 0 ELSE g[j - 1] + BodySize[req[j]]
      BY <2>2, <1>2, <1>4 DEF SzEq
    <3>. QED  BY <3>1, <1>2, <1>4
  <2>4. SzEq(req, h, m)
    BY <2>3 DEF SzEq
  <2>. QED  BY <2>4, <1>2
<1>. QED  BY <1>3, <1>4

(* Byte counts over a prefix and over a longer prefix agree on the prefix. *)
LEMMA SzAgree ==
    ASSUME NEW req, NEW m \in Nat, NEW n \in Nat, m <= n,
           NEW f, NEW g, SzEq(req, f, m), SzEq(req, g, n)
    PROVE  \A j \in 0..m : f[j] = g[j]
<1> DEFINE T == {j \in 0..m : f[j] # g[j]}
<1> USE DEF T
<1>1. SUFFICES ASSUME T # {} PROVE FALSE
  OBVIOUS
<1>2. PICK j \in T : \A k \in T : j <= k
  <2>1. T \in SUBSET Nat
    OBVIOUS
  <2>. QED  BY <1>1, <2>1, NatMin
<1>3. f[j] = IF j = 0 THEN 0 ELSE f[j - 1] + BodySize[req[j]]
  BY DEF SzEq
<1>4. g[j] = IF j = 0 THEN 0 ELSE g[j - 1] + BodySize[req[j]]
  BY DEF SzEq
<1>5. j # 0 => f[j - 1] = g[j - 1]
  BY <1>2
<1>. QED  BY <1>2, <1>3, <1>4, <1>5

(* Over hashes that name sequencers of the DAG, the byte count is a      *)
(* natural number at every step.                                          *)
LEMMA SzNat ==
    ASSUME NEW req, NEW n \in Nat, \A j \in 1..n : req[j] \in 0..MaxTip,
           NEW f, SzEq(req, f, n)
    PROVE  \A j \in 0..n : f[j] \in Nat
<1> DEFINE T == {j \in 0..n : f[j] \notin Nat}
<1> USE DEF T
<1>1. SUFFICES ASSUME T # {} PROVE FALSE
  OBVIOUS
<1>2. PICK j \in T : \A k \in T : j <= k
  <2>1. T \in SUBSET Nat
    OBVIOUS
  <2>. QED  BY <1>1, <2>1, NatMin
<1>3. f[j] = IF j = 0 THEN 0 ELSE f[j - 1] + BodySize[req[j]]
  BY DEF SzEq
<1>4. j # 0 => f[j - 1] \in Nat /\ BodySize[req[j]] \in Nat
  BY <1>2
<1>. QED  BY <1>2, <1>3, <1>4

(* Before the first body the byte count is 0, and each body adds its      *)
(* bundle's size: the loop's "bytes += len(bodyData)".                    *)
LEMMA BytesStep ==
    ASSUME NEW req, NEW i \in Nat \ {0}
    PROVE  /\ BytesBefore(req, 1) = 0
           /\ BytesBefore(req, i + 1) = BytesBefore(req, i) + BodySize[req[i]]
<1>1. PICK f : f = CHOOSE sz : SzEq(req, sz, i)
  OBVIOUS
<1>2. PICK g : g = CHOOSE sz : SzEq(req, sz, i - 1)
  OBVIOUS
<1>3. PICK e : e = CHOOSE sz : SzEq(req, sz, 0)
  OBVIOUS
<1>4. SzEq(req, f, i) /\ SzEq(req, g, i - 1) /\ SzEq(req, e, 0)
  <2>1. SzEq(req, f, i)
    <3>1. \E sz : SzEq(req, sz, i)
      BY SzExists
    <3>. QED  BY <3>1, <1>1
  <2>2. SzEq(req, g, i - 1)
    <3>0. i - 1 \in Nat
      OBVIOUS
    <3>1. \E sz : SzEq(req, sz, i - 1)
      BY <3>0, SzExists
    <3>. QED  BY <3>1, <1>2
  <2>3. SzEq(req, e, 0)
    <3>1. \E sz : SzEq(req, sz, 0)
      BY SzExists
    <3>. QED  BY <3>1, <1>3
  <2>. QED  BY <2>1, <2>2, <2>3
<1>5. BytesBefore(req, i + 1) = f[i] /\ BytesBefore(req, i) = g[i - 1]
      /\ BytesBefore(req, 1) = e[0]
  <2>1. (i + 1) - 1 = i /\ 1 - 1 = 0
    OBVIOUS
  <2>2. BytesBefore(req, i + 1) = (CHOOSE sz : SzEq(req, sz, (i + 1) - 1))[(i + 1) - 1]
    BY BytesDef
  <2>3. BytesBefore(req, 1) = (CHOOSE sz : SzEq(req, sz, 1 - 1))[1 - 1]
    BY BytesDef
  <2>4. BytesBefore(req, i) = (CHOOSE sz : SzEq(req, sz, i - 1))[i - 1]
    BY BytesDef
  <2>. QED  BY <2>1, <2>2, <2>3, <2>4, <1>1, <1>2, <1>3
<1>6. e[0] = 0
  BY <1>4 DEF SzEq
<1>7. f[i] = f[i - 1] + BodySize[req[i]]
  BY <1>4 DEF SzEq
<1>8. f[i - 1] = g[i - 1]
  BY <1>4, SzAgree
<1>. QED  BY <1>5, <1>6, <1>7, <1>8

(* Over hashes that name sequencers of the DAG, the byte count is a      *)
(* natural number.                                                        *)
LEMMA BytesNat ==
    ASSUME NEW req, NEW i \in Nat \ {0},
           \A j \in 1..(i - 1) : req[j] \in 0..MaxTip
    PROVE  BytesBefore(req, i) \in Nat
<1>1. PICK g : g = CHOOSE sz : SzEq(req, sz, i - 1)
  OBVIOUS
<1>2. SzEq(req, g, i - 1)
  <2>0. i - 1 \in Nat
    OBVIOUS
  <2>1. \E sz : SzEq(req, sz, i - 1)
    BY <2>0, SzExists
  <2>. QED  BY <2>1, <1>1
<1>3. BytesBefore(req, i) = g[i - 1]
  BY <1>1, BytesDef
<1>4. i - 1 \in Nat
  OBVIOUS
<1>. QED  BY <1>2, <1>3, <1>4, SzNat

(* A hash is bundled only when it and every hash before it resolved, the *)
(* bytes before each were below the limit and the count below the cap.   *)
LEMMA TakenFacts ==
    ASSUME NEW req, NEW i \in BodiesTaken(req)
    PROVE  /\ i \in 1..Len(req)
           /\ \A j \in 1..i : /\ GetSequencerByHash(req[j]) # None
                              /\ BytesBefore(req, j) < SoftResponseLimit
                              /\ j - 1 < MaxBlockFetch
BY DEF BodiesTaken

(* The loop stops at the first hash that fails: the bundled hashes are a *)
(* prefix 1..m of the request.                                            *)
LEMMA TakenPrefix ==
    ASSUME NEW req \in Seq(SeqIds)
    PROVE  \E m \in 0..Len(req) : BodiesTaken(req) = 1..m
<1>1. \A i \in BodiesTaken(req) : \A j \in 1..i : j \in BodiesTaken(req)
  BY DEF BodiesTaken
<1> DEFINE T == {i \in 1..(Len(req) + 1) : i \notin BodiesTaken(req)}
<1> USE DEF T
<1>2. Len(req) + 1 \in T
  BY DEF BodiesTaken
<1>3. PICK k \in T : \A i \in T : k <= i
  <2>1. T \in SUBSET Nat
    OBVIOUS
  <2>. QED  BY <1>2, <2>1, NatMin
<1>4. \A i \in 1..(k - 1) : i \in BodiesTaken(req)
  BY <1>3
<1>5. \A i \in BodiesTaken(req) : i \in 1..(k - 1)
  <2>1. SUFFICES ASSUME NEW i \in BodiesTaken(req), ~(i \in 1..(k - 1))
                 PROVE FALSE
    OBVIOUS
  <2>2. i \in 1..Len(req)
    BY <2>1 DEF BodiesTaken
  <2>3. k \in 1..i
    BY <2>1, <2>2, <1>3
  <2>. QED  BY <2>1, <2>3, <1>1, <1>3
<1>6. BodiesTaken(req) = 1..(k - 1)
  BY <1>4, <1>5
<1>. QED  BY <1>6, <1>3

(* MaxBodySize is the size of the largest bundle of the DAG. *)
LEMMA MaxBodySizeFacts ==
    /\ MaxBodySize \in Nat
    /\ \A m \in 0..MaxTip : BodySize[m] <= MaxBodySize
<1> DEFINE Sizes == {BodySize[n] : n \in 0..MaxTip}
           UpTo(k, b) == \A m \in 0..k : BodySize[m] <= b
           T == {k \in 0..MaxTip : ~\E b \in Sizes : UpTo(k, b)}
<1> USE DEF Sizes, UpTo, T
<1>1. \E b \in Sizes : UpTo(MaxTip, b)
  <2>1. SUFFICES ASSUME ~\E b \in Sizes : UpTo(MaxTip, b) PROVE FALSE
    OBVIOUS
  <2>2. PICK k \in T : \A i \in T : k <= i
    <3>1. T \in SUBSET Nat
      OBVIOUS
    <3>2. MaxTip \in T
      BY <2>1
    <3>. QED  BY <3>2, <3>1, NatMin
  <2>3. CASE k = 0
    BY <2>2, <2>3
  <2>4. CASE k # 0
    <3>a. k \in 1..MaxTip
      BY <2>2, <2>4
    <3>b. k - 1 \in 0..MaxTip /\ ~(k <= k - 1)
      BY <3>a
    <3>0. k - 1 \notin T /\ k - 1 \in 0..MaxTip
      BY <3>b, <2>2
    <3>1. PICK b \in Sizes : UpTo(k - 1, b)
      BY <3>0
    <3>2. b \in Nat /\ BodySize[k] \in Nat
      BY <2>2
    <3>3. UpTo(k, IF b < BodySize[k] THEN BodySize[k] ELSE b)
      BY <3>1, <3>2, <2>2, <2>4
    <3>4. (IF b < BodySize[k] THEN BodySize[k] ELSE b) \in Sizes
      BY <3>1, <2>2
    <3>. QED  BY <3>3, <3>4, <2>2
  <2>. QED  BY <2>3, <2>4
<1>2. MaxBodySize \in Sizes /\ UpTo(MaxTip, MaxBodySize)
  BY <1>1 DEF MaxBodySize
<1>. QED  BY <1>2

(* A hash the loop bundled names a sequencer of the DAG. *)
LEMMA TakenInDag ==
    ASSUME tip \in 0..MaxTip, NEW req \in Seq(SeqIds),
           NEW i \in BodiesTaken(req), NEW j \in 1..i
    PROVE  req[j] \in 0..MaxTip
<1>1. i \in 1..Len(req) /\ GetSequencerByHash(req[j]) # None
  BY TakenFacts
<1>2. req[j] \in SeqIds /\ req[j] <= tip
  BY <1>1 DEF GetSequencerByHash
<1>. QED  BY <1>2 DEF SeqIds

(* HandleBodiesRequest answers with at most MaxBlockFetch bodies, and its *)
(* byte count overshoots the soft limit by less than one bundle.           *)
LEMMA BodiesRequestBounded ==
    ASSUME tip \in 0..MaxTip, NEW req \in Lists(SeqIds), HandleBodiesRequest(req)
    PROVE  BodiesResponseBounded'
<1>1. req \in Seq(SeqIds)
  BY DEF Lists
<1>2. PICK m \in 0..Len(req) : BodiesTaken(req) = 1..m
  BY <1>1, TakenPrefix
<1>3. Cardinality(BodiesTaken(req)) = m
  BY <1>2, FS_Interval
<1>4. out' = [kind |-> "bodiesResponse", bodies |-> [i \in 1..m |-> req[i]],
              bytes |-> BytesBefore(req, m + 1)]
  BY <1>3 DEF HandleBodiesRequest
<1>5. m <= MaxBlockFetch
  <2>1. CASE m = 0
    BY <2>1
  <2>2. CASE m # 0
    <3>1. m \in BodiesTaken(req) /\ m \in 1..m
      BY <1>2, <2>2
    <3>. QED  BY <3>1, TakenFacts
  <2>. QED  BY <2>1, <2>2
<1>6. BytesBefore(req, m + 1) < SoftResponseLimit + MaxBodySize
  <2>1. MaxBodySize \in Nat
    BY MaxBodySizeFacts
  <2>2. CASE m = 0
    BY <2>1, <2>2, BytesStep
  <2>3. CASE m # 0
    <3>1. m \in BodiesTaken(req) /\ m \in 1..m /\ m \in Nat \ {0}
      BY <1>2, <2>3
    <3>2. BytesBefore(req, m + 1) = BytesBefore(req, m) + BodySize[req[m]]
      BY <3>1, BytesStep
    <3>3. BytesBefore(req, m) < SoftResponseLimit
      BY <3>1, TakenFacts
    <3>4. req[m] \in 0..MaxTip
      BY <3>1, TakenInDag
    <3>5. BodySize[req[m]] \in Nat /\ BodySize[req[m]] <= MaxBodySize
      BY <3>4, MaxBodySizeFacts
    <3>6. \A j \in 1..(m - 1) : req[j] \in 0..MaxTip
      BY <3>1, TakenInDag
    <3>7. BytesBefore(req, m) \in Nat
      BY <3>1, <3>6, BytesNat
    <3>. QED  BY <2>1, <3>2, <3>3, <3>5, <3>7
  <2>. QED  BY <2>2, <2>3
<1>. QED  BY <1>4, <1>5, <1>6 DEF BodiesResponseBounded

(* f is the list HandleFetchByHashRequest's loop has built after the     *)
(* first n hashes: the fixed point Found's LET defines when n = Len(hs). *)
FoundEq(hs, keep, f, n) ==
    f = [i \in 0..n |-> IF i = 0 THEN << >>
                        ELSE IF hs[i] \in keep THEN Append(f[i - 1], hs[i])
                        ELSE f[i - 1]]

(* Found is the last entry of the list chosen by its LET. *)
LEMMA FoundDef ==
    ASSUME NEW hs, NEW keep
    PROVE  Found(hs, keep) = (CHOOSE f : FoundEq(hs, keep, f, Len(hs)))[Len(hs)]
BY DEF Found, FoundEq

(* The loop's list exists after any number of hashes. *)
LEMMA FoundExists ==
    ASSUME NEW hs, NEW keep, NEW n \in Nat
    PROVE  \E f : FoundEq(hs, keep, f, n)
<1> DEFINE T == {m \in 0..n : ~\E f : FoundEq(hs, keep, f, m)}
<1> USE DEF T
<1>1. SUFFICES ASSUME ~\E f : FoundEq(hs, keep, f, n) PROVE FALSE
  OBVIOUS
<1>2. PICK m \in T : \A k \in T : m <= k
  <2>1. n \in T /\ T \in SUBSET Nat
    BY <1>1
  <2>. QED  BY <2>1, NatMin
<1>3. CASE m = 0
  <2>1. FoundEq(hs, keep, [i \in 0..0 |-> << >>], 0)
    BY DEF FoundEq
  <2>. QED  BY <2>1, <1>2, <1>3
<1>4. CASE m # 0
  <2>1. PICK g : FoundEq(hs, keep, g, m - 1)
    <3>1. m - 1 \in 0..n /\ ~(m <= m - 1)
      BY <1>2, <1>4
    <3>. QED  BY <3>1, <1>2
  <2> DEFINE h == [i \in 0..m |->
                     IF i < m THEN g[i]
                     ELSE IF hs[m] \in keep THEN Append(g[m - 1], hs[m])
                     ELSE g[m - 1]]
  <2> USE DEF h
  <2>2. \A i \in 0..(m - 1) :
          g[i] = IF i = 0 THEN << >>
                 ELSE IF hs[i] \in keep THEN Append(g[i - 1], hs[i])
                 ELSE g[i - 1]
    BY <2>1, <1>2, <1>4 DEF FoundEq
  <2>3. FoundEq(hs, keep, h, m)
    BY <2>2, <1>2, <1>4 DEF FoundEq
  <2>. QED  BY <2>3, <1>2
<1>. QED  BY <1>3, <1>4

(* Every entry of the loop's list is a hash of keep. *)
LEMMA FoundEqType ==
    ASSUME NEW hs, NEW keep, NEW n \in Nat, NEW f, FoundEq(hs, keep, f, n)
    PROVE  \A i \in 0..n : f[i] \in Seq(keep)
<1> DEFINE T == {i \in 0..n : f[i] \notin Seq(keep)}
<1> USE DEF T
<1>1. SUFFICES ASSUME T # {} PROVE FALSE
  OBVIOUS
<1>2. PICK i \in T : \A k \in T : i <= k
  <2>1. T \in SUBSET Nat
    OBVIOUS
  <2>. QED  BY <1>1, <2>1, NatMin
<1>3. f[i] = IF i = 0 THEN << >>
             ELSE IF hs[i] \in keep THEN Append(f[i - 1], hs[i])
             ELSE f[i - 1]
  BY DEF FoundEq
<1>4. i # 0 => f[i - 1] \in Seq(keep)
  <2>1. i # 0 => i - 1 \in 0..n /\ ~(i <= i - 1)
    BY <1>2
  <2>. QED  BY <2>1, <1>2
<1>5. CASE i = 0
  <2>1. << >> \in Seq(keep)
    BY EmptySeq
  <2>. QED  BY <2>1, <1>2, <1>3, <1>5
<1>6. CASE i # 0 /\ hs[i] \in keep
  <2>1. Append(f[i - 1], hs[i]) \in Seq(keep)
    BY <1>4, <1>6, AppendProperties
  <2>. QED  BY <2>1, <1>2, <1>3, <1>6
<1>7. CASE i # 0 /\ hs[i] \notin keep
  BY <1>2, <1>3, <1>4, <1>7
<1>. QED  BY <1>5, <1>6, <1>7

(* The fetch response lists only hashes of keep. *)
LEMMA FoundType ==
    ASSUME NEW S, NEW hs \in Seq(S), NEW keep
    PROVE  Found(hs, keep) \in Seq(keep)
<1>1. PICK f : f = CHOOSE g : FoundEq(hs, keep, g, Len(hs))
  OBVIOUS
<1>2. FoundEq(hs, keep, f, Len(hs))
  <2>1. \E g : FoundEq(hs, keep, g, Len(hs))
    BY FoundExists
  <2>. QED  BY <2>1, <1>1
<1>3. Found(hs, keep) = f[Len(hs)]
  BY <1>1, FoundDef
<1>. QED  BY <1>2, <1>3, FoundEqType

(* A sequence over a set is a sequence over every larger set. *)
LEMMA SeqSubset ==
    ASSUME NEW A, NEW B, A \subseteq B, NEW s \in Seq(A)
    PROVE  s \in Seq(B)
<1>1. Len(s) \in Nat /\ s \in [1..Len(s) -> A]
  BY LenProperties
<1>2. s = [i \in 1..Len(s) |-> s[i]]
  BY <1>1
<1>3. [i \in 1..Len(s) |-> s[i]] \in Seq(B)
  BY <1>1, IsASeq
<1>. QED  BY <1>2, <1>3

(* A hash list of a request is a sequence of at most MaxReq hashes. *)
LEMMA ListsSeq ==
    ASSUME NEW S, NEW l \in Lists(S)
    PROVE  l \in Seq(S) /\ Len(l) <= MaxReq
BY DEF Lists

(* The inductive invariant: the type, which keeps the tip within the     *)
(* DAG's sequencers so that every bundled hash names a body of known     *)
(* size, and the bound on bodies responses.                               *)
IInv == TypeOK /\ BodiesResponseBounded

(* An output of another kind than a bodies response satisfies the bound. *)
LEMMA OtherKind ==
    ASSUME out'.kind # "bodiesResponse"
    PROVE  BodiesResponseBounded'
BY DEF BodiesResponseBounded

(* HandleFetchByHashRequest answers with txs and sequencers of the DAG    *)
(* and the pool only.                                                      *)
LEMMA FetchRequestStep ==
    ASSUME TypeOK, NEW hs \in Lists(FetchHashes), HandleFetchByHashRequest(hs)
    PROVE  IInv'
<1>1. hs \in Seq(FetchHashes)
  BY ListsSeq
<1>2. Found(hs, {h \in Txs : Known(h)}) \in Seq(Txs)
  <2>1. Found(hs, {h \in Txs : Known(h)}) \in Seq({h \in Txs : Known(h)})
    BY <1>1, FoundType
  <2>. QED  BY <2>1
<1>3. Found(hs, {h \in FetchHashes \ Txs : Known(h)}) \in Seq(SeqIds)
  <2>1. Found(hs, {h \in FetchHashes \ Txs : Known(h)})
          \in Seq({h \in FetchHashes \ Txs : Known(h)})
    BY <1>1, FoundType
  <2>2. {h \in FetchHashes \ Txs : Known(h)} \subseteq SeqIds
    BY DEF FetchHashes, SeqIds
  <2>. QED  BY <2>1, <2>2
<1>4. out' \in Outputs /\ out'.kind # "bodiesResponse"
  BY <1>2, <1>3 DEF HandleFetchByHashRequest, Outputs
<1>. QED  BY <1>4, OtherKind DEF HandleFetchByHashRequest, TypeOK, IInv
(* HandleBodiesRequest bundles sequencers of the DAG and counts a natural *)
(* number of bytes.                                                        *)
LEMMA BodiesRequestStep ==
    ASSUME TypeOK, NEW r \in Lists(SeqIds), HandleBodiesRequest(r)
    PROVE  IInv'
<1>1. r \in Seq(SeqIds)
  BY ListsSeq
<1>2. PICK m \in 0..Len(r) : BodiesTaken(r) = 1..m
  BY <1>1, TakenPrefix
<1>3. out' = [kind |-> "bodiesResponse", bodies |-> [i \in 1..m |-> r[i]],
              bytes |-> BytesBefore(r, m + 1)]
  <2>1. Cardinality(BodiesTaken(r)) = m
    BY <1>2, FS_Interval
  <2>. QED  BY <2>1 DEF HandleBodiesRequest
<1>4. \A j \in 1..m : r[j] \in 0..MaxTip
  <2>1. CASE m = 0
    BY <2>1
  <2>2. CASE m # 0
    <3>1. m \in BodiesTaken(r)
      BY <1>2, <2>2
    <3>2. tip \in 0..MaxTip
      BY DEF TypeOK
    <3>. QED  BY <1>1, <3>1, <3>2, TakenInDag
  <2>. QED  BY <2>1, <2>2
<1>5. [i \in 1..m |-> r[i]] \in Seq(0..MaxTip)
  BY <1>4
<1>6. BytesBefore(r, m + 1) \in Nat
  BY <1>4, BytesNat
<1>7. out' \in Outputs
  BY <1>3, <1>5, <1>6 DEF Outputs
<1>8. BodiesResponseBounded'
  BY BodiesRequestBounded DEF TypeOK
<1>. QED  BY <1>7, <1>8 DEF HandleBodiesRequest, TypeOK, IInv
(* Every step keeps IInv: only HandleBodiesRequest writes a bodies        *)
(* response, and every other handler writes another kind of output or    *)
(* leaves out alone.                                                       *)
LEMMA IInvStep ==
    ASSUME IInv, [Next]_vars
    PROVE  IInv'
<1> USE DEF IInv, TypeOK
<1>1. CASE DagAppend
  BY <1>1 DEF DagAppend, BodiesResponseBounded
<1>2. CASE \E h \in Lists(FetchHashes) : HandleFetchByHashRequest(h)
  BY <1>2, FetchRequestStep
<1>3. CASE \E t \in Lists(Txs), sq \in Lists(Payload) :
             HandleFetchByHashResponse(t, sq)
  <2>1. PICK t \in Lists(Txs), sq \in Lists(Payload) :
               HandleFetchByHashResponse(t, sq)
    BY <1>3
  <2>2. t \in Seq(Items) /\ sq \in Seq(Items)
    <3>1. t \in Seq(Txs) /\ sq \in Seq(Payload)
      BY ListsSeq
    <3>2. Txs \subseteq Items /\ Payload \subseteq Items
      BY DEF Items, Payload, SeqIds
    <3>. QED  BY <3>1, <3>2, SeqSubset
  <2>3. t \o sq \in Seq(Items)
    BY <2>2, ConcatProperties
  <2>. QED  BY <2>1, <2>3, OtherKind DEF HandleFetchByHashResponse, Outputs
<1>4. CASE \E h \in Lists(Payload) : HandleHeaderResponse(h)
  <2>1. PICK h \in Lists(Payload) : HandleHeaderResponse(h)
    BY <1>4
  <2>2. h \in Seq(SeqIds)
    <3>1. h \in Seq(Payload)
      BY ListsSeq
    <3>2. Payload \subseteq SeqIds
      BY DEF Payload, SeqIds
    <3>. QED  BY <3>1, <3>2, SeqSubset
  <2>. QED  BY <2>1, <2>2, OtherKind DEF HandleHeaderResponse, Outputs
<1>5. CASE \E r \in Lists(SeqIds) : HandleBodiesRequest(r)
  BY <1>5, BodiesRequestStep
<1>6. CASE \E b \in Lists(Payload) : \E k \in [1..Len(b) -> BodyKinds] :
             HandleBodiesResponse(b, k)
  <2>0. PICK b \in Lists(Payload) :
               \E k \in [1..Len(b) -> BodyKinds] : HandleBodiesResponse(b, k)
    BY <1>6
  <2>1. PICK k \in [1..Len(b) -> BodyKinds] : HandleBodiesResponse(b, k)
    BY <2>0
  <2>2. b \in Seq(SeqIds)
    <3>1. b \in Seq(Payload)
      BY ListsSeq
    <3>2. Payload \subseteq SeqIds
      BY DEF Payload, SeqIds
    <3>. QED  BY <3>1, <3>2, SeqSubset
  <2>3. [i \in 1..Len(b) |-> IF i \in SlotsSet(k) THEN b[i] ELSE None]
          \in Seq(SeqIds \cup {None})
    BY <2>2
  <2>. QED  BY <2>1, <2>3, OtherKind DEF HandleBodiesResponse, Outputs
<1>7. CASE \E id \in SeqIds, h \in SeqIds \cup {None} : HandleTxsRequest(id, h)
  <2>1. PICK id \in SeqIds, h \in SeqIds \cup {None} : HandleTxsRequest(id, h)
    BY <1>7
  <2>2. /\ GetSequencer(h, id) \in (0..MaxTip) \cup {None}
        /\ GetSequencerById(id) \in (0..MaxTip) \cup {None}
    BY DEF GetSequencer, GetSequencerById, SeqIds
  <2>. QED  BY <2>1, <2>2, OtherKind DEF HandleTxsRequest, Outputs
<1>8. CASE \E sq \in SeqIds \cup {None} : HandleTxsResponseRead(sq)
  BY <1>8 DEF HandleTxsResponseRead, BodiesResponseBounded
<1>9. CASE HandleTxsResponseAdd
  <2>1. txsResp \in [seq : SeqIds, lseq : 0..MaxTip]
    BY <1>9 DEF HandleTxsResponseAdd
  <2>2. CASE txsResp.lseq < txsResp.seq
    BY <1>9, <2>1, <2>2, OtherKind DEF HandleTxsResponseAdd, Outputs
  <2>3. CASE ~(txsResp.lseq < txsResp.seq)
    BY <1>9, <2>3 DEF HandleTxsResponseAdd, BodiesResponseBounded
  <2>. QED  BY <2>2, <2>3
<1>10. CASE \E p \in Peers, h \in SeqIds \cup {None}, n \in SeqIds :
              HandleSequencerHeader(p, h, n)
  BY <1>10, OtherKind DEF HandleSequencerHeader, Outputs
<1>11. CASE HandlePing
  BY <1>11, OtherKind DEF HandlePing, Outputs
<1>12. CASE UNCHANGED vars
  BY <1>12 DEF vars, BodiesResponseBounded
<1>. QED  BY <1>1, <1>2, <1>3, <1>4, <1>5, <1>6, <1>7, <1>8, <1>9, <1>10,
             <1>11, <1>12 DEF Next
(* The initial states satisfy IInv: no output has been written yet. *)
LEMMA InitIInv == Init => IInv
BY DEF Init, IInv, TypeOK, BodiesResponseBounded

(* IInv holds in every reachable state. *)
THEOREM IInvInvariant == Spec => []IInv
BY InitIInv, IInvStep, PTL DEF Spec

(* Every reachable state of the handlers is well typed: in particular     *)
(* every fetch response lists only pooled or confirmed txs and sequencers *)
(* of the DAG, every bodies response only sequencers of the DAG, and a    *)
(* txs response only nil or a sequencer of the DAG, while the DAG grows.  *)
THEOREM TypeCorrect == Spec => []TypeOK
BY IInvInvariant, PTL DEF IInv

(* In every reachable state a bodies response holds at most             *)
(* MaxBlockFetch bodies and fewer than SoftResponseLimit + MaxBodySize    *)
(* bytes: HandleBodiesRequest's loop stops in time, for every DAG, body   *)
(* sizes, limit and cap.                                                   *)
THEOREM BodiesBoundedTheorem == Spec => []BodiesResponseBounded
BY IInvInvariant, PTL DEF IInv
=============================================================================
