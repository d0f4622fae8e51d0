---------------------------- MODULE GasTableProofs ----------------------------
(***************************************************************************)
(* Proofs about the gas functions and the interpreter step of module      *)
(* GasTable.                                                               *)
(***************************************************************************)
EXTENDS GasTable, NatFacts, SequenceTheorems, TLAPS

USE GasTableAssumption

(* g holds 2^k for k in 0..n: the prefix of the recursion of Pow2. *)
PEq(g, n) == g = [k \in 0..n |-> IF k = 0 THEN 1 ELSE 2 * g[k - 1]]

(* Pow2 is the function its recursive definition chooses. *)
LEMMA Pow2Def ==
    Pow2 = CHOOSE f : f = [n \in Nat |-> IF n = 0 THEN 1 ELSE 2 * f[n - 1]]
BY DEF Pow2

(* The prefixes of the recursion exist. *)
LEMMA PExists ==
    ASSUME NEW n \in Nat
    PROVE  \E g : PEq(g, n)
<1> DEFINE T == {m \in 0..n : ~\E g : PEq(g, m)}
<1> USE DEF T
<1>1. SUFFICES ASSUME ~\E g : PEq(g, n) PROVE FALSE
  OBVIOUS
<1>2. PICK m \in T : \A k \in T : m <= k
  <2>1. n \in T /\ T \in SUBSET Nat
    BY <1>1
  <2>. QED  BY <2>1, NatMin
<1>3. CASE m = 0
  <2>1. PEq([k \in 0..0 |-> 1], 0)
    BY DEF PEq
  <2>. QED  BY <2>1, <1>2, <1>3
<1>4. CASE m # 0
  <2>1. PICK g : PEq(g, m - 1)
    <3>1. m - 1 \in 0..n /\ ~(m <= m - 1)
      BY <1>2, <1>4
    <3>. QED  BY <3>1, <1>2
  <2> DEFINE h == [k \in 0..m |-> IF k < m THEN g[k] ELSE 2 * g[m - 1]]
  <2> USE DEF h
  <2>2. \A k \in 0..(m - 1) : g[k] = IF k = 0 THEN 1 ELSE 2 * g[k - 1]
    BY <2>1, <1>2, <1>4 DEF PEq
  <2>3. PEq(h, m)
    BY <2>2, <1>2, <1>4 DEF PEq
  <2>. QED  BY <2>3, <1>2
<1>. QED  BY <1>3, <1>4

(* Two prefixes agree where both are defined. *)
LEMMA PAgree ==
    ASSUME NEW m \in Nat, NEW n \in Nat, m <= n, NEW f, NEW g,
           PEq(f, m), PEq(g, n)
    PROVE  \A k \in 0..m : f[k] = g[k]
<1> DEFINE T == {k \in 0..m : f[k] # g[k]}
<1> USE DEF T
<1>1. SUFFICES ASSUME T # {} PROVE FALSE
  OBVIOUS
<1>2. PICK k \in T : \A i \in T : k <= i
  <2>1. T \in SUBSET Nat
    OBVIOUS
  <2>. QED  BY <1>1, <2>1, NatMin
<1>3. f[k] = IF k = 0 THEN 1 ELSE 2 * f[k - 1]
  BY DEF PEq
<1>4. g[k] = IF k = 0 THEN 1 ELSE 2 * g[k - 1]
  BY DEF PEq
<1>5. k # 0 => f[k - 1] = g[k - 1]
  <2>1. k # 0 => k - 1 \in 0..m /\ ~(k <= k - 1)
    BY <1>2
  <2>. QED  BY <2>1, <1>2
<1>. QED  BY <1>2, <1>3, <1>4, <1>5

(* Pow2 satisfies its recursion: Pow2[0] = 1 and Pow2[n] = 2 * Pow2[n-1]. *)
LEMMA Pow2Rec ==
    Pow2 = [n \in Nat |-> IF n = 0 THEN 1 ELSE 2 * Pow2[n - 1]]
<1>0. PICK F : F = [n \in Nat |-> (CHOOSE g : PEq(g, n))[n]]
  OBVIOUS
<1>1. \A n \in Nat : PEq(CHOOSE g : PEq(g, n), n)
  BY PExists
<1>2. \A n \in Nat : F[n] = IF n = 0 THEN 1 ELSE 2 * F[n - 1]
  <2>1. SUFFICES ASSUME NEW n \in Nat
                 PROVE  F[n] = IF n = 0 THEN 1 ELSE 2 * F[n - 1]
    OBVIOUS
  <2>2. PICK gn : gn = CHOOSE g : PEq(g, n)
    OBVIOUS
  <2>3. PEq(gn, n)
    BY <1>1, <2>2
  <2>4. F[n] = gn[n]
    BY <2>2, <1>0
  <2>5. CASE n = 0
    BY <2>3, <2>4, <2>5 DEF PEq
  <2>6. CASE n # 0
    <3>1. n - 1 \in Nat
      BY <2>6
    <3>2. PICK gm : gm = CHOOSE g : PEq(g, n - 1)
      OBVIOUS
    <3>3. PEq(gm, n - 1)
      BY <1>1, <3>1, <3>2
    <3>4. F[n - 1] = gm[n - 1]
      BY <3>1, <3>2, <1>0
    <3>5. gn[n] = 2 * gn[n - 1]
      BY <2>3, <2>6 DEF PEq
    <3>6. gn[n - 1] = gm[n - 1]
      BY <2>3, <3>3, <3>1, PAgree
    <3>. QED  BY <2>4, <2>6, <3>4, <3>5, <3>6
  <2>. QED  BY <2>5, <2>6
<1>3. F = [n \in Nat |-> IF n = 0 THEN 1 ELSE 2 * F[n - 1]]
  <2>1. F = [n \in Nat |-> F[n]]
    BY <1>0
  <2>. QED  BY <1>2, <2>1
<1>. QED  BY <1>3, Pow2Def

(* The powers of two used here: 2^n is positive, it is 1, 2, 4, 8, 16, 32 *)
(* up to n = 5, and a multiple of 32 from there on.                       *)
LEMMA Pow2Facts ==
    ASSUME NEW n \in Nat
    PROVE  /\ Pow2[n] \in Nat \ {0}
           /\ n # 0 => Pow2[n] >= 2
           /\ n <= 5 => Pow2[n] = << 1, 2, 4, 8, 16, 32 >>[n + 1]
           /\ n >= 5 => Pow2[n] % 32 = 0
<1> DEFINE Ok(k) == /\ Pow2[k] \in Nat \ {0}
                    /\ k # 0 => Pow2[k] >= 2
                    /\ k <= 5 => Pow2[k] = << 1, 2, 4, 8, 16, 32 >>[k + 1]
                    /\ k >= 5 => Pow2[k] % 32 = 0
           T == {k \in 0..n : ~Ok(k)}
<1> USE DEF T
<1>1. SUFFICES ASSUME ~Ok(n) PROVE FALSE
  OBVIOUS
<1>2. PICK k \in T : \A i \in T : k <= i
  <2>1. n \in T /\ T \in SUBSET Nat
    BY <1>1
  <2>. QED  BY <2>1, NatMin
<1>3. Pow2[k] = IF k = 0 THEN 1 ELSE 2 * Pow2[k - 1]
  BY <1>2, Pow2Rec
<1>4. k # 0 => Ok(k - 1)
  <2>1. k # 0 => k - 1 \in 0..n /\ ~(k <= k - 1)
    BY <1>2
  <2>. QED  BY <2>1, <1>2
<1>5. CASE k = 0
  BY <1>2, <1>3, <1>5
<1>6. CASE k # 0
  <2>1. Pow2[k - 1] \in Nat \ {0}
        /\ (k - 1 <= 5 => Pow2[k - 1] = << 1, 2, 4, 8, 16, 32 >>[k])
        /\ (k - 1 >= 5 => Pow2[k - 1] % 32 = 0)
    BY <1>4, <1>6
  <2>2. Pow2[k] = 2 * Pow2[k - 1]
    BY <1>3, <1>6
  <2>. QED  BY <1>2, <1>6, <2>1, <2>2
<1>. QED  BY <1>5, <1>6

(* The word size U: a multiple of 32 from width 5 on, and at least 2. *)
LEMMA UFacts ==
    /\ U \in Nat /\ U >= 2
    /\ W >= 5 => U % 32 = 0
    /\ W < 5 => U <= 16
BY Pow2Facts DEF U

(* acc holds the partial sums of SafeSum's chain of math.SafeAdd calls   *)
(* over the first n terms: the fixed point SafeSum's LET defines.        *)
AccEq(ts, acc, n) ==
    acc = [i \in 0..n |->
             IF i = 0 THEN [v |-> 0, ovf |-> FALSE]
             ELSE IF acc[i - 1].ovf \/ ts[i].ovf THEN [v |-> 0, ovf |-> TRUE]
             ELSE [v |-> (acc[i - 1].v + ts[i].v) % U,
                   ovf |-> acc[i - 1].v + ts[i].v >= U]]

(* SafeSum is the last partial sum of the chain chosen by its LET. *)
LEMMA SafeSumDef ==
    ASSUME NEW ts
    PROVE  SafeSum(ts) = (CHOOSE acc : AccEq(ts, acc, Len(ts)))[Len(ts)]
BY DEF SafeSum, AccEq

(* The chain of partial sums exists for any number of terms. *)
LEMMA AccExists ==
    ASSUME NEW ts, NEW n \in Nat
    PROVE  \E acc : AccEq(ts, acc, n)
<1> DEFINE T == {m \in 0..n : ~\E acc : AccEq(ts, acc, m)}
<1> USE DEF T
<1>1. SUFFICES ASSUME ~\E acc : AccEq(ts, acc, n) PROVE FALSE
  OBVIOUS
<1>2. PICK m \in T : \A k \in T : m <= k
  <2>1. n \in T /\ T \in SUBSET Nat
    BY <1>1
  <2>. QED  BY <2>1, NatMin
<1>3. CASE m = 0
  <2>1. AccEq(ts, [i \in 0..0 |-> [v |-> 0, ovf |-> FALSE]], 0)
    BY DEF AccEq
  <2>. QED  BY <2>1, <1>2, <1>3
<1>4. CASE m # 0
  <2>1. PICK g : AccEq(ts, g, m - 1)
    <3>1. m - 1 \in 0..n /\ ~(m <= m - 1)
      BY <1>2, <1>4
    <3>. QED  BY <3>1, <1>2
  <2> DEFINE Add(a, t) ==
               IF a.ovf \/ t.ovf THEN [v |-> 0, ovf |-> TRUE]
               ELSE [v |-> (a.v + t.v) % U, ovf |-> a.v + t.v >= U]
             h == [i \in 0..m |-> IF i < m THEN g[i] ELSE Add(g[m - 1], ts[m])]
  <2> USE DEF h
  <2>2. \A i \in 0..(m - 1) :
          g[i] = IF i = 0 THEN [v |-> 0, ovf |-> FALSE]
                 ELSE Add(g[i - 1], ts[i])
    BY <2>1, <1>2, <1>4 DEF AccEq, Add
  <2>3. \A i \in 0..m :
          h[i] = IF i = 0 THEN [v |-> 0, ovf |-> FALSE]
                 ELSE Add(h[i - 1], ts[i])
    <3>1. SUFFICES ASSUME NEW i \in 0..m
                   PROVE  h[i] = IF i = 0 THEN [v |-> 0, ovf |-> FALSE]
                                 ELSE Add(h[i - 1], ts[i])
      OBVIOUS
    <3>2. m \in Nat \ {0}
      BY <1>2, <1>4
    <3>3. CASE i < m
      <4>1. h[i] = g[i] /\ (i # 0 => h[i - 1] = g[i - 1])
        BY <3>2, <3>3
      <4>2. i \in 0..(m - 1)
        BY <3>2, <3>3
      <4>. QED  BY <4>1, <4>2, <2>2, Zenon
    <3>4. CASE i = m
      <4>1. h[i] = Add(g[m - 1], ts[m]) /\ h[i - 1] = g[m - 1]
        BY <3>2, <3>4
      <4>2. i # 0
        BY <3>2, <3>4
      <4>. QED  BY <4>1, <4>2, <3>4, Zenon
    <3>5. i < m \/ i = m
      BY <3>2
    <3>. QED  BY <3>3, <3>4, <3>5
  <2>4. AccEq(ts, h, m)
    BY <2>3 DEF AccEq, Add
  <2>. QED  BY <2>4, <1>2
<1>. QED  BY <1>3, <1>4

(* Over terms of integer value, every partial sum is a uint64 value, and *)
(* once a term has overflowed every later partial sum reports overflow.   *)
LEMMA AccProps ==
    ASSUME NEW ts, NEW n \in Nat, NEW acc, AccEq(ts, acc, n),
           \A i \in 1..n : ts[i].v \in Int /\ ts[i].ovf \in BOOLEAN
    PROVE  \A i \in 0..n : /\ acc[i].v \in 0..(U - 1)
                           /\ acc[i].ovf \in BOOLEAN
                           /\ \A j \in 1..i : ts[j].ovf => acc[i].ovf
<1> DEFINE Ok(i) == /\ acc[i].v \in 0..(U - 1)
                    /\ acc[i].ovf \in BOOLEAN
                    /\ \A j \in 1..i : ts[j].ovf => acc[i].ovf
           T == {i \in 0..n : ~Ok(i)}
<1> USE DEF T, Ok
<1>1. SUFFICES ASSUME T # {} PROVE FALSE
  OBVIOUS
<1>2. PICK i \in T : \A k \in T : i <= k
  <2>1. T \in SUBSET Nat
    OBVIOUS
  <2>. QED  BY <1>1, <2>1, NatMin
<1>3. U \in Nat /\ U >= 2
  BY UFacts
<1>4. acc[i] = IF i = 0 THEN [v |-> 0, ovf |-> FALSE]
               ELSE IF acc[i - 1].ovf \/ ts[i].ovf THEN [v |-> 0, ovf |-> TRUE]
               ELSE [v |-> (acc[i - 1].v + ts[i].v) % U,
                     ovf |-> acc[i - 1].v + ts[i].v >= U]
  BY <1>2 DEF AccEq
<1>5. CASE i = 0
  <2>1. acc[i].v = 0 /\ acc[i].ovf = FALSE
    BY <1>4, <1>5
  <2>2. 0 \in 0..(U - 1) /\ 1..i = {}
    BY <1>3, <1>5
  <2>3. Ok(i)
    BY <2>1, <2>2, Zenon
  <2>. QED  BY <2>3, <1>2
<1>6. CASE i # 0
  <2>1. Ok(i - 1)
    <3>1. i - 1 \in 0..n /\ ~(i <= i - 1)
      BY <1>2, <1>6
    <3>. QED  BY <3>1, <1>2
  <2>2. i \in 1..n
    BY <1>2, <1>6
  <2>3. CASE acc[i - 1].ovf \/ ts[i].ovf
    <3>1. acc[i].v = 0 /\ acc[i].ovf = TRUE
      BY <1>4, <1>6, <2>3
    <3>2. 0 \in 0..(U - 1)
      BY <1>3
    <3>3. Ok(i)
      BY <3>1, <3>2, Zenon
    <3>. QED  BY <3>3, <1>2
  <2>4. CASE ~(acc[i - 1].ovf \/ ts[i].ovf)
    <3> DEFINE x == acc[i - 1].v + ts[i].v
    <3>1. x \in Int
      BY <2>1, <2>2
    <3>2. acc[i].v = x % U /\ acc[i].ovf = (x >= U)
      BY <1>4, <1>6, <2>4
    <3>3. x % U \in 0..(U - 1)
      BY <3>1, <1>3
    <3>4. \A j \in 1..i : ~ts[j].ovf
      <4>1. \A j \in 1..(i - 1) : ~ts[j].ovf
        BY <2>1, <2>4
      <4>. QED  BY <4>1, <2>4, <2>2
    <3>5. Ok(i)
      BY <3>2, <3>3, <3>4
    <3>. QED  BY <3>5, <1>2
  <2>. QED  BY <2>3, <2>4
<1>. QED  BY <1>5, <1>6

(* SafeSum over terms of integer value returns a uint64 value and an     *)
(* overflow flag, and reports overflow when any term has overflowed.     *)
LEMMA SafeSumFacts ==
    ASSUME NEW ts, Len(ts) \in Nat,
           \A i \in 1..Len(ts) : ts[i].v \in Int /\ ts[i].ovf \in BOOLEAN
    PROVE  /\ SafeSum(ts).v \in 0..(U - 1)
           /\ SafeSum(ts).ovf \in BOOLEAN
           /\ \A j \in 1..Len(ts) : ts[j].ovf => SafeSum(ts).ovf
<1>1. PICK acc : acc = CHOOSE a : AccEq(ts, a, Len(ts))
  OBVIOUS
<1>2. AccEq(ts, acc, Len(ts))
  <2>1. \E a : AccEq(ts, a, Len(ts))
    BY AccExists
  <2>. QED  BY <2>1, <1>1
<1>3. SafeSum(ts) = acc[Len(ts)]
  BY <1>1, SafeSumDef
<1>4. Len(ts) \in 0..Len(ts)
  OBVIOUS
<1>5. /\ acc[Len(ts)].v \in 0..(U - 1)
      /\ acc[Len(ts)].ovf \in BOOLEAN
      /\ \A j \in 1..Len(ts) : ts[j].ovf => acc[Len(ts)].ovf
  <2>1. \A i \in 0..Len(ts) :
          /\ acc[i].v \in 0..(U - 1)
          /\ acc[i].ovf \in BOOLEAN
          /\ \A j \in 1..i : ts[j].ovf => acc[i].ovf
    BY <1>2, AccProps
  <2>. QED  BY <2>1, <1>4
<1>. QED  BY <1>3, <1>5

(* The memory size after a step that does not halt: the interpreter       *)
(* resizes the memory to ms when ms is larger.                             *)
NewLen(ms) == IF ms > memLen THEN ms ELSE memLen

(* What the interpreter needs of a gas function's result r for a step     *)
(* that resizes to ms: uint64 gas and fee, a natural refund, and, unless  *)
(* r is an error, a mem.lastGasCost that is the fee of the new memory.    *)
GoodResult(r, ms) ==
    /\ r.gas \in 0..(U - 1)
    /\ r.err \in BOOLEAN
    /\ r.last \in 0..(U - 1)
    /\ r.refund \in Nat
    /\ ~r.err => r.last = TotalFee(NewLen(ms) \div 32)

(* The params constants and gas table entries are naturals. *)
LEMMA ParamsNat ==
    /\ \A f \in ParamNames : P[f] \in Nat
    /\ \A f \in GasTableNames : Gt[f] \in Nat
    /\ P.MemoryGas \in Nat /\ P.QuadCoeffDiv \in Nat \ {0}
    /\ P.CopyGas \in Nat /\ P.Sha3Gas \in Nat /\ P.Sha3WordGas \in Nat
    /\ P.LogGas \in Nat /\ P.LogTopicGas \in Nat /\ P.LogDataGas \in Nat
    /\ P.CreateGas \in Nat /\ P.Create2Gas \in Nat
    /\ P.CallNewAccountGas \in Nat /\ P.CallValueTransferGas \in Nat
    /\ P.SstoreSetGas \in Nat /\ P.SstoreResetGas \in Nat
    /\ P.SstoreClearGas \in Nat /\ P.SstoreRefundGas \in Nat
    /\ P.SuicideRefundGas \in Nat /\ P.FastestStep \in Nat
    /\ P.SlowStep \in Nat
    /\ Gt.ExtcodeSize \in Nat /\ Gt.ExtcodeCopy \in Nat
    /\ Gt.ExtcodeHash \in Nat /\ Gt.Balance \in Nat /\ Gt.SLoad \in Nat
    /\ Gt.Calls \in Nat /\ Gt.Suicide \in Nat /\ Gt.ExpByte \in Nat
    /\ Gt.CreateBySuicide \in Nat
BY DEF ParamNames, GasTableNames

(* The fee formula yields a uint64 value. *)
LEMMA TotalFeeType ==
    ASSUME NEW w \in Int
    PROVE  TotalFee(w) \in 0..(U - 1)
<1>1. U \in Nat /\ U >= 2 /\ P.MemoryGas \in Nat /\ P.QuadCoeffDiv \in Nat \ {0}
  BY UFacts, ParamsNat
<1>. QED  BY <1>1 DEF TotalFee

(* A word-aligned memory size below 2^W that is not 0 is at most         *)
(* 2^W - 32, so ToWordSize takes its (size + 31) / 32 branch.             *)
LEMMA AlignedWords ==
    ASSUME NEW ms \in MemSizes, ms # 0
    PROVE  /\ ToWordSize(ms) = ms \div 32
           /\ (ToWordSize(ms) * 32) % U = ms
<1>1. ms \in Nat /\ ms < U /\ ms % 32 = 0
  OBVIOUS
<1>2. U \in Nat /\ U >= 2 /\ (W >= 5 => U % 32 = 0) /\ (W < 5 => U <= 16)
  BY UFacts
<1>3. U % 32 = 0
  BY <1>1, <1>2
<1>4. ms <= U - 32
  BY <1>1, <1>2, <1>3
<1>5. ToWordSize(ms) = ms \div 32
  <2>1. ~(ms > U - 1 - 31)
    BY <1>4, <1>2
  <2>2. (ms + 31) \div 32 = ms \div 32
    BY <1>1
  <2>. QED  BY <2>1, <2>2 DEF ToWordSize
<1>6. (ms \div 32) * 32 = ms
  BY <1>1
<1>. QED  BY <1>1, <1>2, <1>5, <1>6

(* memoryGasCost on a running frame whose mem.lastGasCost is the fee of  *)
(* its memory: a uint64 fee and, unless it fails, the fee of the memory   *)
(* after the interpreter's resize as the new mem.lastGasCost.             *)
LEMMA MemFee ==
    ASSUME TypeOK, ~halted, MemoryCostTracksSize, NEW ms \in MemSizes
    PROVE  /\ memoryGasCost(ms).v \in Int
           /\ memoryGasCost(ms).ovf \in BOOLEAN
           /\ memoryGasCost(ms).last \in 0..(U - 1)
           /\ ~memoryGasCost(ms).ovf =>
                 memoryGasCost(ms).last = TotalFee(NewLen(ms) \div 32)
<1>1. U \in Nat /\ U >= 2
  BY UFacts
<1>2. lastGasCost = TotalFee(memLen \div 32) /\ memLen \in Nat
      /\ lastGasCost \in 0..(U - 1)
  BY <1>1 DEF MemoryCostTracksSize, TypeOK
<1>3. ms \in Nat
  OBVIOUS
<1>4. CASE ms = 0
  <2>1. memoryGasCost(ms) = [v |-> 0, ovf |-> FALSE, last |-> lastGasCost]
    BY <1>4 DEF memoryGasCost
  <2>2. NewLen(ms) = memLen
    BY <1>2, <1>4 DEF NewLen
  <2>. QED  BY <2>1, <2>2, <1>2
<1>5. CASE ms # 0 /\ ms > MemBound
  <2>1. memoryGasCost(ms) = [v |-> 0, ovf |-> TRUE, last |-> lastGasCost]
    BY <1>5 DEF memoryGasCost
  <2>. QED  BY <2>1, <1>2
<1>6. CASE ms # 0 /\ ~(ms > MemBound)
  <2>1. ToWordSize(ms) = ms \div 32 /\ (ToWordSize(ms) * 32) % U = ms
    BY <1>6, AlignedWords
  <2>2. TotalFee(ms \div 32) \in 0..(U - 1)
    BY <1>3, TotalFeeType
  <2>3. CASE ms > memLen
    <3>1. memoryGasCost(ms) =
            [v |-> (TotalFee(ms \div 32) - lastGasCost) % U, ovf |-> FALSE,
             last |-> TotalFee(ms \div 32)]
      BY <1>6, <2>1, <2>3 DEF memoryGasCost
    <3>2. NewLen(ms) = ms
      BY <2>3 DEF NewLen
    <3>3. (TotalFee(ms \div 32) - lastGasCost) % U \in Int
      BY <1>1, <1>2, <2>2
    <3>. QED  BY <3>1, <3>2, <3>3, <2>2
  <2>4. CASE ~(ms > memLen)
    <3>1. memoryGasCost(ms) = [v |-> 0, ovf |-> FALSE, last |-> lastGasCost]
      BY <1>6, <2>1, <2>4 DEF memoryGasCost
    <3>2. NewLen(ms) = memLen
      BY <2>4 DEF NewLen
    <3>. QED  BY <3>1, <3>2, <1>2
  <2>. QED  BY <2>3, <2>4
<1>. QED  BY <1>4, <1>5, <1>6

(* A term of a gas sum: an integer value and an overflow flag. *)
TermOK(t) == t.v \in Int /\ t.ovf \in BOOLEAN

(* The terms the gas functions build are well formed. *)
LEMMA TermsOK ==
    /\ \A x \in Int : TermOK(Val(x)) /\ TermOK(BigUint64(x))
    /\ \A x, y \in Int : TermOK(SafeMul(x, y))
    /\ \A arg, per \in Nat : TermOK(WordsTerm(arg, per))
<1>1. U \in Nat /\ U >= 2
  BY UFacts
<1>2. ASSUME NEW a \in Int, NEW b \in Int
      PROVE  TermOK(SafeMul(a, b))
  <2>1. SafeMul(a, b).v = (a * b) % U /\ SafeMul(a, b).ovf = (a * b >= U)
    BY Zenon DEF SafeMul
  <2>2. (a * b) % U \in Int
    BY <1>1
  <2>3. (a * b >= U) \in BOOLEAN
    OBVIOUS
  <2>. QED  BY <2>1, <2>2, <2>3, Zenon DEF TermOK
<1>3. ASSUME NEW a \in Int
      PROVE  TermOK(BigUint64(a)) /\ TermOK(Val(a))
  <2>1. BigUint64(a).v = a % U /\ BigUint64(a).ovf = (a >= U)
    BY Zenon DEF BigUint64
  <2>2. a % U \in Int
    BY <1>1
  <2>3. (a >= U) \in BOOLEAN
    OBVIOUS
  <2>4. TermOK(Val(a))
    BY DEF TermOK, Val
  <2>. QED  BY <2>1, <2>2, <2>3, <2>4, Zenon DEF TermOK
<1>4. ASSUME NEW arg \in Nat, NEW per \in Nat
      PROVE  TermOK(WordsTerm(arg, per))
  <2>1. BigUint64(arg).v = arg % U /\ BigUint64(arg).ovf = (arg >= U)
    BY Zenon DEF BigUint64
  <2>2. ToWordSize(arg % U) \in Int
    BY <1>1 DEF ToWordSize
  <2>3. CASE arg >= U
    <3>1. WordsTerm(arg, per) = BigUint64(arg)
      BY <2>1, <2>3, Zenon DEF WordsTerm
    <3>. QED  BY <3>1, <1>3
  <2>4. CASE ~(arg >= U)
    <3>1. WordsTerm(arg, per) = SafeMul(ToWordSize(arg % U), per)
      BY <2>1, <2>4, Zenon DEF WordsTerm
    <3>. QED  BY <3>1, <2>2, <1>2
  <2>. QED  BY <2>3, <2>4
<1>. QED  BY <1>2, <1>3, <1>4

(* A gas function that charges memoryGasCost(ms) as its i-th term gives  *)
(* the interpreter a good result for a resize to ms.                       *)
LEMMA MemResultGood ==
    ASSUME TypeOK, ~halted, MemoryCostTracksSize, NEW ms \in MemSizes,
           NEW ts, Len(ts) \in Nat, \A j \in 1..Len(ts) : TermOK(ts[j]),
           NEW i \in 1..Len(ts), ts[i] = memoryGasCost(ms), NEW exact
    PROVE  GoodResult(Result(memoryGasCost(ms), ts, exact, 0), ms)
<1>1. /\ SafeSum(ts).v \in 0..(U - 1)
      /\ SafeSum(ts).ovf \in BOOLEAN
      /\ \A j \in 1..Len(ts) : ts[j].ovf => SafeSum(ts).ovf
  BY SafeSumFacts DEF TermOK
<1>2. Result(memoryGasCost(ms), ts, exact, 0) =
        [gas |-> SafeSum(ts).v, err |-> SafeSum(ts).ovf,
         last |-> memoryGasCost(ms).last, refund |-> 0, exact |-> exact]
  BY DEF Result
<1>3. ~SafeSum(ts).ovf => ~memoryGasCost(ms).ovf
  BY <1>1
<1>. QED  BY <1>1, <1>2, <1>3, MemFee DEF GoodResult

(* A gas function that does not touch memory, run with no resize, gives  *)
(* the interpreter a good result.                                         *)
LEMMA NoMemResultGood ==
    ASSUME TypeOK, ~halted, MemoryCostTracksSize,
           NEW ts, Len(ts) \in Nat, \A j \in 1..Len(ts) : TermOK(ts[j]),
           NEW exact, NEW rf \in Nat
    PROVE  GoodResult(Result(NoMem, ts, exact, rf), 0)
<1>1. /\ SafeSum(ts).v \in 0..(U - 1)
      /\ SafeSum(ts).ovf \in BOOLEAN
  BY SafeSumFacts DEF TermOK
<1>2. U \in Nat
  BY UFacts
<1>3. lastGasCost = TotalFee(memLen \div 32) /\ memLen \in Nat
      /\ lastGasCost \in 0..(U - 1)
  BY <1>2 DEF MemoryCostTracksSize, TypeOK
<1>4. NewLen(0) = memLen
  BY <1>3 DEF NewLen
<1>. QED  BY <1>1, <1>3, <1>4 DEF Result, NoMem, GoodResult

(* The inductive invariant: the type, and mem.lastGasCost the fee of the *)
(* memory while the frame runs.                                           *)
IInv == TypeOK /\ MemoryCostTracksSize

(* The interpreter step keeps IInv for every good result: it halts, or   *)
(* deducts uint64 gas it has and resizes the memory the fee was paid for. *)
LEMMA StepKeeps ==
    ASSUME IInv, NEW r, NEW ms \in Nat, ms < U, GoodResult(r, ms), Step(r, ms)
    PROVE  IInv'
<1>1. U \in Nat
  BY UFacts
<1>2. /\ steps' \in 0..MaxSteps
      /\ last'.gas \in Nat /\ last'.gas < U /\ last'.err \in BOOLEAN
      /\ lastGasCost' \in Nat /\ lastGasCost' < U
  BY <1>1 DEF IInv, TypeOK, Step, GoodResult
<1>3. CASE r.err \/ r.gas > gas
  <2>1. halted' = TRUE /\ UNCHANGED << gas, memLen, refund >>
    BY <1>3 DEF Step
  <2>. QED  BY <1>2, <2>1 DEF IInv, TypeOK, MemoryCostTracksSize
<1>4. CASE ~(r.err \/ r.gas > gas)
  <2>1. /\ gas' = gas - r.gas
        /\ memLen' = NewLen(ms)
        /\ refund' = refund + r.refund
        /\ halted' = halted
        /\ lastGasCost' = r.last
    BY <1>4 DEF Step, NewLen
  <2>2. r.last = TotalFee(NewLen(ms) \div 32)
    BY <1>4 DEF GoodResult
  <2>3. NewLen(ms) \in Nat /\ NewLen(ms) < U
    BY DEF IInv, TypeOK, NewLen
  <2>. QED  BY <1>1, <1>2, <1>4, <2>1, <2>2, <2>3
            DEF IInv, TypeOK, MemoryCostTracksSize, GoodResult
<1>. QED  BY <1>3, <1>4

(* The copy and hash shape: memory first, then base, then the per-word   *)
(* cost of a stack length.                                                *)
LEMMA CopyGood ==
    ASSUME TypeOK, ~halted, MemoryCostTracksSize, NEW ms \in MemSizes,
           NEW base \in Nat, NEW per \in Nat, NEW arg \in Nat
    PROVE  GoodResult(CopyGas(ms, base, per, arg), ms)
<1> DEFINE m == memoryGasCost(ms)
           ts == << m, Val(base), WordsTerm(arg, per) >>
<1>1. TermOK(m)
  BY MemFee DEF TermOK
<1>2. TermOK(Val(base)) /\ TermOK(WordsTerm(arg, per))
  BY TermsOK
<1>3. Len(ts) = 3 /\ ts[1] = m /\ ts[2] = Val(base)
      /\ ts[3] = WordsTerm(arg, per)
  OBVIOUS
<1>4. \A j \in 1..Len(ts) : TermOK(ts[j])
  BY <1>1, <1>2, <1>3
<1>5. 1 \in 1..Len(ts) /\ Len(ts) \in Nat /\ ts[1] = memoryGasCost(ms)
  BY <1>3
<1>6. GoodResult(Result(memoryGasCost(ms), ts, m.v + base + Words(arg) * per, 0), ms)
  BY <1>4, <1>5, MemResultGood
<1>. QED  BY <1>6 DEF CopyGas

(* The memory-only shape: memory, then a constant. *)
LEMMA MemGasGood ==
    ASSUME TypeOK, ~halted, MemoryCostTracksSize, NEW ms \in MemSizes,
           NEW c \in Nat
    PROVE  GoodResult(MemGas(ms, c), ms)
<1> DEFINE m == memoryGasCost(ms)
           ts == << m, Val(c) >>
<1>1. TermOK(m)
  BY MemFee DEF TermOK
<1>2. TermOK(Val(c))
  BY TermsOK
<1>3. Len(ts) = 2 /\ ts[1] = m /\ ts[2] = Val(c)
  OBVIOUS
<1>4. \A j \in 1..Len(ts) : TermOK(ts[j])
  BY <1>1, <1>2, <1>3
<1>5. 1 \in 1..Len(ts) /\ Len(ts) \in Nat /\ ts[1] = memoryGasCost(ms)
  BY <1>3
<1>6. GoodResult(Result(memoryGasCost(ms), ts, m.v + c, 0), ms)
  BY <1>4, <1>5, MemResultGood
<1>. QED  BY <1>6 DEF MemGas

(* The fields of a gas function's result. *)
LEMMA ResultFields ==
    \A m, ts, ex, rf :
       /\ Result(m, ts, ex, rf).gas = SafeSum(ts).v
       /\ Result(m, ts, ex, rf).err = SafeSum(ts).ovf
       /\ Result(m, ts, ex, rf).last = m.last
       /\ Result(m, ts, ex, rf).refund = rf
       /\ Result(m, ts, ex, rf).exact = ex
BY Zenon DEF Result

(* A gas function one of whose terms has overflowed returns an error,   *)
(* whatever memory size the interpreter would have resized to.           *)
LEMMA ErrResultGood ==
    ASSUME NEW ts, Len(ts) \in Nat, \A j \in 1..Len(ts) : TermOK(ts[j]),
           NEW i \in 1..Len(ts), ts[i].ovf,
           NEW m, m.last \in 0..(U - 1), NEW ex, NEW rf \in Nat, NEW ms
    PROVE  GoodResult(Result(m, ts, ex, rf), ms)
<1>1. SafeSum(ts).ovf /\ SafeSum(ts).v \in 0..(U - 1)
  BY SafeSumFacts DEF TermOK
<1>2. /\ Result(m, ts, ex, rf).gas = SafeSum(ts).v
      /\ Result(m, ts, ex, rf).err = SafeSum(ts).ovf
      /\ Result(m, ts, ex, rf).last = m.last
      /\ Result(m, ts, ex, rf).refund = rf
  BY ResultFields
<1>. QED  BY <1>1, <1>2 DEF GoodResult

(* makeGasLog: when the size on the stack overflows, the first term      *)
(* fails the sum before the memory fee is taken; otherwise the memory is  *)
(* the second term.                                                        *)
LEMMA LogGood ==
    ASSUME TypeOK, ~halted, MemoryCostTracksSize, NEW ms \in MemSizes,
           NEW n \in 0..4, NEW size \in Nat
    PROVE  GoodResult(makeGasLog(n, ms, size), ms)
<1> DEFINE sz == BigUint64(size)
           sz0 == [v |-> 0, ovf |-> size >= U]
<1>1. U \in Nat /\ U >= 2 /\ P.LogGas \in Nat /\ P.LogTopicGas \in Nat
      /\ P.LogDataGas \in Nat
  BY UFacts, ParamsNat
<1>2. sz = [v |-> size % U, ovf |-> size >= U]
  BY DEF BigUint64
<1>3. [sz EXCEPT !.v = 0] = sz0
  BY <1>2
<1>4. /\ TermOK(sz0)
      /\ TermOK(Val(P.LogGas))
      /\ TermOK(Val((n * P.LogTopicGas) % U))
      /\ TermOK(sz)
      /\ TermOK(SafeMul(sz.v, P.LogDataGas))
  <2>1. TermOK(sz) /\ TermOK(SafeMul(sz.v, P.LogDataGas))
        /\ TermOK(Val(P.LogGas)) /\ TermOK(Val((n * P.LogTopicGas) % U))
    BY <1>1, <1>2, TermsOK
  <2>2. sz0.v = 0 /\ sz0.ovf = (size >= U)
    BY Zenon
  <2>3. (size >= U) \in BOOLEAN
    OBVIOUS
  <2>. QED  BY <2>1, <2>2, <2>3 DEF TermOK
<1>5. CASE sz.ovf
  <2> DEFINE ts == << sz0, NoMem, Val(P.LogGas),
                      Val((n * P.LogTopicGas) % U), sz >>
  <2>1. Len(ts) = 5 /\ 1 \in 1..Len(ts) /\ ts[1].ovf
    BY <1>2, <1>5
  <2>2. TermOK(NoMem)
    BY DEF NoMem, TermOK
  <2>3. \A j \in 1..Len(ts) : TermOK(ts[j])
    <3>1. 1..Len(ts) = {1, 2, 3, 4, 5}
      BY <2>1
    <3>2. /\ ts[1] = sz0 /\ ts[2] = NoMem /\ ts[3] = Val(P.LogGas)
          /\ ts[4] = Val((n * P.LogTopicGas) % U) /\ ts[5] = sz
      OBVIOUS
    <3>. QED  BY <1>4, <2>2, <3>1, <3>2, Zenon
  <2>4. makeGasLog(n, ms, size) =
          Result(NoMem, ts, NoMem.v + P.LogGas + n * P.LogTopicGas
                            + size * P.LogDataGas, 0)
    BY <1>3, <1>5 DEF makeGasLog
  <2>5. NoMem.last \in 0..(U - 1)
    BY <1>1 DEF NoMem, TypeOK
  <2>. QED  BY <2>1, <2>3, <2>4, <2>5, ErrResultGood
<1>6. CASE ~sz.ovf
  <2> DEFINE ts == << sz0, memoryGasCost(ms), Val(P.LogGas),
                      Val((n * P.LogTopicGas) % U),
                      SafeMul(sz.v, P.LogDataGas) >>
  <2>1. Len(ts) = 5 /\ 2 \in 1..Len(ts) /\ ts[2] = memoryGasCost(ms)
    OBVIOUS
  <2>2. TermOK(memoryGasCost(ms))
    BY MemFee DEF TermOK
  <2>3. \A j \in 1..Len(ts) : TermOK(ts[j])
    <3>1. 1..Len(ts) = {1, 2, 3, 4, 5}
      BY <2>1
    <3>2. /\ ts[1] = sz0 /\ ts[2] = memoryGasCost(ms) /\ ts[3] = Val(P.LogGas)
          /\ ts[4] = Val((n * P.LogTopicGas) % U)
          /\ ts[5] = SafeMul(sz.v, P.LogDataGas)
      OBVIOUS
    <3>. QED  BY <1>4, <2>2, <3>1, <3>2, Zenon
  <2>4. makeGasLog(n, ms, size) =
          Result(memoryGasCost(ms), ts,
                 memoryGasCost(ms).v + P.LogGas + n * P.LogTopicGas
                   + size * P.LogDataGas, 0)
    BY <1>3, <1>6 DEF makeGasLog
  <2>. QED  BY <2>1, <2>3, <2>4, MemResultGood
<1>. QED  BY <1>5, <1>6

(* The call family: base, then memory, then the callee's gas (or the     *)
(* error of callGas).                                                     *)
LEMMA CallGood ==
    ASSUME TypeOK, ~halted, MemoryCostTracksSize, NEW ms \in MemSizes,
           NEW base \in Nat, NEW exactBase, NEW cgt \in CallGasTemps
    PROVE  GoodResult(CallFamily(ms, base, exactBase, cgt), ms)
<1>0. PICK cg : cg = IF cgt = CallGasErr THEN [v |-> 0, ovf |-> TRUE]
                                         ELSE Val(cgt)
  OBVIOUS
<1> DEFINE ts == << Val(base), memoryGasCost(ms), cg >>
<1>1. TermOK(cg)
  <2>1. CASE cgt = CallGasErr
    BY <1>0, <2>1 DEF TermOK
  <2>2. CASE cgt # CallGasErr
    <3>1. cgt \in Int
      BY <2>2
    <3>. QED  BY <1>0, <2>2, <3>1, TermsOK
  <2>. QED  BY <2>1, <2>2
<1>2. TermOK(Val(base)) /\ TermOK(memoryGasCost(ms))
  BY TermsOK, MemFee DEF TermOK
<1>3. Len(ts) = 3 /\ 2 \in 1..Len(ts) /\ ts[2] = memoryGasCost(ms)
  OBVIOUS
<1>4. \A j \in 1..Len(ts) : TermOK(ts[j])
  BY <1>1, <1>2, <1>3
<1>5. GoodResult(Result(memoryGasCost(ms), ts,
                        exactBase + memoryGasCost(ms).v + cgt, 0), ms)
  BY <1>3, <1>4, MemResultGood
<1>. QED  BY <1>0, <1>5 DEF CallFamily

(* The constant gas functions, with no resize. *)
LEMMA ConstGood ==
    ASSUME TypeOK, ~halted, MemoryCostTracksSize, NEW g \in Nat
    PROVE  GoodResult(constGasFunc(g), 0)
<1> DEFINE ts == << Val(g) >>
<1>1. Len(ts) = 1 /\ \A j \in 1..Len(ts) : TermOK(ts[j])
  BY TermsOK
<1>. QED  BY <1>1, NoMemResultGood DEF constGasFunc

(* gasExp: the exponent bytes, then the step cost, with no resize. *)
LEMMA ExpGood ==
    ASSUME TypeOK, ~halted, MemoryCostTracksSize, NEW e \in 0..32
    PROVE  GoodResult(gasExp(e), 0)
<1> DEFINE ts == << Val((e * Gt.ExpByte) % U), Val(P.SlowStep) >>
<1>1. U \in Nat /\ U >= 2 /\ Gt.ExpByte \in Nat /\ P.SlowStep \in Nat
  BY UFacts, ParamsNat DEF ParamNames, GasTableNames
<1>2. Len(ts) = 2 /\ \A j \in 1..Len(ts) : TermOK(ts[j])
  BY <1>1, TermsOK
<1>. QED  BY <1>2, NoMemResultGood DEF gasExp

(* Setting the refund (and the exact sum) of a good result keeps it good. *)
LEMMA ExceptGood ==
    ASSUME NEW m, NEW ts, NEW ex, NEW ms, NEW rf \in Nat, NEW ex2,
           GoodResult(Result(m, ts, ex, 0), ms)
    PROVE  /\ GoodResult([Result(m, ts, ex, 0) EXCEPT !.refund = rf], ms)
           /\ GoodResult([Result(m, ts, ex, 0) EXCEPT !.exact = ex2,
                                                     !.refund = rf], ms)
BY DEF Result, GoodResult

(* gasSStore's three cases, with no resize. *)
LEMMA SStoreGood ==
    ASSUME TypeOK, ~halted, MemoryCostTracksSize, NEW c \in BOOLEAN,
           NEW y \in BOOLEAN
    PROVE  GoodResult(gasSStore(c, y), 0)
<1>1. P.SstoreSetGas \in Nat /\ P.SstoreClearGas \in Nat
      /\ P.SstoreResetGas \in Nat /\ P.SstoreRefundGas \in Nat
  BY ParamsNat DEF ParamNames
<1>2. CASE c /\ ~y
  BY <1>1, <1>2, ConstGood DEF gasSStore
<1>3. CASE ~c /\ y
  <2>1. GoodResult(constGasFunc(P.SstoreClearGas), 0)
    BY <1>1, ConstGood
  <2>2. GoodResult([constGasFunc(P.SstoreClearGas)
                      EXCEPT !.refund = P.SstoreRefundGas], 0)
    BY <1>1, <2>1, ExceptGood DEF constGasFunc
  <2>. QED  BY <1>3, <2>2 DEF gasSStore
<1>4. CASE ~(c /\ ~y) /\ ~(~c /\ y)
  BY <1>1, <1>4, ConstGood DEF gasSStore
<1>. QED  BY <1>2, <1>3, <1>4

(* gasSuicide: the refund unless the contract already suicided. *)
LEMMA SuicideGood ==
    ASSUME TypeOK, ~halted, MemoryCostTracksSize, NEW e \in BOOLEAN,
           NEW s \in BOOLEAN
    PROVE  GoodResult(gasSuicide(e, s), 0)
<1> DEFINE g == Gt.Suicide + (IF e THEN Gt.CreateBySuicide ELSE 0)
<1>1. U \in Nat /\ U >= 2 /\ g \in Nat /\ P.SuicideRefundGas \in Nat
  BY UFacts, ParamsNat DEF ParamNames, GasTableNames
<1>2. GoodResult(constGasFunc(g % U), 0)
  BY <1>1, ConstGood
<1>3. (IF s THEN 0 ELSE P.SuicideRefundGas) \in Nat
  BY <1>1
<1>4. GoodResult([constGasFunc(g % U) EXCEPT !.exact = g,
                   !.refund = IF s THEN 0 ELSE P.SuicideRefundGas], 0)
  BY <1>2, <1>3, ExceptGood DEF constGasFunc
<1>. QED  BY <1>4 DEF gasSuicide

(* Every gas function of Next gives a good result while the frame runs. *)
LEMMA GasFunctionsGood ==
    ASSUME IInv, ~halted
    PROVE  /\ \A ms \in MemSizes, a \in StackArgs :
                /\ GoodResult(gasCallDataCopy(ms, a), ms)
                /\ GoodResult(gasReturnDataCopy(ms, a), ms)
                /\ GoodResult(gasSha3(ms, a), ms)
                /\ GoodResult(gasCodeCopy(ms, a), ms)
                /\ GoodResult(gasExtCodeCopy(ms, a), ms)
                /\ GoodResult(gasCreate2(ms, a), ms)
                /\ \A n \in 0..4 : GoodResult(makeGasLog(n, ms, a), ms)
           /\ \A ms \in MemSizes :
                /\ GoodResult(gasMLoad(ms), ms)
                /\ GoodResult(gasMStore8(ms), ms)
                /\ GoodResult(gasMStore(ms), ms)
                /\ GoodResult(gasCreate(ms), ms)
                /\ GoodResult(gasReturn(ms), ms)
                /\ GoodResult(gasRevert(ms), ms)
                /\ \A c \in CallGasTemps :
                      /\ \A t, e \in BOOLEAN : GoodResult(gasCall(ms, t, e, c), ms)
                      /\ \A t \in BOOLEAN : GoodResult(gasCallCode(ms, t, c), ms)
                      /\ GoodResult(gasDelegateCall(ms, c), ms)
                      /\ GoodResult(gasStaticCall(ms, c), ms)
           /\ \A e \in 0..32 : GoodResult(gasExp(e), 0)
           /\ \A c, y \in BOOLEAN : GoodResult(gasSStore(c, y), 0)
           /\ \A e, s \in BOOLEAN : GoodResult(gasSuicide(e, s), 0)
           /\ \A g \in ConstCosts : GoodResult(constGasFunc(g), 0)
<1>0. TypeOK /\ MemoryCostTracksSize /\ U \in Nat /\ U >= 2
  BY UFacts DEF IInv
<1>1. /\ P.FastestStep \in Nat /\ P.CopyGas \in Nat /\ P.Sha3Gas \in Nat
      /\ P.Sha3WordGas \in Nat /\ P.Create2Gas \in Nat /\ P.CreateGas \in Nat
      /\ P.CallNewAccountGas \in Nat /\ P.CallValueTransferGas \in Nat
      /\ Gt.ExtcodeCopy \in Nat /\ Gt.Calls \in Nat
      /\ ConstCosts \subseteq Nat
  BY ParamsNat DEF ParamNames, GasTableNames, ConstCosts
<1>2. ASSUME NEW ms \in MemSizes, NEW a \in StackArgs
      PROVE  /\ GoodResult(gasCallDataCopy(ms, a), ms)
             /\ GoodResult(gasReturnDataCopy(ms, a), ms)
             /\ GoodResult(gasSha3(ms, a), ms)
             /\ GoodResult(gasCodeCopy(ms, a), ms)
             /\ GoodResult(gasExtCodeCopy(ms, a), ms)
             /\ GoodResult(gasCreate2(ms, a), ms)
             /\ \A n \in 0..4 : GoodResult(makeGasLog(n, ms, a), ms)
  <2>1. a \in Nat
    OBVIOUS
  <2>. QED  BY <1>0, <1>1, <2>1, CopyGood, LogGood
            DEF gasCallDataCopy, gasReturnDataCopy, gasSha3, gasCodeCopy,
                gasExtCodeCopy, gasCreate2
<1>3. ASSUME NEW ms \in MemSizes
      PROVE  /\ GoodResult(gasMLoad(ms), ms)
             /\ GoodResult(gasMStore8(ms), ms)
             /\ GoodResult(gasMStore(ms), ms)
             /\ GoodResult(gasCreate(ms), ms)
             /\ GoodResult(gasReturn(ms), ms)
             /\ GoodResult(gasRevert(ms), ms)
  BY <1>0, <1>1, MemGasGood
  DEF gasMLoad, gasMStore8, gasMStore, gasCreate, gasReturn, gasRevert
<1>4. ASSUME NEW ms \in MemSizes, NEW c \in CallGasTemps
      PROVE  /\ \A t, e \in BOOLEAN : GoodResult(gasCall(ms, t, e, c), ms)
             /\ \A t \in BOOLEAN : GoodResult(gasCallCode(ms, t, c), ms)
             /\ GoodResult(gasDelegateCall(ms, c), ms)
             /\ GoodResult(gasStaticCall(ms, c), ms)
  <2>1. ASSUME NEW t \in BOOLEAN, NEW e \in BOOLEAN
        PROVE  GoodResult(gasCall(ms, t, e, c), ms)
    <3> DEFINE base == Gt.Calls + (IF t /\ e THEN P.CallNewAccountGas ELSE 0)
                                + (IF t THEN P.CallValueTransferGas ELSE 0)
    <3>1. base \in Nat
      <4>1. CASE t /\ e
        BY <1>1, <4>1
      <4>2. CASE ~(t /\ e)
        BY <1>1, <4>2
      <4>. QED  BY <4>1, <4>2
    <3>2. base % U \in Nat
      BY <1>0, <3>1
    <3>. QED  BY <1>0, <3>2, CallGood DEF gasCall
  <2>2. ASSUME NEW t \in BOOLEAN
        PROVE  GoodResult(gasCallCode(ms, t, c), ms)
    <3> DEFINE base == Gt.Calls + (IF t THEN P.CallValueTransferGas ELSE 0)
    <3>1. (IF t THEN P.CallValueTransferGas ELSE 0) \in Nat
      BY <1>1
    <3>2. base % U \in Nat
      BY <1>0, <1>1, <3>1
    <3>. QED  BY <1>0, <3>2, CallGood DEF gasCallCode
  <2>3. GoodResult(gasDelegateCall(ms, c), ms)
        /\ GoodResult(gasStaticCall(ms, c), ms)
    BY <1>0, <1>1, CallGood DEF gasDelegateCall, gasStaticCall
  <2>. QED  BY <2>1, <2>2, <2>3
<1>. QED  BY <1>0, <1>1, <1>2, <1>3, <1>4, ExpGood, SStoreGood, SuicideGood,
             ConstGood

(* Every step of Next keeps the inductive invariant. *)
LEMMA IInvStep ==
    IInv /\ [Next]_vars => IInv'
<1> SUFFICES ASSUME IInv, [Next]_vars PROVE IInv'
  OBVIOUS
<1>1. ASSUME NEW r, NEW ms \in Nat, ms < U, ~halted => GoodResult(r, ms),
             Step(r, ms)
      PROVE  IInv'
  BY <1>1, StepKeeps DEF Step
<1>2. \A ms \in MemSizes : ms \in Nat /\ ms < U
  OBVIOUS
<1>3. 0 \in Nat /\ 0 < U
  BY UFacts
<1>4. CASE \E ms \in MemSizes, a \in StackArgs :
          \/ Step(gasCallDataCopy(ms, a), ms)
          \/ Step(gasReturnDataCopy(ms, a), ms)
          \/ Step(gasSha3(ms, a), ms)
          \/ Step(gasCodeCopy(ms, a), ms)
          \/ Step(gasExtCodeCopy(ms, a), ms)
          \/ Step(gasCreate2(ms, a), ms)
          \/ \E n \in 0..4 : Step(makeGasLog(n, ms, a), ms)
  BY <1>1, <1>2, <1>4, GasFunctionsGood
<1>5. CASE \E ms \in MemSizes :
          \/ Step(gasMLoad(ms), ms)
          \/ Step(gasMStore8(ms), ms)
          \/ Step(gasMStore(ms), ms)
          \/ Step(gasCreate(ms), ms)
          \/ Step(gasReturn(ms), ms)
          \/ Step(gasRevert(ms), ms)
          \/ \E c \in CallGasTemps :
                \/ \E t, e \in BOOLEAN : Step(gasCall(ms, t, e, c), ms)
                \/ \E t \in BOOLEAN : Step(gasCallCode(ms, t, c), ms)
                \/ Step(gasDelegateCall(ms, c), ms)
                \/ Step(gasStaticCall(ms, c), ms)
  BY <1>1, <1>2, <1>5, GasFunctionsGood
<1>6. CASE \/ \E e \in 0..32 : Step(gasExp(e), 0)
           \/ \E c, y \in BOOLEAN : Step(gasSStore(c, y), 0)
           \/ \E e, s \in BOOLEAN : Step(gasSuicide(e, s), 0)
           \/ \E g \in ConstCosts : Step(constGasFunc(g), 0)
  BY <1>1, <1>3, <1>6, GasFunctionsGood
<1>7. CASE (halted \/ steps = MaxSteps) /\ UNCHANGED vars
  BY <1>7 DEF IInv, TypeOK, MemoryCostTracksSize, vars
<1>8. CASE UNCHANGED vars
  BY <1>8 DEF IInv, TypeOK, MemoryCostTracksSize, vars
<1>. QED  BY <1>4, <1>5, <1>6, <1>7, <1>8 DEF Next

(* The initial frame: no memory, no fee, the gas it was given. *)
LEMMA InitIInv ==
    Init => IInv
<1> SUFFICES ASSUME Init PROVE IInv
  OBVIOUS
<1>1. U \in Nat /\ U >= 2 /\ P.MemoryGas \in Nat /\ P.QuadCoeffDiv \in Nat \ {0}
  BY UFacts, ParamsNat
<1>2. TotalFee(0) = 0
  BY <1>1 DEF TotalFee
<1>3. last.gas = 0 /\ last.err = FALSE
  BY Zenon DEF Init
<1>4. /\ gas \in InitGas /\ memLen = 0 /\ lastGasCost = 0 /\ refund = 0
      /\ halted = FALSE /\ steps = 0
  BY Zenon DEF Init
<1>5. \A g \in InitGas : g \in Nat /\ g < U
  OBVIOUS
<1>6. TypeOK
  <2>1. gas \in Nat /\ gas < U /\ memLen \in Nat /\ memLen < U
        /\ lastGasCost \in Nat /\ lastGasCost < U /\ refund \in Nat
        /\ steps \in 0..MaxSteps /\ last.gas \in Nat /\ last.gas < U
    BY <1>1, <1>3, <1>4, <1>5
  <2>2. halted \in BOOLEAN /\ last.err \in BOOLEAN
    BY <1>3, <1>4, Zenon
  <2>. QED  BY <2>1, <2>2, Zenon DEF TypeOK
<1>7. MemoryCostTracksSize
  <2>1. memLen \div 32 = 0
    BY <1>4
  <2>. QED  BY <1>2, <1>4, <2>1 DEF MemoryCostTracksSize
<1>. QED  BY <1>6, <1>7 DEF IInv

(* IInv holds in every state of the frame. *)
THEOREM IInvInvariant == Spec => []IInv
BY InitIInv, IInvStep, PTL DEF Spec

(* The types of the frame's gas, memory size, mem.lastGasCost, refund,   *)
(* step count and last result hold in every reachable state: in          *)
(* particular contract.Gas never wraps below zero, since the interpreter  *)
(* deducts only gas the frame has.                                         *)
THEOREM TypeCorrect == Spec => []TypeOK
BY IInvInvariant, PTL DEF IInv

(* While the frame runs, mem.lastGasCost equals the fee of its memory    *)
(* size, for every width, gas constant and memory bound: memoryGasCost's *)
(* update and the interpreter's resize never drift apart.                 *)
THEOREM MemoryCostTheorem == Spec => []MemoryCostTracksSize
BY IInvInvariant, PTL DEF IInv

=============================================================================
