------------------------------ MODULE GasTable ------------------------------
(***************************************************************************)
(* The dynamic gas functions of the EVM (src/vm/eth/core/vm/gas_table.go) *)
(* driven by the interpreter of one call frame.  Each Step runs the gas   *)
(* function of one instruction and then does what the interpreter does    *)
(* with its result: on an error or when the frame has too little gas the  *)
(* frame halts; otherwise the gas is deducted, the memory grows to the    *)
(* requested size and the refunds the function added are kept.          *)
(*                                                                         *)
(* uint64 arithmetic is taken modulo 2^W; math.SafeAdd and math.SafeMul   *)
(* report a result of 2^W or more as an overflow.  Stack words are        *)
(* naturals that may exceed 2^W (common.BigUint64 reports those).  The   *)
(* gas constants of the params package are the records P and Gt.         *)
(***************************************************************************)
EXTENDS Integers, Sequences

CONSTANTS
    W,            \* bit width of uint64, scaled down
    MemBound,     \* the constant 0xffffffffe0 of memoryGasCost, at width W
    P,            \* the params constants and the interpreter's step costs
    Gt,           \* the params.GasTable of the chain configuration
    InitGas,      \* contract.Gas values a frame may start with
    MemSizes,     \* memorySize values the interpreter may pass (word aligned)
    StackArgs,    \* stack words used as sizes and lengths
    CallGasTemps, \* results of callGas (gas.go): a value, or CallGasErr
    MaxSteps      \* instructions per frame

\* 2^n, by the recursion that doubles
Pow2[n \in Nat] == IF n = 0 THEN 1 ELSE 2 * Pow2[n - 1]

U == Pow2[W]
CallGasErr == -1

\* the params constants and gas table entries the gas functions read
ParamNames ==
    {"MemoryGas", "QuadCoeffDiv", "CopyGas", "Sha3Gas", "Sha3WordGas", "LogGas",
     "LogTopicGas", "LogDataGas", "CreateGas", "Create2Gas",
     "CallNewAccountGas", "CallValueTransferGas", "SstoreSetGas",
     "SstoreResetGas", "SstoreClearGas", "SstoreRefundGas",
     "SuicideRefundGas", "FastestStep", "SlowStep"}
GasTableNames ==
    {"ExtcodeSize", "ExtcodeCopy", "ExtcodeHash", "Balance", "SLoad", "Calls",
     "Suicide", "ExpByte", "CreateBySuicide"}

ASSUME GasTableAssumption ==
    /\ W \in Nat \ {0}
    /\ MemBound \in Nat /\ MemBound < U
    /\ \A g \in InitGas : g \in Nat /\ g < U
    /\ \A m \in MemSizes : m \in Nat /\ m < U /\ m % 32 = 0
    /\ StackArgs \subseteq Nat
    /\ \A c \in CallGasTemps : c = CallGasErr \/ (c \in Nat /\ c < U)
    /\ MaxSteps \in Nat
    /\ P \in [ParamNames -> Nat]
    /\ Gt \in [GasTableNames -> Nat]
    /\ P.QuadCoeffDiv \in Nat \ {0}

VARIABLES
    gas,          \* contract.Gas: gas left in the frame
    memLen,       \* mem.Len()
    lastGasCost,  \* mem.lastGasCost
    refund,       \* the StateDB refund counter
    halted,       \* the frame stopped with an error
    steps,        \* instructions executed
    last          \* the result of the last gas function (for the properties)

vars == << gas, memLen, lastGasCost, refund, halted, steps, last >>

-----------------------------------------------------------------------------
(* uint64 helpers: a term of a gas sum is [v, ovf]. *)
SafeMul(a, b) == [v |-> (a * b) % U, ovf |-> a * b >= U]
BigUint64(x) == [v |-> x % U, ovf |-> x >= U]
Val(x) == [v |-> x, ovf |-> FALSE]

(* common.ToWordSize (not under src/): words needed for size bytes. *)
ToWordSize(size) ==
    IF size > U - 1 - 31 THEN (U - 1) \div 32 + 1 ELSE (size + 31) \div 32

(* A chain of math.SafeAdd calls over terms, each of which may already    *)
(* have overflowed: the first overflow makes the gas function return 0,   *)
(* errGasUintOverflow.                                                     *)
SafeSum(ts) ==
    LET acc[i \in 0..Len(ts)] ==
          IF i = 0 THEN [v |-> 0, ovf |-> FALSE]
          ELSE IF acc[i - 1].ovf \/ ts[i].ovf THEN [v |-> 0, ovf |-> TRUE]
          ELSE [v |-> (acc[i - 1].v + ts[i].v) % U,
                ovf |-> acc[i - 1].v + ts[i].v >= U]
    IN acc[Len(ts)]

(* Mutant: the overflow of common.BigUint64 is ignored. *)
WordsTermNoBigCheck(arg, per) ==
    LET a == BigUint64(arg)
    IN SafeMul(ToWordSize(a.v), per)

(* ToWordSize of a stack word times a per-word cost, by SafeMul. *)
WordsTerm(arg, per) ==
    LET a == BigUint64(arg)
    IN IF a.ovf THEN a ELSE SafeMul(ToWordSize(a.v), per)

(* The fee formula of memoryGasCost for a memory of w words, in uint64. *)
TotalFee(w) ==
    (((w * P.MemoryGas) % U) + (((w * w) % U) \div P.QuadCoeffDiv)) % U

(* Mutant: mem.lastGasCost is not updated. *)
memoryGasCostNoUpdate(newMemSize) ==
    LET w == ToWordSize(newMemSize)
    IN IF newMemSize = 0 THEN [v |-> 0, ovf |-> FALSE, last |-> lastGasCost]
       ELSE IF newMemSize > MemBound
         THEN [v |-> 0, ovf |-> TRUE, last |-> lastGasCost]
       ELSE IF (w * 32) % U > memLen
         THEN [v |-> (TotalFee(w) - lastGasCost) % U, ovf |-> FALSE,
               last |-> lastGasCost]
       ELSE [v |-> 0, ovf |-> FALSE, last |-> lastGasCost]

(* memoryGasCost: the fee for growing the memory to newMemSize bytes, and *)
(* the new mem.lastGasCost.                                                *)
memoryGasCost(newMemSize) ==
    LET w == ToWordSize(newMemSize)
    IN IF newMemSize = 0 THEN [v |-> 0, ovf |-> FALSE, last |-> lastGasCost]
       ELSE IF newMemSize > MemBound
         THEN [v |-> 0, ovf |-> TRUE, last |-> lastGasCost]
       ELSE IF (w * 32) % U > memLen
         THEN [v |-> (TotalFee(w) - lastGasCost) % U, ovf |-> FALSE,
               last |-> TotalFee(w)]
       ELSE [v |-> 0, ovf |-> FALSE, last |-> lastGasCost]

(* The result of a gas function: the gas or an error, mem.lastGasCost    *)
(* after it, the refund it added, and the exact sum of its terms in       *)
(* unbounded integers (the memory fee as charged).                        *)
Result(m, ts, exact, rf) ==
    LET s == SafeSum(ts)
    IN [gas |-> s.v, err |-> s.ovf, last |-> m.last, refund |-> rf,
        exact |-> exact]

NoMem == [v |-> 0, ovf |-> FALSE, last |-> lastGasCost]

Words(arg) == (arg + 31) \div 32

(* The shape shared by the copy and hash functions: memory, a base cost,  *)
(* then the per-word cost of the length on the stack.                      *)
CopyGas(ms, base, per, arg) ==
    LET m == memoryGasCost(ms)
    IN Result(m, << m, Val(base), WordsTerm(arg, per) >>,
              m.v + base + Words(arg) * per, 0)

(* The shape of the memory-only functions: memory, then a constant. *)
MemGas(ms, c) ==
    LET m == memoryGasCost(ms)
    IN Result(m, << m, Val(c) >>, m.v + c, 0)

constGasFunc(g) == Result(NoMem, << Val(g) >>, g, 0)

gasCallDataCopy(ms, arg) == CopyGas(ms, P.FastestStep, P.CopyGas, arg)
gasReturnDataCopy(ms, arg) == CopyGas(ms, P.FastestStep, P.CopyGas, arg)
gasSha3(ms, arg) == CopyGas(ms, P.Sha3Gas, P.Sha3WordGas, arg)
gasCodeCopy(ms, arg) == CopyGas(ms, P.FastestStep, P.CopyGas, arg)
gasExtCodeCopy(ms, arg) == CopyGas(ms, Gt.ExtcodeCopy, P.CopyGas, arg)
gasCreate2(ms, arg) == CopyGas(ms, P.Create2Gas, P.Sha3WordGas, arg)

gasMLoad(ms) == MemGas(ms, P.FastestStep)
gasMStore8(ms) == MemGas(ms, P.FastestStep)
gasMStore(ms) == MemGas(ms, P.FastestStep)
gasCreate(ms) == MemGas(ms, P.CreateGas)
gasReturn(ms) == MemGas(ms, 0)
gasRevert(ms) == MemGas(ms, 0)

(* makeGasLog(n): the size on the stack is read before the memory fee; *)
(* n * LogTopicGas is not checked.                                        *)
makeGasLog(n, ms, size) ==
    LET sz == BigUint64(size)
        m == IF sz.ovf THEN NoMem ELSE memoryGasCost(ms)
    IN Result(m, << [sz EXCEPT !.v = 0], m, Val(P.LogGas), Val((n * P.LogTopicGas) % U),
                    IF sz.ovf THEN sz ELSE SafeMul(sz.v, P.LogDataGas) >>,
              m.v + P.LogGas + n * P.LogTopicGas + size * P.LogDataGas, 0)

(* gasExp: expByteLen * ExpByte is not checked (at most 32 * ExpByte). *)
gasExp(expByteLen) ==
    Result(NoMem, << Val((expByteLen * Gt.ExpByte) % U), Val(P.SlowStep) >>,
           expByteLen * Gt.ExpByte + P.SlowStep, 0)

(* The call family: a base cost added without checks, the memory fee, and *)
(* the gas callGas grants the callee, stored in ctx.CallGasTemp.          *)
CallFamily(ms, base, exactBase, cgt) ==
    LET m == memoryGasCost(ms)
        cg == IF cgt = CallGasErr THEN [v |-> 0, ovf |-> TRUE] ELSE Val(cgt)
    IN Result(m, << Val(base), m, cg >>, exactBase + m.v + cgt, 0)

gasCall(ms, transfers, empty, cgt) ==
    LET base == Gt.Calls + (IF transfers /\ empty THEN P.CallNewAccountGas ELSE 0)
                         + (IF transfers THEN P.CallValueTransferGas ELSE 0)
    IN CallFamily(ms, base % U, base, cgt)

gasCallCode(ms, transfers, cgt) ==
    LET base == Gt.Calls + (IF transfers THEN P.CallValueTransferGas ELSE 0)
    IN CallFamily(ms, base % U, base, cgt)

gasDelegateCall(ms, cgt) == CallFamily(ms, Gt.Calls, Gt.Calls, cgt)
gasStaticCall(ms, cgt) == CallFamily(ms, Gt.Calls, Gt.Calls, cgt)

(* gasSStore: the legacy three-case switch; it returns before the        *)
(* EIP-1283 net metering below it, which is never reached.               *)
gasSStore(currentZero, yZero) ==
    CASE currentZero /\ ~yZero -> constGasFunc(P.SstoreSetGas)
      [] ~currentZero /\ yZero ->
           [constGasFunc(P.SstoreClearGas) EXCEPT !.refund = P.SstoreRefundGas]
      [] OTHER -> constGasFunc(P.SstoreResetGas)

(* gasSuicide: the refund is added unless the contract already suicided. *)
gasSuicide(emptyTransfer, suicided) ==
    LET g == Gt.Suicide + (IF emptyTransfer THEN Gt.CreateBySuicide ELSE 0)
    IN [constGasFunc(g % U) EXCEPT !.exact = g,
                                  !.refund = IF suicided THEN 0
                                             ELSE P.SuicideRefundGas]

(* The constant gas functions (gasExtCodeHash, gasBalance, ...). *)
ConstCosts == {Gt.ExtcodeHash, Gt.Balance, Gt.ExtcodeSize, Gt.SLoad,
               P.FastestStep}

-----------------------------------------------------------------------------
Init ==
    /\ gas \in InitGas
    /\ memLen = 0
    /\ lastGasCost = 0
    /\ refund = 0
    /\ halted = FALSE
    /\ steps = 0
    /\ last = [gas |-> 0, err |-> FALSE, last |-> 0, refund |-> 0, exact |-> 0]

(* Mutant: the interpreter does not check that the frame has the gas. *)
StepNoGasCheck(r, ms) ==
    /\ ~halted
    /\ steps < MaxSteps
    /\ steps' = steps + 1
    /\ last' = r
    /\ lastGasCost' = r.last
    /\ IF r.err
         THEN /\ halted' = TRUE
              /\ UNCHANGED << gas, memLen, refund >>
         ELSE /\ gas' = gas - r.gas
              /\ memLen' = IF ms > memLen THEN ms ELSE memLen
              /\ refund' = refund + r.refund
              /\ UNCHANGED halted

(* One instruction: the interpreter (not under src/) charges the result r *)
(* of its gas function and resizes the memory to ms.                      *)
Step(r, ms) ==
    /\ ~halted
    /\ steps < MaxSteps
    /\ steps' = steps + 1
    /\ last' = r
    /\ lastGasCost' = r.last
    /\ IF r.err \/ r.gas > gas
         THEN /\ halted' = TRUE
              /\ UNCHANGED << gas, memLen, refund >>
         ELSE /\ gas' = gas - r.gas
              /\ memLen' = IF ms > memLen THEN ms ELSE memLen
              /\ refund' = refund + r.refund
              /\ UNCHANGED halted

Next ==
    \/ \E ms \in MemSizes, a \in StackArgs :
          \/ Step(gasCallDataCopy(ms, a), ms)
          \/ Step(gasReturnDataCopy(ms, a), ms)
          \/ Step(gasSha3(ms, a), ms)
          \/ Step(gasCodeCopy(ms, a), ms)
          \/ Step(gasExtCodeCopy(ms, a), ms)
          \/ Step(gasCreate2(ms, a), ms)
          \/ \E n \in 0..4 : Step(makeGasLog(n, ms, a), ms)
    \/ \E ms \in MemSizes :
          \/ Step(gasMLoad(ms), ms)
          \/ Step(gasMStore8(ms), ms)
          \/ Step(gasMStore(ms), ms)
          \/ Step(gasCreate(ms), ms)
          \/ Step(gasReturn(ms), ms)
          \/ Step(gasRevert(ms), ms)
          \/ \E c \in CallGasTemps :
                \/ \E t, e \in BOOLEAN : Step(gasCall(ms, t, e, c), ms)
                \/ \E t \in BOOLEAN : Step(gasCallCode(ms, t, c), ms)
                \/ Step(gasDelegateCall(ms, c), ms)
                \/ Step(gasStaticCall(ms, c), ms)
    \/ \E e \in 0..32 : Step(gasExp(e), 0)
    \/ \E c, y \in BOOLEAN : Step(gasSStore(c, y), 0)
    \/ \E e, s \in BOOLEAN : Step(gasSuicide(e, s), 0)
    \/ \E g \in ConstCosts : Step(constGasFunc(g), 0)
    \/ (halted \/ steps = MaxSteps) /\ UNCHANGED vars

Spec == Init /\ [][Next]_vars

-----------------------------------------------------------------------------
TypeOK ==
    /\ gas \in Nat /\ gas < U
    /\ memLen \in Nat /\ memLen < U
    /\ lastGasCost \in Nat /\ lastGasCost < U
    /\ refund \in Nat
    /\ halted \in BOOLEAN
    /\ steps \in 0..MaxSteps
    /\ last.gas \in Nat /\ last.gas < U /\ last.err \in BOOLEAN

(* Every gas function that returns without an error returns the exact    *)
(* sum of its costs: no SafeAdd/SafeMul chain, and none of the additions *)
(* and products the code leaves unchecked (the call base costs, the log  *)
(* topics, the exponent bytes), wraps around 2^64.                        *)
StepGasSound ==
    ~last.err => last.gas = last.exact

(* While the frame runs, mem.lastGasCost is the fee of the memory it has, *)
(* across failed and aborted expansions: memoryGasCost and the            *)
(* interpreter's resize agree on the size that was paid for.              *)
MemoryCostTracksSize ==
    ~halted => lastGasCost = TotalFee(memLen \div 32)
=============================================================================
