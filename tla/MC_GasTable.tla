---------------------------- MODULE MC_GasTable ----------------------------
(* GasTable at width 20 with the go-ethereum gas constants.  MemBound is  *)
(* the code's bound placed as at width 64: 0xffffffffe0 = 2^(64/2+8) - 32 *)
(* admits memories of up to 2^(64/2+3) - 1 words.                          *)
EXTENDS GasTable, TLC

MCW == 20

MCMemBound == 2 ^ (MCW \div 2 + 8) - 32

MCParams ==
    [MemoryGas |-> 3, QuadCoeffDiv |-> 512, CopyGas |-> 3, Sha3Gas |-> 30,
     Sha3WordGas |-> 6, LogGas |-> 375, LogTopicGas |-> 375, LogDataGas |-> 8,
     CreateGas |-> 32000, Create2Gas |-> 32000, CallNewAccountGas |-> 25000,
     CallValueTransferGas |-> 9000, SstoreSetGas |-> 20000,
     SstoreResetGas |-> 5000, SstoreClearGas |-> 5000,
     SstoreRefundGas |-> 15000, SuicideRefundGas |-> 24000,
     FastestStep |-> 3, SlowStep |-> 10]

\* the EIP-158 gas table
MCGt ==
    [ExtcodeSize |-> 700, ExtcodeCopy |-> 700, ExtcodeHash |-> 400,
     Balance |-> 400, SLoad |-> 200, Calls |-> 700, Suicide |-> 5000,
     ExpByte |-> 50, CreateBySuicide |-> 25000]

\* an empty frame, a frame with little gas, and one with all it can hold
MCInitGas == {5000, 2 ^ MCW - 1}

\* word-aligned sizes: small ones, 2^(W/2) words (whose square is 2^W),
\* the bound and the first size above it
MCMemSizes == {0, 32, 96, 32 * 2 ^ (MCW \div 2), MCMemBound, MCMemBound + 32}

\* lengths: none, a partial word, the largest uint64 and one beyond it
MCStackArgs == {0, 33, 2 ^ MCW - 1, 2 ^ MCW + 32}

MCCallGasTemps == {0, 2 ^ MCW - 1, CallGasErr}
=============================================================================
