-------------------------- MODULE MC_HeaderQuery --------------------------
(* Model-checking instance of HeaderQuery: 4-bit numbers, a chain 0..4.   *)
EXTENDS HeaderQuery, TLC

\* walks that stay inside the chain's number range
WalkSkips == {0, 1, 2}
WalkAmounts == {0, 1, 2, 4}

\* what a hostile peer may send: skips whose skip + 1 wraps or nearly
\* wraps, and an amount that int() turns negative
HostileSkips == {0, 2 ^ W - 2, 2 ^ W - 1}
HostileAmounts == {0, 2, 5, 2 ^ W - 1}
=============================================================================
