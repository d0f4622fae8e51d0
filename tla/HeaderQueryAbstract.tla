------------------------- MODULE HeaderQueryAbstract -------------------------
(***************************************************************************)
(* What a header request promises (spec: header range request): one step *)
(* that answers the request with the reference walk RefHeaders.  Before   *)
(* the answer the response is NoResponse.                                  *)
(***************************************************************************)
EXTENDS HeaderChain

VARIABLES
    request,   \* the MessageHeaderRequest received
    response   \* the headers sent back, or NoResponse

NoResponse == << -1 >>

Init ==
    /\ request \in Queries
    /\ response = NoResponse

(* The node answers the request with the walk the spec describes. *)
Answer ==
    /\ response = NoResponse
    /\ response' = RefHeaders(request)
    /\ UNCHANGED request

Spec == Init /\ [][Answer]_<< request, response >>
=============================================================================
