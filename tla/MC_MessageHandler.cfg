CONSTANTS
    t1 = t1
    t2 = t2
    peer1 = peer1
    Txs <- MCTxs
    Peers <- MCPeers
    BodySize <- MCBodySize
    MaxTip = 3
    SoftResponseLimit = 3
    MaxBlockFetch = 2
    MaxReq = 3
    None = None
SPECIFICATION Spec
INVARIANT TypeOK
INVARIANT BodiesResponseBounded
