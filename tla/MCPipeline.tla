----------------------------- MODULE MCPipeline -----------------------------
EXTENDS Pipeline

CONSTANTS A, B, C

Bal(mint, owner, amount) == [mint |-> mint, owner |-> owner, amount |-> amount]

\* The signer gains WSOL while the mint only moves between the accounts of others.
Arbitrage(m, price) ==
    [pre |-> <<Bal(WSOL, "signer", 1), Bal(m, "other", 1), Bal(m, "other", 0)>>,
     post |-> <<Bal(WSOL, "signer", 2), Bal(m, "other", 0), Bal(m, "other", 1)>>,
     price |-> price]

\* The signer gains WSOL and is left with a token, or pays WSOL.
Trade(m, before, after) ==
    [pre |-> <<Bal(WSOL, "signer", before), Bal(m, "signer", 0), Bal(m, "other", 1)>>,
     post |-> <<Bal(WSOL, "signer", after), Bal(m, "signer", 1), Bal(m, "other", 0)>>,
     price |-> 1]

\* An arbitrage that lists an account it did not change first, and one whose amounts
\* cannot be read.
Bystander ==
    [pre |-> <<Bal(WSOL, "signer", 1), Bal(B, "other", 1), Bal(A, "other", 1)>>,
     post |-> <<Bal(B, "other", 1), Bal(A, "other", 0), Bal(A, "other", 1),
                Bal(WSOL, "signer", 2)>>,
     price |-> 0]
Unread ==
    [pre |-> <<Bal(WSOL, "signer", 1), Bal(A, "other", None)>>,
     post |-> <<Bal(A, "other", None), Bal(WSOL, "signer", None)>>,
     price |-> 1]

MCTxs == {Arbitrage(A, 2), Arbitrage(A, 3), Arbitrage(C, 2),
          Trade(A, 1, 2), Trade(A, 2, 1), Bystander, Unread}
=============================================================================
