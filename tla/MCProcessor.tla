---------------------------- MODULE MCProcessor ----------------------------
(* Small worlds, requests, blocks and configurations for Processor.        *)
EXTENDS Processor, TLC

CONSTANTS alice, bob, carol   \* a sender, a contract or target, an authority or coinbase

Plain == [kind |-> "LEGACY", chain_id |-> 1, sender |-> alice, to |-> bob, creates |-> FALSE,
          nonce |-> 0, gas_limit |-> 5, gas_price |-> 1, max_priority_fee |-> 0,
          max_fee_per_blob_gas |-> 0, blobs |-> 0, versioned |-> TRUE, value |-> 1, tokens |-> 0,
          words |-> 0, access |-> 0, authorizations |-> <<>>]

Delegation == [signer |-> carol, chain_id |-> 0, nonce |-> 0, delegate |-> bob]
Clearing == [Delegation EXCEPT !.delegate = NoCode, !.chain_id = 1]

GoodRequests ==
  {Plain,
   [Plain EXCEPT !.gas_price = 0, !.value = 0],
   [Plain EXCEPT !.creates = TRUE, !.words = 1, !.access = 1, !.to = carol],
   [Plain EXCEPT !.kind = "FEE_MARKET", !.gas_price = 3, !.max_priority_fee = 1, !.tokens = 1,
                 !.gas_limit = 5, !.nonce = 1, !.chain_id = NoChain],
   [Plain EXCEPT !.kind = "BLOB", !.gas_price = 2, !.max_priority_fee = 2, !.blobs = 1,
                 !.max_fee_per_blob_gas = 2]}
  \cup {[Plain EXCEPT !.kind = "SET_CODE", !.gas_price = 1, !.gas_limit = 9, !.value = 0,
                      !.authorizations = a] :
          a \in {<<Delegation>>, <<Clearing>>, <<Clearing, [Delegation EXCEPT !.nonce = 1]>>,
                 <<[Clearing EXCEPT !.signer = NoSigner], [Delegation EXCEPT !.signer = alice, !.nonce = 1]>>,
                 <<[Delegation EXCEPT !.signer = bob]>>, <<[Delegation EXCEPT !.chain_id = 2]>>}}

\* One request for every check of validate.
BadRequests ==
  {[Plain EXCEPT !.kind = "UNKNOWN"], [Plain EXCEPT !.blobs = 1],
   [Plain EXCEPT !.authorizations = <<Delegation>>], [Plain EXCEPT !.gas_limit = 1],
   [Plain EXCEPT !.creates = TRUE, !.words = 2], [Plain EXCEPT !.gas_limit = 12],
   [Plain EXCEPT !.nonce = MaxNonce], [Plain EXCEPT !.kind = "FEE_MARKET", !.max_priority_fee = 2],
   [Plain EXCEPT !.gas_limit = 10], [Plain EXCEPT !.chain_id = 2],
   [Plain EXCEPT !.kind = "BLOB"], [Plain EXCEPT !.kind = "BLOB", !.blobs = 3],
   [Plain EXCEPT !.kind = "BLOB", !.blobs = 1, !.versioned = FALSE],
   [Plain EXCEPT !.kind = "BLOB", !.blobs = 1],
   [Plain EXCEPT !.kind = "BLOB", !.blobs = 1, !.max_fee_per_blob_gas = 2, !.creates = TRUE],
   [Plain EXCEPT !.kind = "SET_CODE"], [Plain EXCEPT !.value = MaxBalance]}

MCRequests == GoodRequests \cup BadRequests

MCBlocks == [basefee : {0, 1}, blobbasefee : {1}, gaslimit : {9}, coinbase : {alice, carol},
             chainid : {1}]

Strict == [check_nonce |-> TRUE, check_base_fee |-> TRUE, check_sender_code |-> TRUE,
           check_chain_id |-> TRUE, tx_gas_limit_cap |-> 10, max_initcode_words |-> 1]
MCConfigs == {Strict, [Strict EXCEPT !.check_nonce = FALSE, !.check_base_fee = FALSE,
                                     !.check_sender_code = FALSE, !.check_chain_id = FALSE]}

\* The sender's ether and nonce, the contract at bob, which may never have counted a
\* nonce or hold ether, and the authority's ether and code.
Accounts(ether, nonces, codes) ==
  [exists |-> {a \in Addr : ether[a] > 0 \/ nonces[a] > 0 \/ codes[a] # NoCode},
   balance |-> ether, nonce |-> nonces, code |-> codes]

WorldsOf(ethers) ==
  {Accounts(e, n, c) :
     e \in ethers,
     n \in {alice :> i @@ bob :> 0 @@ carol :> 0 : i \in {0, 1}},
     c \in {alice :> a @@ bob :> b @@ carol :> k :
              a \in {NoCode, bob, Contract}, b \in {NoCode, Contract}, k \in {NoCode, bob}}}

Ether(a, b, c) == alice :> a @@ bob :> b @@ carol :> c

\* All ether fits in a balance, as on a chain; and does not.
ChainWorlds == WorldsOf({Ether(0, 2, 0), Ether(11, 1, 0), Ether(12, 1, 1), Ether(18, 1, 0)})
AllWorlds == ChainWorlds \cup WorldsOf({Ether(12, MaxBalance, 0), Ether(MaxBalance, 1, MaxBalance)})
=============================================================================
