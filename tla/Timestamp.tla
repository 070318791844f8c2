----------------------------- MODULE Timestamp ------------------------------
(***************************************************************************)
(* RFC 3161 timestamps (js/src/audit/timestamp.ts): what the check of a    *)
(* token compares, in its order.  DER is left out, and cryptography is     *)
(* symbolic: a digest is the tagged value it is of, a signature names its  *)
(* key and what it covers.                                                 *)
(*                                                                         *)
(*   certificate - [name, key, issuer, signedBy, purpose, from, to]        *)
(*   info        - the TSTInfo: [imprint, genTime, nonce]                  *)
(*   token       - [info, attrs, signature, certificates]; the first       *)
(*                 certificate is the one the signer identifier names      *)
(***************************************************************************)
EXTENDS Integers, Sequences, SequencesExt

CONSTANT NoOne      \* no root, no certificate

Digest(info) == <<"digest", info>>

Signature(key, content) == [key |-> key, over |-> content]

IssuedBy(cert, issuer) == cert.issuer = issuer.name /\ cert.signedBy = issuer.key

ValidAt(cert, time) == cert.from <= time /\ time <= cert.to

First(S, Test(_)) ==
    LET found == SelectSeq(S, Test) IN IF found = <<>> THEN NoOne ELSE found[1]

MaxDepth == 8

\* From the signer towards a root: a root that is or issued the certificate ends
\* the path, else it goes on with the first issuer in the token, at most eight
\* times and without going back.
BuildChain(signer, pool, roots) ==
    LET extend(chain) ==
            LET current == Last(chain.path)
                root == First(roots, LAMBDA r : r = current \/ IssuedBy(current, r))
                next == First(pool, LAMBDA c : c # current /\ IssuedBy(current, c))
            IN  IF chain.root # NoOne THEN chain
                ELSE IF root # NoOne
                THEN [path |-> IF root = current THEN chain.path ELSE Append(chain.path, root),
                      root |-> root]
                ELSE IF next # NoOne THEN [chain EXCEPT !.path = Append(@, next)]
                ELSE chain
        chain[depth \in 0 .. MaxDepth] ==
            IF depth = 0 THEN [path |-> <<signer>>, root |-> NoOne] ELSE extend(chain[depth - 1])
    IN  chain[MaxDepth]

\* Mutant: the nonce is not compared.
VerifyAnyNonce(token, head, roots, nonces) ==
    LET signer == IF token.certificates = <<>> THEN NoOne ELSE Head(token.certificates)
        chain == BuildChain(signer, token.certificates, roots)
    IN  /\ token.info.imprint = head
        /\ token.attrs = Digest(token.info)
        /\ signer # NoOne
        /\ token.signature = Signature(signer.key, token.attrs)
        /\ signer.purpose = "timestamping"
        /\ \A i \in DOMAIN chain.path : ValidAt(chain.path[i], token.info.genTime)
        /\ chain.root # NoOne

\* verifyTimestamp(): a signature over the attributes, which cover the TSTInfo
\* through its digest, by a timestamping certificate that chains to a root and
\* whose whole path was valid when it signed.  `nonces` is the set of nonces
\* that will do: the one that was sent, or all of them when none is expected.
VerifyTimestamp(token, head, roots, nonces) ==
    LET signer == IF token.certificates = <<>> THEN NoOne ELSE Head(token.certificates)
        chain == BuildChain(signer, token.certificates, roots)
    IN  /\ token.info.imprint = head
        /\ token.info.nonce \in nonces
        /\ token.attrs = Digest(token.info)
        /\ signer # NoOne
        /\ token.signature = Signature(signer.key, token.attrs)
        /\ signer.purpose = "timestamping"
        /\ \A i \in DOMAIN chain.path : ValidAt(chain.path[i], token.info.genTime)
        /\ chain.root # NoOne

=============================================================================
