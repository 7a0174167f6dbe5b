---------------------------- MODULE AnchorTokens ----------------------------
(***************************************************************************)
(* What an external anchor is and how it is verified offline: RFC 3161     *)
(* time-stamp responses (verify/rfc3161.rs), Rekor entries                 *)
(* (verify/rekor.rs), and the clients that ask for them                    *)
(* (anchor/rfc3161.rs, anchor/rekor.rs).                                   *)
(*                                                                         *)
(* DER, PEM, base64 and JSON are the records they decode to; bytes that do *)
(* not decode are refused and are not modelled.  A signature is the record *)
(* of the key that made it and of what it covers.                          *)
(***************************************************************************)
EXTENDS HashTree, FiniteSets

Signed(key, payload) == [by |-> key, over |-> payload]

(***************************************************************************)
(* Certificates: [subject, issuer, key, by, from, to, critical, ca,        *)
(* pathLen, certSign, eku], where `by` made the signature, `critical` says *)
(* that an extension nobody here understands is critical, and eku is the   *)
(* set of purposes, or AnyUse when the extension is absent.                *)
(***************************************************************************)
MaxPath == 6
AnyUse == {"any"}
NoPathLen == -1

CheckValidity(c, at) == c.from <= at /\ at <= c.to
CheckCriticalExtensions(c) == ~c.critical
CheckCa(c, below) == c.ca /\ (c.pathLen = NoPathLen \/ c.pathLen >= below) /\ c.certSign
CheckIssuerEku(c) == c.eku \cap {"timeStamping", "any"} # {}
CheckTimestampingCert(c) == c.eku = {"timeStamping"}
SignedBy(child, issuer) == child.issuer = issuer.subject /\ child.by = issuer.key

\* The first issuer of c in a list, if any.
Issuers(c, certs) == SelectSeq(certs, LAMBDA i : SignedBy(c, i))

(***************************************************************************)
(* validate_path: greedy, the first issuer found is the only one tried.    *)
(***************************************************************************)
ValidatePath(signer, pool, roots, at) ==
    LET ok[c \in {signer} \cup ToSet(pool), below \in 0..MaxPath] ==
        /\ below < MaxPath
        /\ CheckValidity(c, at) /\ CheckCriticalExtensions(c)
        /\ \/ \E i \in DOMAIN roots : roots[i] = c
           \/ /\ ~\E i \in DOMAIN roots : roots[i] = c
              /\ Issuers(c, roots) # <<>>
              /\ LET root == Issuers(c, roots)[1]
                 IN CheckValidity(root, at) /\ CheckCriticalExtensions(root)
                    /\ CheckCa(root, below) /\ CheckIssuerEku(root)
           \/ /\ ~\E i \in DOMAIN roots : roots[i] = c
              /\ Issuers(c, roots) = <<>>
              /\ LET next == Issuers(c, SelectSeq(pool, LAMBDA p : p # c))
                 IN /\ next # <<>>
                    /\ CheckCa(next[1], below) /\ CheckIssuerEku(next[1])
                    /\ ok[next[1], below + 1]
    IN ok[signer, 0]

(***************************************************************************)
(* verify_timestamp_response.  A response is [status, infos, sid, certs,   *)
(* attrs, sig, tst]: how many SignerInfos, the subject the signer is named *)
(* by, the signed attributes [digest, ess] (ess: the certificates an       *)
(* ESSCertID names, none if absent) and the TSTInfo [imprint, nonce,       *)
(* time].                                                                  *)
(***************************************************************************)
NoNonce == 0
SignerCerts(tsr) == SelectSeq(tsr.certs, LAMBDA c : c.subject = tsr.sid)

\* check_signed_attrs, verify_cms_signature
CheckSignedAttrs(tsr, signer) == tsr.attrs.digest = <<"sha", tsr.tst>> /\ tsr.attrs.ess \subseteq {signer}
VerifyCmsSignature(tsr, signer) == tsr.sig = Signed(signer.key, tsr.attrs)

VerifyTimestampResponse(tsr, subject, nonce, roots) ==
    /\ tsr.status \in {0, 1} /\ tsr.infos = 1
    /\ Len(SignerCerts(tsr)) = 1
    /\ LET signer == SignerCerts(tsr)[1]
       IN /\ CheckSignedAttrs(tsr, signer) /\ VerifyCmsSignature(tsr, signer)
          /\ tsr.tst.imprint = subject
          /\ tsr.tst.nonce = nonce /\ nonce # NoNonce
          /\ CheckTimestampingCert(signer)
          /\ ValidatePath(signer, tsr.certs, roots, tsr.tst.time)

\* What a time-stamp authority answers (external).
TimestampResponse(signer, certs, subject, nonce, time) ==
    LET tst   == [imprint |-> subject, nonce |-> nonce, time |-> time]
        attrs == [digest |-> <<"sha", tst>>, ess |-> {signer}]
    IN [status |-> 0, infos |-> 1, sid |-> signer.subject, certs |-> certs,
        attrs |-> attrs, sig |-> Signed(signer.key, attrs), tst |-> tst]

\* anchor_artifact_with_nonce: a reply is kept only if it verifies.
TsaReceipt(batch, subject, nonce, tsr) ==
    [kind |-> "rfc3161", batch |-> batch, subject |-> subject, nonce |-> nonce, token |-> tsr]

(***************************************************************************)
(* Rekor.  An entry is [log, body, time, index, set, uuid, proof,          *)
(* checkpoint].                                                            *)
(***************************************************************************)
EntryBody(artifact, key) == [hash |-> <<"sha512", artifact>>, key |-> key, sig |-> Signed(key, <<"sha512", artifact>>)]
SetPayload(e) == [body |-> e.body, time |-> e.time, log |-> e.log, index |-> e.index]

\* check_body: the entry commits to these bytes, signed by the head's signer.
CheckBody(body, artifact, signer) ==
    /\ body.hash = <<"sha512", artifact>>
    /\ body.key = signer
    /\ body.sig = Signed(signer, body.hash)

\* verify_checkpoint: the root of the proof is one the log signed, at that size.
VerifyCheckpoint(note, log, size, root) ==
    note.sig = Signed(log, [size |-> note.size, root |-> note.root]) /\ note.size = size /\ note.root = root

VerifyRekorEntry(uuid, e, log, artifact, signer) ==
    /\ e.log = log
    /\ e.set = Signed(log, SetPayload(e))
    /\ CheckBody(e.body, artifact, signer)
    /\ uuid = LeafHash(e.body)
    /\ VerifyInclusion(e.proof.index, e.proof.size, LeafHash(e.body), e.proof.path, e.proof.root)
    /\ VerifyCheckpoint(e.checkpoint, log, e.proof.size, e.proof.root)

\* What the log answers (external): entry i of its bodies, integrated at time.
RekorEntry(log, bodies, i, time) ==
    LET leaves == [j \in DOMAIN bodies |-> LeafHash(bodies[j])]
        root   == LogRoot(leaves)
        size   == Len(bodies)
        e      == [log |-> log, body |-> bodies[i], time |-> time, index |-> i - 1]
    IN [log |-> log, body |-> bodies[i], time |-> time, index |-> i - 1,
        set |-> Signed(log, SetPayload(e)),
        uuid |-> leaves[i],
        proof |-> [index |-> i - 1, size |-> size, path |-> LogPath(i - 1, leaves), root |-> root],
        checkpoint |-> [size |-> size, root |-> root, sig |-> Signed(log, [size |-> size, root |-> root])]]
RekorReceipt(batch, subject, e) ==
    [kind |-> "rekor", batch |-> batch, subject |-> subject, nonce |-> NoNonce, token |-> e]
=============================================================================
