-------------------------------- MODULE Dsse --------------------------------
(***************************************************************************)
(* The signing layer of cloakpipe-receipt (dsse.rs): DSSE envelopes over   *)
(* in-toto statements.                                                     *)
(*                                                                         *)
(* Cryptography is ideal: a signature is the record of who made it over    *)
(* what, nobody can make one without the key, and a payload stands for its *)
(* canonical bytes (equal records, equal bytes).  A payload that is not    *)
(* base64, not JSON, or has a duplicate member decodes to no statement.    *)
(***************************************************************************)
EXTENDS Naturals, FiniteSets

InToto == "application/vnd.in-toto+json"
StatementV1 == "https://in-toto.io/Statement/v1"

\* Undecodable payload bytes: no statement has this shape.
Undecodable == [json |-> FALSE]

TrustedKey(keyid, key) == [keyid |-> keyid, key |-> key]

\* pae: what is signed names the payload and its type.
Pae(type, payload) == [type |-> type, payload |-> payload]

Sign(statement, key, keyid) ==
    [type |-> InToto, payload |-> statement,
     sigs |-> {[keyid |-> keyid, by |-> key, over |-> Pae(InToto, statement)]}]

\* A signature counts under a trusted key of the same keyid that made it over
\* this envelope's type and payload.
CheckSignature(s, message, trusted) ==
    \E k \in trusted : k.keyid = s.keyid /\ k.key = s.by /\ s.over = message

VerifiedKeyids(envelope, trusted) ==
    {s.keyid : s \in {x \in envelope.sigs : CheckSignature(x, Pae(envelope.type, envelope.payload), trusted)}}

\* The envelope was decoded to a statement (base64, JSON, no duplicate member).
Decodes(envelope) == envelope.payload # Undecodable
===============================================================================
