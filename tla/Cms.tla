--------------------------------- MODULE Cms ---------------------------------
(***************************************************************************)
(* cms.rs: SignedData made by sign and judged by verify.                   *)
(*                                                                         *)
(* Octets are the value they encode, and their hash is themselves; those   *)
(* of attributes can be a content as any others can, since nothing tells   *)
(* them apart.  A signature is [key, over].  A certificate is [sid, key,   *)
(* sound]: the issuer and serial number that name it, its public key, None *)
(* when that cannot be decoded, and whether a view of it can be made.      *)
(* Certificates and signers are sets, in the order of the encodings.       *)
(***************************************************************************)
EXTENDS Integers, SequencesExt

CONSTANTS
    None,
    IdData,
    GostDigest,     \* one of the two digest algorithms known
    Der(_)          \* a certificate's place in the order of the encodings

Attributes(contentType, digest) == [contentType |-> contentType, digest |-> digest]

SignerInfo(sid, attrs, key, over) ==
    [sid |-> sid, digestAlg |-> GostDigest, attrs |-> attrs, signature |-> [key |-> key, over |-> over]]

\* None without a certificate, and with one twice, which no set has.
Sign(content, attached, key, chain) ==
    IF chain = <<>> \/ ~IsInjective(chain) THEN None
    ELSE LET attrs == Attributes(IdData, content)
         IN  [contentType |-> IdData,
              content |-> IF attached THEN content ELSE None,
              certs |-> ToSet(chain),
              signers |-> {SignerInfo(chain[1].sid, attrs, key, attrs)}]

\* The embedded content counts before the one given.
ContentOf(sd, detached) == IF sd.content # None THEN sd.content ELSE detached

\* The first of that name.
FindCert(sd, sid) ==
    LET named == {cert \in sd.certs : cert.sid = sid}
    IN  IF named = {} THEN None
        ELSE CHOOSE cert \in named : \A other \in named : Der(cert) <= Der(other)

\* Mutant: attributes without a digest pass.
AttributesMatch_Optional(attrs, type, content) ==
    attrs.contentType = type /\ attrs.digest \in {None, content}

AttributesMatch(attrs, type, content) ==
    attrs.contentType = type /\ attrs.digest = content

\* Signed attributes, where there are any, must name the content's type and
\* digest.  A signer named by its key identifier (None) is not supported.
VerifySigner(sd, content, si) ==
    LET cert == FindCert(sd, si.sid)
        signed == IF si.attrs = None THEN content ELSE si.attrs
    IN  /\ si.sid # None
        /\ cert # None
        /\ cert.key # None
        /\ si.digestAlg = GostDigest
        /\ si.attrs # None => AttributesMatch(si.attrs, sd.contentType, content)
        /\ si.signature = [key |-> cert.key, over |-> signed]
        /\ cert.sound

\* The signers' verdicts; None when there is no content to judge.  One
\* signer's failure leaves the others' verdicts alone.
Verify(sd, detached) ==
    LET content == ContentOf(sd, detached)
    IN  IF content = None THEN None
        ELSE [si \in sd.signers |-> VerifySigner(sd, content, si)]
=============================================================================
