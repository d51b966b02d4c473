----------------------------- MODULE Certificates -----------------------------
(***************************************************************************)
(* Certificates and requests: the temporary chain (tempchain.rs), the      *)
(* checks of certificates (x509.rs, keystore.rs), PKCS#10 requests, and    *)
(* the functions a site calls with the id of a session (plugins pkcs7,     *)
(* pkcs10 and x509).                                                       *)
(*                                                                         *)
(* A key, public or private, is [family, key], where key is <<curve,       *)
(* point>>; a signature is [key, over] and names no family, since none     *)
(* enters its equation.  A certificate is [sid, subject, issuer, ext,      *)
(* family, key, sound, algorithm, signature]: sid is the issuer and a      *)
(* serial number, ext the extensions, family and key the public key, None  *)
(* when it cannot be decoded, and sound whether a view can be made.        *)
(***************************************************************************)
EXTENDS Cms

CONSTANTS
    Failed,
    BadOid          \* a text that is no object identifier

Algorithms == {"ozdst", "ozmst"}

SignWith(k, over) == [key |-> k.key, over |-> over]

---------------------------------------------------------------------------
(* Certificates *)

\* What is signed: all but the signature and the algorithm beside it.
Tbs(cert) ==
    [sid |-> cert.sid, subject |-> cert.subject, issuer |-> cert.issuer, ext |-> cert.ext,
     family |-> cert.family, key |-> cert.key, sound |-> cert.sound]

\* Of the public key's octets, which name neither family nor curve.
KeyIdentifier(k) == k.key[2]

MakeCertificate(issuer, subject, public, signer, ext) ==
    LET cert == [sid |-> <<issuer, subject>>, subject |-> subject, issuer |-> issuer, ext |-> ext,
                 family |-> public.family, key |-> public.key, sound |-> TRUE,
                 algorithm |-> signer.family, signature |-> None]
    IN  [cert EXCEPT !.signature = SignWith(signer, Tbs(cert))]

\* The root is a version 1 certificate, without extensions; both new keys are
\* of the subject key's family and curve.
Issue(public, subject, rootPoint, caPoint) ==
    LET New(point) == [public EXCEPT !.key = <<@[1], point>>]
        rootKey == New(rootPoint)
        caKey == New(caPoint)
        Ext(ca, key, issuerKey) == [ca |-> ca, ski |-> KeyIdentifier(key), aki |-> KeyIdentifier(issuerKey)]
    IN  <<MakeCertificate("ca", subject, public, caKey, Ext(FALSE, public, caKey)),
          MakeCertificate("root", "ca", caKey, rootKey, Ext(TRUE, caKey, rootKey)),
          MakeCertificate("root", "root", rootKey, rootKey, None)>>

\* DER, PEM, or base64 of either.
Wrappings == {<<>>, <<"pem">>, <<"base64">>, <<"base64", "pem">>}
ParseCertificateAny(input) == IF input.wrapped \in Wrappings THEN input.value ELSE Failed
ParseRequest(input) == IF input.wrapped \in Wrappings THEN input.value ELSE Failed

\* The issuer's name is not compared, nor the algorithm's family.
VerifyCertificateSignature(subject, issuer) ==
    IF subject.algorithm \notin Algorithms \/ issuer.key = None THEN Failed
    ELSE subject.signature = SignWith(issuer, Tbs(subject))

RequireSignedBy(child, issuer) == VerifyCertificateSignature(child, issuer) = TRUE

VerifyChain(subject, ca, root) ==
    /\ RequireSignedBy(subject, ca)
    /\ RequireSignedBy(ca, root)
    /\ RequireSignedBy(root, root)

CheckKeyMatchesCertificate(private, cert) ==
    IF cert.key = None THEN "Unsupported"
    ELSE IF private.family # cert.family \/ private.key[1] # cert.key[1] THEN "PublicKeyDoesNotMatchPrivate"
    ELSE IF private.key # cert.key THEN "PublicKeyDoesNotMatch"
    ELSE "OK"

---------------------------------------------------------------------------
(* Requests: [info, algorithm, signature].  A policy in a list is          *)
(* [spaced, oid].                                                          *)

CertificatePolicies(list) == [i \in DOMAIN list |-> list[i].oid]

ParseCpList(list, trimEach) ==
    IF \E i \in DOMAIN list : list[i].oid = BadOid \/ (list[i].spaced /\ ~trimEach)
    THEN Failed
    ELSE CertificatePolicies(list)

Build(k, subject, policies) ==
    LET info == [subject |-> subject, family |-> k.family, key |-> k.key, policies |-> policies]
    IN  [info |-> info, algorithm |-> k.family, signature |-> SignWith(k, info)]

VerifySignature(req) ==
    IF req.info.key = None THEN Failed
    ELSE req.signature = SignWith(req.info, req.info)

InfoView(req) ==
    [subject |-> req.info.subject, key |-> req.info.key, verified |-> VerifySignature(req) = TRUE]

---------------------------------------------------------------------------
(* The functions of a site.  A session is [kind, key, chain], the key and   *)
(* chain those that its password opened; of kind "none" if there is none.  *)

KeyStoreKinds == {"pfx", "yks"}
Answer(status, value) == [status |-> status, value |-> value]
Refused(status) == Answer(status, None)

\* What verify finds is in the reply and refuses nothing.
CreatePkcs7(session, data, detached) ==
    LET sd == Sign(data, ~detached, session.key.key, session.chain)
    IN  CASE session.kind = "none" -> Refused("KeyIdIsNotFound")
          [] session.kind \in KeyStoreKinds ->
                IF sd = None \/ Verify(sd, IF detached THEN data ELSE None) = None
                THEN Refused("Runtime")
                ELSE Answer("OK", sd)
          [] session.kind = "device" -> Refused("DeviceNotFound")
          [] OTHER -> Refused("KeyIdIsNotSupported")

GetCertificateChain(session) ==
    CASE session.kind = "none" -> Refused("KeyIdIsNotFound")
      [] session.kind \in KeyStoreKinds -> Answer("OK", session.chain)
      [] session.kind = "device" -> Refused("DeviceNotFound")
      [] OTHER -> Refused("KeyIdIsNotSupportedForCertificate")

CreatePkcs10(session, subject, list) ==
    LET policies == ParseCpList(list, FALSE)
    IN  IF policies = Failed THEN Refused("InvalidCertificatePolicyOid")
        ELSE CASE session.kind = "key_pair" -> Answer("OK", Build(session.key, subject, policies))
               [] session.kind = "device" -> Refused("DeviceNotFound")
               [] session.kind = "none" -> Refused("KeyPairByIdIsNotFound")
               [] OTHER -> Refused("KeyIdDoesNotMatch")

\* The empty replacement leaves the certificate's name.
CreatePkcs10FromKey(session, replacement, list) ==
    LET policies == ParseCpList(list, TRUE)
        Subject == IF replacement = "" THEN session.chain[1].subject ELSE replacement
    IN  IF policies = Failed THEN Refused("InvalidCertificatePolicyOid")
        ELSE CASE session.kind = "none" -> Refused("KeyIdIsNotFound")
               [] session.kind \in KeyStoreKinds ->
                    IF session.chain = <<>> THEN Refused("Runtime")
                    ELSE Answer("OK", Build(session.key, Subject, policies))
               [] OTHER -> Refused("KeyIdIsNotSupported")

GetPkcs10Info(input) ==
    IF ParseRequest(input) = Failed THEN Refused("FailedToOpenPkcs10")
    ELSE Answer("OK", InfoView(ParseRequest(input)))

VerifyCertificate(subject, issuer) ==
    IF Failed \in {ParseCertificateAny(subject), ParseCertificateAny(issuer)} THEN Refused("Runtime")
    ELSE IF VerifyCertificateSignature(ParseCertificateAny(subject), ParseCertificateAny(issuer)) = TRUE
         THEN Answer("OK", None)
         ELSE Refused("Runtime")

\* The legacy algorithm is kept on the person's word and on no word at all;
\* a name that is no algorithm's is refused after the question.
GenerateKey(name, asked, point) ==
    LET effective == IF name = "ozmst" \/ asked = "UseSuggested" THEN "ozmst" ELSE name
    IN  IF effective \notin Algorithms THEN Refused("UnsupportedAlgorithm")
        ELSE Answer("OK", [family |-> effective, key |-> <<"A", point>>])
=============================================================================
