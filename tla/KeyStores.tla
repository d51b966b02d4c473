------------------------------ MODULE KeyStores ------------------------------
(***************************************************************************)
(* The two key file formats, PKCS#12 (pkcs12/writer.rs, reader.rs) and     *)
(* YTKS-2 (ytks.rs), and the conversions between their stores.             *)
(*                                                                         *)
(* A store of the first is [keys, certs], of the second a sequence of      *)
(* entries.  A certificate is [subject, issuer, key]; a private key and    *)
(* its public key are one value.  What a password encrypts or              *)
(* authenticates carries that password; DER is left out.                   *)
(***************************************************************************)
EXTENDS Naturals, Sequences, SequencesExt

CONSTANTS
    None,
    ReadOnlyPassword,
    PasswordIncorrect   \* the error of the same name

RangeOf(s) == {s[i] : i \in DOMAIN s}

\* The members at some of a sequence's places, in their order.
Kept(s, places) ==
    LET K[i \in 0 .. Len(s)] ==
            IF i = 0 THEN <<>> ELSE IF i \in places THEN Append(K[i - 1], s[i]) ELSE K[i - 1]
    IN  K[Len(s)]

---------------------------------------------------------------------------
(* pkcs12/writer.rs *)

\* The SHA-1 of the public key where the entry has no identifier.
LocalKeyId(k) == IF k.id = None THEN k.key ELSE k.id

CertBag(alias, id, cert) == [alias |-> alias, id |-> id, cert |-> cert]

\* Only the first certificate of a chain is tied to its key.
ChainBags(k) ==
    [i \in DOMAIN k.chain |->
        IF i = 1 THEN CertBag(k.alias, LocalKeyId(k), k.chain[1])
                 ELSE CertBag(None, None, k.chain[i])]

\* An identifier without an alias is not written.
StandaloneBags(certs) ==
    [i \in DOMAIN certs |->
        CertBag(certs[i].alias, IF certs[i].alias = None THEN None ELSE certs[i].id, certs[i].cert)]

OncePerCertificate(bags) ==
    Kept(bags, {i \in DOMAIN bags : \A j \in 1 .. i - 1 : bags[j].cert # bags[i].cert})

WritePfx(store, password) ==
    [mac |-> password,
     keys |-> [i \in DOMAIN store.keys |->
                  [alias |-> store.keys[i].alias,
                   id |-> LocalKeyId(store.keys[i]),
                   key |-> store.keys[i].key,
                   password |-> password]],
     certs |-> OncePerCertificate(
                  FlattenSeq([i \in DOMAIN store.keys |-> ChainBags(store.keys[i])])
                  \o StandaloneBags(store.certs)),
     certsPassword |-> None]

---------------------------------------------------------------------------
(* pkcs12/reader.rs *)

\* Where the certificates are that issued the chain's last one and are not
\* in it.
IssuerPlaces(chain, certs) ==
    LET current == chain[Len(chain)]
    IN  {i \in DOMAIN certs : /\ current.subject # current.issuer
                              /\ certs[i].subject = current.issuer
                              /\ certs[i] \notin RangeOf(chain)}

FollowIssuers(leaf, certs) ==
    LET Chain[i \in 0 .. Len(certs)] ==
            IF i = 0 THEN <<leaf>>
            ELSE LET next == IssuerPlaces(Chain[i - 1], certs)
                 IN  IF next = {} THEN Chain[i - 1] ELSE Append(Chain[i - 1], certs[Min(next)])
    IN  Chain[Len(certs)]

\* The certificate tied to the key, else one of its public key, else all.
BuildChain(key, id, bags) ==
    LET certs == [i \in DOMAIN bags |-> bags[i].cert]
        tied == {i \in DOMAIN bags : id # None /\ bags[i].id = id}
        ofKey == {i \in DOMAIN bags : bags[i].cert.key = key}
        leaf == IF tied = {} THEN ofKey ELSE tied
    IN  IF leaf = {} THEN certs ELSE FollowIssuers(certs[Min(leaf)], certs)

WithAlias(bags) == Kept(bags, {i \in DOMAIN bags : bags[i].alias # None})

ReadPfx(file, password) ==
    LET shown == WithAlias(file.keys)
        opens == /\ file.mac \in {None, password}
                 /\ file.certsPassword \in {None, password}
                 /\ \A b \in RangeOf(shown) : b.password = password
    IN  IF ~opens THEN PasswordIncorrect
        ELSE [keys |-> [i \in DOMAIN shown |->
                           [alias |-> shown[i].alias, id |-> shown[i].id, key |-> shown[i].key,
                            chain |-> BuildChain(shown[i].key, shown[i].id, file.certs)]],
              certs |-> file.certs]

Consecutive(s) == Kept(s, {i \in DOMAIN s : i = 1 \/ s[i - 1] # s[i]})

Aliases(bags) == [i \in DOMAIN WithAlias(bags) |-> WithAlias(bags)[i].alias]

\* Without a password: encrypted parts are passed over, and certificates
\* count only where there is no key.
ListAliases(file) ==
    LET keys == Aliases(file.keys)
        certs == IF file.certsPassword = None THEN Aliases(file.certs) ELSE <<>>
    IN  Consecutive(IF keys = <<>> THEN certs ELSE keys)

---------------------------------------------------------------------------
(* ytks.rs *)

\* An entry of a key, and one of a trusted certificate.
KeyEntry(alias, key, chain) == [alias |-> alias, key |-> key, certs |-> chain]
TrustedEntry(alias, cert) == [alias |-> alias, key |-> None, certs |-> <<cert>>]
IsKeyEntry(e) == e.key # None

WriteYtks(entries, password) ==
    [digest |-> password,
     entries |-> [i \in DOMAIN entries |-> [entry |-> entries[i], password |-> password]]]

\* parse: the digest, or the password that reads without one.
OpensYtks(file, password) == password \in {file.digest, ReadOnlyPassword}

ListYtks(file) ==
    [i \in DOMAIN file.entries |->
        [alias |-> file.entries[i].entry.alias,
         cert |-> IF file.entries[i].entry.certs = <<>> THEN None
                  ELSE file.entries[i].entry.certs[1]]]

\* The envelope of a key opens only under the password that sealed it.
ReadYtks(file, password) ==
    LET sealed == {e \in RangeOf(file.entries) : IsKeyEntry(e.entry)}
    IN  IF OpensYtks(file, password) /\ \A e \in sealed : e.password = password
        THEN [i \in DOMAIN file.entries |-> file.entries[i].entry]
        ELSE PasswordIncorrect

\* Mutant: only the keys are taken over.
FromPkcs12_KeysOnly(store) ==
    [i \in DOMAIN store.keys |->
        KeyEntry(store.keys[i].alias, store.keys[i].key, store.keys[i].chain)]

\* A certificate in no chain becomes an entry, named by its alias or subject.
FromPkcs12(store) ==
    LET Standalone(c) == \A k \in RangeOf(store.keys) : c.cert \notin RangeOf(k.chain)
        alone == Kept(store.certs, {i \in DOMAIN store.certs : Standalone(store.certs[i])})
    IN  [i \in DOMAIN store.keys |->
            KeyEntry(store.keys[i].alias, store.keys[i].key, store.keys[i].chain)]
        \o [i \in DOMAIN alone |->
            TrustedEntry(IF alone[i].alias = None THEN alone[i].cert.subject ELSE alone[i].alias,
                         alone[i].cert)]

ToPkcs12(entries) ==
    LET places == {i \in DOMAIN entries : IsKeyEntry(entries[i])}
        keys == Kept(entries, places)
        certs == Kept(entries, DOMAIN entries \ places)
    IN  [keys |-> [i \in DOMAIN keys |->
                      [alias |-> keys[i].alias, id |-> None, key |-> keys[i].key,
                       chain |-> keys[i].certs]],
         certs |-> [i \in DOMAIN certs |-> CertBag(certs[i].alias, None, certs[i].certs[1])]]
=============================================================================
