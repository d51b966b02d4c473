----------------------------- MODULE Algorithms -----------------------------
(***************************************************************************)
(* The pure parts of the program, each run on every input of a bounded set *)
(* and compared with a reference: the curves and signatures, the encodings *)
(* of keys, the key stores and their conversions, discovery, and CMS.      *)
(* Canonical adds BER to DER.                                              *)
(*                                                                         *)
(* A task is an input; its one step answers it.                            *)
(***************************************************************************)
EXTENDS Integers, Sequences, FiniteSets, SequencesExt

CONSTANTS
    Bits, Infinity, Params, Radix, ScalarOctets, Encoded(_), Failed,
    None, ReadOnlyPassword, PasswordIncorrect,
    DSKEYS, HiddenStem, BadStem,
    IdData, GostDigest, BadOid, Der(_),
    Pending         \* the answer of a task that has not run

Ec == INSTANCE Encodings        \* with the operators of Ecc
Files == INSTANCE Discovery     \* with the operators of KeyStores
Signed == INSTANCE Certificates \* with the operators of Cms

VARIABLES task, answer

vars == <<task, answer>>

---------------------------------------------------------------------------
(* The curves. *)

Curves == {Params[c] : c \in DOMAIN Params}

\* Curves to sign with, of any size.
ASSUME CurvesAssumption ==
    /\ Bits \in Nat /\ Infinity \notin Int \X Int
    /\ \A c \in Curves : c.p \in Nat /\ c.n \in Nat /\ Ec!IsSigningCurve(c)

Numbers == 0 .. Ec!Width - 1

\* Every multiple of the base point, a point off the curve, and one on it
\* whose coordinate is not reduced.
PointsOf(c) == {Ec!Times(c, d, c.g) : d \in 1 .. c.n - 1} \cup {<<1, 1>>, <<c.g[1] + c.p, c.g[2]>>}

MulTask ==
    \E c \in Curves : \E d \in 1 .. c.n - 1, k \in 0 .. 2 * Ec!Width :
        task = [kind |-> "mul", curve |-> c, k |-> k, pt |-> Ec!Times(c, d, c.g)]
SignTask ==
    \E c \in Curves : \E d \in 1 .. c.n - 1, hash, draw \in Numbers :
        task = [kind |-> "sign", curve |-> c, d |-> d, hash |-> hash, draw |-> draw]
VerifyTask ==
    \E c \in Curves : \E q \in PointsOf(c), hash \in {0, 1, 3, 5, 7}, sig \in Numbers \X Numbers :
        task = [kind |-> "verify", curve |-> c, q |-> q, hash |-> hash, sig |-> sig]

CurveAnswer(t) ==
    CASE t.kind = "mul" -> Ec!Mul(t.curve, t.k, t.pt)
      [] t.kind = "sign" -> IF Ec!IsScalar(t.curve, t.draw)
                            THEN Ec!SignWithK(t.curve, t.d, Ec!HashToE(t.curve.n, t.hash), t.draw)
                            ELSE <<>>
      [] t.kind = "verify" -> Ec!Verify(t.curve, t.q, t.hash, t.sig)

---------------------------------------------------------------------------
(* Encodings: keys as programs write them, with one part replaced, and     *)
(* signatures and seeds.                                                   *)

\* How many numbers so many octets can hold.
Weight[i \in 0 .. ScalarOctets] == IF i = 0 THEN 1 ELSE Weight[i - 1] * Radix

\* The scalar's octets hold every number of the curves and of a signature.
ASSUME EncodingsAssumption ==
    /\ Radix \in Nat /\ Radix > 3 /\ ScalarOctets \in Nat \ {0}
    /\ DOMAIN Params = {"A", "B", "C"} /\ Failed \notin DOMAIN Params
    /\ Ec!Width <= Weight[ScalarOctets]
    /\ \A c \in Curves : c.p <= Weight[ScalarOctets] /\ c.n <= Weight[ScalarOctets]

Names == {"A", "B", "C", "D", "E", "XCHA", "XCHB"}
Means == [ozdst |-> [A |-> "A", XCHA |-> "A", B |-> "B", C |-> "C", XCHB |-> "C"],
          ozmst |-> [A |-> "A", D |-> "A", B |-> "B", E |-> "B", C |-> "C", XCHB |-> "C"]]
NamesFor(family, c) == {<<family, name>> : name \in {n \in DOMAIN Means[family] : Means[family][n] = c}}
CurveNames == (Ec!Families \X Names) \cup {None}

PrivateKeys ==
    UNION {{[family |-> f, curve |-> c, d |-> d, public |-> Ec!Times(Params[c], d, Params[c].g)] :
                f \in Ec!Families, d \in 1 .. Params[c].n - 1} : c \in DOMAIN Params}

Spki(f, name, octets) == [algorithm |-> f, curve |-> name, octets |-> octets]
Pkcs8(f, style, name, private) ==
    [algorithm |-> f, style |-> style, curve |-> name, private |-> private]
OctetsOf(n) == [1 .. n -> 0 .. Radix - 1]

\* A number as its octets, the most significant one first.
Positional(d) == [i \in 1 .. ScalarOctets |-> (d \div Weight[ScalarOctets - i]) % Radix]

Structure(octets, name) == [form |-> "sec1", octets |-> octets, curve |-> name, public |-> None]
Number(d) == [form |-> "integer", value |-> d]
Octets(octets) == [form |-> "octets", octets |-> octets]

\* SEC1 under a curve's name, of any family, and alone; GOST's own; and
\* Bouncy Castle's bare number, of curve A.
WrittenAs(k) ==
    LET be == Positional(k.d)
        names == NamesFor("ozdst", k.curve) \cup NamesFor("ozmst", k.curve)
    IN  {Pkcs8(k.family, "named", name, Structure(be, None)) : name \in names}
        \cup {Pkcs8(k.family, "none", None, Structure(be, name)) : name \in names}
        \cup {Pkcs8(k.family, "sequence", name, Octets(Reverse(be))) : name \in NamesFor(k.family, k.curve)}
        \cup {Pkcs8(k.family, "none", None, Number(k.d)) : c \in {k.curve} \cap {"A"}}

Damaged(info) ==
    LET f == info.algorithm
        style == info.style
        name == info.curve
        private == info.private
    IN  {info, Pkcs8("rsa", style, name, private)}
        \cup {Pkcs8(f, s, name, private) : s \in {"sequence", "named", "none"}}
        \cup {Pkcs8(f, style, n, private) : n \in CurveNames}
        \cup {Pkcs8(f, style, name, Octets(o)) : o \in OctetsOf(1) \cup OctetsOf(3)}
        \cup IF private.form # "sec1" THEN {}
             ELSE {Pkcs8(f, style, name, Structure(o, private.curve)) : o \in OctetsOf(ScalarOctets)}

\* What is encoded is octets.
ASSUME EncodedAssumption ==
    /\ \A octets \in OctetsOf(ScalarOctets), name \in CurveNames :
            Encoded(Structure(octets, name)) \in Seq(0 .. Radix - 1)
    /\ \A k \in PrivateKeys : Encoded(Number(k.d)) \in Seq(0 .. Radix - 1)

Pkcs8Task ==
    \E k \in PrivateKeys : \E written \in WrittenAs(k) : \E info \in Damaged(written) :
        task = [kind |-> "pkcs8", key |-> k, written |-> written, info |-> info]
SpkiTask ==
    \E k \in PrivateKeys, o \in OctetsOf(2 * ScalarOctets) \cup OctetsOf(1), name \in CurveNames :
        /\ name \in NamesFor(k.family, k.curve) \/ o = Ec!XyLE(k.public)
        /\ task = [kind |-> "spki", spki |-> Spki(k.family, name, o)]
SignatureTask ==
    \E sig \in Numbers \X Numbers, extra \in OctetsOf(0) \cup OctetsOf(1) :
        task = [kind |-> "signature", sig |-> sig, extra |-> extra]
SeedTask ==
    \E i, j, k \in 0 .. 2 * Radix + 1 :
        task = [kind |-> "seed", parts |-> <<[n \in 1 .. i |-> 0], [n \in 1 .. j |-> 1], [n \in 1 .. k |-> 2]>>]
EncodingTask == Pkcs8Task \/ SpkiTask \/ SignatureTask \/ SeedTask

EncodingAnswer(t) ==
    CASE t.kind = "pkcs8" -> Ec!FromPkcs8(t.info)
      [] t.kind = "spki" -> Ec!FromSpki(t.spki)
      [] t.kind = "signature" -> Ec!EncodeSignature(t.sig) \o t.extra
      [] t.kind = "seed" -> Ec!EncodeSeed(t.parts[1], t.parts[2], t.parts[3])

---------------------------------------------------------------------------
(* Stores: two keys, their certificates, an authority's and a root's. *)

Cert(subject, issuer, key) == [subject |-> subject, issuer |-> issuer, key |-> key]
Root == Cert("root", "root", "kr")
Authority == Cert("authority", "root", "ka")
Leaf(key) == Cert(IF key = "k1" THEN "s1" ELSE "s2", "authority", key)

Chains(key) ==
    {<<>>, <<Leaf(key)>>, <<Leaf(key), Authority>>, <<Leaf(key), Authority, Root>>}
KeysOf(key, alias) ==
    {<<[alias |-> alias, id |-> id, key |-> key, chain |-> chain]>> :
        id \in {None, "id"}, chain \in Chains(key)}
CertsOf == {<<Files!CertBag(alias, None, c)>> : alias \in {None, "x"}, c \in {Root, Leaf("k2")}}

\* Of two keys one at most has an identifier.
Stores ==
    {[keys |-> a \o b, certs |-> c] :
        a \in {<<>>} \cup KeysOf("k1", "a"),
        b \in {<<>>} \cup {k \in KeysOf("k2", "b") : k[1].id = None},
        c \in {<<>>} \cup CertsOf \cup {<<Files!CertBag(None, None, Authority), Files!CertBag("x", None, Root)>>}}

Passwords == {"p", "q", ReadOnlyPassword}

\* Neither nothing nor the error is a password, a name or a store's entries.
ASSUME StoresAssumption ==
    /\ None \notin Passwords \cup {"a", "b", "id", "k1", "k2"}
    /\ \A store \in Stores : Files!FromPkcs12(store) # PasswordIncorrect

StoreTask ==
    \E store \in Stores, password, other \in Passwords :
        task = [kind |-> "store", store |-> store, password |-> password, other |-> other]

StoreAnswer(t) ==
    LET yks == Files!ReadYtks(Files!WriteYtks(Files!FromPkcs12(t.store), t.password), t.other)
    IN  [pfx |-> Files!ReadPfx(Files!WritePfx(t.store, t.password), t.other),
         yks |-> yks,
         back |-> IF yks = PasswordIncorrect THEN yks
                  ELSE Files!ReadPfx(Files!WritePfx(Files!ToPkcs12(yks), t.password), t.password)]

---------------------------------------------------------------------------
(* Disks: the volumes and two folders, one of them inside the volumes. *)

Inside(dir) == Append(dir, DSKEYS)
Volumes == <<"volumes">>
Folder == <<"folder">>
Directories == {Volumes, Inside(Volumes), Inside(Inside(Volumes)), Folder}

KeyStore(alias) ==
    [keys |-> <<[alias |-> alias, id |-> None, key |-> "k1", chain |-> <<Leaf("k1")>>]>>, certs |-> <<>>]
KeyFiles(dir) ==
    {[dir |-> dir, stem |-> stem, ext |-> "pfx", kind |-> "pfx",
      store |-> Files!WritePfx(KeyStore("a"), "p")] : stem \in {"n", HiddenStem}}
    \cup {[dir |-> dir, stem |-> "n", ext |-> "PFX", kind |-> "pfx",
           store |-> Files!WritePfx(KeyStore("a"), "p")],
          [dir |-> dir, stem |-> "m", ext |-> "yks", kind |-> "yks",
           store |-> Files!WriteYtks(Files!FromPkcs12(KeyStore("b")), "p")],
          [dir |-> dir, stem |-> "n", ext |-> "yks", kind |-> "yks", store |-> None]}

ASSUME NamesAssumption == DSKEYS # "" /\ BadStem \notin {"n", "m"}

DiskTask ==
    \E extra \in SUBSET {Inside(Volumes), Folder},
       dirs \in {Directories, Directories \ {Folder}, {Folder}} :
    \E f, g \in UNION {KeyFiles(dir) : dir \in dirs} :
        task = [kind |-> "disks",
                fs |-> [volumes |-> Volumes, extra |-> extra, dirs |-> dirs, files |-> {f, g}]]

DiskAnswer(t) ==
    [pfx |-> Files!Scan(t.fs, "pfx"), yks |-> Files!Scan(t.fs, "yks"),
     one |-> [kind \in {"pfx", "yks"} |-> [disk \in Directories |-> Files!ListCertificates(t.fs, kind, disk)]]]

---------------------------------------------------------------------------
(* CMS: what was signed, with one or two parts replaced. *)

Certificates ==
    {[sid |-> "s1", key |-> "k1", sound |-> TRUE], [sid |-> "s1", key |-> "k2", sound |-> TRUE],
     [sid |-> "s2", key |-> None, sound |-> TRUE], [sid |-> "s2", key |-> "k2", sound |-> FALSE]}

\* A content of its own, and one that is somebody's attributes.
Text(letters) == [text |-> letters]
Texts == {Text("c"), Text("d")}
Contents == Texts \cup {Signed!Attributes(IdData, Text("c"))}

\* The signed data s of one signer with parts replaced, by the attributes a
\* or the certificate cert.
Replaced(s, a, cert) ==
    LET si == CHOOSE signer \in s.signers : TRUE
        Signers(signers) == [s EXCEPT !.signers = signers]
        Signer(attrs, over) == Signed!SignerInfo(si.sid, attrs, si.signature.key, over)
    IN  {s,
         [s EXCEPT !.content = Text("d")],
         [s EXCEPT !.content = si.attrs],
         [s EXCEPT !.contentType = "other"],
         [s EXCEPT !.certs = {cert} \cup @],
         [s EXCEPT !.certs = {cert}],
         Signers({[si EXCEPT !.sid = None]}),
         Signers({[si EXCEPT !.digestAlg = "other"]}),
         Signers({Signer(None, si.attrs)}),
         Signers({Signer(a, si.attrs)}),
         Signers({Signer(a, a)}),
         Signers({Signer(None, Text("c"))}),
         Signers({si, Signer(a, si.attrs)})}

CmsTask ==
    \E attached \in BOOLEAN, key \in {"k1", "k2"}, signer, cert \in Certificates,
       type \in {None, IdData}, digest \in {None} \cup Texts, detached \in {None} \cup Contents :
    \E sd \in Replaced(Signed!Sign(Text("c"), attached, key, <<signer>>),
                        Signed!Attributes(type, digest), cert) :
        task = [kind |-> "cms", detached |-> detached, sd |-> sd]

CmsAnswer(t) == Signed!Verify(t.sd, t.detached)

---------------------------------------------------------------------------
(* Certificates: a temporary chain with one part of one certificate        *)
(* replaced, and one that is signed anew by another's key; sessions of     *)
(* every kind, with a chain of their own key or of another's, or with the  *)
(* same certificate twice.                                                 *)

SigningKey(family, curve, point) == [family |-> family, key |-> <<curve, point>>]
SigningKeys == {SigningKey("ozmst", "A", 1), SigningKey("ozmst", "A", 2),
                SigningKey("ozdst", "A", 1), SigningKey("ozmst", "B", 1)}
Temporary(k) == Signed!Issue(k, "s", 3, 4)
Doubled(k) == <<Temporary(k)[1], Temporary(k)[1]>>

\* Each field takes what the next certificate has there.
DamagedChains(chain) ==
    {chain}
    \cup {[chain EXCEPT ![i] = [@ EXCEPT ![field] = chain[(i % 3) + 1][field]]] : i \in 1 .. 3, field \in DOMAIN chain[1]}
    \cup {[chain EXCEPT ![i] = [@ EXCEPT ![field] = None]] : i \in 1 .. 3, field \in {"key", "algorithm"}}
    \cup {[chain EXCEPT ![i] = chain[j]] : i, j \in 1 .. 3}
    \cup {[chain EXCEPT ![i] = Temporary(k)[i]] : i \in 1 .. 3, k \in SigningKeys}

Session(kind, k, chain) == [kind |-> kind, key |-> k, chain |-> chain]
SessionsOf ==
    {Session(kind, k, chain) :
        kind \in {"none", "pfx", "yks", "key_pair", "device"}, k \in SigningKeys,
        chain \in {<<>>} \cup {Temporary(j) : j \in SigningKeys} \cup {Doubled(j) : j \in SigningKeys}}

Policies == [spaced : BOOLEAN, oid : {"oid", BadOid}]
CpLists == {<<>>} \cup {<<p>> : p \in Policies} \cup {<<p, q>> : p, q \in Policies}

Wrapped(value) == {[wrapped |-> w, value |-> value] : w \in Signed!Wrappings \cup {<<"pem", "base64">>}}

DamagedRequests(req, other) ==
    LET info == req.info
        With(infos) == {[req EXCEPT !.info = i] : i \in infos}
    IN  With({info, [info EXCEPT !.subject = "t"], [info EXCEPT !.policies = <<"oid">>],
              [info EXCEPT !.key = other.key], [info EXCEPT !.key = None]})
        \cup {[req EXCEPT !.signature = Signed!Build(other, "t", <<>>).signature]}

\* The values for nothing and for what cannot be read are no value there is.
ASSUME AbsenceAssumption ==
    /\ None \notin {"k1", "k2", "s1", "s2"} \cup Signed!Algorithms
    /\ None \notin Certificates \cup Contents \cup {Text("other")}
    /\ \A type \in {IdData, "other"}, content \in Contents : None # Signed!Attributes(type, content)
    /\ Failed \notin BOOLEAN
    /\ \A k \in SigningKeys :
        /\ \A i \in 1 .. 3 : None \notin {Temporary(k)[i].sid, Temporary(k)[i].key}
        /\ \A chain \in DamagedChains(Temporary(k)), i \in 1 .. 3 : chain[i] \notin {None, Failed}
        /\ \A other \in SigningKeys : Failed \notin DamagedRequests(Signed!Build(k, "s", <<>>), other)

\* The encodings of certificates are in some order.
ASSUME DerAssumption ==
    /\ \A c, d \in Certificates : Der(c) \in Nat /\ (c # d => Der(c) # Der(d))
    /\ \A k \in SigningKeys : \A i \in 1 .. 3 : Der(Temporary(k)[i]) \in Nat

ChainTask ==
    \E k, session \in SigningKeys : \E chain \in DamagedChains(Temporary(k)) :
        task = [kind |-> "chain", issued |-> Temporary(k), key |-> session, chain |-> chain]
Pkcs7Task ==
    \E session \in SessionsOf, content \in Texts, detached \in BOOLEAN :
        task = [kind |-> "pkcs7", session |-> session, content |-> content, detached |-> detached]
Pkcs10Task ==
    \E session \in SessionsOf, from \in BOOLEAN, name \in {"", "t"}, list \in CpLists :
        task = [kind |-> "pkcs10", session |-> session, from |-> from, name |-> name, list |-> list]
RequestTask ==
    \E k, other \in SigningKeys : \E req \in {Signed!Build(k, "s", <<>>)} :
    \E damaged \in DamagedRequests(req, other) : \E input \in Wrapped(damaged) :
        task = [kind |-> "request", built |-> req, input |-> input]
GenerateTask ==
    \E name \in {"ozdst", "ozmst", "rsa"}, asked \in {"UseSuggested", "KeepRequested", None} :
        task = [kind |-> "generate", name |-> name, asked |-> asked]
CertificateTask == ChainTask \/ Pkcs7Task \/ Pkcs10Task \/ RequestTask \/ GenerateTask

ChainAnswer(t) ==
    [stored |-> /\ Signed!CheckKeyMatchesCertificate(t.key, t.chain[1]) = "OK"
                /\ Signed!VerifyChain(t.chain[1], t.chain[2], t.chain[3]),
     verified |-> [i \in 1 .. 3 |-> {Signed!VerifyCertificate(c, d).status :
                        c \in Wrapped(t.chain[i]), d \in Wrapped(t.chain[IF i = 3 THEN 3 ELSE i + 1])}]]

CertificateAnswer(t) ==
    CASE t.kind = "chain" -> ChainAnswer(t)
      [] t.kind = "pkcs7" -> [made |-> Signed!CreatePkcs7(t.session, t.content, t.detached),
                              chain |-> Signed!GetCertificateChain(t.session)]
      [] t.kind = "pkcs10" -> IF t.from THEN Signed!CreatePkcs10FromKey(t.session, t.name, t.list)
                              ELSE Signed!CreatePkcs10(t.session, t.name, t.list)
      [] t.kind = "request" -> Signed!GetPkcs10Info(t.input)
      [] t.kind = "generate" -> Signed!GenerateKey(t.name, t.asked, 1)

---------------------------------------------------------------------------

Asked ==
    MulTask \/ SignTask \/ VerifyTask \/ EncodingTask
    \/ StoreTask \/ DiskTask \/ CmsTask \/ CertificateTask

Init == Asked /\ answer = Pending

\* The step of the tasks of some kinds.
Answering(kinds, Answer(_)) ==
    /\ answer = Pending
    /\ task.kind \in kinds
    /\ answer' = Answer(task)
    /\ UNCHANGED task

Next ==
    \/ Answering({"mul", "sign", "verify"}, CurveAnswer)
    \/ Answering({"pkcs8", "spki", "signature", "seed"}, EncodingAnswer)
    \/ Answering({"store"}, StoreAnswer)
    \/ Answering({"disks"}, DiskAnswer)
    \/ Answering({"cms"}, CmsAnswer)
    \/ Answering({"chain", "pkcs7", "pkcs10", "request", "generate"}, CertificateAnswer)

Spec == Init /\ [][Next]_vars

Answered(kind) == answer # Pending /\ task.kind = kind

---------------------------------------------------------------------------

\* A signature verifies exactly when some nonce makes it under the public
\* key's private key, what sign makes is such a signature, and the ladder
\* multiplies, by a scalar wider than its fixed width too (ec.rs and
\* gost3410.rs).
SignaturesAreExact ==
    /\ Answered("verify") => (answer <=> Ec!IsSignature(task.curve, task.q, task.hash, task.sig))
    /\ Answered("sign") /\ answer # <<>> =>
            Ec!IsSignature(task.curve, Ec!Times(task.curve, task.d, task.curve.g), task.hash, answer)
    /\ Answered("mul") => answer = Ec!Times(task.curve, task.k, task.pt)

PublicOf(k) == [family |-> k.family, curve |-> k.curve, point |-> k.public]

Half == Radix \div 2

\* The number of digits that come least significant first.
LengthOf(digits) ==
    LET V[i \in 0 .. Len(digits)] ==
            IF i = 0 THEN 0 ELSE V[i - 1] * Half + (digits[Len(digits) + 1 - i] % Half)
    IN  V[Len(digits)]

\* Where the digits of a length that come second end.
LastDigit(octets) ==
    CHOOSE i \in 2 .. Len(octets) : octets[i] < Half /\ \A j \in 2 .. i - 1 : octets[j] >= Half

\* Tag, length and value, read from the front: <<tag, value, the rest>>.
ReadTlv(octets) ==
    LET last == LastDigit(octets)
        after == SubSeq(octets, last + 1, Len(octets))
        len == LengthOf(SubSeq(octets, 2, last))
    IN  <<octets[1], SubSeq(after, 1, len), SubSeq(after, len + 1, Len(after))>>

\* A private key is the same key in whichever style a program wrote it, a key
\* that is accepted has a scalar in range and its own public key, and is
\* read again as written here, as its public key is; a signature keeps its
\* two numbers, and a seed its parts whatever their lengths (keys.rs,
\* gost3410.rs, randseed.rs).
EncodingsAreExact ==
    /\ Answered("pkcs8") =>
        /\ task.info = task.written => answer = task.key
        /\ answer # Failed =>
            /\ answer \in PrivateKeys
            /\ Ec!FromPkcs8(Ec!ToPkcs8(answer)) = answer
            /\ Ec!FromSpki(Ec!ToSpki(PublicOf(answer))) = PublicOf(answer)
    /\ Answered("spki") =>
        /\ answer # Failed =>
            /\ \E k \in PrivateKeys : answer = PublicOf(k)
            /\ Ec!ToSpki(answer).octets = task.spki.octets
        /\ \A k \in PrivateKeys : Ec!ToSpki(PublicOf(k)) = task.spki => answer = PublicOf(k)
    /\ Answered("signature") =>
        /\ Ec!DecodeSignature(answer) = task.sig
        /\ Ec!DecodeSignature(SubSeq(answer, 1, 2 * ScalarOctets - 1)) = Failed
    /\ Answered("seed") =>
        LET outer == ReadTlv(answer)
            first == ReadTlv(outer[2])
            second == ReadTlv(first[3])
            third == ReadTlv(second[3])
        IN  <<first[2], second[2], third[2], third[3], outer[3]>>
                = <<task.parts[1], task.parts[2], task.parts[3], <<>>, <<>> >>

AllCerts(store) ==
    {c.cert : c \in Files!RangeOf(store.certs)}
    \cup UNION {Files!RangeOf(k.chain) : k \in Files!RangeOf(store.keys)}

\* A chain may have grown by issuers found in the file.
Keeps(new, old) ==
    /\ Len(new.keys) = Len(old.keys)
    /\ \A i \in DOMAIN old.keys :
        /\ new.keys[i].alias = old.keys[i].alias
        /\ new.keys[i].key = old.keys[i].key
        /\ IsPrefix(old.keys[i].chain, new.keys[i].chain)
    /\ AllCerts(new) = AllCerts(old)

\* A store written and read, as PKCS#12, as YTKS-2 and converted back, keeps
\* its keys, the certificates of each and every other certificate, and its
\* keys open under no other password (pkcs12/, ytks.rs).
ConversionsKeepKeys ==
    Answered("store") =>
        IF task.other = task.password
        THEN /\ Keeps(answer.pfx, task.store)
             /\ Keeps(answer.back, task.store)
        ELSE /\ answer.pfx = PasswordIncorrect
             /\ task.store.keys # <<>> => answer.yks = PasswordIncorrect

Opened(f, password) ==
    IF f.kind = "pfx" THEN Files!ReadPfx(f.store, password).keys
    ELSE Files!ToPkcs12(Files!ReadYtks(f.store, password)).keys

\* A key a site is shown is found again where the list says it is, and opens
\* under its alias; and a key file on a disk is listed once, also
\* when the list of one disk shows it under another place (discovery.rs).
\* Files whose extension is in capitals or whose stem starts with a dot are
\* listed and cannot be named.
EveryListedKeyOpens ==
    Answered("disks") =>
        LET disks == Files!ListDisks(task.fs)
        IN  \A kind \in {"pfx", "yks"} :
            /\ \A i \in answer[kind] :
                i.file.ext = kind /\ i.file.stem # HiddenStem =>
                    /\ Files!Resolve(task.fs, i.disk, i.path, i.name, kind)
                            = <<i.file.dir, i.file.stem, i.file.ext>>
                    /\ \E k \in Files!RangeOf(Opened(i.file, "p")) : k.alias = i.alias
            /\ \A f \in task.fs.files :
                f.kind = kind /\ f.store # None /\ f.dir \in disks =>
                    Cardinality({i \in answer[kind] : i.file = f}) = 1
            /\ \A disk \in Directories :
                IF disk \in disks
                THEN \A i \in answer.one[kind][disk] :
                        \E j \in answer[kind] : j.file = i.file /\ j.alias = i.alias
                ELSE answer.one[kind][disk] = None

\* A signer passes only if the key of a certificate it names signed the octets
\* of this content, or attributes with this content's digest and type; and
\* what sign made passes, with the content given or embedded, if no other
\* certificate has the name of the signer's (cms.rs).
SignersSigned ==
    Answered("cms") /\ answer # None =>
        LET content == Signed!ContentOf(task.sd, task.detached)
        IN  \A si \in task.sd.signers :
            LET Named == {c \in task.sd.certs : c.sid = si.sid}
                IsSigner(c) == c.sound /\ c.key = si.signature.key
            IN  /\ answer[si] =>
                    /\ \E c \in Named : IsSigner(c)
                    /\ si.signature.over \in {content, Signed!Attributes(task.sd.contentType, content)}
                /\ /\ Named # {} /\ \A c \in Named : IsSigner(c)
                   /\ si.digestAlg = GostDigest
                   /\ si.attrs = Signed!Attributes(task.sd.contentType, content)
                   /\ si.signature.over = si.attrs
                   => answer[si]

\* A temporary chain can be stored with its key; a chain is stored only if
\* the key is the subject's, and each certificate in it says what its issuer
\* signed, with nothing replaced; and a certificate verifies in whatever
\* wrapping just if the next one's key signed it (tempchain.rs, keystore.rs,
\* x509.rs).
StoredChainsAreSigned ==
    Answered("chain") =>
        LET subject == task.chain[1]
            Issuer(i) == task.chain[IF i = 3 THEN 3 ELSE i + 1]
            IsIssued(i) == \E k \in SigningKeys : \E c \in Files!RangeOf(Temporary(k)) :
                /\ Signed!Tbs(task.chain[i]) = Signed!Tbs(c)
                /\ c.signature.key = Issuer(i).key
        IN  /\ task.chain = task.issued =>
                    (answer.stored <=> [family |-> subject.family, key |-> subject.key] = task.key)
            /\ answer.stored =>
                /\ [family |-> subject.family, key |-> subject.key] = task.key
                /\ \A i \in 1 .. 3 : IsIssued(i)
            /\ \A i \in 1 .. 3 :
                answer.verified[i] = IF IsIssued(i) /\ task.chain[i].algorithm # None
                                          /\ task.chain[i].signature.key = Issuer(i).key
                                          /\ task.chain[i].signature.over = Signed!Tbs(task.chain[i])
                                     THEN {"OK", "Runtime"} ELSE {"Runtime"}

\* What a site is given through a session is signed with that session's key,
\* over what the site sent; a document verifies unless the certificate beside
\* the key is another's; and a request verifies just as it was built
\* (pkcs7.rs, pkcs10.rs).
SessionsSignWithTheirKey ==
    /\ Answered("pkcs7") /\ answer.made.status = "OK" =>
        LET sd == answer.made.value
            verdicts == Signed!Verify(sd, task.content)
            other == Signed!Verify(sd, Text("other"))
        IN  /\ sd.signers # {}
            /\ \A si \in sd.signers :
                /\ si.signature.key = task.session.key.key
                /\ verdicts[si] <=> task.session.chain[1].key = task.session.key.key
                /\ task.detached => ~other[si]
            /\ sd.content = IF task.detached THEN None ELSE task.content
            /\ answer.chain.value = task.session.chain
            /\ sd.certs = Files!RangeOf(answer.chain.value)
    /\ Answered("pkcs10") /\ answer.status = "OK" =>
        /\ task.session.kind \in IF task.from THEN {"pfx", "yks"} ELSE {"key_pair"}
        /\ Signed!InfoView(answer.value) =
                [subject |-> IF task.from /\ task.name = "" THEN "s" ELSE task.name,
                 key |-> task.session.key.key, verified |-> TRUE]
        /\ Len(answer.value.info.policies) = Len(task.list)
        /\ ~task.from => \A i \in DOMAIN task.list : ~task.list[i].spaced
    /\ Answered("request") =>
        IF answer.status = "OK"
        THEN answer.value.verified <=> task.input.value = task.built
        ELSE task.input.wrapped = <<"pem", "base64">>
    /\ Answered("generate") /\ answer.status = "OK" /\ task.asked # "UseSuggested" =>
        answer.value.family = task.name

\* Nothing verifies but what was signed, and what the program signs does, in
\* documents, chains and requests.
VerifiedMeansSigned ==
    SignersSigned /\ StoredChainsAreSigned /\ SessionsSignWithTheirKey
=============================================================================
