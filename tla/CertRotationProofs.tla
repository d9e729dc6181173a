-------------------------- MODULE CertRotationProofs --------------------------
(***************************************************************************)
(* Proofs about the certificates of the webhook server, for every set of   *)
(* configurations and CAs, any length of time and any number of failures.  *)
(***************************************************************************)
EXTENDS CertRotation, TLAPS

-----------------------------------------------------------------------------
(* Values and identities.                                                   *)

\* The types alone, without what TypeOK says of a bundle and the target in it.
Types ==
    /\ now \in Nat /\ edits \in 0 .. MaxEdits /\ aborts \in 0 .. MaxAborts
    /\ config \in CertConfigs
    /\ api \in Objects /\ lister \in Objects
    /\ opBundle \in SUBSET Certs /\ hooks \in SUBSET Certs
    /\ crt \in Certs /\ ca \in Certs
    /\ pc \in {"idle", "signer", "signerKey", "bundle", "target", "targetKey"}

\* Which certificates a step may leave: CAs that were held, and certificates
\* the server had or may have got.
NothingNew == Held' \subseteq Held /\ Targets' \subseteq Targets \cup {NoCert}

LEMMA Values ==
    /\ NoCert \in Certs /\ NoCert.ca = 0 /\ NoCert.nb = 0 /\ NoCert.na = 0
    /\ NoConf \in Confs
    /\ EmptySecret \in Secrets /\ NoSecret \in Secrets
    /\ EmptySecret.cert = NoCert /\ NoSecret.cert = NoCert
<1>1. NoCert \in Certs /\ NoCert.ca = 0 /\ NoCert.nb = 0 /\ NoCert.na = 0
    BY DEF NoCert, Certs
<1>2. NoConf \in Confs
    BY DEF NoConf, Confs
<1>3. EmptySecret \in Secrets /\ EmptySecret.cert = NoCert
    BY <1>1, <1>2 DEF EmptySecret, Secrets
<1>4. NoSecret \in Secrets /\ NoSecret.cert = NoCert
    BY <1>3 DEF NoSecret, EmptySecret, Secrets
<1> QED BY <1>1, <1>2, <1>3, <1>4

LEMMA ObjectTypes ==
    ASSUME Types
    PROVE  /\ api.signer \in Secrets /\ api.target \in Secrets /\ api.bundle \in SUBSET Certs
           /\ lister.signer \in Secrets /\ lister.target \in Secrets /\ lister.bundle \in SUBSET Certs
           /\ api.signer.cert \in Certs /\ api.target.cert \in Certs
           /\ lister.signer.cert \in Certs /\ lister.target.cert \in Certs
           /\ DOMAIN api = {"signer", "target", "bundle"}
    BY DEF Types, Objects, Secrets

LEMMA ConfigTypes ==
    ASSUME Types
    PROVE  /\ SignerConfig \in Confs /\ SignerConfig.lifetime \in Nat
           /\ TargetConfig \in Confs /\ TargetConfig.lifetime \in Nat
<1>1. config \in [caDuration : Nat \cup {Unset}, caRenewBefore : Int,
                  serverDuration : Nat \cup {Unset}, serverRenewBefore : Int]
    BY CertAssumption DEF Types
<1>2. ASSUME NEW d \in Nat \cup {Unset}, NEW r \in Int, NEW l \in Nat, NEW f \in Int
      PROVE  CertConfig(d, r, l, f) \in Confs /\ CertConfig(d, r, l, f).lifetime \in Nat
    <2> DEFINE lt == IF d = Unset THEN l ELSE d
               rf == IF r = Unset THEN f ELSE lt - r
    <2>1. lt \in Nat /\ rf \in Int
        OBVIOUS
    <2>2. CertConfig(d, r, l, f) = [lifetime |-> lt, refresh |-> rf]
        BY DEF CertConfig
    <2> HIDE DEF lt, rf
    <2> QED BY <2>1, <2>2 DEF Confs
<1>3. /\ config.caDuration \in Nat \cup {Unset} /\ config.caRenewBefore \in Int
      /\ config.serverDuration \in Nat \cup {Unset} /\ config.serverRenewBefore \in Int
    BY <1>1
<1>4. 8 \in Nat /\ 4 \in Nat /\ 4 \in Int /\ 2 \in Int
    OBVIOUS
<1>5. SignerConfig \in Confs /\ SignerConfig.lifetime \in Nat
    BY <1>2, <1>3, <1>4, Zenon DEF SignerConfig
<1>6. TargetConfig \in Confs /\ TargetConfig.lifetime \in Nat
    BY <1>2, <1>3, <1>4, Zenon DEF TargetConfig
<1> QED BY <1>5, <1>6

\* What is held and what the server has, one by one.
LEMMA Contents ==
    /\ \A c : c \in Held <=> \/ c \in {api.signer.cert, lister.signer.cert, ca} /\ c # NoCert
                            \/ c \in api.bundle \/ c \in lister.bundle
                            \/ c \in opBundle \/ c \in hooks
    /\ \A c : Known(c) <=> c \in api.bundle /\ c \in lister.bundle /\ c \in opBundle /\ c \in hooks
    /\ Targets = {api.target.cert, lister.target.cert, crt}
    /\ Signers = {api.signer.cert, lister.signer.cert, ca} \ {NoCert}
    BY DEF Held, Signers, Bundles, Targets, Known

LEMMA TypesSuffice ==
    ASSUME Types, Identities
    PROVE  TypeOK
<1>1. \A o \in {api, lister} : o.bundle \subseteq Held /\ o.target.cert \in Targets
    BY Contents
<1> QED BY <1>1 DEF Types, Identities, TypeOK

LEMMA TypesNecessary == TypeOK => Types
    BY DEF Types, TypeOK

LEMMA SameIdentities ==
    ASSUME Identities, NothingNew
    PROVE  Identities'
<1>1. NoCert.ca = 0
    BY Values
<1> QED BY <1>1 DEF Identities, NothingNew

LEMMA SignerIdentity ==
    ASSUME Identities, NEW n, n.ca # 0, \A c \in Held \cup Targets : c.ca # n.ca,
           Held' \subseteq Held \cup {n}, Targets' \subseteq Targets
    PROVE  Identities'
    BY DEF Identities

LEMMA TargetIdentity ==
    ASSUME Identities, NEW t, NEW c \in Held, t.ca = c.ca, t.na <= c.na,
           Held' \subseteq Held, Targets' \subseteq Targets \cup {t}
    PROVE  Identities'
<1>1. \A d \in Held : d.ca = t.ca => d = c
    BY DEF Identities
<1>2. \A d \in Held, u \in Targets' : d.ca = u.ca => u.na <= d.na
    BY <1>1 DEF Identities
<1> QED BY <1>2 DEF Identities

\* A new CA has an identity that nothing holds.
LEMMA NewSignerFacts ==
    ASSUME Types, CAs \ HeldCAs # {}
    PROVE  /\ NewSigner \in Certs /\ NewSigner # NoCert /\ NewSigner.ca # 0
           /\ NewSigner.nb = now /\ NewSigner.na = now + SignerConfig.lifetime
           /\ \A c \in Held \cup Targets : c.ca # NewSigner.ca
<1> DEFINE i == CHOOSE i \in CAs \ HeldCAs : TRUE
<1>1. i \in CAs /\ i \notin HeldCAs /\ i # 0
    BY CertAssumption
<1>2. NewSigner = [ca |-> i, nb |-> now, na |-> now + SignerConfig.lifetime]
    BY DEF NewSigner
<1>3. \A c \in Held \cup Targets : c.ca \in HeldCAs
    BY Contents, Zenon DEF HeldCAs
<1> HIDE DEF i
<1>4. now \in Nat /\ now + SignerConfig.lifetime \in Nat
    BY ConfigTypes DEF Types
<1>5. NewSigner \in Certs
    BY <1>1, <1>2, <1>4 DEF Certs
<1> QED BY <1>1, <1>2, <1>3, <1>5, Values

LEMMA NewTargetFacts ==
    ASSUME Types, NEW c \in Certs
    PROVE  /\ NewTarget(c) \in Certs /\ NewTarget(c).ca = c.ca /\ NewTarget(c).nb = now
           /\ NewTarget(c).na <= c.na /\ NewTarget(c).na <= now + TargetConfig.lifetime
           /\ NewTarget(c).na \in {c.na, now + TargetConfig.lifetime}
<1>1. now \in Nat /\ now + TargetConfig.lifetime \in Nat /\ c.na \in Nat /\ c.ca \in CAs \cup {0}
    BY ConfigTypes DEF Types, Certs
<1> DEFINE na == IF c.na < now + TargetConfig.lifetime THEN c.na ELSE now + TargetConfig.lifetime
<1>2. /\ na \in Nat /\ na <= c.na /\ na <= now + TargetConfig.lifetime
      /\ na \in {c.na, now + TargetConfig.lifetime}
    BY <1>1
<1>3. NewTarget(c) = [ca |-> c.ca, nb |-> now, na |-> na]
    BY DEF NewTarget
<1> HIDE DEF na
<1> QED BY <1>1, <1>2, <1>3 DEF Certs

-----------------------------------------------------------------------------
(* Every step: types and identities.                                        *)

LEMMA ReconcileSteps ==
    ASSUME Types, Reconcile
    PROVE  Types' /\ NothingNew
<1>1. PICK made \in SUBSET {s \in {"signer", "target"} : ~api[s].there} :
          api' = [k \in DOMAIN api |-> IF k \in made THEN EmptySecret ELSE api[k]]
    BY DEF Reconcile
<1>2. /\ api'.signer \in {api.signer, EmptySecret} /\ api'.target \in {api.target, EmptySecret}
      /\ api'.bundle = api.bundle
      /\ api' = [signer |-> api'.signer, target |-> api'.target, bundle |-> api'.bundle]
    BY <1>1, ObjectTypes
<1>3. api' \in Objects
    BY <1>2, ObjectTypes, Values DEF Objects
<1>4. /\ pc' = "signer" /\ hooks' = opBundle
      /\ UNCHANGED <<now, config, lister, opBundle, crt, ca, edits, aborts>>
    BY DEF Reconcile
<1>5. Types'
    BY <1>3, <1>4 DEF Types
<1>6. /\ api'.signer.cert \in {api.signer.cert, NoCert} /\ api'.target.cert \in {api.target.cert, NoCert}
    BY <1>2, Values
<1>7. NothingNew
    BY <1>2, <1>4, <1>6 DEF NothingNew, Held, Signers, Bundles, Targets
<1> QED BY <1>5, <1>7

\* The annotations of a secret change, its certificate does not.
LEMMA ConfigSteps ==
    ASSUME Types, NEW s \in {"signer", "target"}, NEW conf \in Confs,
           NEW next \in {"signerKey", "targetKey"}, EnsureCertConfig(s, conf, next)
    PROVE  Types' /\ NothingNew
<1> DEFINE secret == IF lister[s].there THEN lister[s] ELSE EmptySecret
           na == IF secret.cert = NoCert THEN 0 ELSE now - 1
           changed == [secret EXCEPT !.conf = conf, !.na = na]
<1>1. /\ api' = api \/ api' = [api EXCEPT ![s] = changed]
      /\ pc' \in {"idle", next} /\ ca' \in {ca, NoCert}
      /\ UNCHANGED <<now, config, lister, opBundle, hooks, crt, edits, aborts>>
    BY DEF EnsureCertConfig
<1>2. secret \in Secrets /\ secret.cert \in {lister[s].cert, NoCert}
    BY ObjectTypes, Values
<1>3. na \in Int
    BY DEF Types
<1> HIDE DEF na
<1> HIDE DEF secret
<1>4. changed \in Secrets /\ changed.cert = secret.cert
    BY <1>2, <1>3 DEF Secrets
<1> HIDE DEF changed
<1>5. /\ api' \in Objects /\ api'.bundle = api.bundle
      /\ api'.signer.cert \in {api.signer.cert, lister.signer.cert, NoCert}
      /\ api'.target.cert \in {api.target.cert, lister.target.cert, NoCert}
    <2>1. api \in Objects
        BY DEF Types
    <2>2. CASE api' = api
        BY <2>1, <2>2
    <2>3. CASE api' = [api EXCEPT ![s] = changed] /\ s = "signer"
        BY <1>2, <1>4, <2>1, <2>3 DEF Objects
    <2>4. CASE api' = [api EXCEPT ![s] = changed] /\ s = "target"
        BY <1>2, <1>4, <2>1, <2>4 DEF Objects
    <2> QED BY <1>1, <2>2, <2>3, <2>4
<1>6. Types'
    BY <1>1, <1>5, Values DEF Types
<1>7. NothingNew
    BY <1>1, <1>5 DEF NothingNew, Held, Signers, Bundles, Targets
<1> QED BY <1>6, <1>7

\* The signer's and the target's pair are merged into the secret as it is.
LEMMA ApplyFacts ==
    ASSUME Types, NEW s \in {"signer", "target"}, NEW c \in Certs
    PROVE  /\ ApplySecret(s, c) \in Objects
           /\ ApplySecret(s, c).bundle = api.bundle
           /\ ApplySecret(s, c)[s].cert = c
           /\ ApplySecret(s, c)[s].there
           /\ ApplySecret(s, c)[s].na = c.na
           /\ s = "signer" => ApplySecret(s, c).target = api.target
           /\ s = "target" => ApplySecret(s, c).signer = api.signer
<1> DEFINE conf == IF lister[s].conf # NoConf THEN lister[s].conf ELSE api[s].conf
           secret == [there |-> TRUE, cert |-> c, na |-> c.na, conf |-> conf]
<1>1. conf \in Confs /\ c.na \in Int
    BY ObjectTypes DEF Secrets, Certs
<1>2. ApplySecret(s, c) = [api EXCEPT ![s] = secret]
    BY DEF ApplySecret, Types, Objects
<1> HIDE DEF conf
<1>3. secret \in Secrets /\ secret.cert = c /\ secret.there /\ secret.na = c.na
    BY <1>1 DEF Secrets
<1> HIDE DEF secret
<1>4. api \in Objects
    BY DEF Types
<1>5. CASE s = "signer"
    BY <1>2, <1>3, <1>4, <1>5 DEF Objects
<1>6. CASE s = "target"
    BY <1>2, <1>3, <1>4, <1>6 DEF Objects
<1> QED BY <1>5, <1>6

LEMMA SigningSteps ==
    ASSUME Types, Identities, EnsureSigningCertKeyPair
    PROVE  Types' /\ Identities' /\ (CaInHand)'
<1>1. /\ pc' = "bundle"
      /\ UNCHANGED <<now, config, lister, opBundle, hooks, crt, edits, aborts>>
    BY DEF EnsureSigningCertKeyPair
<1>2. CASE /\ NeedNewSigningCertKeyPair(lister.signer) /\ CAs \ HeldCAs # {}
           /\ api' = ApplySecret("signer", NewSigner) /\ ca' = NewSigner
    <2>1. /\ NewSigner \in Certs /\ NewSigner # NoCert /\ NewSigner.ca # 0
          /\ \A c \in Held \cup Targets : c.ca # NewSigner.ca
        BY <1>2, NewSignerFacts
    <2>2. /\ api' \in Objects /\ api'.bundle = api.bundle /\ api'.signer.cert = NewSigner
          /\ api'.target = api.target
        BY <1>2, <2>1, ApplyFacts
    <2>3. Types'
        BY <1>1, <1>2, <2>1, <2>2 DEF Types
    <2>4. Held' \subseteq Held \cup {NewSigner} /\ Targets' \subseteq Targets
        BY <1>1, <1>2, <2>2 DEF Held, Signers, Bundles, Targets
    <2>5. Identities'
        BY <2>1, <2>4, SignerIdentity
    <2> QED BY <1>1, <1>2, <2>1, <2>3, <2>5 DEF CaInHand
<1>3. CASE ~NeedNewSigningCertKeyPair(lister.signer) /\ ca' = lister.signer.cert /\ UNCHANGED api
    <2>1. ca' # NoCert
        BY <1>3 DEF NeedNewSigningCertKeyPair
    <2>2. Types'
        BY <1>1, <1>3, ObjectTypes DEF Types
    <2>3. NothingNew
        BY <1>1, <1>3 DEF NothingNew, Held, Signers, Bundles, Targets
    <2> QED BY <1>1, <2>1, <2>2, <2>3, SameIdentities DEF CaInHand
<1> QED BY <1>2, <1>3 DEF EnsureSigningCertKeyPair

LEMMA BundleSteps ==
    ASSUME Types, CaInHand, EnsureCertBundle
    PROVE  Types' /\ NothingNew
<1> DEFINE bundle == ManageCABundle(lister.bundle, ca)
<1>1. bundle \in SUBSET Certs /\ \A c \in bundle : c \in lister.bundle \/ (c = ca /\ ca # NoCert)
    BY ObjectTypes DEF ManageCABundle, CaInHand, EnsureCertBundle, Types
<1>2. /\ api' = api \/ api' = [api EXCEPT !.bundle = bundle]
      /\ pc' = "target"
      /\ UNCHANGED <<now, config, lister, opBundle, hooks, crt, ca, edits, aborts>>
    BY DEF EnsureCertBundle
<1> HIDE DEF bundle
<1>3. /\ api' \in Objects /\ api'.bundle \in {api.bundle, bundle}
      /\ api'.signer = api.signer /\ api'.target = api.target
    BY <1>1, <1>2 DEF Types, Objects
<1>4. Types'
    BY <1>2, <1>3 DEF Types
<1>5. Held' \subseteq Held /\ Targets' \subseteq Targets
    BY <1>1, <1>2, <1>3 DEF Held, Signers, Bundles, Targets
<1> QED BY <1>4, <1>5 DEF NothingNew

LEMMA TargetSteps ==
    ASSUME Types, Identities, CaInHand, EnsureTargetCertKeyPair
    PROVE  Types' /\ Identities'
<1>1. /\ pc' = "idle" /\ ca' = NoCert
      /\ api' = api \/ api' = ApplySecret("target", NewTarget(ca))
      /\ UNCHANGED <<now, config, lister, opBundle, hooks, crt, edits, aborts>>
    BY DEF EnsureTargetCertKeyPair
<1>2. ca \in Held /\ ca \in Certs
    BY DEF EnsureTargetCertKeyPair, CaInHand, Held, Signers, Types
<1>3. NewTarget(ca) \in Certs /\ NewTarget(ca).ca = ca.ca /\ NewTarget(ca).na <= ca.na
    BY <1>2, NewTargetFacts
<1>4. /\ api' \in Objects /\ api'.bundle = api.bundle /\ api'.signer = api.signer
      /\ api'.target.cert \in {api.target.cert, NewTarget(ca)}
    BY <1>1, <1>3, ApplyFacts DEF Types
<1>5. Types'
    BY <1>1, <1>4, Values DEF Types
<1>6. Held' \subseteq Held /\ Targets' \subseteq Targets \cup {NewTarget(ca)}
    BY <1>1, <1>4 DEF Held, Signers, Bundles, Targets
<1>7. Identities'
    BY <1>2, <1>3, <1>6, TargetIdentity
<1> QED BY <1>5, <1>7

LEMMA CacheSteps ==
    ASSUME Types, DeliverSecrets \/ DeliverConfigMaps \/ DeliverToOperator \/ DeliverToServer
                  \/ ServerRestart
    PROVE  Types' /\ NothingNew
<1>1. /\ \/ lister' = lister
         \/ lister' = [lister EXCEPT !.signer = api.signer, !.target = api.target]
         \/ lister' = [lister EXCEPT !.bundle = api.bundle]
      /\ opBundle' \in {opBundle, api.bundle} /\ crt' \in {crt, NoCert, api.target.cert}
      /\ UNCHANGED <<now, config, api, hooks, pc, ca, edits, aborts>>
    BY DEF DeliverSecrets, DeliverConfigMaps, DeliverToOperator, DeliverToServer, ServerRestart,
           CurrentCert
<1>2. /\ lister' \in Objects /\ lister'.bundle \in {lister.bundle, api.bundle}
      /\ lister'.signer \in {lister.signer, api.signer}
      /\ lister'.target \in {lister.target, api.target}
    <2>1. lister \in Objects /\ api \in Objects
        BY DEF Types
    <2>2. CASE lister' = [lister EXCEPT !.signer = api.signer, !.target = api.target]
        <3>1. lister' = [[lister EXCEPT !.signer = api.signer] EXCEPT !.target = api.target]
            BY <2>2
        <3> QED BY <2>1, <3>1 DEF Objects
    <2>3. CASE lister' = [lister EXCEPT !.bundle = api.bundle]
        BY <2>1, <2>3 DEF Objects
    <2> QED BY <1>1, <2>1, <2>2, <2>3
<1>3. Types'
    BY <1>1, <1>2, ObjectTypes, Values DEF Types
<1>4. NothingNew
    BY <1>1, <1>2 DEF NothingNew, Held, Signers, Bundles, Targets
<1> QED BY <1>3, <1>4

LEMMA OutsideSteps ==
    ASSUME Types, Abort \/ EditConfig \/ DeleteObject \/ Tick
    PROVE  Types' /\ NothingNew
<1>1. /\ ca' \in {ca, NoCert} /\ pc' \in {pc, "idle"}
      /\ config' \in CertConfigs /\ now' \in Nat
      /\ edits' \in 0 .. MaxEdits /\ aborts' \in 0 .. MaxAborts
      /\ UNCHANGED <<lister, opBundle, hooks, crt>>
    BY CertAssumption DEF Abort, EditConfig, DeleteObject, Tick, Types
<1>2. /\ api' \in Objects /\ api'.bundle \in {api.bundle, {}}
      /\ api'.signer \in {api.signer, NoSecret} /\ api'.target \in {api.target, NoSecret}
    <2>1. api \in Objects
        BY DEF Types
    <2>2. CASE \E s \in {"signer", "target"} : api' = [api EXCEPT ![s] = NoSecret]
        BY <2>1, <2>2, Values DEF Objects
    <2>3. CASE api' = [api EXCEPT !.bundle = {}]
        BY <2>1, <2>3 DEF Objects
    <2>4. CASE api' = api
        BY <2>1, <2>4
    <2> QED BY <2>2, <2>3, <2>4 DEF Abort, EditConfig, DeleteObject, Tick
<1>3. Types'
    BY <1>1, <1>2, Values DEF Types
<1>4. NoSecret.cert = NoCert
    BY Values
<1>5. /\ api'.signer.cert \in {api.signer.cert, NoCert}
      /\ api'.target.cert \in {api.target.cert, NoCert}
    BY <1>2, <1>4
<1>6. NothingNew
    BY <1>1, <1>2, <1>5 DEF NothingNew, Held, Signers, Bundles, Targets
<1> QED BY <1>3, <1>6

LEMMA CertTypes ==
    ASSUME TypeOK, Identities, CaInHand, [Next]_vars
    PROVE  TypeOK' /\ Identities' /\ CaInHand'
<1>0. Types
    BY TypesNecessary
<1>1. SUFFICES Types' /\ Identities' /\ CaInHand'
    <2>1. \A o \in {api', lister'} : o.bundle \subseteq Held' /\ o.target.cert \in Targets'
        BY DEF Held, Bundles, Targets
    <2> QED BY <1>1, <2>1 DEF Types, Identities, TypeOK
<1>2. CASE Reconcile
    <2>1. CaInHand'
        BY <1>2 DEF CaInHand, Reconcile
    <2> QED BY <1>0, <1>2, <2>1, ReconcileSteps, SameIdentities
<1>3. CASE EnsureSignerConfig
    <2>1. CaInHand'
        BY <1>3 DEF CaInHand, EnsureSignerConfig, EnsureCertConfig
    <2>2. SignerConfig \in Confs
        BY <1>0, ConfigTypes
    <2>3. Types' /\ NothingNew
        BY <1>0, <1>3, <2>2, ConfigSteps DEF EnsureSignerConfig
    <2> QED BY <2>1, <2>3, SameIdentities
<1>4. CASE EnsureTargetConfig
    <2>1. CaInHand'
        BY <1>4 DEF CaInHand, EnsureTargetConfig, EnsureCertConfig
    <2>2. TargetConfig \in Confs
        BY <1>0, ConfigTypes
    <2>3. Types' /\ NothingNew
        BY <1>0, <1>4, <2>2, ConfigSteps DEF EnsureTargetConfig
    <2> QED BY <2>1, <2>3, SameIdentities
<1>5. CASE EnsureSigningCertKeyPair
    BY <1>0, <1>5, SigningSteps
<1>6. CASE EnsureCertBundle
    <2>1. CaInHand'
        BY <1>6 DEF CaInHand, EnsureCertBundle
    <2> QED BY <1>0, <1>6, <2>1, BundleSteps, SameIdentities
<1>7. CASE EnsureTargetCertKeyPair
    <2>1. CaInHand'
        BY <1>7 DEF CaInHand, EnsureTargetCertKeyPair
    <2> QED BY <1>0, <1>7, <2>1, TargetSteps
<1>8. CASE DeliverSecrets \/ DeliverConfigMaps \/ DeliverToOperator \/ DeliverToServer
           \/ ServerRestart
    <2>1. CaInHand'
        BY <1>8 DEF CaInHand, DeliverSecrets, DeliverConfigMaps, DeliverToOperator,
                    DeliverToServer, ServerRestart
    <2> QED BY <1>0, <1>8, <2>1, CacheSteps, SameIdentities
<1>9. CASE Abort \/ EditConfig \/ DeleteObject \/ Tick
    <2>1. CaInHand'
        BY <1>9 DEF CaInHand, Abort, EditConfig, DeleteObject, Tick
    <2> QED BY <1>0, <1>9, <2>1, OutsideSteps, SameIdentities
<1>10. CASE UNCHANGED vars
    BY <1>0, <1>10 DEF vars, Types, Identities, CaInHand, Held, Signers, Bundles, Targets
<1> QED BY <1>2, <1>3, <1>4, <1>5, <1>6, <1>7, <1>8, <1>9, <1>10 DEF Next, Sync

-----------------------------------------------------------------------------
(* A rotation nobody interferes with.                                       *)

\* What the proofs about the rotation read of the invariant, in numbers.
LEMMA RotationFacts ==
    ASSUME CertInv, edits = 0
    PROVE  /\ Types /\ Identities /\ CaInHand /\ Undisturbed /\ SignersKept /\ TargetsKept
           /\ now \in Nat
           /\ \A c \in Signers : c \in Held /\ c.nb \in Nat /\ c.na \in Nat
           /\ \A c \in hooks : c \in Held /\ c.nb \in Nat /\ c.na \in Nat
           /\ \A t \in Targets : t.nb \in Nat /\ t.na \in Nat
           /\ SignerConfig = [lifetime |-> 8, refresh |-> 4]
           /\ TargetConfig = [lifetime |-> 4, refresh |-> 2]
           /\ Signers = {api.signer.cert, lister.signer.cert} \cup ({ca} \ {NoCert})
<1>1. /\ Types /\ Identities /\ CaInHand /\ Undisturbed /\ SignersKept /\ TargetsKept
      /\ now \in Nat
    BY DEF CertInv, TypeOK, Types
<1>2. Signers \subseteq Certs /\ Targets \subseteq Certs /\ hooks \subseteq Certs
    BY <1>1, ObjectTypes, Contents DEF Types
<1>3. Signers \subseteq Held /\ hooks \subseteq Held
    BY Contents
<1>4. \A c \in Certs : c.nb \in Nat /\ c.na \in Nat
    BY DEF Certs
<1>5. SignerConfig = [lifetime |-> 8, refresh |-> 4] /\ TargetConfig = [lifetime |-> 4, refresh |-> 2]
    BY <1>1 DEF Undisturbed, Default, SignerConfig, TargetConfig, CertConfig
<1>6. api.signer.cert # NoCert /\ lister.signer.cert # NoCert
    BY <1>1 DEF Undisturbed
<1> QED BY <1>1, <1>2, <1>3, <1>4, <1>5, <1>6, Contents

\* The invariant of the rotation, in the next state.
LEMMA SameRotation ==
    ASSUME CertInv, edits = 0, UNCHANGED now, Signers' \subseteq Signers,
           Targets' \subseteq Targets, ca' # NoCert => now <= ca'.nb + 4,
           \A c \in Held : Known(c) /\ now < c.na => Known(c)'
    PROVE  SignersKept' /\ TargetsKept'
<1> USE RotationFacts
<1>1. \A c \in Held : Known(c) /\ now < c.na => c \in hooks /\ c \in hooks' /\ Known(c)'
    BY DEF Known, Bundles
<1>2. SignersKept'
    <2>1. \A c \in Signers' : c.nb = now \/ Known(c)'
        BY <1>1 DEF SignersKept
    <2>2. \A c \in Signers' : c.nb <= now /\ now <= c.nb + 5 /\ c.na = c.nb + 8
        BY DEF SignersKept
    <2>3. \A c, d \in Signers' : c.nb < now /\ d.nb < now => c = d
        BY DEF SignersKept
    <2> QED BY <2>1, <2>2, <2>3 DEF SignersKept, Known, Bundles
<1>3. Rotating' => Rotating
    BY DEF Rotating
<1>4. TargetsKept'
    BY <1>1, <1>3 DEF TargetsKept, Known, Bundles
<1> QED BY <1>2, <1>4

\* A step that leaves the secrets as configured and their certificates in place.
LEMMA NotTouched ==
    ASSUME CertInv, edits = 0, UNCHANGED <<now, config>>, ca' \in {ca, NoCert},
           api'.signer \in {api.signer, lister.signer}, api'.target \in {api.target, lister.target},
           lister'.signer \in {api.signer, lister.signer},
           lister'.target \in {api.target, lister.target},
           crt' \in {crt, api.target.cert},
           \A c \in Held : Known(c) /\ now < c.na => Known(c)'
    PROVE  Undisturbed' /\ SignersKept' /\ TargetsKept'
<1> USE RotationFacts
<1>1. Undisturbed'
    BY DEF Undisturbed, SignerConfig, TargetConfig
<1>2. Signers' \subseteq Signers /\ Targets' \subseteq Targets
    BY DEF Signers, Targets
<1>3. ca' # NoCert => now <= ca'.nb + 4
    BY DEF SignersKept
<1> QED BY <1>1, <1>2, <1>3, SameRotation

LEMMA SigningKept ==
    ASSUME CertInv, edits = 0, EnsureSigningCertKeyPair
    PROVE  Undisturbed' /\ SignersKept' /\ TargetsKept'
<1> USE RotationFacts
<1>1. /\ UNCHANGED <<now, config, lister, opBundle, hooks, crt, edits>>
    BY DEF EnsureSigningCertKeyPair
<1>2. CASE /\ NeedNewSigningCertKeyPair(lister.signer) /\ CAs \ HeldCAs # {}
           /\ api' = ApplySecret("signer", NewSigner) /\ ca' = NewSigner
    <2> DEFINE n == NewSigner
    <2>1. n \in Certs /\ n # NoCert /\ n.nb = now /\ n.na = now + 8
        BY <1>2, NewSignerFacts
    <2>2. /\ api'.bundle = api.bundle /\ api'.target = api.target
          /\ api'.signer = [there |-> TRUE, conf |-> SignerConfig, cert |-> n, na |-> n.na]
        <3>1. /\ lister.signer.conf = SignerConfig /\ SignerConfig # NoConf
              /\ \A o \in {api, lister} : o \in Objects
            BY DEF Undisturbed, NoConf, Types
        <3>2. ApplySecret("signer", n) =
                  [api EXCEPT !["signer"] = [there |-> TRUE, cert |-> n, na |-> n.na, conf |-> SignerConfig]]
            BY <3>1 DEF ApplySecret, Objects
        <3> HIDE DEF n
        <3> QED BY <1>2, <3>1, <3>2 DEF n, Objects
    <2> HIDE DEF n
    <2>3. Undisturbed'
        <3>1. SignerConfig' = SignerConfig /\ TargetConfig' = TargetConfig
            BY <1>1 DEF SignerConfig, TargetConfig
        <3>2. api'.signer.cert # NoCert /\ lister' = lister /\ config' = config
            BY <1>1, <2>1, <2>2 DEF Undisturbed
        <3>3. /\ api'.signer = [there |-> TRUE, conf |-> SignerConfig',
                               cert |-> api'.signer.cert, na |-> api'.signer.cert.na]
              /\ api'.target = [there |-> TRUE, conf |-> TargetConfig',
                               cert |-> api'.target.cert, na |-> api'.target.cert.na]
            <4>1. api'.target = api.target
                BY <2>2
            <4>2. api.target = [there |-> TRUE, conf |-> TargetConfig,
                               cert |-> api.target.cert, na |-> api.target.cert.na]
                BY DEF Undisturbed
            <4> QED BY <2>2, <3>1, <4>1, <4>2
        <3>4. /\ config = Default /\ lister.signer.cert # NoCert
              /\ lister.signer = [there |-> TRUE, conf |-> SignerConfig,
                               cert |-> lister.signer.cert, na |-> lister.signer.cert.na]
              /\ lister.target = [there |-> TRUE, conf |-> TargetConfig,
                               cert |-> lister.target.cert, na |-> lister.target.cert.na]
            BY DEF Undisturbed
        <3> QED BY <3>1, <3>2, <3>3, <3>4, Zenon DEF Undisturbed
    <2>4. Signers' \subseteq Signers \cup {n} /\ ca' = n /\ Targets' = Targets
        BY <1>1, <1>2, <2>2 DEF Signers, Targets, n
    <2>5. \A c : Known(c)' <=> Known(c)
        BY <1>1, <2>2 DEF Known, Bundles
    <2>6. SignersKept'
        <3>1. \A c \in Signers' : c.nb <= now /\ now <= c.nb + 5 /\ c.na = c.nb + 8
            BY <2>1, <2>4 DEF SignersKept
        <3>2. \A c \in Signers' : c.nb = now \/ Known(c)'
            BY <2>1, <2>4, <2>5 DEF SignersKept
        <3>3. \A c, d \in Signers' : c.nb < now /\ d.nb < now => c = d
            BY <2>1, <2>4 DEF SignersKept
        <3>4. now <= ca'.nb + 4
            BY <2>1, <2>4
        <3> QED BY <1>1, <3>1, <3>2, <3>3, <3>4 DEF SignersKept, Known, Bundles
    <2>7. Rotating
        <3>1. lister.signer.cert \in Signers /\ lister.signer.na = lister.signer.cert.na
              /\ lister.signer.cert # NoCert
            BY DEF Undisturbed
        <3>2. PICK c : c = lister.signer.cert
            OBVIOUS
        <3>3. c.nb \in Nat /\ c.na = c.nb + 8 /\ now <= c.nb + 5
            BY <3>1, <3>2 DEF SignersKept
        <3>4. c = NoCert \/ now > c.na \/ 5 * now > 5 * c.na - (c.na - c.nb) \/ now > c.nb + 4
            BY <1>2, <3>1, <3>2 DEF NeedNewSigningCertKeyPair, Past80Percent
        <3>5. now > c.nb + 4
            BY <3>1, <3>2, <3>3, <3>4
        <3> QED BY <3>1, <3>2, <3>5 DEF Rotating
    <2>8. ASSUME NEW t \in Targets PROVE \A s \in Signers' : s.nb < t.nb => s \in Signers
        BY <2>1, <2>4, <2>8 DEF TargetsKept
    <2>9. TargetsKept'
        BY <1>1, <2>4, <2>5, <2>7, <2>8 DEF TargetsKept, Known, Bundles
    <2> QED BY <2>3, <2>6, <2>9
<1>3. CASE ~NeedNewSigningCertKeyPair(lister.signer) /\ ca' = lister.signer.cert /\ UNCHANGED api
    <2>1. lister.signer.cert \in Signers /\ now <= lister.signer.cert.nb + 4
        <3>1. lister.signer.cert \in Signers
            BY DEF Undisturbed
        <3>2. PICK c : c = lister.signer.cert
            OBVIOUS
        <3>3. ~(now > c.nb + 4)
            BY <1>3, <3>2 DEF NeedNewSigningCertKeyPair
        <3> QED BY <3>1, <3>2, <3>3
    <2>2. Undisturbed'
        BY <1>1, <1>3 DEF Undisturbed, SignerConfig, TargetConfig
    <2>3. Signers' \subseteq Signers /\ Targets' \subseteq Targets
        BY <1>1, <1>3, <2>1 DEF Signers, Targets
    <2>4. \A c : Known(c)' <=> Known(c)
        BY <1>1, <1>3 DEF Known, Bundles
    <2> QED BY <1>1, <1>3, <2>1, <2>2, <2>3, <2>4, SameRotation
<1> QED BY <1>2, <1>3 DEF EnsureSigningCertKeyPair

\* The bundle keeps every CA that is still valid.
LEMMA BundleKept ==
    ASSUME CertInv, edits = 0, EnsureCertBundle
    PROVE  Undisturbed' /\ SignersKept' /\ TargetsKept'
<1> USE RotationFacts
<1> DEFINE bundle == ManageCABundle(lister.bundle, ca)
<1>1. /\ api' = api \/ api' = [api EXCEPT !.bundle = bundle]
      /\ UNCHANGED <<now, config, lister, opBundle, hooks, crt, ca, edits>>
    BY DEF EnsureCertBundle
<1>2. \A c \in lister.bundle : c \in Held /\ (c \in hooks /\ now < c.na => c \in bundle)
    BY Contents DEF ManageCABundle
<1> HIDE DEF bundle
<1>3. /\ api'.signer = api.signer /\ api'.target = api.target
      /\ api'.bundle \in {api.bundle, bundle}
    BY <1>1 DEF Types, Objects
<1>4. \A c \in Held : Known(c) /\ now < c.na => Known(c)'
    BY <1>1, <1>2, <1>3 DEF Known, Bundles
<1> QED BY <1>1, <1>3, <1>4, NotTouched

LEMMA TargetKept ==
    ASSUME CertInv, edits = 0, EnsureTargetCertKeyPair
    PROVE  Undisturbed' /\ SignersKept' /\ TargetsKept'
<1> USE RotationFacts
<1>1. /\ pc = "targetKey" /\ ca' = NoCert
      /\ UNCHANGED <<now, config, lister, opBundle, hooks, crt, edits>>
    BY DEF EnsureTargetCertKeyPair
<1>2. ca \in Signers /\ ca \in Certs /\ now <= ca.nb + 4 /\ ca.na = ca.nb + 8 /\ ca.nb <= now
    BY <1>1 DEF CaInHand, SignersKept, Types
<1>3. \A c : c \in lister.bundle /\ c.na > now => c \in ManageCABundle(lister.bundle, ca)
    BY DEF ManageCABundle
<1>4. CASE api' = api
    <2>1. \A c : Known(c)' <=> Known(c)
        BY <1>1, <1>4 DEF Known, Bundles
    <2> QED BY <1>1, <1>4, <2>1, NotTouched
<1>5. CASE /\ NeedNewTargetCertKeyPair(lister.target, ca, ManageCABundle(lister.bundle, ca))
           /\ api' = ApplySecret("target", NewTarget(ca))
    <2> DEFINE n == NewTarget(ca)
    <2>1. n \in Certs /\ n.ca = ca.ca /\ n.nb = now /\ n.na = now + 4
        BY <1>2, NewTargetFacts
    <2>2. /\ api'.bundle = api.bundle /\ api'.signer = api.signer
          /\ api'.target = [there |-> TRUE, conf |-> TargetConfig, cert |-> n, na |-> n.na]
        <3>1. /\ lister.target.conf = TargetConfig /\ TargetConfig # NoConf
              /\ \A o \in {api, lister} : o \in Objects
            BY DEF Undisturbed, NoConf, Types
        <3>2. ApplySecret("target", n) =
                  [api EXCEPT !["target"] = [there |-> TRUE, cert |-> n, na |-> n.na, conf |-> TargetConfig]]
            BY <3>1 DEF ApplySecret, Objects
        <3> HIDE DEF n
        <3> QED BY <1>5, <3>1, <3>2 DEF n, Objects
    <2> HIDE DEF n
    <2>3. Undisturbed'
        <3>1. SignerConfig' = SignerConfig /\ TargetConfig' = TargetConfig
            BY <1>1 DEF SignerConfig, TargetConfig
        <3>2. api'.signer.cert # NoCert /\ lister' = lister /\ config' = config
            BY <1>1, <2>1, <2>2 DEF Undisturbed
        <3>3. /\ api'.signer = [there |-> TRUE, conf |-> SignerConfig',
                               cert |-> api'.signer.cert, na |-> api'.signer.cert.na]
              /\ api'.target = [there |-> TRUE, conf |-> TargetConfig',
                               cert |-> api'.target.cert, na |-> api'.target.cert.na]
            <4>1. api'.signer = api.signer
                BY <2>2
            <4>2. api.signer = [there |-> TRUE, conf |-> SignerConfig,
                               cert |-> api.signer.cert, na |-> api.signer.cert.na]
                BY DEF Undisturbed
            <4> QED BY <2>2, <3>1, <4>1, <4>2
        <3>4. /\ config = Default /\ lister.signer.cert # NoCert
              /\ lister.signer = [there |-> TRUE, conf |-> SignerConfig,
                               cert |-> lister.signer.cert, na |-> lister.signer.cert.na]
              /\ lister.target = [there |-> TRUE, conf |-> TargetConfig,
                               cert |-> lister.target.cert, na |-> lister.target.cert.na]
            BY DEF Undisturbed
        <3> QED BY <3>1, <3>2, <3>3, <3>4, Zenon DEF Undisturbed
    <2>4. Signers' \subseteq Signers /\ Targets' \subseteq Targets \cup {n}
        BY <1>1, <2>2 DEF Signers, Targets
    <2>5. \A c : Known(c)' <=> Known(c)
        BY <1>1, <2>2 DEF Known, Bundles
    <2>6. ca.nb < now
        <3>1. PICK t : t = lister.target.cert
            OBVIOUS
        <3>2. t \in Targets /\ lister.target.na = t.na
            BY <3>1 DEF Undisturbed, Targets
        <3>3. /\ t.nb \in Nat /\ t.nb <= now /\ now <= t.na /\ t.na = t.nb + 4
              /\ Rotating => now <= t.nb + 3
              /\ \E c \in hooks : Known(c) /\ c.ca = t.ca /\ now < c.na
            BY <3>2 DEF TargetsKept
        <3>4. ~ \A c \in ManageCABundle(lister.bundle, ca) : c.ca # t.ca
            BY <1>3, <3>3 DEF Known, Bundles
        <3>5. t # NoCert
            <4>1. PICK c \in hooks : c.ca = t.ca
                BY <3>3
            <4> QED BY <4>1, Values DEF Identities
        <3>6. \/ 5 * now > 5 * t.na - (t.na - t.nb)
              \/ now > t.nb + 2 /\ 10 * now > 10 * ca.nb + 2
            BY <1>5, <3>1, <3>2, <3>3, <3>4, <3>5 DEF NeedNewTargetCertKeyPair, Past80Percent
        <3>7. CASE ca.nb = now
            <4>1. now <= t.nb + 3
                BY <1>2, <3>3, <3>7 DEF Rotating
            <4>2. ca.nb \in Nat
                BY <1>2
            <4> QED BY <3>3, <3>6, <3>7, <4>1, <4>2
        <3> QED BY <1>2, <3>7
    <2>7. Known(ca) /\ ca \in hooks
        BY <1>2, <2>6 DEF SignersKept, Known, Bundles
    <2>8. SignersKept'
        <3>1. \A c \in Signers' : c.nb <= now /\ now <= c.nb + 5 /\ c.na = c.nb + 8
            BY <2>4 DEF SignersKept
        <3>2. \A c \in Signers' : c.nb = now \/ Known(c)'
            BY <2>4, <2>5 DEF SignersKept
        <3>3. \A c, d \in Signers' : c.nb < now /\ d.nb < now => c = d
            BY <2>4 DEF SignersKept
        <3> QED BY <1>1, <3>1, <3>2, <3>3 DEF SignersKept, Known, Bundles
    <2>9. \A s \in Signers : s.nb < now => s = ca
        BY <1>2, <2>6 DEF SignersKept
    <2>10. Rotating' => Rotating
        BY <1>1, <2>4 DEF Rotating
    <2>11. ASSUME NEW t \in Targets'
           PROVE  /\ t.nb <= now /\ now <= t.na /\ t.na = t.nb + 4
                  /\ Rotating' => now <= t.nb + 3
                  /\ \E c \in hooks' :
                       /\ Known(c)' /\ c.ca = t.ca
                       /\ c.na = c.nb + 8 /\ t.na <= c.na /\ now < c.na
                       /\ Rotating' => now + 1 < c.na
                       /\ \A s \in Signers' : s.nb < t.nb => s = c
        <3>1. CASE t = n
            <4>1. ca.na \in Nat /\ ca.nb \in Nat
                BY <1>2
            <4> QED BY <1>1, <1>2, <2>1, <2>4, <2>5, <2>7, <2>9, <3>1, <4>1
        <3>2. CASE t \in Targets
            BY <1>1, <2>4, <2>5, <2>10, <3>2 DEF TargetsKept
        <3> QED BY <2>4, <3>1, <3>2
    <2>12. TargetsKept'
        BY <1>1, <2>11 DEF TargetsKept, Known, Bundles
    <2> QED BY <2>3, <2>8, <2>12
<1> QED BY <1>4, <1>5 DEF EnsureTargetCertKeyPair

\* Time advances only when rotation and caches have caught up: the signer is
\* then known everywhere, and the server's certificate is not due unless the
\* signer is new.
LEMMA TimePasses ==
    ASSUME CertInv, edits = 0, Tick
    PROVE  Undisturbed' /\ SignersKept' /\ TargetsKept'
<1> USE RotationFacts
<1>1. /\ now' = now + 1 /\ CaughtUp
      /\ UNCHANGED <<config, api, lister, opBundle, hooks, crt, pc, ca, edits, aborts>>
    BY DEF Tick
<1>2. PICK s : s = api.signer.cert
    OBVIOUS
<1>3. PICK t : t = api.target.cert
    OBVIOUS
<1>4. ca = NoCert /\ Signers = {s} /\ Targets = {t} /\ s # NoCert
    BY <1>1, <1>2, <1>3 DEF CaughtUp, CaInHand, Signers, Targets, Undisturbed
<1>5. \A c : Known(c) <=> c \in hooks
    BY <1>1 DEF CaughtUp, Known, Bundles
<1>6. Undisturbed'
    BY <1>1 DEF Undisturbed, SignerConfig, TargetConfig
<1>7. /\ s.nb \in Nat /\ s.nb <= now /\ now <= s.nb + 4 /\ s.na = s.nb + 8 /\ s \in Held
    <2>1. ~(now > s.nb + 4)
        BY <1>1, <1>2 DEF CaughtUp, NeedNewSigningCertKeyPair
    <2> QED BY <1>4, <2>1 DEF SignersKept
<1>8. s \in hooks
    BY <1>1, <1>2, <1>7 DEF CaughtUp, ManageCABundle
<1>9. /\ t.nb \in Nat /\ t.nb <= now /\ now <= t.nb + 4 /\ t.na = t.nb + 4
      /\ Rotating => now <= t.nb + 3
      /\ \E c \in hooks : /\ c.ca = t.ca /\ c.na = c.nb + 8 /\ t.na <= c.na /\ now < c.na
                          /\ Rotating => now + 1 < c.na
                          /\ s.nb < t.nb => s = c
    BY <1>4 DEF TargetsKept
<1>10. now <= t.nb + 3 /\ (now > t.nb + 2 => s.nb = now)
    <2>1. ~NeedNewTargetCertKeyPair(api.target, s, api.bundle) /\ api.target.na = t.na
        BY <1>1, <1>2, <1>3 DEF CaughtUp, Undisturbed
    <2>2. /\ ~(5 * now > 5 * t.na - (t.na - t.nb))
          /\ ~(now > t.nb + 2 /\ 10 * now > 10 * s.nb + 2)
        BY <1>3, <2>1 DEF NeedNewTargetCertKeyPair, Past80Percent
    <2> QED BY <1>7, <1>9, <2>2
<1>11. SignersKept'
    <2>1. Signers' = {s} /\ ca' = NoCert
        BY <1>1, <1>4 DEF Signers
    <2>2. s \in hooks' /\ Known(s)'
        BY <1>1, <1>5, <1>8 DEF Known, Bundles
    <2> QED BY <1>1, <1>7, <2>1, <2>2 DEF SignersKept, Known, Bundles
<1>12. TargetsKept'
    <2>1. Targets' = {t} /\ Signers' = {s} /\ hooks' = hooks /\ \A c \in hooks : Known(c)'
        BY <1>1, <1>4, <1>5 DEF Targets, Signers, Known, Bundles
    <2>2. Rotating' => now + 1 > s.nb + 4
        BY <1>1, <1>7, <2>1 DEF Rotating
    <2>3. Rotating <=> s.nb = now
        BY <1>4, <1>7 DEF Rotating
    <2>4. PICK c \in hooks : /\ c.ca = t.ca /\ c.na = c.nb + 8 /\ t.na <= c.na /\ now < c.na
                             /\ Rotating => now + 1 < c.na
                             /\ s.nb < t.nb => s = c
        BY <1>9
    <2>5. c.na \in Nat /\ c.nb \in Nat
        BY <2>4
    <2>6. now + 1 < c.na
        BY <1>9, <1>10, <2>3, <2>4, <2>5
    <2>7. Rotating' => now + 1 <= t.nb + 3 /\ now + 2 < c.na
        <3>1. CASE Rotating'
            <4>1. now + 1 > s.nb + 4
                BY <2>2, <3>1
            <4>2. s.nb = now - 4 /\ now <= t.nb + 2
                BY <1>7, <1>9, <1>10, <4>1
            <4>3. s = c
                BY <1>7, <1>9, <2>4, <4>2
            <4> QED BY <1>7, <1>9, <4>2, <4>3
        <3> QED BY <3>1
    <2>8. \A x \in Signers' : x.nb < t.nb => x = c
        BY <2>1, <2>4
    <2>9. \E d \in hooks' :
             /\ Known(d)' /\ d.ca = t.ca
             /\ d.na = d.nb + 8 /\ t.na <= d.na /\ now' < d.na
             /\ Rotating' => now' + 1 < d.na
             /\ \A x \in Signers' : x.nb < t.nb => x = d
        <3>1. Rotating' => now' + 1 < c.na
            BY <1>1, <1>7, <2>5, <2>7
        <3> QED BY <1>1, <2>1, <2>4, <2>6, <2>8, <3>1
    <2>10. t.nb <= now' /\ now' <= t.na /\ (Rotating' => now' <= t.nb + 3)
        BY <1>1, <1>9, <1>10, <2>7
    <2> QED BY <1>9, <2>1, <2>9, <2>10 DEF TargetsKept, Known, Bundles
<1> QED BY <1>6, <1>11, <1>12

LEMMA OthersKept ==
    ASSUME CertInv, edits = 0,
           \/ Reconcile \/ EnsureSignerConfig \/ EnsureTargetConfig
           \/ DeliverSecrets \/ DeliverConfigMaps \/ DeliverToOperator \/ DeliverToServer
           \/ ServerRestart \/ Abort
    PROVE  Undisturbed' /\ SignersKept' /\ TargetsKept'
<1> USE RotationFacts
<1>1. /\ api.signer.there /\ api.target.there /\ lister.signer.there /\ lister.target.there
      /\ lister.signer.conf = SignerConfig /\ lister.target.conf = TargetConfig
    BY DEF Undisturbed
<1>2. CASE Reconcile
    <2>1. PICK made \in SUBSET {s \in {"signer", "target"} : ~api[s].there} :
              api' = [k \in DOMAIN api |-> IF k \in made THEN EmptySecret ELSE api[k]]
        BY <1>2 DEF Reconcile
    <2>2. api'.signer = api.signer /\ api'.target = api.target /\ api'.bundle = api.bundle
        BY <1>1, <2>1, ObjectTypes
    <2>3. UNCHANGED <<now, config, lister, opBundle, crt, ca, edits>> /\ hooks' = opBundle
        BY <1>2 DEF Reconcile
    <2>4. \A c : Known(c) => Known(c)'
        BY <2>2, <2>3 DEF Known, Bundles
    <2> QED BY <2>2, <2>3, <2>4, NotTouched
<1>3. CASE EnsureSignerConfig \/ EnsureTargetConfig
    <2>1. UNCHANGED <<now, config, api, lister, opBundle, hooks, crt, edits>> /\ ca' \in {ca, NoCert}
        BY <1>1, <1>3 DEF EnsureSignerConfig, EnsureTargetConfig, EnsureCertConfig
    <2>2. \A c : Known(c) => Known(c)'
        BY <2>1 DEF Known, Bundles
    <2> QED BY <2>1, <2>2, NotTouched
<1>4. CASE DeliverSecrets \/ DeliverConfigMaps
    <2>1. /\ \/ lister' = [lister EXCEPT !.signer = api.signer, !.target = api.target]
             \/ lister' = [lister EXCEPT !.bundle = api.bundle]
          /\ UNCHANGED <<now, config, api, opBundle, hooks, crt, ca, edits>>
        BY <1>4 DEF DeliverSecrets, DeliverConfigMaps
    <2>2. /\ lister'.signer \in {api.signer, lister.signer}
          /\ lister'.target \in {api.target, lister.target}
          /\ lister'.bundle \in {api.bundle, lister.bundle}
        BY <2>1 DEF Types, Objects
    <2>3. \A c : Known(c) => Known(c)'
        BY <2>1, <2>2 DEF Known, Bundles
    <2> QED BY <2>1, <2>2, <2>3, NotTouched
<1>5. CASE DeliverToOperator \/ DeliverToServer \/ ServerRestart \/ Abort
    <2>1. api.target.cert # NoCert
        <3>1. PICK t : t = api.target.cert
            OBVIOUS
        <3>2. PICK c \in hooks : c.ca = t.ca
            BY <3>1 DEF TargetsKept, Targets
        <3> QED BY <3>1, <3>2, Values DEF Identities
    <2>2. /\ crt' \in {crt, api.target.cert} /\ ca' \in {ca, NoCert} /\ opBundle' \in {opBundle, api.bundle}
          /\ UNCHANGED <<now, config, api, lister, hooks, edits>>
        BY <1>1, <1>5, <2>1 DEF DeliverToOperator, DeliverToServer, ServerRestart, Abort, CurrentCert
    <2>3. \A c : Known(c) => Known(c)'
        BY <2>2 DEF Known, Bundles
    <2> QED BY <2>2, <2>3, NotTouched
<1> QED BY <1>2, <1>3, <1>4, <1>5

-----------------------------------------------------------------------------
(* The theorems.                                                            *)

LEMMA CertInit == Init => CertInv
<1> SUFFICES ASSUME Init PROVE CertInv
    OBVIOUS
<1>1. /\ now = 2 /\ config = Default /\ pc = "idle" /\ ca = NoCert /\ aborts = 0
      /\ lister = api /\ opBundle = api.bundle /\ hooks = api.bundle
    BY DEF Init
<1>2. config \in CertConfigs /\ now \in Nat /\ aborts \in 0 .. MaxAborts
    BY <1>1, CertAssumption
<1>3. CaInHand
    BY <1>1 DEF CaInHand
<1>4. CASE Installed
    <2>1. /\ api = [signer |-> NoSecret, target |-> NoSecret, bundle |-> {}]
          /\ crt = NoCert /\ edits = 1
        BY <1>4 DEF Installed
    <2>2. api \in Objects
        BY <2>1, Values DEF Objects
    <2>3. Types
        BY <1>1, <1>2, <2>1, <2>2, Values, CertAssumption DEF Types
    <2>4. Held = {}
        BY <1>1, <2>1, Values DEF Held, Signers, Bundles
    <2>5. Identities
        BY <2>4 DEF Identities
    <2> QED BY <1>3, <2>1, <2>3, <2>5, TypesSuffice DEF CertInv
<1>5. CASE Running
    <2>1. PICK age \in 0 .. 2 :
            LET signer == [ca |-> 1, nb |-> 0, na |-> 8]
                target == [ca |-> 1, nb |-> 2 - age, na |-> 6 - age]
            IN  /\ api = [signer |-> [there |-> TRUE, conf |-> SignerConfig,
                                      cert |-> signer, na |-> signer.na],
                          target |-> [there |-> TRUE, conf |-> TargetConfig,
                                      cert |-> target, na |-> target.na],
                          bundle |-> {signer}]
                /\ crt = target
        BY <1>5, CertAssumption DEF Running
    <2> DEFINE signer == [ca |-> 1, nb |-> 0, na |-> 8]
               target == [ca |-> 1, nb |-> 2 - age, na |-> 6 - age]
    <2>2. edits = 0
        BY <1>5 DEF Running
    <2>3. signer \in Certs /\ target \in Certs
        BY CertAssumption DEF Certs
    <2>4. /\ signer.ca = 1 /\ signer.nb = 0 /\ signer.na = 8 /\ signer # NoCert
          /\ target.ca = 1 /\ target.na = target.nb + 4 /\ target.nb \in 0 .. 2
        BY DEF NoCert
    <2>5. /\ api.signer = [there |-> TRUE, conf |-> SignerConfig, cert |-> signer, na |-> signer.na]
          /\ api.target = [there |-> TRUE, conf |-> TargetConfig, cert |-> target, na |-> target.na]
          /\ api.bundle = {signer} /\ crt = target
          /\ api = [signer |-> api.signer, target |-> api.target, bundle |-> api.bundle]
        BY <2>1
    <2> HIDE DEF signer, target
    <2>6. SignerConfig \in Confs /\ TargetConfig \in Confs
        BY <1>1 DEF SignerConfig, TargetConfig, CertConfig, Confs, Default
    <2>7. api.signer \in Secrets /\ api.target \in Secrets /\ signer.na \in Int /\ target.na \in Int
        BY <2>3, <2>5, <2>6 DEF Secrets, Certs
    <2>8. api \in Objects
        BY <2>3, <2>5, <2>7 DEF Objects
    <2>9. Types
        BY <1>1, <1>2, <2>2, <2>3, <2>5, <2>8, Values, CertAssumption DEF Types
    <2>10. Held = {signer} /\ Targets = {target} /\ Signers = {signer} /\ \A c : Known(c) <=> c = signer
        BY <1>1, <2>4, <2>5 DEF Held, Signers, Bundles, Targets, Known
    <2>11. Identities
        BY <2>4, <2>10 DEF Identities
    <2>12. Undisturbed
        BY <1>1, <2>4, <2>5 DEF Undisturbed
    <2>13. SignersKept
        BY <1>1, <2>4, <2>10 DEF SignersKept
    <2>14. ~Rotating
        BY <1>1, <2>4, <2>10 DEF Rotating
    <2>15. TargetsKept
        BY <1>1, <2>4, <2>5, <2>10, <2>14 DEF TargetsKept
    <2> QED BY <1>3, <2>9, <2>11, <2>12, <2>13, <2>15, TypesSuffice DEF CertInv
<1> QED BY <1>4, <1>5 DEF Init

LEMMA CertNext == CertInv /\ [Next]_vars => CertInv'
<1> SUFFICES ASSUME CertInv, [Next]_vars PROVE CertInv'
    OBVIOUS
<1>1. TypeOK' /\ Identities' /\ CaInHand'
    BY CertTypes DEF CertInv
<1>2. ASSUME edits' = 0 PROVE Undisturbed' /\ SignersKept' /\ TargetsKept'
    <2>1. edits = 0 /\ ~EditConfig /\ ~DeleteObject
        BY <1>2 DEF CertInv, TypeOK, Next, Sync, Reconcile, EnsureSignerConfig, EnsureTargetConfig,
                    EnsureCertConfig, EnsureSigningCertKeyPair, EnsureCertBundle,
                    EnsureTargetCertKeyPair, Abort, DeliverSecrets, DeliverConfigMaps,
                    DeliverToOperator, DeliverToServer, ServerRestart, EditConfig, DeleteObject,
                    Tick, vars
    <2>2. CASE UNCHANGED vars
        <3>1. Undisturbed /\ SignersKept /\ TargetsKept
            BY <2>1 DEF CertInv
        <3>2. UNCHANGED <<Signers, Targets, Bundles, SignerConfig, TargetConfig, now, config, api, lister, hooks, ca>>
            BY <2>2 DEF vars, Signers, Targets, Bundles, SignerConfig, TargetConfig
        <3>3. Undisturbed'
            BY <3>1, <3>2 DEF Undisturbed
        <3>4. SignersKept'
            BY <3>1, <3>2 DEF SignersKept, Known
        <3>5. TargetsKept'
            BY <3>1, <3>2 DEF TargetsKept, Known, Rotating
        <3> QED BY <3>3, <3>4, <3>5
    <2> QED BY <2>1, <2>2, SigningKept, BundleKept, TargetKept, TimePasses, OthersKept DEF Next, Sync
<1> QED BY <1>1, <1>2 DEF CertInv

\* Every step of rotation, caches, server, users and clock preserves what the
\* certificates rely on: an identity stands for one CA, and a rotation nobody
\* interferes with replaces the signer before it signs with it.
THEOREM CertInvariant == Spec => []CertInv
<1>1. Init => CertInv
    BY CertInit
<1>2. CertInv /\ [Next]_vars => CertInv'
    BY CertNext
<1> QED BY <1>1, <1>2, PTL DEF Spec

\* Secrets, bundles and certificates keep their types, and no certificate of
\* the server outlives its CA, whatever the configurations set, whatever is
\* deleted and however late the caches are.
THEOREM CertTypeCorrect == Spec => []TypeOK
<1>1. CertInv => TypeOK
    BY DEF CertInv
<1> QED BY <1>1, CertInvariant, PTL

\* The API server can call the webhook at every moment of every rotation of
\* CA and certificate nobody interferes with, for any number of rotations,
\* failed calls and restarts (NeedNewTargetCertKeyPair, ManageCABundle).
THEOREM WebhookTrusted == Spec => []TrustKept
<1>1. CertInv => TrustKept
    <2> SUFFICES ASSUME CertInv, edits = 0 PROVE Trusted
        BY DEF TrustKept
    <2>1. PICK t : t = crt
        OBVIOUS
    <2>2. /\ now \in Nat /\ t.nb \in Nat /\ now <= t.na
          /\ \E c \in hooks : c \in Held /\ c.ca = t.ca /\ c.na \in Nat /\ now < c.na
        BY <2>1, RotationFacts DEF TargetsKept, Targets
    <2>3. t # NoCert
        BY <2>2, RotationFacts, Values DEF Identities
    <2>4. \E c \in hooks : c.ca = t.ca /\ now <= c.na
        BY <2>2
    <2> QED BY <2>1, <2>2, <2>3, <2>4 DEF Trusted
<1> QED BY <1>1, CertInvariant, PTL

=============================================================================
