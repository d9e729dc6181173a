---------------------------- MODULE CertRotation ----------------------------
(***************************************************************************)
(* The certificates of the webhook server.  At the end of every reconcile  *)
(* the operator's certificate manager renews the signer (a CA), the bundle *)
(* of valid CAs and the server's certificate, reading its informers'       *)
(* caches and writing to the API server.  The operator copies the bundle   *)
(* into the webhook configurations at the start of the next reconcile; the *)
(* server takes its certificate from its own informer's store.  A call of  *)
(* the API server to the webhook succeeds when the certificate presented   *)
(* chains to the bundle the configuration holds.                           *)
(*                                                                         *)
(* One unit of time stands for six hours; a reconcile is repeated every    *)
(* minute, so time advances only when rotation and caches have caught up.  *)
(***************************************************************************)
EXTENDS Integers, FiniteSets

CONSTANTS
    CertConfigs,   \* values of the CR's certConfig users may set
    Ages,          \* age of the server's certificate in a running system
    CAs,           \* identities of CAs, reused when nothing holds them
    MaxHeld,       \* bound: CAs in use when a stale cache makes for another one
    MaxTime,       \* bound: units of time
    MaxEdits,      \* bound: changes made by users
    MaxAborts      \* bound: failed calls and restarts of the operator

\* A field of certConfig that is not set.
Unset == -1
Default == [caDuration |-> Unset, caRenewBefore |-> Unset,
            serverDuration |-> Unset, serverRenewBefore |-> Unset]

ASSUME CertAssumption ==
    /\ CertConfigs \subseteq [caDuration : Nat \cup {Unset}, caRenewBefore : Int,
                              serverDuration : Nat \cup {Unset}, serverRenewBefore : Int]
    /\ Default \in CertConfigs
    /\ Ages \subseteq 0 .. 2   \* not yet due for renewal, nor older than its CA
    /\ CAs \subseteq Nat \ {0} /\ 1 \in CAs
    /\ MaxTime \in Nat /\ MaxEdits \in Nat \ {0} /\ MaxAborts \in Nat
    /\ MaxHeld \in Nat

VARIABLES
    now,       \* the clock
    config,    \* the CR's certConfig
    api,       \* the signer and target secrets and the bundle, in the API server
    lister,    \* the same, in the certificate manager's informers
    opBundle,  \* the bundle in the operator's own cache
    hooks,     \* the CAs in the webhook configurations
    crt,       \* the certificate the server presents
    pc, ca,    \* step of the reconcile, and the CA it signs with
    edits, aborts

vars == <<now, config, api, lister, opBundle, hooks, crt, pc, ca, edits, aborts>>

NoCert == [ca |-> 0, nb |-> 0, na |-> 0]
NoConf == [lifetime |-> 0, refresh |-> 0]

\* A secret as created: without key pair and annotations.
EmptySecret == [there |-> TRUE, conf |-> NoConf, cert |-> NoCert, na |-> 0]
NoSecret == [EmptySecret EXCEPT !.there = FALSE]

\* The certificate definition of the server: CA and server certificate, each
\* with its lifetime and the age at which it is renewed.
CertConfig(duration, renewBefore, lifetime, refresh) ==
    LET l == IF duration = Unset THEN lifetime ELSE duration
    IN  [lifetime |-> l, refresh |-> IF renewBefore = Unset THEN refresh ELSE l - renewBefore]

SignerConfig == CertConfig(config.caDuration, config.caRenewBefore, 8, 4)
TargetConfig == CertConfig(config.serverDuration, config.serverRenewBefore, 4, 2)

-----------------------------------------------------------------------------
(* Decisions of the rotation library, from the annotations of a secret.     *)

Past80Percent(s) == 5 * now > 5 * s.na - (s.na - s.cert.nb)

NeedNewSigningCertKeyPair(s) ==
    \/ s.cert = NoCert \/ now > s.na \/ Past80Percent(s)
    \/ now > s.cert.nb + SignerConfig.refresh

\* Mutant: a renewal does not wait for the signer to be known.
NeedNewTargetNoWait(s, signer, bundle) ==
    \/ s.cert = NoCert \/ now > s.na \/ Past80Percent(s)
    \/ now > s.cert.nb + TargetConfig.refresh
    \/ \A c \in bundle : c.ca # s.cert.ca

\* A renewal that is merely due waits until the signer has been in the bundle
\* for a tenth of the renewal age.
NeedNewTargetCertKeyPair(s, signer, bundle) ==
    \/ s.cert = NoCert \/ now > s.na \/ Past80Percent(s)
    \/ /\ now > s.cert.nb + TargetConfig.refresh
       /\ 10 * now > 10 * signer.nb + TargetConfig.refresh
    \/ \A c \in bundle : c.ca # s.cert.ca

ManageCABundle(bundle, signer) == {c \in bundle \cup {signer} : c.na > now}

\* Mutant: the CA's remaining validity is not looked at.
NewTargetUncapped(signer) ==
    [ca |-> signer.ca, nb |-> now, na |-> now + TargetConfig.lifetime]

\* The server's certificate is never valid for longer than its CA.
NewTarget(signer) ==
    LET na == IF signer.na < now + TargetConfig.lifetime THEN signer.na
              ELSE now + TargetConfig.lifetime
    IN  [ca |-> signer.ca, nb |-> now, na |-> na]

\* CAs some object still holds; a new signer takes an identity of its own.
HeldCAs ==
    {c.ca : c \in api.bundle \cup lister.bundle \cup opBundle \cup hooks}
      \cup {s.cert.ca : s \in {api.signer, api.target, lister.signer, lister.target}}
      \cup {crt.ca, ca.ca}

NewSigner ==
    [ca |-> CHOOSE i \in CAs \ HeldCAs : TRUE,
     nb |-> now, na |-> now + SignerConfig.lifetime]

\* The lister's copy with the new pair is merged into the secret as it is.
ApplySecret(s, cert) ==
    [api EXCEPT ![s] = [there |-> TRUE, cert |-> cert, na |-> cert.na,
                        conf |-> IF lister[s].conf # NoConf THEN lister[s].conf ELSE @.conf]]

-----------------------------------------------------------------------------
(* The reconcile: webhook configurations, then signer, bundle and target.   *)

\* Mutant: a bundle once in the webhook configurations is never replaced.
ReconcileOnce ==
    /\ pc = "idle"
    /\ hooks' = IF hooks = {} THEN opBundle ELSE hooks
    /\ \E made \in SUBSET {s \in {"signer", "target"} : ~api[s].there} :
         api' = [k \in DOMAIN api |-> IF k \in made THEN EmptySecret ELSE api[k]]
    /\ pc' = "signer"
    /\ UNCHANGED <<now, config, lister, opBundle, crt, ca, edits, aborts>>

\* Hooks are rendered from the operator's cache; cert secrets missing in its
\* cache are created empty.
Reconcile ==
    /\ pc = "idle"
    /\ hooks' = opBundle
    /\ \E made \in SUBSET {s \in {"signer", "target"} : ~api[s].there} :
         api' = [k \in DOMAIN api |-> IF k \in made THEN EmptySecret ELSE api[k]]
    /\ pc' = "signer"
    /\ UNCHANGED <<now, config, lister, opBundle, crt, ca, edits, aborts>>

\* The secret is created when the lister has none, and its annotation brought
\* to the configuration; a changed one makes what it holds expire now.
EnsureCertConfig(s, conf, next) ==
    LET secret == IF lister[s].there THEN lister[s] ELSE EmptySecret
        changed == [secret EXCEPT !.conf = conf,
                                  !.na = IF secret.cert = NoCert THEN 0 ELSE now - 1]
        same == lister[s].there /\ secret.conf = conf
        refused == ~same /\ api[s] # lister[s]
    IN  /\ pc = s
        /\ api' = IF same \/ refused THEN api ELSE [api EXCEPT ![s] = changed]
        /\ pc' = IF refused THEN "idle" ELSE next
        /\ ca' = IF refused THEN NoCert ELSE ca
        /\ UNCHANGED <<now, config, lister, opBundle, hooks, crt, edits, aborts>>

EnsureSignerConfig == EnsureCertConfig("signer", SignerConfig, "signerKey")

EnsureTargetConfig == EnsureCertConfig("target", TargetConfig, "targetKey")

\* The decision comes from the lister, the write goes to the object as it is.
\* Bound: a new CA needs an identity that nothing holds.
EnsureSigningCertKeyPair ==
    /\ pc = "signerKey"
    /\ \/ /\ NeedNewSigningCertKeyPair(lister.signer)
          /\ lister.signer = api.signer \/ Cardinality(HeldCAs \ {0}) <= MaxHeld
          /\ CAs \ HeldCAs # {}
          /\ api' = ApplySecret("signer", NewSigner)
          /\ ca' = NewSigner
       \/ /\ ~NeedNewSigningCertKeyPair(lister.signer)
          /\ ca' = lister.signer.cert
          /\ UNCHANGED api
    /\ pc' = "bundle"
    /\ UNCHANGED <<now, config, lister, opBundle, hooks, crt, edits, aborts>>

\* The bundle of the lister with the signer replaces the one that is there.
EnsureCertBundle ==
    LET bundle == ManageCABundle(lister.bundle, ca)
    IN  /\ pc = "bundle"
        /\ api' = IF bundle # lister.bundle THEN [api EXCEPT !.bundle = bundle] ELSE api
        /\ pc' = "target"
        /\ UNCHANGED <<now, config, lister, opBundle, hooks, crt, ca, edits, aborts>>

EnsureTargetCertKeyPair ==
    /\ pc = "targetKey"
    /\ api' = IF NeedNewTargetCertKeyPair(lister.target, ca, ManageCABundle(lister.bundle, ca))
              THEN ApplySecret("target", NewTarget(ca)) ELSE api
    /\ pc' = "idle"
    /\ ca' = NoCert
    /\ UNCHANGED <<now, config, lister, opBundle, hooks, crt, edits, aborts>>

\* A call fails or the operator dies; the reconcile starts over.
Abort ==
    /\ pc # "idle" /\ aborts < MaxAborts
    /\ pc' = "idle" /\ ca' = NoCert /\ aborts' = aborts + 1
    /\ UNCHANGED <<now, config, api, lister, opBundle, hooks, crt, edits>>

-----------------------------------------------------------------------------
(* Caches, the server, users and the clock.                                 *)

DeliverSecrets ==
    /\ lister' = [lister EXCEPT !.signer = api.signer, !.target = api.target]
    /\ lister' # lister
    /\ UNCHANGED <<now, config, api, opBundle, hooks, crt, pc, ca, edits, aborts>>

DeliverConfigMaps ==
    /\ lister' = [lister EXCEPT !.bundle = api.bundle]
    /\ lister' # lister
    /\ UNCHANGED <<now, config, api, opBundle, hooks, crt, pc, ca, edits, aborts>>

DeliverToOperator ==
    /\ opBundle # api.bundle /\ opBundle' = api.bundle
    /\ UNCHANGED <<now, config, api, lister, hooks, crt, pc, ca, edits, aborts>>

\* The certificate manager of the server takes over the pair of the secret in
\* its store, at the latest with the next readiness probe, and keeps the last
\* good one when there is none.
CurrentCert(secret, last) == IF secret.there /\ secret.cert # NoCert THEN secret.cert ELSE last

DeliverToServer ==
    /\ crt' = CurrentCert(api.target, crt)
    /\ crt' # crt
    /\ UNCHANGED <<now, config, api, lister, opBundle, hooks, pc, ca, edits, aborts>>

\* The server process starts over with a synced store and, when there is no pair
\* in it, with a fallback certificate that no bundle knows.
ServerRestart ==
    /\ crt' = CurrentCert(api.target, NoCert)
    /\ UNCHANGED <<now, config, api, lister, opBundle, hooks, pc, ca, edits, aborts>>

EditConfig ==
    /\ edits < MaxEdits
    /\ config' \in CertConfigs \ {config}
    /\ edits' = edits + 1
    /\ UNCHANGED <<now, api, lister, opBundle, hooks, crt, pc, ca, aborts>>

DeleteObject ==
    /\ edits < MaxEdits
    /\ \/ \E s \in {"signer", "target"} : api' = [api EXCEPT ![s] = NoSecret]
       \/ api' = [api EXCEPT !.bundle = {}]
    /\ api' # api
    /\ edits' = edits + 1
    /\ UNCHANGED <<now, config, lister, opBundle, hooks, crt, pc, ca, aborts>>

\* A reconcile would change nothing, and every cache is up to date.
CaughtUp ==
    /\ pc = "idle"
    /\ lister = api /\ opBundle = api.bundle /\ hooks = api.bundle /\ crt = api.target.cert
    /\ api.signer.there /\ api.target.there
    /\ api.signer.conf = SignerConfig /\ api.target.conf = TargetConfig
    /\ ~NeedNewSigningCertKeyPair(api.signer)
    /\ api.bundle = ManageCABundle(api.bundle, api.signer.cert)
    /\ ~NeedNewTargetCertKeyPair(api.target, api.signer.cert, api.bundle)

Tick ==
    /\ now < MaxTime /\ CaughtUp
    /\ now' = now + 1
    /\ UNCHANGED <<config, api, lister, opBundle, hooks, crt, pc, ca, edits, aborts>>

-----------------------------------------------------------------------------
\* Before the first reconcile; the installation counts as a user's change.
Installed ==
    /\ api = [signer |-> NoSecret, target |-> NoSecret, bundle |-> {}]
    /\ crt = NoCert
    /\ edits = 1

\* A system that has been running with the default configuration.
Running ==
    /\ \E age \in Ages :
         LET signer == [ca |-> 1, nb |-> 0, na |-> 8]
             target == [ca |-> 1, nb |-> 2 - age, na |-> 6 - age]
         IN  /\ api = [signer |-> [there |-> TRUE, conf |-> SignerConfig,
                                   cert |-> signer, na |-> signer.na],
                       target |-> [there |-> TRUE, conf |-> TargetConfig,
                                   cert |-> target, na |-> target.na],
                       bundle |-> {signer}]
             /\ crt = target
    /\ edits = 0

Init ==
    /\ now = 2 /\ config = Default
    /\ Installed \/ Running
    /\ lister = api /\ opBundle = api.bundle /\ hooks = api.bundle
    /\ pc = "idle" /\ ca = NoCert
    /\ aborts = 0

Sync ==
    \/ Reconcile \/ EnsureSignerConfig \/ EnsureSigningCertKeyPair \/ EnsureCertBundle
    \/ EnsureTargetConfig \/ EnsureTargetCertKeyPair

Next ==
    \/ Sync \/ Abort
    \/ DeliverSecrets \/ DeliverConfigMaps \/ DeliverToOperator \/ DeliverToServer
    \/ ServerRestart \/ EditConfig \/ DeleteObject \/ Tick

Spec == Init /\ [][Next]_vars

\* The requeue after every reconcile, the informers' watches and the calls of
\* the API server never stop; nothing is assumed of users and of the clock.
FairSpec ==
    /\ Spec /\ WF_vars(Sync)
    /\ WF_vars(DeliverSecrets) /\ WF_vars(DeliverConfigMaps)
    /\ WF_vars(DeliverToOperator) /\ WF_vars(DeliverToServer)

-----------------------------------------------------------------------------
Certs == [ca : CAs \cup {0}, nb : Nat, na : Nat]
Confs == [lifetime : Int, refresh : Int]
Secrets == [there : BOOLEAN, conf : Confs, cert : Certs, na : Int]
Objects == [signer : Secrets, target : Secrets, bundle : SUBSET Certs]

\* Types; no certificate of the server outlives its CA, and no placeholder
\* enters a bundle.
TypeOK ==
    /\ now \in Nat /\ edits \in 0 .. MaxEdits /\ aborts \in 0 .. MaxAborts
    /\ config \in CertConfigs
    /\ \A o \in {api, lister} :
         /\ o \in Objects
         /\ \A c \in o.bundle :
              /\ c.ca # 0
              /\ c.ca = o.target.cert.ca => o.target.cert.na <= c.na
    /\ opBundle \subseteq Certs /\ hooks \subseteq Certs
    /\ crt \in Certs /\ ca \in Certs
    /\ pc \in {"idle", "signer", "signerKey", "bundle", "target", "targetKey"}

\* The certificate the server would present is valid and chains to a valid CA
\* of the webhook configurations.
Trusted ==
    /\ crt # NoCert /\ now <= crt.na
    /\ \E c \in hooks : c.ca = crt.ca /\ now <= c.na

\* As long as nobody interferes, the API server can call the webhook at every
\* moment of every rotation of CA and certificate: the bundle reaches the
\* webhook configurations before a certificate signed by the new CA is served,
\* and the old CA stays until the last certificate it signed is replaced.
TrustKept == edits = 0 => Trusted

(* Why it does, as an inductive invariant.                                   *)

Bundles == {api.bundle, lister.bundle, opBundle, hooks}
Signers == {api.signer.cert, lister.signer.cert, ca} \ {NoCert}
Targets == {api.target.cert, lister.target.cert, crt}

\* A CA that every copy of the bundle has.
Known(c) == \A b \in Bundles : c \in b

\* An identity stands for one CA, which no certificate it signed outlives.
Held == Signers \cup UNION Bundles
Identities ==
    /\ \A c \in Held : c.ca # 0
    /\ \A c, d \in Held : c.ca = d.ca => c = d
    /\ \A c \in Held, t \in Targets : c.ca = t.ca => t.na <= c.na

\* The reconcile has a CA to sign with from the step that makes sure of one.
CaInHand == pc \in {"bundle", "target", "targetKey"} <=> ca # NoCert

\* Secrets that are there and as configured.
Undisturbed ==
    /\ config = Default
    /\ \A o \in {api, lister} :
         /\ o.signer = [there |-> TRUE, conf |-> SignerConfig,
                        cert |-> o.signer.cert, na |-> o.signer.cert.na]
         /\ o.signer.cert # NoCert
         /\ o.target = [there |-> TRUE, conf |-> TargetConfig,
                        cert |-> o.target.cert, na |-> o.target.cert.na]

\* A signer is known everywhere unless it is new, and is not kept beyond the
\* first time it is due; there is at most one besides the new ones.
SignersKept ==
    /\ \A c \in Signers :
         /\ c.nb <= now /\ now <= c.nb + 5 /\ c.na = c.nb + 8
         /\ c.nb = now \/ Known(c)
    /\ \A c, d \in Signers : c.nb < now /\ d.nb < now => c = d
    /\ ca # NoCert => now <= ca.nb + 4

\* The signer is being replaced: an old one is due or a new one is there.
Rotating == \E c \in Signers : c.nb = now \/ now > c.nb + 4

\* A certificate of the server chains to a CA known everywhere that outlives
\* it, is the signer's when it is younger than the signer, and is not due
\* until the signer's replacement is over.
TargetsKept ==
    \A t \in Targets :
      /\ t.nb <= now /\ now <= t.na /\ t.na = t.nb + 4
      /\ Rotating => now <= t.nb + 3
      /\ \E c \in hooks :
           /\ Known(c) /\ c.ca = t.ca
           /\ c.na = c.nb + 8 /\ t.na <= c.na /\ now < c.na
           /\ Rotating => now + 1 < c.na
           /\ \A s \in Signers : s.nb < t.nb => s = c

CertInv ==
    /\ TypeOK /\ Identities /\ CaInHand
    /\ edits = 0 => Undisturbed /\ SignersKept /\ TargetsKept

\* After the installation, a change of the configuration, a deleted secret or
\* bundle, failed calls and restarts, the certificate served is in the end
\* trusted for good.
TrustRestored == <>[]Trusted
=============================================================================
