------------------------------- MODULE Signing -------------------------------
(***************************************************************************)
(* Who signed a release, and what the registry trusts.  Every publication  *)
(* that brings no Sigstore bundle -- `jaasctl publish`, the demo seed of   *)
(* `jaasctl serve`, a draft, a release -- first loads the signing key of   *)
(* the deployment, or makes one (artifact/signing.py), registers its       *)
(* public half if no key is registered (artifact/trust.py), loads what is  *)
(* registered, signs the digest and verifies the signature it made         *)
(* (artifact/verify.py).  They share two files and no lock, and a file is  *)
(* emptied before it is filled.                                            *)
(***************************************************************************)
CONSTANTS
  Makers,    \* publications in progress; a key is named after who made it
  Releases,  \* an id and a version
  Sigstore,  \* the signer of a release that brought a bundle
  None, Torn,
  MayCrash   \* TRUE: a publication may be cut off between any two accesses

\* What the constants have to be, for module Delivery to assume.
SigningAssumption ==
  /\ Sigstore # None /\ {None, Torn, Sigstore} \intersect Makers = {} /\ None # Torn
  /\ None \notin Releases
  /\ MayCrash \in BOOLEAN

VARIABLES
  keyFile,  \* signing_key.pem: whose key
  trusted,  \* trusted_keys/ci.pem: whose key
  maker,    \* what each publication has loaded so far
  signed,   \* the signer of each published release
  refused,  \* releases refused with INVALID_SIGNATURE
  clash     \* two publications both found a file missing, and both made it

vars == <<keyFile, trusted, maker, signed, refused, clash>>

Work(label, v, key, trust) == [pc |-> label, rel |-> v, key |-> key, trust |-> trust]

NoWork == Work("idle", None, None, None)

Maker ==
  [pc : {"look", "openKey", "writeKey", "lookTrust", "openTrust", "writeTrust",
         "loadTrust", "publish"},
   rel : Releases, key : Makers \union {None}, trust : Makers \union {None}]

Init ==
  /\ keyFile = None /\ trusted = None
  /\ maker = [m \in Makers |-> NoWork]
  /\ signed = [v \in Releases |-> None]
  /\ refused = {} /\ clash = FALSE

-----------------------------------------------------------------------------
At(m, label) == maker[m].pc = label

Step(m, label, key, trust) ==
  maker' = [maker EXCEPT ![m] = Work(label, maker[m].rel, key, trust)]

Goto(m, label) == Step(m, label, maker[m].key, maker[m].trust)

Finish(m) == maker' = [maker EXCEPT ![m] = NoWork]

GoOn(m, v) ==
  maker' = [maker EXCEPT ![m] = Work("publish", v, maker[m].key, maker[m].trust)]

\* Another publication that found a file missing has not made it yet.
Meets(m, labels) == \E other \in Makers \ {m} : maker[other].pc \in labels

\* What a file may hold once its text is flushed: where two made it, the texts
\* lie on top of each other.
Filled(file, text) == IF clash THEN {file, text, Torn} ELSE {text}

Begin(m, v) ==
  /\ At(m, "idle")
  /\ maker' = [maker EXCEPT ![m] = Work("look", v, None, None)]
  /\ UNCHANGED <<keyFile, trusted, signed, refused, clash>>

\* Variant: a key is made for every publication.
AlwaysCreateKeypair(m) ==
  /\ At(m, "look")
  /\ Step(m, "openKey", m, None)
  /\ UNCHANGED <<keyFile, trusted, signed, refused, clash>>

\* load_or_create_keypair: a torn key raises.
LoadOrCreateKeypair(m) ==
  /\ At(m, "look")
  /\ \/ keyFile = None /\ Step(m, "openKey", m, None)
     \/ keyFile \in Makers /\ Step(m, "lookTrust", keyFile, None)
     \/ keyFile = Torn /\ Finish(m)
  /\ UNCHANGED <<keyFile, trusted, signed, refused, clash>>

OpenKey(m) ==
  /\ At(m, "openKey")
  /\ keyFile' = Torn
  /\ clash' = (clash \/ Meets(m, {"openKey", "writeKey"}))
  /\ Goto(m, "writeKey")
  /\ UNCHANGED <<trusted, signed, refused>>

WriteKey(m) ==
  /\ At(m, "writeKey")
  /\ keyFile' \in Filled(keyFile, maker[m].key)
  /\ Goto(m, "lookTrust")
  /\ UNCHANGED <<trusted, signed, refused, clash>>

\* ensure_key_registered: whatever is there is left alone.
LookForTrust(m) ==
  /\ At(m, "lookTrust")
  /\ Goto(m, IF trusted = None THEN "openTrust" ELSE "loadTrust")
  /\ UNCHANGED <<keyFile, trusted, signed, refused, clash>>

OpenTrust(m) ==
  /\ At(m, "openTrust")
  /\ trusted' = Torn
  /\ clash' = (clash \/ Meets(m, {"openTrust", "writeTrust"}))
  /\ Goto(m, "writeTrust")
  /\ UNCHANGED <<keyFile, signed, refused>>

WriteTrust(m) ==
  /\ At(m, "writeTrust")
  /\ trusted' \in Filled(trusted, maker[m].key)
  /\ Goto(m, "loadTrust")
  /\ UNCHANGED <<keyFile, signed, refused, clash>>

\* load_trust_policy, whose torn key raises when it is first used.
LoadTrust(m) ==
  /\ At(m, "loadTrust")
  /\ \/ trusted = Torn /\ Finish(m)
     \/ trusted # Torn /\ Step(m, "publish", maker[m].key, trusted)
  /\ UNCHANGED <<keyFile, trusted, signed, refused, clash>>

(***************************************************************************)
(* publish_skill: sign_digest, verify_artifact, and the tag, which the     *)
(* first publication of a version binds (module Publish has the details).  *)
(* The demo seed of a server goes on to its next package with the key and  *)
(* the trust policy it has loaded.                                         *)
(***************************************************************************)
Publish(m) ==
  LET v == maker[m].rel
      verified == maker[m].key = maker[m].trust
  IN
  /\ At(m, "publish")
  /\ signed' = IF verified /\ signed[v] = None THEN [signed EXCEPT ![v] = maker[m].key]
               ELSE signed
  /\ refused' = IF verified THEN refused ELSE refused \union {v}
  /\ Finish(m) \/ \E next \in Releases : GoOn(m, next)
  /\ UNCHANGED <<keyFile, trusted, clash>>

\* A release with a Sigstore bundle signs nothing here.
PublishBundle(v) ==
  /\ signed[v] = None
  /\ signed' = [signed EXCEPT ![v] = Sigstore]
  /\ UNCHANGED <<keyFile, trusted, maker, refused, clash>>

CutOff(m) ==
  /\ MayCrash /\ ~At(m, "idle")
  /\ Finish(m)
  /\ UNCHANGED <<keyFile, trusted, signed, refused, clash>>

LoadKeys(m) ==
  \/ LoadOrCreateKeypair(m) \/ OpenKey(m) \/ WriteKey(m)
  \/ LookForTrust(m) \/ OpenTrust(m) \/ WriteTrust(m) \/ LoadTrust(m)

Next ==
  \/ \E m \in Makers : LoadKeys(m) \/ Publish(m) \/ CutOff(m)
  \/ \E m \in Makers, v \in Releases : Begin(m, v)
  \/ \E v \in Releases : PublishBundle(v)

Spec == Init /\ [][Next]_vars

-----------------------------------------------------------------------------
TypeOK ==
  /\ keyFile \in Makers \union {None, Torn} /\ trusted \in Makers \union {None, Torn}
  /\ maker \in [Makers -> Maker \union {NoWork}]
  /\ signed \in [Releases -> Makers \union {None, Sigstore}]
  /\ refused \subseteq Releases /\ clash \in BOOLEAN

\* The key persists "so signatures verify consistently" (signing.py): unless two
\* first publications both made a key, every signed release verifies against
\* the registered key, which is the key on file, and none was ever refused.
SignaturesHold ==
  ~clash => /\ \A v \in Releases : signed[v] \in Makers => signed[v] = trusted /\ signed[v] = keyFile
            /\ refused = {}
=============================================================================
