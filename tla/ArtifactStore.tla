---------------------------- MODULE ArtifactStore ----------------------------
(* The release artifact store, content addressed with one manifest beside  *)
(* each archive, and the in-memory stores of capability artifacts and      *)
(* provider admissions (artifact-store/, capability-artifacts/store).      *)
EXTENDS Naturals, FiniteSets

CONSTANTS
  Releases, \* releases whose dist may be stored
  Trees,    \* dist trees; equal trees make equal archives
  Adapters, \* sandbox providers asking for admission
  Versions  \* conformance hashes and policy hashes

VARIABLES
  archive,  \* archives in the store
  manifest, \* the manifest beside each archive: its release, or none
  copy,     \* releases/<release>/artifact.tar.gz
  put,      \* artifact.store.put for each release: how far it has come
  stored,   \* history: the tree each release has stored last
  displaced,\* history: releases whose manifest another release has overwritten
  cut,      \* history: releases one of whose puts was cut short
  published, payload, \* createInMemoryArtifactStore
  admission \* createProviderAdmissionStore

vars == <<archive, manifest, copy, put, stored, displaced, cut, published, payload, admission>>
storeVars == <<archive, manifest, copy, put, stored, displaced, cut>>

None == "none"
NotPutting == [phase |-> "none", tree |-> None]
NotAdmitted == [conformance |-> None, policy |-> None]

Init ==
  /\ archive = {} /\ manifest = [t \in Trees |-> None]
  /\ copy = [r \in Releases |-> None] /\ put = [r \in Releases |-> NotPutting]
  /\ stored = [r \in Releases |-> None] /\ displaced = {} /\ cut = {}
  /\ published = {} /\ payload = {} /\ admission = [a \in Adapters |-> NotAdmitted]

To(r, phase) == put' = [put EXCEPT ![r].phase = phase]

(* artifact.store.put: flags, the dist directory, and the lock of the      *)
(* release.                                                                *)
RunArtifactStorePut(r, t) ==
  /\ put[r].phase = "none"
  /\ put' = [put EXCEPT ![r] = [phase |-> "locked", tree |-> t]]
  /\ UNCHANGED <<archive, manifest, copy, stored, displaced, cut, published, payload, admission>>

(* storeArtifactCore: the archive is made aside, moved to its hash, and    *)
(* copied to the release.                                                  *)
MoveArchive(r) ==
  /\ put[r].phase = "locked"
  /\ archive' = archive \cup {put[r].tree} /\ copy' = [copy EXCEPT ![r] = put[r].tree]
  /\ To(r, "archived")
  /\ UNCHANGED <<manifest, stored, displaced, cut, published, payload, admission>>

(* findArtifactManifest: the first that names the release.                 *)
ManifestsOf(r) == {t \in Trees : manifest[t] = r}
FindArtifactManifest(r) ==
  IF ManifestsOf(r) = {} THEN None ELSE CHOOSE t \in ManifestsOf(r) : TRUE

\* Fault: an earlier manifest of the release stays.
KeepManifest(r) ==
  /\ put[r].phase = "archived" /\ To(r, "cleared")
  /\ UNCHANGED <<archive, manifest, copy, stored, displaced, cut, published, payload, admission>>

(* An earlier manifest of the release is removed, unless it is the one     *)
(* about to be written.                                                    *)
RemoveManifest(r) ==
  /\ put[r].phase = "archived" /\ To(r, "cleared")
  /\ manifest' = IF FindArtifactManifest(r) \in {None, put[r].tree} THEN manifest
                 ELSE [manifest EXCEPT ![FindArtifactManifest(r)] = None]
  /\ UNCHANGED <<archive, copy, stored, displaced, cut, published, payload, admission>>

(* The manifest of the archive is written over whatever is there.          *)
WriteManifest(r) ==
  LET t == put[r].tree
  IN  /\ put[r].phase = "cleared"
      /\ manifest' = [manifest EXCEPT ![t] = r]
      /\ stored' = [stored EXCEPT ![r] = t]
      /\ displaced' = (displaced \cup ({manifest[t]} \ {None, r})) \ {r}
      /\ cut' = cut \ {r}
      /\ put' = [put EXCEPT ![r] = NotPutting]
      /\ UNCHANGED <<archive, copy, published, payload, admission>>

CutShort(r) ==
  /\ put[r].phase # "none"
  /\ put' = [put EXCEPT ![r] = NotPutting] /\ cut' = cut \cup {r}
  /\ UNCHANGED <<archive, manifest, copy, stored, displaced, published, payload, admission>>

(* artifactStorePreflight over a dist tree, and artifact.store.validate,   *)
(* to which a manifest is enough.                                          *)
ArtifactStorePreflight(r, dist) == FindArtifactManifest(r) # None /\ FindArtifactManifest(r) = dist
RunArtifactStoreValidate(r) == FindArtifactManifest(r) # None
(* artifactStoreRehydrate extracts the archive its manifest names.         *)
ArtifactStoreRehydrate(r) == FindArtifactManifest(r)

(* publish: size, media type, and never again under a hash that is there.  *)
Publish(bytes, allowed) ==
  /\ allowed /\ bytes \notin published
  /\ published' = published \cup {bytes} /\ payload' = payload \cup {bytes}
  /\ UNCHANGED <<storeVars, admission>>

VerifyArtifact(hash, bytes) == hash \in published /\ hash \in payload /\ bytes = hash

(* admit: only a pass, and never for another conformance hash.             *)
Admit(a, conformance, policy, decision) ==
  /\ decision = "pass" /\ admission[a].conformance \in {None, conformance}
  /\ admission' = [admission EXCEPT ![a] = [conformance |-> conformance, policy |-> policy]]
  /\ UNCHANGED <<storeVars, published, payload>>

Next ==
  \/ \E r \in Releases :
       \/ \E t \in Trees : RunArtifactStorePut(r, t)
       \/ MoveArchive(r) \/ RemoveManifest(r) \/ WriteManifest(r) \/ CutShort(r)
  \/ \E bytes \in Trees, allowed \in BOOLEAN : Publish(bytes, allowed)
  \/ \E a \in Adapters, conformance, policy \in Versions, decision \in {"pass", "fail"} :
       Admit(a, conformance, policy, decision)

Spec == Init /\ [][Next]_vars
-----------------------------------------------------------------------------
TypeOK ==
  /\ archive \subseteq Trees /\ \A t \in Trees : manifest[t] \in Releases \cup {None}
  /\ \A r \in Releases : put[r].phase \in {"none", "locked", "archived", "cleared"}

(* With puts of several releases under way and puts that died: what is     *)
(* found for a release is what it stored last, its archive is in the store *)
(* and it is found, unless another release has stored the very same tree   *)
(* since, or a later put of its own was cut short.                         *)
WhatWasStoredIsFound ==
  /\ \A r \in Releases : ManifestsOf(r) # {} => ManifestsOf(r) = {stored[r]} /\ stored[r] \in archive
  /\ \A r \in Releases \ (displaced \cup cut) :
       put[r].phase \in {"none", "locked", "archived"}
       => IF stored[r] = None THEN ~ RunArtifactStoreValidate(r) ELSE ArtifactStorePreflight(r, stored[r])
  /\ \A r \in Releases \ cut : put[r].phase = "none" => copy[r] = stored[r]

(* An adapter, once admitted, stays admitted for the same conformance.     *)
ConformanceIsPinned ==
  [][\A a \in Adapters : admission[a].conformance # None =>
       admission'[a].conformance = admission[a].conformance]_vars
=============================================================================
