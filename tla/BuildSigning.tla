---------------------------- MODULE BuildSigning ----------------------------
(* What a build made, on record and signed: integrity.build-record writes    *)
(* outputs.json and build-provenance.json, integrity.sign signs their        *)
(* digests, integrity.keys.generate replaces the key pair and                *)
(* integrity.verify-release checks.  No command takes a lock.                *)
EXTENDS Naturals, FiniteSets

CONSTANTS
  Procs,      \* terminals and agents
  MaxBuilds,  \* bounds of the model: builds,
  MaxRuns     \* commands run

VARIABLES
  dist,       \* the build that lies in dist/
  outputs,    \* outputs.json: the record and the build it hashed
  provenance, \* build-provenance.json: the record, and the outputs it names
  private, public, \* the two files of the key pair
  published,  \* the public key behind PUBLIC_KEY_URL
  hex, binary,\* signature.hex and signature.bin
  manifest,   \* signed-manifest.json
  job,        \* the command a process runs, with what it has read
  runs,
  alone,      \* history: the processes whose command has met no other command
  last        \* and the last sign that ended: whether it was alone, and whether it
              \* kept the signature it found

vars == <<dist, outputs, provenance, private, public, published, hex, binary, manifest, job, runs, alone, last>>
record == <<outputs, provenance>>
keys == <<private, public>>
signature == <<hex, binary, manifest>>

NoFile == [record |-> 0, build |-> 0]
NoSignature == [key |-> 0, id |-> 0, outputs |-> NoFile, provenance |-> NoFile]
Idle == [at |-> "idle", id |-> 0, outputs |-> NoFile, provenance |-> NoFile, key |-> 0, payload |-> NoSignature, left |-> {}]

Init ==
  /\ dist = 1 /\ outputs = NoFile /\ provenance = NoFile
  /\ private = 1 /\ public = 1 /\ published = 1
  /\ hex = NoSignature /\ binary = NoSignature /\ manifest = NoSignature
  /\ job = [p \in Procs |-> Idle] /\ runs = 0 /\ alone = {} /\ last = [alone |-> FALSE, reused |-> FALSE]

Busy(p) == \E q \in Procs \ {p} : job[q].at # "idle"
Begin(p, j) ==
  /\ job[p].at = "idle" /\ runs < MaxRuns /\ runs' = runs + 1
  /\ job' = [job EXCEPT ![p] = j]
  /\ alone' = IF Busy(p) THEN {} ELSE {p}
(* A write in progress tells on a sign that has ended.                      *)
Changed == last' = [last EXCEPT !.alone = FALSE]
Goto(p, at) == job' = [job EXCEPT ![p].at = at]
End(p) == job' = [job EXCEPT ![p] = Idle]

(* The site is built again, and its public key deployed.                    *)
Build ==
  /\ dist < MaxBuilds /\ dist' = dist + 1
  /\ UNCHANGED <<record, keys, published, signature, job, runs, alone, last>>
Publish ==
  /\ published # public /\ published' = public
  /\ UNCHANGED <<dist, record, keys, signature, job, runs, alone, last>>

---------------------------------------------------------------------------
(* integrity.build-record: hashes of dist/, then the provenance of them; the *)
(* run itself is the build id.                                              *)
CollectBuildOutputs(p) ==
  /\ Begin(p, [Idle EXCEPT !.at = "provenance", !.outputs = [record |-> runs + 1, build |-> dist]])
  /\ UNCHANGED <<dist, record, keys, published, signature, last>>
CreateBuildProvenance(p) ==
  /\ job[p].at = "provenance"
  /\ job' = [job EXCEPT ![p].at = "write-outputs", ![p].provenance = job[p].outputs]
  /\ UNCHANGED <<dist, record, keys, published, signature, runs, alone, last>>
WriteOutputs(p) ==
  /\ job[p].at = "write-outputs" /\ outputs' = job[p].outputs /\ Changed
  /\ Goto(p, "write-provenance")
  /\ UNCHANGED <<dist, provenance, keys, published, signature, runs, alone>>
WriteProvenance(p) ==
  /\ job[p].at = "write-provenance" /\ provenance' = job[p].provenance /\ Changed
  /\ End(p) /\ UNCHANGED <<dist, outputs, keys, published, signature, runs, alone>>

(* integrity.keys.generate overwrites both files, in no order.              *)
GenerateSigningKeyPair(p) ==
  /\ Begin(p, [Idle EXCEPT !.at = "keys", !.key = runs + 2, !.left = {"private", "public"}])
  /\ UNCHANGED <<dist, record, keys, published, signature, last>>
WriteKey(p, file) ==
  /\ job[p].at = "keys" /\ file \in job[p].left
  /\ private' = (IF file = "private" THEN job[p].key ELSE private)
  /\ public' = (IF file = "public" THEN job[p].key ELSE public)
  /\ job' = [job EXCEPT ![p] = IF job[p].left = {file} THEN Idle ELSE [job[p] EXCEPT !.left = @ \ {file}]]
  /\ UNCHANGED <<dist, record, published, signature, runs, alone, last>>

---------------------------------------------------------------------------
(* integrity.sign.  The key is read first; outputs.json and the provenance  *)
(* are read together, the provenance twice: its text and its build id.      *)
LoadPrivateKeyPem(p) ==
  /\ Begin(p, [Idle EXCEPT !.at = "load", !.key = private, !.left = {"outputs", "provenance", "id"}])
  /\ UNCHANGED <<dist, record, keys, published, signature, last>>
LoadBuildArtifacts(p, part) ==
  /\ job[p].at = "load" /\ part \in job[p].left
  /\ IF (part = "outputs" /\ outputs = NoFile) \/ (part # "outputs" /\ provenance = NoFile) THEN End(p)
     ELSE job' = [job EXCEPT ![p] = [job[p] EXCEPT !.left = @ \ {part},
            !.at = IF job[p].left = {part} THEN "check" ELSE "load",
            !.outputs = IF part = "outputs" THEN outputs ELSE @,
            !.provenance = IF part = "provenance" THEN provenance ELSE @,
            !.id = IF part = "id" THEN provenance.record ELSE @]]
  /\ UNCHANGED <<dist, record, keys, published, signature, runs, alone, last>>

CreateSignablePayload(p) ==
  [key |-> job[p].key, id |-> job[p].id, outputs |-> job[p].outputs, provenance |-> job[p].provenance]
(* Fault: only the build ids are compared.                                  *)
SameBuild(m, payload) == m.id = payload.id
(* A signature over the same build and digests is kept, by whatever key it  *)
(* was made, and neither verified nor written to the other two files.       *)
DigestsMatch(m, payload) ==
  m.id = payload.id /\ m.outputs = payload.outputs /\ m.provenance = payload.provenance
SignEnds(p, reused) == last' = [alone |-> p \in alone, reused |-> reused] /\ End(p)
Reuse(p) ==
  /\ job[p].at = "check" /\ DigestsMatch(manifest, CreateSignablePayload(p))
  /\ SignEnds(p, TRUE)
  /\ UNCHANGED <<dist, record, keys, published, signature, runs, alone>>
SignJsonPayload(p) ==
  /\ job[p].at = "check" /\ ~DigestsMatch(manifest, CreateSignablePayload(p))
  /\ job' = [job EXCEPT ![p].at = "write", ![p].payload = CreateSignablePayload(p), ![p].left = {"hex", "manifest"}]
  /\ UNCHANGED <<dist, record, keys, published, signature, runs, alone, last>>
(* signature.hex and the manifest at once, signature.bin after both.        *)
WriteSignature(p, file) ==
  /\ job[p].at = "write" /\ file \in job[p].left
  /\ hex' = (IF file = "hex" THEN job[p].payload ELSE hex)
  /\ manifest' = (IF file = "manifest" THEN job[p].payload ELSE manifest)
  /\ job' = [job EXCEPT ![p].left = @ \ {file}] /\ Changed
  /\ UNCHANGED <<dist, record, keys, published, binary, runs, alone>>
WriteBinary(p) ==
  /\ job[p].at = "write" /\ job[p].left = {}
  /\ binary' = job[p].payload /\ SignEnds(p, FALSE)
  /\ UNCHANGED <<dist, record, keys, published, hex, manifest, runs, alone>>

Crash(p) ==
  /\ job[p].at # "idle" /\ End(p)
  /\ UNCHANGED <<dist, record, keys, published, signature, runs, alone, last>>

---------------------------------------------------------------------------
(* integrity.verify-release: a URL given or embedded in the manifest, or    *)
(* the public key beside the site.                                          *)
LoadPublicKeyPem(source) == IF source = "url" THEN published ELSE public
VerifyManifestSignature(m, key) == m # NoSignature /\ m.key = key
CompareManifestWithLocalArtifacts(m) == m.outputs = outputs /\ m.provenance = provenance
VerifyRelease(source) ==
  VerifyManifestSignature(manifest, LoadPublicKeyPem(source)) /\ CompareManifestWithLocalArtifacts(manifest)
(* What integrity.verify asks of the build layer.                           *)
IncompleteBuildLayer == (outputs = NoFile) # (provenance = NoFile)

Next ==
  \/ Build \/ Publish
  \/ \E p \in Procs :
       \/ CollectBuildOutputs(p) \/ CreateBuildProvenance(p) \/ WriteOutputs(p) \/ WriteProvenance(p)
       \/ GenerateSigningKeyPair(p) \/ \E f \in {"private", "public"} : WriteKey(p, f)
       \/ LoadPrivateKeyPem(p) \/ \E f \in {"outputs", "provenance", "id"} : LoadBuildArtifacts(p, f)
       \/ Reuse(p) \/ SignJsonPayload(p) \/ \E f \in {"hex", "manifest"} : WriteSignature(p, f)
       \/ WriteBinary(p) \/ Crash(p)

Spec == Init /\ [][Next]_vars

---------------------------------------------------------------------------
TypeOK ==
  /\ dist \in 1..MaxBuilds /\ {private, public, published} \subseteq 1..(MaxRuns + 1)
  /\ DOMAIN job = Procs /\ alone \subseteq Procs /\ runs \in 0..MaxRuns

(* A sign that met no other command leaves a manifest over the files that   *)
(* are there, also when a record crashed halfway or an earlier signature    *)
(* was kept; it verifies with the key beside the site unless the key pair   *)
(* was replaced, in whole or in half, after the signature was made.         *)
SignedIsWhatIsThere ==
  last.alone =>
    /\ CompareManifestWithLocalArtifacts(manifest) /\ ~IncompleteBuildLayer
    /\ ~last.reused => hex = manifest /\ binary = manifest
    /\ manifest.key = public <=> VerifyRelease("file")

(* Not kept: a kept signature fails once the key pair was replaced, and a   *)
(* key published by the next deployment fails every earlier one.            *)
SignedVerifies == last.alone /\ private = public /\ (\A p \in Procs : job[p].at # "keys") => VerifyRelease("file")
(* Not kept: the signed pair may be the outputs of one record and the       *)
(* provenance of another, which no check compares.                          *)
SignedPairIsOneRecord == manifest # NoSignature => manifest.outputs.record = manifest.provenance.record
=============================================================================
