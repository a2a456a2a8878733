------------------------------ MODULE Nachweis ------------------------------
(***************************************************************************)
(* Evidence records of a site (src/src/nachweis): a record is ingested,    *)
(* signed, timestamped and approved in the ledger (the Bordbuch), its      *)
(* consent is kept in a file of its own, and publishing or withdrawing it  *)
(* changes the entity's file, the ledger and the public manifest, in that  *)
(* order and without a lock around the three.                              *)
(*                                                                         *)
(* A command reads what it needs when it starts and then takes its steps:  *)
(* proc[p].todo holds those it has still to take.  Only the ledger is      *)
(* written under locks, which are external and may be refused; losing and  *)
(* returning them is the subject of MissionLifecycle.                      *)
(***************************************************************************)
EXTENDS Naturals, Sequences

CONSTANTS
  Procs,        \* terminals and agents that run commands
  Slugs,        \* the records of the site
  Histories,    \* what earlier commands made of the site: files and ledger to start from
  Aspects,      \* what of a record may be displayed, each with a consent of its own
  Displayed,    \* the aspects each record displays
  Given,        \* what --status of nachweis.consent.update may say, any words
  Files,        \* contents of artifacts, numbers from 1
  Verdicts,     \* what an approver may say: a level and the legal check
  Commands,     \* the commands in use
  MaxCommands,  \* bound on the commands of a behaviour
  Faults        \* what may fail: "upload", "lock", "manifest", "crash"

ASSUME NachweisAssumption ==
  /\ "document" \in Aspects
  /\ Displayed \in [Slugs -> SUBSET Aspects]
  /\ Files \subseteq Nat \ {0}
  /\ Verdicts \subseteq [level : {"N0", "N1", "N2", "N3"}, legal : BOOLEAN]
  /\ MaxCommands \in Nat

VARIABLES
  crew,      \* the terminals at work on this site
  entity,    \* the evidence-source file of each record
  consent,   \* the consent file of each record: a status for each aspect
  ledger,    \* the Bordbuch's entries, by the slug they name
  manifest,  \* the slugs in public/nachweise/manifest.json
  proc,      \* the command each terminal runs, or ran last
  issued     \* number of commands started

vars == <<crew, entity, consent, ledger, manifest, proc, issued>>

Keys == {"source", "public", "raw"}
Whole == "__manifest__"
Statuses == {"not_requested", "denied"} \cup Given

\* An evidence-source: the artifacts' hashes (0 where there is none), the
\* observation an assessment is of, whether it is withdrawn and visible.
Entities ==
  [policy : {"absent", "attestation", "technical"}, items : [Keys -> Files \cup {0}],
   observation : Files \cup {0}, withdrawn : BOOLEAN, public : BOOLEAN]

Payloads == [policy : {"absent", "attestation", "technical"}, items : [Keys -> Files \cup {0}]]

\* What a signature is over.
Payload(e) == [policy |-> e.policy, items |-> e.items]

NoItems == [k \in Keys |-> 0]
Absent == [policy |-> "absent", items |-> NoItems, observation |-> 0,
           withdrawn |-> FALSE, public |-> FALSE]
Authored == [Absent EXCEPT !.policy = "attestation", !.items["source"] = 1]
NoPayload == Payload(Absent)

\* A ledger entry, by what its readers look at.
Entry(kind, note) ==
  [kind |-> kind, note |-> note, level |-> "none", legal |-> FALSE, payload |-> NoPayload]

Entries ==
  [kind : {"record", "consent", "signed", "timestamped", "sichtpass"},
   note : {"ingested", "assessed", "derived", "approved", "published", "withdrawn",
           "updated", "signed", "timestamped", "listed"},
   level : {"none", "N0", "N1", "N2", "N3"}, legal : BOOLEAN,
   payload : Payloads]

Names ==
  {"none", "ingest", "public-derivative", "assessment.ingest", "sign", "timestamp", "approve",
   "consent.update", "publish", "withdraw", "manifest.generate"}

Steps == {"upload", "write", "consent", "revoke", "append", "list", "listed", "attest"}

\* What a terminal is at: its command, the steps it has still to take, what it
\* read or decided when it started, and whether the manifest could be made.
Operations ==
  [cmd : Names, slug : Slugs \cup {Whole}, todo : Seq(Steps), copy : Entities,
   aspect : Aspects, status : Statuses, entries : Seq(Entries), list : SUBSET Slugs,
   made : BOOLEAN]

Idle == [cmd |-> "none", slug |-> Whole, todo |-> <<>>, copy |-> Absent,
         aspect |-> "document", status |-> "not_requested", entries |-> <<>>,
         list |-> {}, made |-> TRUE]

\* Array.some and Array.find over the entries that name a slug.
Has(entries, kind) == \E i \in DOMAIN entries : entries[i].kind = kind

First(entries, kind) ==
  entries[CHOOSE i \in DOMAIN entries :
            /\ entries[i].kind = kind
            /\ \A j \in 1 .. i - 1 : entries[j].kind # kind]

\* The entries publish hands to the gate: of its two kinds, whatever the slug.
SomeRecord(Test(_)) ==
  \E s \in Slugs : \E i \in DOMAIN ledger[s] :
    ledger[s][i].kind = "record" /\ Test(ledger[s][i])

Approved(e) == e.note = "approved"
IsN3(e) == e.level = "N3"
LegallyChecked(e) == e.legal

Consented(s) == \A a \in Displayed[s] : consent[s][a] = "granted"

\* Fault: the legal check is not among the conditions.
GateUnchecked(s) ==
  LET e == entity[s] IN
  /\ e.items # NoItems
  /\ SomeRecord(Approved)
  /\ SomeRecord(IsN3)
  /\ e.policy = "attestation" => Consented(s) /\ e.items["public"] # 0
  /\ e.policy = "technical" => e.items["raw"] # 0 /\ e.observation # 0

\* evaluateGateV2 on the record as it lies in its file.
Gate(s) ==
  LET e == entity[s] IN
  /\ e.items # NoItems
  /\ SomeRecord(Approved)
  /\ SomeRecord(IsN3)
  /\ SomeRecord(LegallyChecked)
  /\ e.policy = "attestation" => Consented(s) /\ e.items["public"] # 0
  /\ e.policy = "technical" => e.items["raw"] # 0 /\ e.observation # 0

Init ==
  /\ crew \in (SUBSET Procs) \ {{}}
  /\ \E h \in Histories :
       entity = h.entity /\ consent = h.consent /\ ledger = h.ledger
  /\ manifest = {}
  /\ proc = [p \in Procs |-> Idle]
  /\ issued = 0

---------------------------------------------------------------------------
(* Commands: what each reads and refuses, and the steps it sets out on.    *)

WithItem(e, key, f) == [e EXCEPT !.items[key] = f]

\* A command that has passed its checks.
Begin(p, op) ==
  /\ proc' = [proc EXCEPT ![p] = op]
  /\ UNCHANGED <<crew, entity, consent, ledger, manifest>>

\* A command that returns at once: there is nothing to do, or it is refused.
Return(p) == Begin(p, Idle)

Issue(p, cmd) ==
  /\ p \in crew
  /\ cmd \in Commands
  /\ proc[p].todo = <<>>
  /\ issued < MaxCommands
  /\ issued' = issued + 1

Ingest(p, s) ==
  /\ Issue(p, "ingest")
  /\ Begin(p, [Idle EXCEPT !.cmd = "ingest", !.slug = s, !.todo = <<"upload", "append">>,
               !.entries = <<Entry("record", "ingested")>>])

\* The derivative replaces the item of its key in the copy read at the start.
PublicDerivative(p, s, f) ==
  /\ Issue(p, "public-derivative")
  /\ entity[s].policy # "absent"
  /\ IF entity[s].items["public"] = f
     THEN Return(p)
     ELSE Begin(p, [Idle EXCEPT !.cmd = "public-derivative", !.slug = s,
                    !.todo = <<"upload", "write", "append">>,
                    !.copy = WithItem(entity[s], "public", f),
                    !.entries = <<Entry("record", "derived")>>])

\* An observation is compared with the one the record holds, and only with it.
AssessmentIngest(p, s, o, f) ==
  /\ Issue(p, "assessment.ingest")
  /\ IF entity[s].observation = o
     THEN Return(p)
     ELSE Begin(p, [Idle EXCEPT !.cmd = "assessment.ingest", !.slug = s,
                    !.todo = <<"upload", "write", "append">>,
                    !.copy = [WithItem(entity[s], "raw", f) EXCEPT
                                !.policy = "technical", !.observation = o],
                    !.entries = <<[Entry("record", "assessed") EXCEPT !.level = "N1"]>>])

\* Signing is deterministic: the same payload is the same signature.
Sign(p, s) ==
  /\ Issue(p, "sign")
  /\ entity[s].policy # "absent"
  /\ LET signed == [Entry("signed", "signed") EXCEPT !.payload = Payload(entity[s])] IN
     IF \E i \in DOMAIN ledger[s] : ledger[s][i] = signed
     THEN Return(p)
     ELSE Begin(p, [Idle EXCEPT !.cmd = "sign", !.slug = s, !.todo = <<"append">>,
                    !.entries = <<signed>>])

\* Fault: what is timestamped is the record as it is now.
LatestStamp(p, s) ==
  /\ Issue(p, "timestamp")
  /\ Has(ledger[s], "signed")
  /\ IF Has(ledger[s], "timestamped")
     THEN Return(p)
     ELSE Begin(p, [Idle EXCEPT !.cmd = "timestamp", !.slug = s, !.todo = <<"upload", "append">>,
                    !.entries = <<[Entry("timestamped", "timestamped") EXCEPT
                      !.payload = Payload(entity[s])]>>])

\* The authority stamps the first signature the ledger holds.
Timestamp(p, s) ==
  /\ Issue(p, "timestamp")
  /\ Has(ledger[s], "signed")
  /\ IF Has(ledger[s], "timestamped")
     THEN Return(p)
     ELSE Begin(p, [Idle EXCEPT !.cmd = "timestamp", !.slug = s, !.todo = <<"upload", "append">>,
                    !.entries = <<[Entry("timestamped", "timestamped") EXCEPT
                                     !.payload = First(ledger[s], "signed").payload]>>])

\* Fault: an approval at N3 asks for the signature only.
ApproveUnstamped(p, s, v) ==
  /\ Issue(p, "approve")
  /\ IF v.level = "N3" /\ ~Has(ledger[s], "signed")
     THEN Return(p)
     ELSE Begin(p, [Idle EXCEPT !.cmd = "approve", !.slug = s, !.todo = <<"append">>,
                    !.entries = <<[Entry("record", "approved") EXCEPT
                                     !.level = v.level, !.legal = v.legal]>>])

Approve(p, s, v) ==
  /\ Issue(p, "approve")
  /\ IF v.level = "N3" /\ ~(Has(ledger[s], "signed") /\ Has(ledger[s], "timestamped"))
     THEN Return(p)
     ELSE Begin(p, [Idle EXCEPT !.cmd = "approve", !.slug = s, !.todo = <<"append">>,
                    !.entries = <<[Entry("record", "approved") EXCEPT
                                     !.level = v.level, !.legal = v.legal]>>])

\* The status is written as it is given: nothing compares it with those the gate
\* knows.
ConsentUpdate(p, s, a, status) ==
  /\ Issue(p, "consent.update")
  /\ Begin(p, [Idle EXCEPT !.cmd = "consent.update", !.slug = s, !.todo = <<"consent", "append">>,
               !.aspect = a, !.status = status,
               !.entries = <<Entry("consent", "updated")>>])

\* Neither the withdrawn status nor the slug of an approval is asked for.
Publish(p, s) ==
  /\ Issue(p, "publish")
  /\ entity[s].policy # "absent"
  /\ IF ~Gate(s)
     THEN Return(p)
     ELSE Begin(p, [Idle EXCEPT !.cmd = "publish", !.slug = s,
                    !.todo = <<"write", "append", "list", "listed", "attest">>,
                    !.copy = [entity[s] EXCEPT !.public = TRUE],
                    !.entries = <<[Entry("record", "published") EXCEPT !.level = "N3"]>>])

\* Fault: the manifest is written before the record's file.
WithdrawListsFirst(p, s) ==
  /\ Issue(p, "withdraw")
  /\ entity[s].policy # "absent"
  /\ IF entity[s].withdrawn
     THEN Return(p)
     ELSE Begin(p, [Idle EXCEPT
            !.cmd = "withdraw", !.slug = s,
            !.todo = <<"list", "listed", "write", "revoke", "append", "attest">>,
            !.copy = [entity[s] EXCEPT !.withdrawn = TRUE, !.public = FALSE],
            !.entries = <<Entry("record", "withdrawn")>>])

Withdraw(p, s) ==
  /\ Issue(p, "withdraw")
  /\ entity[s].policy # "absent"
  /\ LET record == Entry("record", "withdrawn") IN
     IF entity[s].withdrawn
     THEN Return(p)
     ELSE Begin(p, [Idle EXCEPT !.cmd = "withdraw", !.slug = s,
                    !.todo = <<"write", "revoke", "append", "list", "listed", "attest">>,
                    !.copy = [entity[s] EXCEPT !.withdrawn = TRUE, !.public = FALSE],
                    !.entries = IF entity[s].policy = "attestation"
                                THEN <<Entry("consent", "withdrawn"), record>>
                                ELSE <<record>>])

ManifestGenerate(p) ==
  /\ Issue(p, "manifest.generate")
  /\ Begin(p, [Idle EXCEPT !.cmd = "manifest.generate", !.todo = <<"list", "listed", "attest">>])

---------------------------------------------------------------------------
(* Steps: one for each await that changes something.                       *)

At(p, step) == proc[p].todo # <<>> /\ Head(proc[p].todo) = step

\* The command throws, dies, or returns.
End(p) == proc' = [proc EXCEPT ![p] = Idle]

\* The step is taken; after its last one the command returns.
Advance(p) ==
  IF Len(proc[p].todo) = 1 THEN End(p) ELSE proc' = [proc EXCEPT ![p].todo = Tail(@)]

\* uploadToR2, or the call of the timestamp authority.
Upload(p) ==
  /\ At(p, "upload")
  /\ Advance(p) \/ ("upload" \in Faults /\ End(p))
  /\ UNCHANGED <<crew, entity, consent, ledger, manifest, issued>>

\* The whole file is written from the copy the command read.
WriteEntity(p) ==
  /\ At(p, "write")
  /\ entity' = [entity EXCEPT ![proc[p].slug] = proc[p].copy]
  /\ Advance(p)
  /\ UNCHANGED <<crew, consent, ledger, manifest, issued>>

WriteConsent(p) ==
  /\ At(p, "consent")
  /\ consent' = [consent EXCEPT ![proc[p].slug][proc[p].aspect] = proc[p].status]
  /\ Advance(p)
  /\ UNCHANGED <<crew, entity, ledger, manifest, issued>>

\* Fault: a status the consent's readers do not know.
RevokeAsWithdrawn(p) ==
  /\ At(p, "revoke")
  /\ consent' = IF proc[p].copy.policy = "attestation"
                THEN [consent EXCEPT ![proc[p].slug]["document"] = "withdrawn"]
                ELSE consent
  /\ Advance(p)
  /\ UNCHANGED <<crew, entity, ledger, manifest, issued>>

\* A withdrawal denies the document of an attestation; the other aspects stay.
RevokeConsent(p) ==
  /\ At(p, "revoke")
  /\ consent' = IF proc[p].copy.policy = "attestation"
                THEN [consent EXCEPT ![proc[p].slug]["document"] = "denied"]
                ELSE consent
  /\ Advance(p)
  /\ UNCHANGED <<crew, entity, ledger, manifest, issued>>

\* Both locks are taken, the entries appended and committed, the locks returned.
AppendEntries(p) ==
  /\ At(p, "append")
  /\ ledger' = [ledger EXCEPT ![proc[p].slug] = @ \o proc[p].entries]
  /\ Advance(p)
  /\ UNCHANGED <<crew, entity, consent, manifest, issued>>

ListRecords(p) ==
  /\ At(p, "list")
  /\ proc' = [proc EXCEPT ![p].todo = Tail(@),
                          ![p].list = {s \in Slugs : entity[s].public}]
  /\ UNCHANGED <<crew, entity, consent, ledger, manifest, issued>>

WriteManifest(p) ==
  /\ At(p, "listed")
  /\ manifest' = proc[p].list
  /\ Advance(p)
  /\ UNCHANGED <<crew, entity, consent, ledger, issued>>

\* The entry about the manifest, under the locks again.
Attest(p) ==
  /\ At(p, "attest")
  /\ ledger' = [ledger EXCEPT ![proc[p].slug] = Append(@, Entry("sichtpass", "listed"))]
  /\ Advance(p)
  /\ UNCHANGED <<crew, entity, consent, manifest, issued>>

\* nachweis.manifest.generate fails, in what it read or at its write.  By itself it
\* is a command that failed; publish and withdraw run it through the kernel, do not
\* look at its result and go on.
ManifestFails(p) ==
  /\ "manifest" \in Faults
  /\ At(p, "listed")
  /\ IF proc[p].cmd = "manifest.generate" THEN End(p)
     ELSE proc' = [proc EXCEPT ![p].todo = Tail(@), ![p].made = FALSE]
  /\ UNCHANGED <<crew, entity, consent, ledger, manifest, issued>>

\* One of the two locks is held by somebody else: acquireLock throws.  So does the
\* ledger, with the locks returned, where a summary reads like a secret (the reason
\* of a withdrawal is free text).
LockRefused(p) ==
  /\ "lock" \in Faults
  /\ At(p, "append") \/ At(p, "attest")
  /\ End(p)
  /\ UNCHANGED <<crew, entity, consent, ledger, manifest, issued>>

Crash(p) ==
  /\ "crash" \in Faults
  /\ proc[p].todo # <<>>
  /\ End(p)
  /\ UNCHANGED <<crew, entity, consent, ledger, manifest, issued>>

Next ==
  \E p \in Procs :
    \/ \E s \in Slugs :
         \/ Ingest(p, s) \/ Sign(p, s) \/ Timestamp(p, s) \/ Publish(p, s) \/ Withdraw(p, s)
         \/ \E f \in Files : PublicDerivative(p, s, f)
         \/ \E o, f \in Files : AssessmentIngest(p, s, o, f)
         \/ \E v \in Verdicts : Approve(p, s, v)
         \/ \E a \in Aspects : \E status \in Given :
              ConsentUpdate(p, s, a, status)
    \/ ManifestGenerate(p)
    \/ Upload(p) \/ WriteEntity(p) \/ WriteConsent(p) \/ RevokeConsent(p)
    \/ AppendEntries(p) \/ ListRecords(p) \/ WriteManifest(p) \/ Attest(p)
    \/ ManifestFails(p) \/ LockRefused(p) \/ Crash(p)

Spec == Init /\ [][Next]_vars

---------------------------------------------------------------------------
(* Properties.                                                             *)

TypeOK ==
  /\ crew \in SUBSET Procs
  /\ entity \in [Slugs -> Entities]
  /\ consent \in [Slugs -> [Aspects -> Statuses]]
  /\ ledger \in [Slugs \cup {Whole} -> Seq(Entries)]
  /\ manifest \in SUBSET Slugs
  /\ proc \in [Procs -> Operations]
  /\ issued \in 0 .. MaxCommands

\* The approvals at N3 of a ledger stand behind a signature and a timestamp.
Backed(entries) ==
  \A i \in DOMAIN entries : Approved(entries[i]) /\ IsN3(entries[i]) =>
    \A kind \in {"signed", "timestamped"} : \E j \in 1 .. i - 1 : entries[j].kind = kind

\* The timestamps of a ledger are over its first signature.
Covered(entries) ==
  \A i \in DOMAIN entries : entries[i].kind = "timestamped" =>
    Has(entries, "signed") /\ entries[i].payload = First(entries, "signed").payload

\* Every approval at N3 stands behind a signature and a timestamp of the same
\* record in the ledger, although nachweis.approve looks for them before it
\* takes the locks and other terminals append in between.
N3IsBacked == \A s \in Slugs : Backed(ledger[s])

\* Nothing is visible or listed before an approval, one at N3 and a passed legal
\* check stand in the ledger: neither a stale copy written back nor a command
\* that died half-way makes a record public past the gate.
NothingPublicUncleared ==
  (\E s \in Slugs : entity[s].public \/ s \in manifest) =>
    SomeRecord(Approved) /\ SomeRecord(IsN3) /\ SomeRecord(LegallyChecked)

\* Every timestamp of a record is over the signature nachweis.verify-signature
\* checks, the first of the ledger, whatever was signed again while the
\* authority was asked.
StampCoversSignature == \A s \in Slugs : Covered(ledger[s])

\* Earlier commands kept to the same rules, and nothing is public yet.
ASSUME HistoriesAssumption ==
  \A h \in Histories :
    /\ h.entity \in [Slugs -> Entities]
    /\ h.consent \in [Slugs -> [Aspects -> Statuses]]
    /\ h.ledger \in [Slugs \cup {Whole} -> Seq(Entries)]
    /\ \A s \in Slugs \cup {Whole} : Backed(h.ledger[s]) /\ Covered(h.ledger[s])
    /\ \A s \in Slugs : ~h.entity[s].public

\* What the entries of a record say of its publication, last.
Republishes(e) == e.kind = "record" /\ e.note \in {"published", "withdrawn"}

StandsAs(entries, note) ==
  \E i \in DOMAIN entries :
    /\ Republishes(entries[i]) /\ entries[i].note = note
    /\ \A j \in DOMAIN entries : i < j => ~Republishes(entries[j])

\* The step with which a command on a record reports success.
Succeeds(p, cmd, s) ==
  /\ proc[p].cmd = cmd
  /\ proc[p].slug = s
  /\ proc[p].todo = <<"attest">>
  /\ ledger' # ledger

\* Where one terminal is at work, a publication or a withdrawal that reports
\* success has reached the file and the ledger, and the manifest unless making it
\* failed, whatever refused and killed commands left there before.
SuccessIsComplete ==
  [][\A p \in Procs : \A s \in Slugs :
       crew = {p} =>
         /\ Succeeds(p, "publish", s) =>
              /\ entity'[s].public /\ StandsAs(ledger'[s], "published")
              /\ proc[p].made => s \in manifest'
         /\ Succeeds(p, "withdraw", s) =>
              /\ ~entity'[s].public /\ StandsAs(ledger'[s], "withdrawn")
              /\ proc[p].made => s \notin manifest']_vars

\* What nachweis-publish.ts says it requires: the record itself was approved at
\* N3.  The gate accepts the approval of any other record.
PublishedIsN3 ==
  \A s \in Slugs : entity[s].public =>
    \E i \in DOMAIN ledger[s] : Approved(ledger[s][i]) /\ IsN3(ledger[s][i])

=============================================================================
