------------------------ MODULE CertificationDossier ------------------------
(* The dossier of a candidate: an append-only chain of events with a root  *)
(* hash, the object stores and replicas beside it, the deletion of old     *)
(* payloads, and the inspection of all that (certification/storage,        *)
(* dossier-hash, identity, authority, commands/inspection).  A hash is the *)
(* tuple of what it covers.                                                *)
EXTENDS Naturals, FiniteSets, Sequences, SequencesExt

CONSTANTS
  Writers,     \* authorities appending to the dossier
  Payloads,    \* references of event payloads
  Heavy,       \* the payloads kept in the object stores
  MaxEvents,   \* bound of the model
  MaxAge,      \* bound of the model: days a payload may get old
  KeepCertified, KeepFailed  \* retention thresholds in days

VARIABLES
  events, hashes, root,  \* the repository: chain, event hashes, root hash
  draft,      \* the event each writer has prepared, or None
  copy,       \* a dossier read back from elsewhere, with its recorded root
  report,     \* what verifyCertification said of the copy
  replica,    \* the root a durable replica was verified at, or None
  objects,    \* stored payloads of each adapter: by digest
  age,        \* age of each stored payload in days
  certified,  \* the candidate was certified
  issuers     \* the issuer registry: public key by issuer

vars == <<events, hashes, root, draft, copy, report, replica, objects, age,
          certified, issuers>>

None == <<>>
Adapters == {"memory", "r2"}

(* buildDossierEventIdentityV1: kind, candidate, sequence, predecessor and *)
(* payload are covered; the event's own id and time are not.               *)
EventHash(e) == <<e.kind, e.candidate, e.sequence, e.previous, e.payload>>

(* computeDossierEventHash over a chain, and computeDossierRoot.           *)
EventHashes(es) == [i \in DOMAIN es |-> EventHash(es[i])]
DossierRoot(candidate, hs) == <<candidate, hs>>

Head0(hs) == IF hs = <<>> THEN None ELSE hs[Len(hs)]

(* verifyDossierIntegrity: every event names the hash of the one before.   *)
ChainHolds(es) ==
  \A i \in DOMAIN es : es[i].previous = IF i = 1 THEN None ELSE EventHash(es[i - 1])
RootHolds(d) == d.root = None \/ d.root = DossierRoot("ours", EventHashes(d.events))

(* verifyCertification with an expected root, or None.                     *)
VerifyCertification(d, expected) ==
  IF ~ ChainHolds(d.events) THEN "CERT-ORCHESTRATOR-10"
  ELSE IF RootHolds(d) /\ expected \in {None, DossierRoot("ours", EventHashes(d.events))}
       THEN "verified" ELSE "issues"

(* checkRetentionGc: nothing a protected reference names, and nothing      *)
(* younger than the policy's threshold.                                    *)
RetentionGc(p, protected) ==
  /\ ~ protected
  /\ age[p] >= IF certified THEN KeepCertified ELSE KeepFailed

(* computeNextRequiredAction: open requirements, then the replica.         *)
NextRequiredAction(passed) ==
  IF ~ passed THEN "fix" ELSE IF replica = None THEN "sync" ELSE "nothing"

Init ==
  /\ events = <<>> /\ hashes = <<>> /\ root = None
  /\ draft = [w \in Writers |-> None]
  /\ copy = [events |-> <<>>, root |-> None] /\ report = "none" /\ replica = None
  /\ objects = [a \in Adapters |-> [p \in Heavy |-> 0]] /\ age = [p \in Heavy |-> 0]
  /\ certified = FALSE /\ issuers = [i \in Writers |-> "none"]

Aside == UNCHANGED <<objects, age, certified, issuers>>

(* A writer prepares an event on the head it reads.                        *)
Prepare(w, p) ==
  /\ draft[w] = None /\ Len(events) < MaxEvents
  /\ issuers[w] # "none"
  /\ draft' = [draft EXCEPT ![w] =
       [kind |-> "evidence", candidate |-> "ours", sequence |-> Len(events) + 1,
        previous |-> Head0(hashes), payload |-> p]]
  /\ Aside /\ UNCHANGED <<events, hashes, root, copy, report, replica>>

\* Fault: an event is appended whatever its predecessor is now.
AppendBlindly(w) ==
  /\ draft[w] # None
  /\ draft' = [draft EXCEPT ![w] = None]
  /\ events' = Append(events, draft[w])
  /\ hashes' = Append(hashes, EventHash(draft[w]))
  /\ root' = DossierRoot("ours", hashes')
  /\ Aside /\ UNCHANGED <<copy, report, replica>>

(* appendDossierEvent: refused when the chain has grown meanwhile.         *)
AppendDossierEvent(w) ==
  /\ draft[w] # None
  /\ draft' = [draft EXCEPT ![w] = None]
  /\ \/ /\ draft[w].previous = Head0(hashes)
        /\ events' = Append(events, draft[w])
        /\ hashes' = Append(hashes, EventHash(draft[w]))
        /\ root' = DossierRoot("ours", hashes')
     \/ /\ draft[w].previous # Head0(hashes)
        /\ UNCHANGED <<events, hashes, root>>
  /\ Aside /\ UNCHANGED <<copy, report, replica>>

(* The dossier is read back whole, cut short, or with an event exchanged.  *)
ReadBack ==
  /\ events # <<>> /\ report' = "none"
  /\ \E es \in {events, SubSeq(events, 1, Len(events) - 1), Tail(events)}
               \cup {[events EXCEPT ![i].payload = p] : i \in DOMAIN events, p \in Payloads}
               \cup {[events EXCEPT ![i].sequence = 1] : i \in DOMAIN events} :
       copy' = [events |-> es, root |-> root]
  /\ Aside /\ UNCHANGED <<events, hashes, root, draft, replica>>

Inspect ==
  /\ report = "none" /\ copy.root # None
  /\ report' = VerifyCertification(copy, copy.root)
  /\ Aside /\ UNCHANGED <<events, hashes, root, draft, copy, replica>>

(* verifyDurableReplica: only at the root of the dossier.                  *)
VerifyDurableReplica(r) ==
  /\ root # None
  /\ replica' = IF r = root THEN r ELSE replica
  /\ Aside /\ UNCHANGED <<events, hashes, root, draft, copy, report>>

(* putObject: the memory adapter keeps the first bytes under a digest, the *)
(* bucket takes the last; a call it answers with an error throws.  What    *)
(* getObject finds is checked by verifyStoredObject.                       *)
PutObject(p, size) ==
  /\ objects' = [objects EXCEPT !["memory"][p] = IF @ # 0 THEN @ ELSE size]
  /\ age' = [age EXCEPT ![p] = 0]
  /\ UNCHANGED <<events, hashes, root, draft, copy, report, replica, certified, issuers>>
PutObjectR2(p, size, answered) ==
  /\ IF answered THEN objects' = [objects EXCEPT !["r2"][p] = size] /\ age' = [age EXCEPT ![p] = 0]
     ELSE UNCHANGED <<objects, age>>
  /\ UNCHANGED <<events, hashes, root, draft, copy, report, replica, certified, issuers>>
VerifyStoredObject(a, p, size) ==
  IF objects[a][p] = 0 THEN "CERT-STORAGE-01"
  ELSE IF objects[a][p] # size THEN "CERT-STORAGE-02" ELSE "verified"

(* A day passes; a payload old enough that nothing names is deleted.       *)
Age(p) ==
  /\ age[p] < MaxAge /\ age' = [age EXCEPT ![p] = @ + 1]
  /\ UNCHANGED <<events, hashes, root, draft, copy, report, replica, objects,
                 certified, issuers>>
Collect(p) ==
  /\ \E a \in Adapters : objects[a][p] # 0
  /\ RetentionGc(p, p \in {events[i].payload : i \in DOMAIN events})
  /\ objects' = [a \in Adapters |-> [objects[a] EXCEPT ![p] = 0]]
  /\ UNCHANGED <<events, hashes, root, draft, copy, report, replica, age,
                 certified, issuers>>

(* addIssuer: a known issuer keeps its key.                                *)
AddIssuer(i, key) ==
  /\ issuers' = [issuers EXCEPT ![i] = IF @ = "none" THEN key ELSE @]
  /\ UNCHANGED <<events, hashes, root, draft, copy, report, replica, objects, age,
                 certified>>

Certify ==
  /\ ~ certified /\ NextRequiredAction(TRUE) = "nothing" /\ certified' = TRUE
  /\ UNCHANGED <<events, hashes, root, draft, copy, report, replica, objects, age,
                 issuers>>

Next ==
  \/ ReadBack \/ Inspect \/ Certify
  \/ \E w \in Writers, p \in Payloads : Prepare(w, p)
  \/ \E w \in Writers : AppendDossierEvent(w) \/ \E key \in {"k1", "k2"} : AddIssuer(w, key)
  \/ \E es \in {events, copy.events} : VerifyDurableReplica(DossierRoot("ours", EventHashes(es)))
  \/ \E p \in Heavy, size \in 1..2 :
       PutObject(p, size) \/ \E answered \in BOOLEAN : PutObjectR2(p, size, answered)
  \/ \E p \in Heavy : Age(p) \/ Collect(p)
-----------------------------------------------------------------------------
TypeOK ==
  /\ Len(events) <= MaxEvents /\ Len(hashes) = Len(events)
  /\ report \in {"none", "verified", "issues", "CERT-ORCHESTRATOR-10"}
  /\ objects \in [Adapters -> [Heavy -> 0..2]] /\ age \in [Heavy -> 0..MaxAge]

(* However the writers interleave the chain is unbroken under its root and *)
(* no two events share a predecessor, a dossier read back is reported      *)
(* verified only when its events are those of the root recorded with it,   *)
(* and a durable replica is verified only at a root the dossier has had    *)
(* (appendDossierEvent, verifyCertification, verifyDurableReplica).        *)
DossierIsSound ==
  /\ ChainHolds(events) /\ hashes = EventHashes(events)
  /\ root # None => root = DossierRoot("ours", hashes)
  /\ report = "verified" => copy.root = DossierRoot("ours", [i \in DOMAIN copy.events |->
                                                               hashes[i]])
  /\ \A i, j \in DOMAIN events : events[i].previous = events[j].previous => i = j
  /\ replica # None => \E n \in 1..Len(hashes) : replica = DossierRoot("ours", SubSeq(hashes, 1, n))
=============================================================================
