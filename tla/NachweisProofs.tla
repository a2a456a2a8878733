--------------------------- MODULE NachweisProofs ---------------------------
(***************************************************************************)
(* The ledger of evidence records, for any number of terminals, records,   *)
(* files and commands, whichever locks are refused and commands killed:    *)
(* entries have their types, approvals at N3 are backed and timestamps     *)
(* cover the signature that is verified.                                   *)
(*                                                                         *)
(* A command looks at the ledger when it starts and appends later, so what *)
(* it found must outlive what others append in between.  The invariant     *)
(* says it of the entries still to be appended (Sound), and rests on the   *)
(* ledger only growing: the first entry of a kind stays the first, and a   *)
(* clearance is there for good.                                            *)
(***************************************************************************)
EXTENDS Nachweis, SequenceTheorems, NaturalsInduction, WellFoundedInduction, TLAPS

Ledgers == Seq(Entries)

\* An entry that may be appended to a record's entries, now or later.
Sound(e, entries) ==
  /\ Approved(e) /\ IsN3(e) => Has(entries, "signed") /\ Has(entries, "timestamped")
  /\ e.kind = "timestamped" =>
       Has(entries, "signed") /\ e.payload = First(entries, "signed").payload

PendingSound ==
  \A p \in Procs : \A i \in DOMAIN proc[p].entries :
    Sound(proc[p].entries[i], ledger[proc[p].slug])

LedgerSound == \A s \in Slugs \cup {Whole} : Backed(ledger[s]) /\ Covered(ledger[s])

Cleared == SomeRecord(Approved) /\ SomeRecord(IsN3) /\ SomeRecord(LegallyChecked)

\* A record may be made visible by a copy read long before, or listed from a
\* directory read before: the copies and lists of the terminals count already.
Exposed ==
  \/ \E s \in Slugs : entity[s].public
  \/ manifest # {}
  \/ \E p \in Procs : proc[p].copy.public \/ proc[p].list # {}

IInv == TypeOK /\ LedgerSound /\ PendingSound /\ (Exposed => Cleared)

---------------------------------------------------------------------------
(* The ledger of one record.                                               *)

\* The first entry of a kind, once there is one.
LEMMA FirstIs ==
  ASSUME NEW L \in Ledgers, NEW kind, Has(L, kind)
  PROVE  \E i \in DOMAIN L :
           /\ First(L, kind) = L[i]
           /\ L[i].kind = kind
           /\ \A j \in 1 .. i - 1 : L[j].kind # kind
<1> DEFINE S == {i \in DOMAIN L : L[i].kind = kind}
<1>1. S # {} /\ S \subseteq Nat
  BY DEF Has, Ledgers
<1>2. PICK i \in S : \A j \in S : ~(<<j, i>> \in OpToRel(<, Nat))
  BY <1>1, WFMin, NatLessThanWellFounded
<1>3. ASSUME NEW j \in 1 .. i - 1 PROVE L[j].kind # kind
  <2>1. j \in Nat /\ i \in Nat /\ j < i /\ j \in DOMAIN L
    BY <1>1 DEF Ledgers
  <2>2. j \notin S
    BY <1>2, <2>1 DEF OpToRel
  <2> QED
    BY <2>1, <2>2
<1>4. \E k \in DOMAIN L : L[k].kind = kind /\ \A j \in 1 .. k - 1 : L[j].kind # kind
  BY <1>2, <1>3
<1> QED
  BY <1>4 DEF First

\* Appending leaves what there was.
LEMMA HasGrows ==
  ASSUME NEW L \in Ledgers, NEW M \in Ledgers, NEW kind, Has(L, kind)
  PROVE  Has(L \o M, kind)
BY DEF Has, Ledgers

\* Appending does not change which entry of a kind is the first.
LEMMA FirstStays ==
  ASSUME NEW L \in Ledgers, NEW M \in Ledgers, NEW kind, Has(L, kind)
  PROVE  First(L \o M, kind) = First(L, kind)
<1> DEFINE N == L \o M
<1>1. N \in Ledgers /\ Has(N, kind)
  BY HasGrows DEF Ledgers
<1>2. PICK i \in DOMAIN L : First(L, kind) = L[i] /\ L[i].kind = kind
                            /\ \A j \in 1 .. i - 1 : L[j].kind # kind
  BY FirstIs
<1> HIDE DEF N
<1>3. PICK k \in DOMAIN N : First(N, kind) = N[k] /\ N[k].kind = kind
                            /\ \A j \in 1 .. k - 1 : N[j].kind # kind
  BY <1>1, FirstIs
<1> USE DEF N
<1>4. /\ i \in DOMAIN N
      /\ \A j \in 1 .. i : N[j] = L[j]
  BY DEF Ledgers
<1>5. i = k
  BY <1>2, <1>3, <1>4 DEF Ledgers
<1> QED
  BY <1>2, <1>3, <1>4, <1>5 DEF Ledgers

\* What is sound stays sound while others append.
LEMMA SoundStays ==
  ASSUME NEW L \in Ledgers, NEW M \in Ledgers, NEW e, Sound(e, L)
  PROVE  Sound(e, L \o M)
BY HasGrows, FirstStays DEF Sound

\* Appending sound entries keeps the rules of the ledger.
LEMMA SoundAppend ==
  ASSUME NEW L \in Ledgers, NEW M \in Ledgers, Backed(L), Covered(L),
         \A i \in DOMAIN M : Sound(M[i], L)
  PROVE  Backed(L \o M) /\ Covered(L \o M)
<1> DEFINE N == L \o M
<1>1. /\ Len(N) = Len(L) + Len(M)
      /\ DOMAIN N = 1 .. Len(N)
      /\ \A i \in 1 .. Len(L) : N[i] = L[i]
      /\ \A i \in 1 .. Len(N) : i > Len(L) => i - Len(L) \in DOMAIN M /\ N[i] = M[i - Len(L)]
  BY DEF Ledgers
<1>2. Backed(N)
  <2> SUFFICES ASSUME NEW i \in DOMAIN N, Approved(N[i]), IsN3(N[i]),
                      NEW kind \in {"signed", "timestamped"}
               PROVE  \E j \in 1 .. i - 1 : N[j].kind = kind
    BY DEF Backed
  <2>1. CASE i <= Len(L)
    <3>1. i \in DOMAIN L /\ N[i] = L[i]
      BY <1>1, <2>1 DEF Ledgers
    <3>2. PICK j \in 1 .. i - 1 : L[j].kind = kind
      BY <3>1 DEF Backed
    <3> QED
      BY <1>1, <2>1, <3>2 DEF Ledgers
  <2>2. CASE i > Len(L)
    <3>1. Has(L, kind)
      BY <1>1, <2>2 DEF Sound
    <3>2. PICK j \in DOMAIN L : L[j].kind = kind
      BY <3>1 DEF Has
    <3> QED
      BY <1>1, <2>2, <3>2 DEF Ledgers
  <2> QED
    BY <1>1, <2>1, <2>2 DEF Ledgers
<1>3. Covered(N)
  <2> SUFFICES ASSUME NEW i \in DOMAIN N, N[i].kind = "timestamped"
               PROVE  Has(N, "signed") /\ N[i].payload = First(N, "signed").payload
    BY DEF Covered
  <2>1. Has(L, "signed") /\ N[i].payload = First(L, "signed").payload
    <3>1. CASE i <= Len(L)
      BY <1>1, <3>1 DEF Covered, Ledgers
    <3>2. CASE i > Len(L)
      BY <1>1, <3>2 DEF Sound
    <3> QED
      BY <1>1, <3>1, <3>2 DEF Ledgers
  <2> QED
    BY <2>1, HasGrows, FirstStays
<1> QED
  BY <1>2, <1>3

\* A clearance in the ledger stays there.
LEMMA ClearedStays ==
  ASSUME TypeOK, NEW s \in Slugs \cup {Whole}, NEW M \in Ledgers,
         ledger' = [ledger EXCEPT ![s] = @ \o M], Cleared
  PROVE  Cleared'
<1>1. ASSUME NEW t \in Slugs, NEW i \in DOMAIN ledger[t]
      PROVE  i \in DOMAIN ledger'[t] /\ ledger'[t][i] = ledger[t][i]
  <2>1. ledger[t] \in Seq(Entries) /\ ledger'[t] = IF t = s THEN ledger[t] \o M ELSE ledger[t]
    BY DEF TypeOK
  <2> QED
    BY <2>1 DEF Ledgers
<1> QED
  BY <1>1 DEF Cleared, SomeRecord, Approved, IsN3, LegallyChecked

---------------------------------------------------------------------------
(* Commands and steps.                                                     *)

\* The values the commands build have their types.
LEMMA EntryType ==
  /\ Absent \in Entities /\ ~Absent.public
  /\ \A e \in Entities : Payload(e) \in Payloads
  /\ \A kind \in {"record", "consent", "signed", "timestamped", "sichtpass"} :
     \A note \in {"ingested", "assessed", "derived", "approved", "published", "withdrawn",
                  "updated", "signed", "timestamped", "listed"} :
       Entry(kind, note) \in Entries
<1>1. Absent \in Entities /\ ~Absent.public
  BY DEF Absent, Entities, NoItems, Keys
<1>2. \A e \in Entities : Payload(e) \in Payloads
  BY DEF Payload, Payloads, Entities
<1>3. NoPayload \in Payloads
  BY <1>1, <1>2 DEF NoPayload
<1> QED
  BY <1>1, <1>2, <1>3 DEF Entry, Entries

\* A terminal with nothing to do.
LEMMA IdleType ==
  Idle \in Operations /\ Idle.entries = <<>> /\ Idle.copy = Absent /\ Idle.list = {}
<1>1. /\ "none" \in Names
      /\ "not_requested" \in Statuses
      /\ "document" \in Aspects
      /\ Absent \in Entities
  BY EntryType, NachweisAssumption DEF Statuses, Names
<1>2. /\ <<>> \in Seq(Steps)
      /\ <<>> \in Seq(Entries)
      /\ {} \in SUBSET Slugs /\ TRUE \in BOOLEAN
      /\ Whole \in Slugs \cup {Whole}
  OBVIOUS
<1> QED
  BY <1>1, <1>2, Zenon DEF Idle, Operations

\* A command starts without a list, and with a copy that is visible only if the
\* record was, or if the gate has been passed.
Harmless(op) == op.list = {} /\ (op.copy.public => Exposed \/ Cleared)

\* A command that starts keeps the invariant if what it will append is sound.
LEMMA BeginKeeps ==
  ASSUME IInv, NEW p \in Procs, NEW op \in Operations, Begin(p, op),
         issued' = issued \/ (issued < MaxCommands /\ issued' = issued + 1),
         Harmless(op), \A i \in DOMAIN op.entries : Sound(op.entries[i], ledger[op.slug])
  PROVE  IInv'
<1>1. TypeOK'
  <2>1. proc' \in [Procs -> Operations]
    BY DEF IInv, TypeOK, Begin
  <2>2. issued' \in 0 .. MaxCommands
    BY NachweisAssumption DEF IInv, TypeOK
  <2> QED
    BY <2>1, <2>2 DEF IInv, TypeOK, Begin
<1>2. LedgerSound'
  BY DEF IInv, LedgerSound, Begin
<1>3. PendingSound'
  <2> SUFFICES ASSUME NEW q \in Procs, NEW i \in DOMAIN proc'[q].entries
               PROVE  Sound(proc'[q].entries[i], ledger[proc'[q].slug])
    BY DEF PendingSound, Begin
  <2>1. proc'[q] = IF q = p THEN op ELSE proc[q]
    BY DEF IInv, TypeOK, Begin
  <2> QED
    BY <2>1 DEF IInv, PendingSound
<1>4. Exposed' => Cleared'
  <2>1. \A q \in Procs : proc'[q] = IF q = p THEN op ELSE proc[q]
    BY DEF IInv, TypeOK, Begin
  <2>2. entity' = entity /\ manifest' = manifest /\ ledger' = ledger
    BY DEF Begin
  <2>3. Exposed' => Exposed \/ Cleared
    BY <2>1, <2>2 DEF Exposed, Harmless
  <2> QED
    BY <2>2, <2>3 DEF IInv, Cleared, SomeRecord
<1> QED
  BY <1>1, <1>2, <1>3, <1>4 DEF IInv

\* So does one that returns at once.
LEMMA ReturnKeeps ==
  ASSUME IInv, NEW p \in Procs, Return(p),
         issued' = issued \/ (issued < MaxCommands /\ issued' = issued + 1)
  PROVE  IInv'
<1>1. Harmless(Idle) /\ \A i \in DOMAIN Idle.entries : Sound(Idle.entries[i], ledger[Idle.slug])
  BY IdleType, EntryType DEF Harmless
<1> QED
  BY <1>1, IdleType, BeginKeeps DEF Return

\* Entries of the other kinds are sound on any ledger.
LEMMA PlainSound ==
  ASSUME NEW e, NEW L, ~Approved(e), e.kind # "timestamped"
  PROVE  Sound(e, L)
BY DEF Sound

\* A single entry, and one that is sound where the ledger is now.
LEMMA OneEntry ==
  ASSUME NEW e \in Entries, NEW L, Sound(e, L)
  PROVE  <<e>> \in Ledgers /\ \A i \in DOMAIN <<e>> : Sound(<<e>>[i], L)
BY DEF Ledgers

\* A command that starts with one entry to append.
LEMMA StartOne ==
  ASSUME IInv, NEW p \in Procs, NEW op \in Operations, Begin(p, op),
         issued < MaxCommands /\ issued' = issued + 1,
         Harmless(op), NEW e, op.entries = <<e>>, Sound(e, ledger[op.slug])
  PROVE  IInv'
<1>1. \A i \in DOMAIN op.entries : Sound(op.entries[i], ledger[op.slug])
  OBVIOUS
<1> QED
  BY <1>1, BeginKeeps

LEMMA IngestKeeps ==
  ASSUME IInv, NEW p \in Procs, NEW s \in Slugs, Ingest(p, s)
  PROVE  IInv'
<1> DEFINE e == Entry("record", "ingested")
           op == [Idle EXCEPT !.cmd = "ingest", !.slug = s, !.todo = <<"upload", "append">>,
                              !.entries = <<e>>]
<1>1. e \in Entries /\ Sound(e, ledger[s])
  BY EntryType DEF Sound, Entry, Approved
<1>2. <<"upload", "append">> \in Seq(Steps) /\ <<e>> \in Seq(Entries) /\ "ingest" \in Names
  BY <1>1 DEF Steps, Names
<1>3. op \in Operations /\ op.entries = <<e>> /\ op.slug = s /\ op.list = {} /\ op.copy = Absent
  <2> HIDE DEF e
  <2> QED BY <1>2, IdleType DEF Operations
<1>4. Begin(p, op) /\ issued < MaxCommands /\ issued' = issued + 1
  BY DEF Ingest, Issue
<1> HIDE DEF op, e
<1> QED
  BY <1>1, <1>3, <1>4, EntryType, StartOne DEF Harmless

\* A record whose file gets an item is a record.
LEMMA WithItemType ==
  ASSUME NEW e \in Entities, NEW key \in Keys, NEW f \in Files
  PROVE  WithItem(e, key, f) \in Entities /\ WithItem(e, key, f).public = e.public
BY DEF WithItem, Entities

LEMMA PublicDerivativeKeeps ==
  ASSUME IInv, NEW p \in Procs, NEW s \in Slugs, NEW f \in Files, PublicDerivative(p, s, f)
  PROVE  IInv'
<1> DEFINE e == Entry("record", "derived")
           c == WithItem(entity[s], "public", f)
           op == [Idle EXCEPT !.cmd = "public-derivative", !.slug = s,
                    !.todo = <<"upload", "write", "append">>, !.copy = c, !.entries = <<e>>]
<1>1. issued < MaxCommands /\ issued' = issued + 1
  BY DEF PublicDerivative, Issue
<1>2. CASE Return(p)
  BY <1>1, <1>2, ReturnKeeps
<1>3. CASE Begin(p, op)
  <2>1. e \in Entries /\ Sound(e, ledger[s])
    BY EntryType DEF Sound, Entry, Approved
  <2>2. c \in Entities /\ c.public = entity[s].public
    BY WithItemType DEF IInv, TypeOK, Keys
  <2>3. /\ <<"upload", "write", "append">> \in Seq(Steps)
        /\ <<e>> \in Seq(Entries)
        /\ "public-derivative" \in Names
    BY <2>1 DEF Steps, Names
  <2>4. op \in Operations /\ op.entries = <<e>> /\ op.slug = s /\ op.list = {} /\ op.copy = c
    <3> HIDE DEF e, c
    <3> QED BY <2>2, <2>3, IdleType DEF Operations
  <2> HIDE DEF op, e
  <2> QED
    BY <1>1, <1>3, <2>1, <2>2, <2>4, StartOne DEF Harmless, Exposed
<1> QED
  BY <1>2, <1>3 DEF PublicDerivative

LEMMA AssessmentIngestKeeps ==
  ASSUME IInv, NEW p \in Procs, NEW s \in Slugs, NEW o \in Files, NEW f \in Files,
         AssessmentIngest(p, s, o, f)
  PROVE  IInv'
<1> DEFINE e == [Entry("record", "assessed") EXCEPT !.level = "N1"]
           c == [WithItem(entity[s], "raw", f) EXCEPT !.policy = "technical", !.observation = o]
           op == [Idle EXCEPT !.cmd = "assessment.ingest", !.slug = s,
                    !.todo = <<"upload", "write", "append">>, !.copy = c, !.entries = <<e>>]
<1>1. issued < MaxCommands /\ issued' = issued + 1
  BY DEF AssessmentIngest, Issue
<1>2. CASE Return(p)
  BY <1>1, <1>2, ReturnKeeps
<1>3. CASE Begin(p, op)
  <2>1. e \in Entries
    <3>1. Entry("record", "assessed") \in Entries
      BY EntryType
    <3> QED BY <3>1 DEF Entries
  <2>2. Sound(e, ledger[s])
    BY DEF Sound, Entry, Approved
  <2>3. c \in Entities /\ c.public = entity[s].public
    <3>1. /\ WithItem(entity[s], "raw", f) \in Entities
          /\ WithItem(entity[s], "raw", f).public = entity[s].public
      BY WithItemType DEF IInv, TypeOK, Keys
    <3> QED BY <3>1 DEF Entities
  <2>4. /\ <<"upload", "write", "append">> \in Seq(Steps)
        /\ <<e>> \in Seq(Entries)
        /\ "assessment.ingest" \in Names
    BY <2>1 DEF Steps, Names
  <2>5. op \in Operations /\ op.entries = <<e>> /\ op.slug = s /\ op.list = {} /\ op.copy = c
    <3> HIDE DEF e, c
    <3> QED BY <2>3, <2>4, IdleType DEF Operations
  <2> HIDE DEF op, e
  <2> QED
    BY <1>1, <1>3, <2>1, <2>2, <2>3, <2>5, StartOne DEF Harmless, Exposed
<1> QED
  BY <1>2, <1>3 DEF AssessmentIngest

LEMMA SignKeeps ==
  ASSUME IInv, NEW p \in Procs, NEW s \in Slugs, Sign(p, s)
  PROVE  IInv'
<1> DEFINE e == [Entry("signed", "signed") EXCEPT !.payload = Payload(entity[s])]
           op == [Idle EXCEPT !.cmd = "sign", !.slug = s, !.todo = <<"append">>,
                              !.entries = <<e>>]
<1>1. issued < MaxCommands /\ issued' = issued + 1
  BY DEF Sign, Issue
<1>2. CASE Return(p)
  BY <1>1, <1>2, ReturnKeeps
<1>3. CASE Begin(p, op)
  <2>1. e \in Entries
    <3>1. Entry("signed", "signed") \in Entries /\ Payload(entity[s]) \in Payloads
      BY EntryType DEF IInv, TypeOK
    <3> QED BY <3>1 DEF Entries
  <2>2. Sound(e, ledger[s])
    BY DEF Sound, Entry, Approved
  <2>3. <<"append">> \in Seq(Steps) /\ <<e>> \in Seq(Entries) /\ "sign" \in Names
    BY <2>1 DEF Steps, Names
  <2>4. op \in Operations /\ op.entries = <<e>> /\ op.slug = s /\ op.list = {} /\ op.copy = Absent
    <3> HIDE DEF e
    <3> QED BY <2>3, IdleType DEF Operations
  <2> HIDE DEF op, e
  <2> QED
    BY <1>1, <1>3, <2>1, <2>2, <2>4, EntryType, StartOne DEF Harmless
<1> QED
  BY <1>2, <1>3 DEF Sign

\* What is stamped is the first signature: no later one takes its place.
LEMMA TimestampKeeps ==
  ASSUME IInv, NEW p \in Procs, NEW s \in Slugs, Timestamp(p, s)
  PROVE  IInv'
<1> DEFINE e == [Entry("timestamped", "timestamped") EXCEPT
                   !.payload = First(ledger[s], "signed").payload]
           op == [Idle EXCEPT !.cmd = "timestamp", !.slug = s, !.todo = <<"upload", "append">>,
                              !.entries = <<e>>]
<1>1. issued < MaxCommands /\ issued' = issued + 1 /\ Has(ledger[s], "signed")
  BY DEF Timestamp, Issue
<1>2. CASE Return(p)
  BY <1>1, <1>2, ReturnKeeps
<1>3. CASE Begin(p, op)
  <2>1. e \in Entries
    <3>1. ledger[s] \in Ledgers
      BY DEF IInv, TypeOK, Ledgers
    <3>2. First(ledger[s], "signed") \in Entries
      BY <1>1, <3>1, FirstIs DEF Ledgers
    <3>3. Entry("timestamped", "timestamped") \in Entries
      BY EntryType
    <3> QED BY <3>2, <3>3 DEF Entries
  <2>2. Sound(e, ledger[s])
    BY <1>1 DEF Sound, Entry, Approved
  <2>3. <<"upload", "append">> \in Seq(Steps) /\ <<e>> \in Seq(Entries) /\ "timestamp" \in Names
    BY <2>1 DEF Steps, Names
  <2>4. op \in Operations /\ op.entries = <<e>> /\ op.slug = s /\ op.list = {} /\ op.copy = Absent
    <3> HIDE DEF e
    <3> QED BY <2>3, IdleType DEF Operations
  <2> HIDE DEF op, e
  <2> QED
    BY <1>1, <1>3, <2>1, <2>2, <2>4, EntryType, StartOne DEF Harmless
<1> QED
  BY <1>2, <1>3 DEF Timestamp

\* An approval at N3 has found the signature and the timestamp.
LEMMA ApproveKeeps ==
  ASSUME IInv, NEW p \in Procs, NEW s \in Slugs, NEW v \in Verdicts, Approve(p, s, v)
  PROVE  IInv'
<1> DEFINE e == [Entry("record", "approved") EXCEPT !.level = v.level, !.legal = v.legal]
           op == [Idle EXCEPT !.cmd = "approve", !.slug = s, !.todo = <<"append">>,
                              !.entries = <<e>>]
           backed == Has(ledger[s], "signed") /\ Has(ledger[s], "timestamped")
<1>1. issued < MaxCommands /\ issued' = issued + 1
  BY DEF Approve, Issue
<1>2. CASE Return(p)
  BY <1>1, <1>2, ReturnKeeps
<1>3. CASE (v.level = "N3" => backed) /\ Begin(p, op)
  <2>1. e \in Entries /\ e.level = v.level /\ e.kind = "record"
    <3>1. Entry("record", "approved") \in Entries /\ Entry("record", "approved").kind = "record"
      BY EntryType DEF Entry
    <3>2. v.level \in {"none", "N0", "N1", "N2", "N3"} /\ v.legal \in BOOLEAN
      BY NachweisAssumption
    <3> QED BY <3>1, <3>2 DEF Entries
  <2>2. Sound(e, ledger[s])
    <3> HIDE DEF e
    <3> QED BY <1>3, <2>1 DEF Sound, IsN3
  <2>3. <<"append">> \in Seq(Steps) /\ <<e>> \in Seq(Entries) /\ "approve" \in Names
    BY <2>1 DEF Steps, Names
  <2>4. op \in Operations /\ op.entries = <<e>> /\ op.slug = s /\ op.list = {} /\ op.copy = Absent
    <3> HIDE DEF e
    <3> QED BY <2>3, IdleType DEF Operations
  <2> HIDE DEF op, e
  <2> QED
    BY <1>1, <1>3, <2>1, <2>2, <2>4, EntryType, StartOne DEF Harmless
<1> QED
  BY <1>2, <1>3 DEF Approve

LEMMA ConsentUpdateKeeps ==
  ASSUME IInv, NEW p \in Procs, NEW s \in Slugs, NEW a \in Aspects,
         NEW status \in Given, ConsentUpdate(p, s, a, status)
  PROVE  IInv'
<1> DEFINE e == Entry("consent", "updated")
           op == [Idle EXCEPT !.cmd = "consent.update", !.slug = s,
                    !.todo = <<"consent", "append">>, !.aspect = a, !.status = status,
                    !.entries = <<e>>]
<1>1. e \in Entries /\ Sound(e, ledger[s])
  BY EntryType DEF Sound, Entry, Approved
<1>2. /\ <<"consent", "append">> \in Seq(Steps)
      /\ <<e>> \in Seq(Entries)
      /\ "consent.update" \in Names
      /\ status \in Statuses
  BY <1>1 DEF Steps, Names, Statuses
<1>3. op \in Operations /\ op.entries = <<e>> /\ op.slug = s /\ op.list = {} /\ op.copy = Absent
  <2> HIDE DEF e
  <2> QED BY <1>2, IdleType DEF Operations
<1>4. Begin(p, op) /\ issued < MaxCommands /\ issued' = issued + 1
  BY DEF ConsentUpdate, Issue
<1> HIDE DEF op, e
<1> QED
  BY <1>1, <1>3, <1>4, EntryType, StartOne DEF Harmless

\* The entry of a publication carries N3 and is not an approval.
LEMMA PublishKeeps ==
  ASSUME IInv, NEW p \in Procs, NEW s \in Slugs, Publish(p, s)
  PROVE  IInv'
<1> DEFINE e == [Entry("record", "published") EXCEPT !.level = "N3"]
           c == [entity[s] EXCEPT !.public = TRUE]
           op == [Idle EXCEPT !.cmd = "publish", !.slug = s,
                    !.todo = <<"write", "append", "list", "listed", "attest">>,
                    !.copy = c, !.entries = <<e>>]
<1>1. issued < MaxCommands /\ issued' = issued + 1
  BY DEF Publish, Issue
<1>2. CASE Return(p)
  BY <1>1, <1>2, ReturnKeeps
<1>3. CASE Gate(s) /\ Begin(p, op)
  <2>1. e \in Entries
    <3>1. Entry("record", "published") \in Entries
      BY EntryType
    <3> QED BY <3>1 DEF Entries
  <2>2. Sound(e, ledger[s])
    BY DEF Sound, Entry, Approved
  <2>3. c \in Entities
    <3>1. entity[s] \in Entities
      BY DEF IInv, TypeOK
    <3> QED BY <3>1 DEF Entities
  <2>6. Cleared
    BY <1>3 DEF Cleared, Gate
  <2>4. /\ <<"write", "append", "list", "listed", "attest">> \in Seq(Steps)
        /\ <<e>> \in Seq(Entries)
        /\ "publish" \in Names
    BY <2>1 DEF Steps, Names
  <2>5. op \in Operations /\ op.entries = <<e>> /\ op.slug = s /\ op.list = {} /\ op.copy = c
    <3> HIDE DEF e, c
    <3> QED BY <2>3, <2>4, IdleType DEF Operations
  <2> HIDE DEF op, e
  <2> QED
    BY <1>1, <1>3, <2>1, <2>2, <2>5, <2>6, StartOne DEF Harmless
<1> QED
  BY <1>2, <1>3 DEF Publish

LEMMA WithdrawKeeps ==
  ASSUME IInv, NEW p \in Procs, NEW s \in Slugs, Withdraw(p, s)
  PROVE  IInv'
<1> DEFINE r == Entry("record", "withdrawn")
           k == Entry("consent", "withdrawn")
           es == IF entity[s].policy = "attestation" THEN <<k, r>> ELSE <<r>>
           c == [entity[s] EXCEPT !.withdrawn = TRUE, !.public = FALSE]
           op == [Idle EXCEPT !.cmd = "withdraw", !.slug = s,
                    !.todo = <<"write", "revoke", "append", "list", "listed", "attest">>,
                    !.copy = c, !.entries = es]
<1>1. issued < MaxCommands /\ issued' = issued + 1
  BY DEF Withdraw, Issue
<1>2. CASE Return(p)
  BY <1>1, <1>2, ReturnKeeps
<1>3. CASE Begin(p, op)
  <2>1. r \in Entries /\ k \in Entries /\ Sound(r, ledger[s]) /\ Sound(k, ledger[s])
    BY EntryType DEF Sound, Entry, Approved
  <2>2. es \in Seq(Entries) /\ \A i \in DOMAIN es : Sound(es[i], ledger[s])
    <3> HIDE DEF r, k
    <3> QED BY <2>1
  <2>3. c \in Entities /\ ~c.public
    <3>1. entity[s] \in Entities
      BY DEF IInv, TypeOK
    <3> QED BY <3>1 DEF Entities
  <2>4. /\ <<"write", "revoke", "append", "list", "listed", "attest">> \in Seq(Steps)
        /\ "withdraw" \in Names
    BY DEF Steps, Names
  <2>5. op \in Operations /\ op.entries = es /\ op.slug = s /\ op.list = {} /\ op.copy = c
    <3> HIDE DEF es, c
    <3> QED BY <2>2, <2>3, <2>4, IdleType DEF Operations
  <2> HIDE DEF op, es
  <2> QED
    BY <1>1, <1>3, <2>2, <2>3, <2>5, BeginKeeps DEF Harmless
<1> QED
  BY <1>2, <1>3 DEF Withdraw

LEMMA ManifestGenerateKeeps ==
  ASSUME IInv, NEW p \in Procs, ManifestGenerate(p)
  PROVE  IInv'
<1> DEFINE op == [Idle EXCEPT !.cmd = "manifest.generate", !.todo = <<"list", "listed", "attest">>]
<1>1. <<"list", "listed", "attest">> \in Seq(Steps) /\ "manifest.generate" \in Names
  BY DEF Steps, Names
<1>2. op \in Operations /\ op.entries = <<>> /\ op.list = {} /\ op.copy = Absent
  BY <1>1, IdleType DEF Operations
<1>3. Begin(p, op) /\ issued < MaxCommands /\ issued' = issued + 1
  BY DEF ManifestGenerate, Issue
<1> HIDE DEF op
<1> QED
  BY <1>2, <1>3, EntryType, BeginKeeps DEF Harmless

\* A terminal's pending entries after a step: as before, or none.
Keeps(q) ==
  \/ proc'[q].entries = <<>>
  \/ proc'[q].entries = proc[q].entries /\ proc'[q].slug = proc[q].slug

\* Nor has it come by a visible copy or a list.
Calm(q) ==
  /\ proc'[q].copy.public => proc[q].copy.public
  /\ proc'[q].list # {} => proc[q].list # {}

\* The record, list or manifest a step exposes was exposed before.
Quiet == Exposed' => Exposed

\* Ending, and taking a step, leave well-typed operations and add no entry.
LEMMA EndType ==
  ASSUME proc \in [Procs -> Operations], NEW p \in Procs, End(p)
  PROVE  proc' \in [Procs -> Operations] /\ \A q \in Procs : Keeps(q) /\ Calm(q)
BY IdleType, EntryType DEF End, Keeps, Calm

LEMMA AdvanceType ==
  ASSUME proc \in [Procs -> Operations], NEW p \in Procs, NEW step, At(p, step), Advance(p)
  PROVE  proc' \in [Procs -> Operations] /\ \A q \in Procs : Keeps(q) /\ Calm(q)
<1>1. CASE End(p)
  BY <1>1, EndType
<1>2. CASE proc' = [proc EXCEPT ![p].todo = Tail(@)]
  <2>1. proc[p] \in Operations /\ proc[p].todo \in Seq(Steps) /\ proc[p].todo # <<>>
    BY DEF Operations, At
  <2>2. Tail(proc[p].todo) \in Seq(Steps)
    BY <2>1
  <2>3. [proc[p] EXCEPT !.todo = Tail(@)] \in Operations
    BY <2>1, <2>2 DEF Operations
  <2>4. \A q \in Procs : proc'[q] = IF q = p THEN [proc[p] EXCEPT !.todo = Tail(@)] ELSE proc[q]
    BY <1>2
  <2>5. proc' \in [Procs -> Operations]
    BY <1>2, <2>3
  <2>6. ASSUME NEW q \in Procs PROVE Keeps(q) /\ Calm(q)
    BY <2>1, <2>4, ZenonT(60) DEF Keeps, Calm, Operations
  <2> QED
    BY <2>5, <2>6
<1> QED
  BY <1>1, <1>2 DEF Advance

\* A step that leaves the ledger alone keeps the invariant.
LEMMA StepKeeps ==
  ASSUME IInv, TypeOK', UNCHANGED ledger, \A q \in Procs : Keeps(q), Quiet
  PROVE  IInv'
<1>1. LedgerSound'
  BY DEF IInv, LedgerSound
<1>2. PendingSound'
  BY DEF IInv, PendingSound, Keeps
<1>3. Exposed' => Cleared'
  BY DEF IInv, Quiet, Cleared, SomeRecord
<1> QED
  BY <1>1, <1>2, <1>3 DEF IInv

\* A step that appends sound entries to one record keeps the invariant.
LEMMA LedgerStepKeeps ==
  ASSUME IInv, TypeOK', \A q \in Procs : Keeps(q), Quiet, NEW s \in Slugs \cup {Whole},
         NEW M \in Ledgers, \A i \in DOMAIN M : Sound(M[i], ledger[s]),
         ledger' = [ledger EXCEPT ![s] = @ \o M]
  PROVE  IInv'
<1>1. \A t \in Slugs \cup {Whole} :
        /\ ledger[t] \in Ledgers
        /\ ledger'[t] = IF t = s THEN ledger[s] \o M ELSE ledger[t]
  BY DEF IInv, TypeOK, Ledgers
<1>2. LedgerSound'
  <2> SUFFICES ASSUME NEW t \in Slugs \cup {Whole}
               PROVE  Backed(ledger'[t]) /\ Covered(ledger'[t])
    BY DEF LedgerSound
  <2>1. Backed(ledger[t]) /\ Covered(ledger[t])
    BY DEF IInv, LedgerSound
  <2> QED
    BY <1>1, <2>1, SoundAppend
<1>3. PendingSound'
  <2> SUFFICES ASSUME NEW q \in Procs, NEW i \in DOMAIN proc'[q].entries
               PROVE  Sound(proc'[q].entries[i], ledger'[proc'[q].slug])
    BY DEF PendingSound
  <2>1. proc'[q].entries = proc[q].entries /\ proc'[q].slug = proc[q].slug
    BY DEF Keeps
  <2>2. Sound(proc[q].entries[i], ledger[proc[q].slug]) /\ proc[q].slug \in Slugs \cup {Whole}
    BY <2>1 DEF IInv, PendingSound, TypeOK, Operations
  <2> QED
    BY <1>1, <2>1, <2>2, SoundStays
<1>4. Exposed' => Cleared'
  BY ClearedStays DEF IInv, Quiet
<1> QED
  BY <1>2, <1>3, <1>4 DEF IInv

\* The steps of a running command.
Step(p) ==
  \/ Upload(p) \/ WriteEntity(p) \/ WriteConsent(p) \/ RevokeConsent(p)
  \/ AppendEntries(p) \/ ListRecords(p) \/ WriteManifest(p) \/ Attest(p)
  \/ ManifestFails(p) \/ LockRefused(p) \/ Crash(p)

LEMMA StepsKeep ==
  ASSUME IInv, NEW p \in Procs, Step(p)
  PROVE  IInv'
<1>1. /\ TypeOK
      /\ proc \in [Procs -> Operations]
      /\ proc[p] \in Operations
  BY DEF IInv, TypeOK
<1>2. CASE Upload(p)
  <2>1. proc' \in [Procs -> Operations] /\ \A q \in Procs : Keeps(q) /\ Calm(q)
    BY <1>1, <1>2, AdvanceType, EndType DEF Upload
  <2>2. TypeOK'
    BY <1>1, <1>2, <2>1 DEF TypeOK, Upload
  <2>9. Quiet
    BY <1>1, <1>2, <2>1 DEF Upload, Quiet, Exposed, Calm, TypeOK
  <2> QED
    BY <1>2, <2>1, <2>2, <2>9, StepKeeps DEF Upload
<1>3. CASE WriteEntity(p)
  <2>1. proc' \in [Procs -> Operations] /\ \A q \in Procs : Keeps(q) /\ Calm(q)
    BY <1>1, <1>3, AdvanceType DEF WriteEntity
  <2>2. entity' \in [Slugs -> Entities]
    BY <1>1, <1>3 DEF TypeOK, WriteEntity, Operations
  <2>3. TypeOK'
    BY <1>1, <1>3, <2>1, <2>2 DEF TypeOK, WriteEntity
  <2>9. Quiet
    BY <1>1, <1>3, <2>1 DEF WriteEntity, Quiet, Exposed, Calm, TypeOK
  <2> QED
    BY <1>3, <2>1, <2>3, <2>9, StepKeeps DEF WriteEntity
<1>4. CASE WriteConsent(p)
  <2>1. proc' \in [Procs -> Operations] /\ \A q \in Procs : Keeps(q) /\ Calm(q)
    BY <1>1, <1>4, AdvanceType DEF WriteConsent
  <2>2. consent' \in [Slugs -> [Aspects -> Statuses]]
    BY <1>1, <1>4 DEF TypeOK, WriteConsent, Operations
  <2>3. TypeOK'
    BY <1>1, <1>4, <2>1, <2>2 DEF TypeOK, WriteConsent
  <2>9. Quiet
    BY <1>1, <1>4, <2>1 DEF WriteConsent, Quiet, Exposed, Calm, TypeOK
  <2> QED
    BY <1>4, <2>1, <2>3, <2>9, StepKeeps DEF WriteConsent
<1>5. CASE RevokeConsent(p)
  <2>1. proc' \in [Procs -> Operations] /\ \A q \in Procs : Keeps(q) /\ Calm(q)
    BY <1>1, <1>5, AdvanceType DEF RevokeConsent
  <2>2. "denied" \in Statuses
    BY DEF Statuses
  <2>3. consent' \in [Slugs -> [Aspects -> Statuses]]
    BY <1>1, <1>5, <2>2 DEF TypeOK, RevokeConsent
  <2>4. TypeOK'
    BY <1>1, <1>5, <2>1, <2>3 DEF TypeOK, RevokeConsent
  <2>9. Quiet
    BY <1>1, <1>5, <2>1 DEF RevokeConsent, Quiet, Exposed, Calm, TypeOK
  <2> QED
    BY <1>5, <2>1, <2>4, <2>9, StepKeeps DEF RevokeConsent
<1>6. CASE AppendEntries(p)
  <2> DEFINE s == proc[p].slug
             M == proc[p].entries
  <2>1. proc' \in [Procs -> Operations] /\ \A q \in Procs : Keeps(q) /\ Calm(q)
    BY <1>1, <1>6, AdvanceType DEF AppendEntries
  <2>2. s \in Slugs \cup {Whole} /\ M \in Ledgers
    BY <1>1 DEF Operations, Ledgers
  <2>3. ledger' = [ledger EXCEPT ![s] = @ \o M]
    BY <1>6 DEF AppendEntries
  <2>4. ledger' \in [Slugs \cup {Whole} -> Seq(Entries)]
    BY <1>1, <2>2, <2>3 DEF TypeOK, Ledgers
  <2>5. TypeOK'
    BY <1>1, <1>6, <2>1, <2>4 DEF TypeOK, AppendEntries
  <2>6. \A i \in DOMAIN M : Sound(M[i], ledger[s])
    BY DEF IInv, PendingSound
  <2>9. Quiet
    BY <1>6, <2>1 DEF AppendEntries, Quiet, Exposed, Calm
  <2> HIDE DEF s, M
  <2> QED
    BY <2>1, <2>2, <2>3, <2>5, <2>6, <2>9, LedgerStepKeeps
<1>7. CASE ListRecords(p)
  <2> DEFINE listed == {t \in Slugs : entity[t].public}
             op == [proc[p] EXCEPT !.todo = Tail(@), !.list = listed]
  <2>1. proc[p].todo \in Seq(Steps) /\ proc[p].todo # <<>>
    BY <1>1, <1>7 DEF Operations, ListRecords, At
  <2>2. Tail(proc[p].todo) \in Seq(Steps) /\ listed \in SUBSET Slugs
    BY <2>1
  <2>3. op \in Operations /\ op.entries = proc[p].entries /\ op.slug = proc[p].slug
        /\ op.copy = proc[p].copy /\ op.list = listed
    <3> HIDE DEF listed
    <3> QED BY <1>1, <2>2 DEF Operations
  <2>4. proc' = [proc EXCEPT ![p] = op]
    BY <1>1, <1>7 DEF ListRecords
  <2> HIDE DEF op
  <2>5. proc' \in [Procs -> Operations] /\ \A q \in Procs : Keeps(q)
    BY <1>1, <2>3, <2>4 DEF Keeps
  <2>6. TypeOK'
    BY <1>1, <1>7, <2>5 DEF TypeOK, ListRecords
  <2>9. Quiet
    <3>1. \A q \in Procs : proc'[q] = IF q = p THEN op ELSE proc[q]
      BY <1>1, <2>4
    <3>2. listed # {} => Exposed
      BY DEF Exposed
    <3> HIDE DEF listed
    <3>3. entity' = entity /\ manifest' = manifest
      BY <1>7 DEF ListRecords
    <3>4. ASSUME NEW q \in Procs, proc'[q].copy.public \/ proc'[q].list # {}
          PROVE  Exposed
      BY <2>3, <3>1, <3>2, <3>4 DEF Exposed
    <3> QED
      BY <3>3, <3>4 DEF Quiet, Exposed
  <2> QED
    BY <1>7, <2>5, <2>6, <2>9, StepKeeps DEF ListRecords
<1>8. CASE WriteManifest(p)
  <2>1. proc' \in [Procs -> Operations] /\ \A q \in Procs : Keeps(q) /\ Calm(q)
    BY <1>1, <1>8, AdvanceType DEF WriteManifest
  <2>2. manifest' \in SUBSET Slugs
    BY <1>1, <1>8 DEF WriteManifest, Operations
  <2>3. TypeOK'
    BY <1>1, <1>8, <2>1, <2>2 DEF TypeOK, WriteManifest
  <2>9. Quiet
    BY <1>1, <1>8, <2>1 DEF WriteManifest, Quiet, Exposed, Calm, TypeOK
  <2> QED
    BY <1>8, <2>1, <2>3, <2>9, StepKeeps DEF WriteManifest
<1>9. CASE Attest(p)
  <2> DEFINE s == proc[p].slug
             e == Entry("sichtpass", "listed")
             M == <<e>>
  <2>1. proc' \in [Procs -> Operations] /\ \A q \in Procs : Keeps(q) /\ Calm(q)
    BY <1>1, <1>9, AdvanceType DEF Attest
  <2>2. s \in Slugs \cup {Whole} /\ ledger[s] \in Seq(Entries)
    BY <1>1 DEF Operations, TypeOK
  <2>3. e \in Entries /\ Sound(e, ledger[s])
    BY EntryType DEF Sound, Entry, Approved
  <2> HIDE DEF e
  <2>4. M \in Ledgers /\ \A i \in DOMAIN M : Sound(M[i], ledger[s])
    BY <2>3 DEF Ledgers
  <2>5. ledger' = [ledger EXCEPT ![s] = @ \o M]
    <3>1. Append(ledger[s], e) = ledger[s] \o M
      BY <2>2, <2>3
    <3>2. ledger' = [ledger EXCEPT ![s] = Append(@, e)]
      BY <1>9 DEF Attest, e
    <3> QED
      BY <3>1, <3>2
  <2>6. ledger' \in [Slugs \cup {Whole} -> Seq(Entries)]
    BY <1>1, <2>2, <2>4, <2>5 DEF TypeOK, Ledgers
  <2>7. TypeOK'
    BY <1>1, <1>9, <2>1, <2>6 DEF TypeOK, Attest
  <2>9. Quiet
    BY <1>9, <2>1 DEF Attest, Quiet, Exposed, Calm
  <2> HIDE DEF s, M
  <2> QED
    BY <2>1, <2>2, <2>4, <2>5, <2>7, <2>9, LedgerStepKeeps
<1>10. CASE LockRefused(p) \/ Crash(p)
  <2>1. proc' \in [Procs -> Operations] /\ \A q \in Procs : Keeps(q) /\ Calm(q)
    BY <1>1, <1>10, EndType DEF LockRefused, Crash
  <2>2. TypeOK'
    BY <1>1, <1>10, <2>1 DEF TypeOK, LockRefused, Crash
  <2>9. Quiet
    BY <1>10, <2>1 DEF LockRefused, Crash, Quiet, Exposed, Calm
  <2> QED
    BY <1>10, <2>1, <2>2, <2>9, StepKeeps DEF LockRefused, Crash
<1>11. CASE ManifestFails(p)
  <2>1. proc[p].todo \in Seq(Steps) /\ proc[p].todo # <<>>
    BY <1>1, <1>11 DEF Operations, ManifestFails, At
  <2>2. Tail(proc[p].todo) \in Seq(Steps)
    BY <2>1
  <2>3. proc' \in [Procs -> Operations] /\ \A q \in Procs : Keeps(q) /\ Calm(q)
    <3>1. CASE End(p)
      BY <1>1, <3>1, EndType
    <3>2. CASE proc' = [proc EXCEPT ![p].todo = Tail(@), ![p].made = FALSE]
      <4> DEFINE op == [proc[p] EXCEPT !.todo = Tail(@), !.made = FALSE]
      <4>1. op \in Operations /\ op.entries = proc[p].entries /\ op.slug = proc[p].slug
            /\ op.copy = proc[p].copy /\ op.list = proc[p].list
        BY <1>1, <2>2 DEF Operations
      <4>2. proc' = [proc EXCEPT ![p] = op]
        BY <1>1, <3>2
      <4> HIDE DEF op
      <4> QED
        BY <1>1, <4>1, <4>2 DEF Keeps, Calm
    <3> QED
      BY <1>11, <3>1, <3>2 DEF ManifestFails
  <2>4. TypeOK'
    BY <1>1, <1>11, <2>3 DEF TypeOK, ManifestFails
  <2>9. Quiet
    BY <1>11, <2>3 DEF ManifestFails, Quiet, Exposed, Calm
  <2> QED
    BY <1>11, <2>3, <2>4, <2>9, StepKeeps DEF ManifestFails
<1> QED
  BY <1>2, <1>3, <1>4, <1>5, <1>6, <1>7, <1>8, <1>9, <1>10, <1>11 DEF Step

---------------------------------------------------------------------------
(* The theorems.                                                           *)

LEMMA InitOK == Init => IInv
<1> SUFFICES ASSUME Init PROVE IInv
  OBVIOUS
<1>1. TypeOK
  <2>1. /\ entity \in [Slugs -> Entities]
        /\ consent \in [Slugs -> [Aspects -> Statuses]]
        /\ ledger \in [Slugs \cup {Whole} -> Seq(Entries)]
    BY HistoriesAssumption DEF Init
  <2>2. proc \in [Procs -> Operations]
    BY IdleType DEF Init
  <2>3. issued \in 0 .. MaxCommands
    BY NachweisAssumption DEF Init
  <2>4. crew \in SUBSET Procs /\ manifest \in SUBSET Slugs
    BY DEF Init
  <2> QED
    BY <2>1, <2>2, <2>3, <2>4 DEF TypeOK
<1>2. LedgerSound
  BY HistoriesAssumption DEF Init, LedgerSound
<1>3. PendingSound
  BY IdleType DEF Init, PendingSound
<1>4. ~Exposed
  BY IdleType, EntryType, HistoriesAssumption DEF Init, Exposed
<1> QED
  BY <1>1, <1>2, <1>3, <1>4 DEF IInv

LEMMA NextOK == IInv /\ [Next]_vars => IInv'
<1> SUFFICES ASSUME IInv, [Next]_vars PROVE IInv'
  OBVIOUS
<1>1. CASE UNCHANGED vars
  BY <1>1 DEF vars, IInv, TypeOK, LedgerSound, PendingSound, Exposed, Cleared, SomeRecord
<1>2. CASE Next
  <2> PICK p \in Procs :
        \/ \E s \in Slugs :
             \/ Ingest(p, s) \/ Sign(p, s) \/ Timestamp(p, s) \/ Publish(p, s) \/ Withdraw(p, s)
             \/ \E f \in Files : PublicDerivative(p, s, f)
             \/ \E o, f \in Files : AssessmentIngest(p, s, o, f)
             \/ \E v \in Verdicts : Approve(p, s, v)
             \/ \E a \in Aspects : \E status \in Given :
                  ConsentUpdate(p, s, a, status)
        \/ ManifestGenerate(p)
        \/ Step(p)
    BY <1>2 DEF Next, Step
  <2> QED
    BY IngestKeeps, SignKeeps, TimestampKeeps, PublishKeeps, WithdrawKeeps,
       PublicDerivativeKeeps, AssessmentIngestKeeps, ApproveKeeps, ConsentUpdateKeeps,
       ManifestGenerateKeeps, StepsKeep
<1> QED
  BY <1>1, <1>2 DEF vars

LEMMA Invariance == Spec => []IInv
BY InitOK, NextOK, PTL DEF Spec

\* Types are kept, with any number of terminals, records, files and commands.
THEOREM TypeCorrect == Spec => []TypeOK
<1>1. IInv => TypeOK
  BY DEF IInv
<1> QED
  BY <1>1, Invariance, PTL

\* An approval at N3 never stands in the ledger without a signature and a
\* timestamp of its record before it (nachweis-approve.ts), however the commands
\* of the terminals interleave between the look-up and the append.
THEOREM ApprovalsAreBacked == Spec => []N3IsBacked
<1>1. IInv => N3IsBacked
  BY DEF IInv, LedgerSound, N3IsBacked
<1> QED
  BY <1>1, Invariance, PTL

\* Every timestamp is over the signature nachweis.verify-signature checks, however
\* often the record is signed while the authority is asked (nachweis-timestamp.ts).
THEOREM StampsCoverTheSignature == Spec => []StampCoversSignature
<1>1. IInv => StampCoversSignature
  BY DEF IInv, LedgerSound, StampCoversSignature
<1> QED
  BY <1>1, Invariance, PTL

\* Nothing is visible or listed before the ledger holds an approval, one at N3 and
\* a passed legal check (evaluateGateV2), although copies and lists are written
\* long after they were read and whatever else was refused or killed.
THEOREM NothingUncleared == Spec => []NothingPublicUncleared
<1>1. IInv => NothingPublicUncleared
  BY DEF IInv, Exposed, Cleared, NothingPublicUncleared
<1> QED
  BY <1>1, Invariance, PTL

-----------------------------------------------------------------------------
(* What a publication or a withdrawal has done when it reports success.    *)
(* With one terminal nothing is written between the read of a command and  *)
(* its last step but by the command: each step finds what those before it  *)
(* left.  Its head says how far a command has come.                        *)

\* The steps of the two commands, whole and as they are taken.
Plans ==
  {<<"write", "append", "list", "listed", "attest">>,
   <<"write", "revoke", "append", "list", "listed", "attest">>,
   <<"revoke", "append", "list", "listed", "attest">>,
   <<"append", "list", "listed", "attest">>, <<"list", "listed", "attest">>,
   <<"listed", "attest">>, <<"attest">>}

Shows(c) == c.cmd = "publish"
Note(c) == IF Shows(c) THEN "published" ELSE "withdrawn"

\* A command that makes a record public or takes it back has done what its
\* remaining steps leave out.
OnItsWay(c) ==
  c.cmd \in {"publish", "withdraw"} =>
    LET s == c.slug  at == Head(c.todo) IN
    /\ s \in Slugs /\ c.todo \in Plans /\ c.copy.public = Shows(c)
    /\ StandsAs(c.entries, Note(c))
    /\ at # "write" => entity[s].public = Shows(c)
    /\ at \in {"list", "listed", "attest"} => StandsAs(ledger[s], Note(c))
    /\ at \in {"listed", "attest"} => (s \in c.list <=> Shows(c))
    /\ at = "attest" /\ c.made => (s \in manifest <=> Shows(c))

CInv ==
  /\ \A q \in Procs : q \notin crew => proc[q] = Idle
  /\ \A p \in Procs : crew = {p} => OnItsWay(proc[p])

LEMMA PlansAre ==
  ASSUME NEW todo \in Plans
  PROVE  /\ todo \in Seq(Steps) /\ todo # <<>> /\ Len(todo) \in Nat
         /\ Head(todo) \in {"write", "revoke", "append", "list", "listed", "attest"}
         /\ Head(todo) # "attest" => Tail(todo) \in Plans
         /\ Head(todo) = "write" => Head(Tail(todo)) \in {"revoke", "append"}
         /\ Head(todo) = "revoke" => Head(Tail(todo)) = "append"
         /\ Head(todo) = "append" => Head(Tail(todo)) = "list"
         /\ Head(todo) = "list" => Head(Tail(todo)) = "listed"
         /\ Head(todo) = "listed" => Head(Tail(todo)) = "attest"
         /\ Head(todo) = "attest" => Len(todo) = 1
<1> DEFINE A == <<"attest">>
           L == <<"listed", "attest">>
           S == <<"list", "listed", "attest">>
           P == <<"append", "list", "listed", "attest">>
           R == <<"revoke", "append", "list", "listed", "attest">>
           W == <<"write", "revoke", "append", "list", "listed", "attest">>
           V == <<"write", "append", "list", "listed", "attest">>
<1>1. /\ A \in Seq(Steps) /\ Head(A) = "attest" /\ Len(A) = 1
      /\ L \in Seq(Steps) /\ Head(L) = "listed" /\ Tail(L) = A /\ Len(L) = 2
      /\ S \in Seq(Steps) /\ Head(S) = "list" /\ Tail(S) = L /\ Len(S) = 3
  BY DEF Steps
<1>2. P \in Seq(Steps) /\ Head(P) = "append" /\ Tail(P) = S /\ Len(P) = 4
  BY DEF Steps
<1>3. R \in Seq(Steps) /\ Head(R) = "revoke" /\ Tail(R) = P /\ Len(R) = 5
  BY DEF Steps
<1>4. W \in Seq(Steps) /\ Head(W) = "write" /\ Tail(W) = R /\ Len(W) = 6
  BY DEF Steps
<1>5. V \in Seq(Steps) /\ Head(V) = "write" /\ Tail(V) = P /\ Len(V) = 5
  BY DEF Steps
<1>6. Plans = {A, L, S, P, R, W, V}
  BY DEF Plans
<1>7. todo # <<>>
  BY DEF Plans
<1> HIDE DEF A, L, S, P, R, W, V
<1>8. CASE todo = A
  BY <1>1, <1>6, <1>7, <1>8
<1>9. CASE todo = L
  BY <1>1, <1>6, <1>7, <1>9
<1>10. CASE todo = S
  BY <1>1, <1>6, <1>7, <1>10
<1>11. CASE todo = P
  <2>1. Tail(todo) \in Plans /\ Head(todo) = "append" /\ Head(Tail(todo)) = "list"
    BY <1>1, <1>2, <1>6, <1>11
  <2>2. todo \in Seq(Steps) /\ Len(todo) \in Nat
    BY <1>2, <1>11
  <2> HIDE DEF Plans
  <2> QED
    BY <1>7, <2>1, <2>2
<1>12. CASE todo = R
  BY <1>2, <1>3, <1>6, <1>7, <1>12
<1>13. CASE todo = W
  BY <1>3, <1>4, <1>6, <1>7, <1>13
<1>14. CASE todo = V
  BY <1>2, <1>5, <1>6, <1>7, <1>14
<1> QED
  BY <1>6, <1>8, <1>9, <1>10, <1>11, <1>12, <1>13, <1>14

\* What is appended last decides what the entries say.
LEMMA StandsAfter ==
  ASSUME NEW L \in Ledgers, NEW M \in Ledgers, NEW note, StandsAs(M, note)
  PROVE  StandsAs(L \o M, note)
<1>1. PICK i \in DOMAIN M : /\ Republishes(M[i]) /\ M[i].note = note
                            /\ \A j \in DOMAIN M : i < j => ~Republishes(M[j])
  BY DEF StandsAs
<1>2. /\ Len(L) \in Nat /\ Len(M) \in Nat /\ i \in 1 .. Len(M)
      /\ DOMAIN (L \o M) = 1 .. Len(L) + Len(M)
      /\ \A j \in 1 .. Len(L) + Len(M) :
           j > Len(L) => j - Len(L) \in DOMAIN M /\ (L \o M)[j] = M[j - Len(L)]
  BY DEF Ledgers
<1> DEFINE k == Len(L) + i
<1>3. k \in DOMAIN (L \o M) /\ (L \o M)[k] = M[i]
  BY <1>2
<1>4. \A j \in DOMAIN (L \o M) : k < j => ~Republishes((L \o M)[j])
  BY <1>1, <1>2
<1> HIDE DEF k
<1> QED
  BY <1>1, <1>3, <1>4 DEF StandsAs

\* An entry about something else leaves it as it is.
LEMMA StandsStill ==
  ASSUME NEW L \in Ledgers, NEW e, ~Republishes(e), NEW note, StandsAs(L, note)
  PROVE  StandsAs(Append(L, e), note)
<1>1. PICK i \in DOMAIN L : /\ Republishes(L[i]) /\ L[i].note = note
                            /\ \A j \in DOMAIN L : i < j => ~Republishes(L[j])
  BY DEF StandsAs
<1>2. /\ Len(L) \in Nat /\ DOMAIN L = 1 .. Len(L)
      /\ DOMAIN Append(L, e) = 1 .. Len(L) + 1
      /\ \A j \in DOMAIN L : Append(L, e)[j] = L[j]
      /\ Append(L, e)[Len(L) + 1] = e
  BY DEF Ledgers
<1>3. \A j \in DOMAIN Append(L, e) : i < j => ~Republishes(Append(L, e)[j])
  BY <1>1, <1>2
<1> QED
  BY <1>1, <1>2, <1>3 DEF StandsAs

\* A step of a terminal of the crew that leaves its own command on its way.
LEMMA OwnStep ==
  ASSUME CInv, NEW p \in Procs, p \in crew, crew' = crew,
         \A q \in Procs : q # p => proc'[q] = proc[q],
         crew = {p} => OnItsWay(proc[p])'
  PROVE  CInv'
<1>1. \A q \in Procs : q \notin crew => proc'[q] = Idle
  BY DEF CInv
<1>2. ASSUME NEW q \in Procs, crew = {q} PROVE OnItsWay(proc[q])'
  BY <1>2
<1> QED
  BY <1>1, <1>2 DEF CInv

LEMMA ElsewhereIsOnItsWay ==
  ASSUME NEW p \in Procs, proc'[p].cmd \notin {"publish", "withdraw"}
  PROVE  OnItsWay(proc[p])'
BY DEF OnItsWay

\* The start of a command.
LEMMA StartsOnItsWay ==
  ASSUME TypeOK, CInv, NEW p \in Procs, p \in crew, NEW op, Begin(p, op),
         op.cmd \notin {"publish", "withdraw"}
  PROVE  CInv'
<1>1. proc'[p] = op /\ \A q \in Procs : q # p => proc'[q] = proc[q]
  BY DEF Begin, TypeOK
<1>2. OnItsWay(proc[p])'
  BY <1>1, ElsewhereIsOnItsWay
<1> QED
  BY <1>1, <1>2, OwnStep DEF Begin

LEMMA PublishStarts ==
  ASSUME TypeOK, CInv, NEW p \in Procs, NEW s \in Slugs, Publish(p, s) PROVE CInv'
<1>1. p \in crew
  BY DEF Publish, Issue
<1>2. CASE Return(p)
  BY <1>1, <1>2, StartsOnItsWay DEF Return, Idle
<1>3. CASE ~Return(p)
  <2> DEFINE e == [Entry("record", "published") EXCEPT !.level = "N3"]
             copy == [entity[s] EXCEPT !.public = TRUE]
             plan == <<"write", "append", "list", "listed", "attest">>
  <2>1. e.kind = "record" /\ e.note = "published" /\ copy.public = TRUE
    BY DEF Entry, TypeOK, Entities
  <2>2. plan \in Plans /\ Head(plan) = "write"
    BY DEF Plans
  <2> HIDE DEF e, copy, plan
  <2>3. Begin(p, [Idle EXCEPT !.cmd = "publish", !.slug = s, !.todo = plan, !.copy = copy,
                              !.entries = <<e>>])
    BY <1>3 DEF Publish, e, copy, plan
  <2>4. /\ proc'[p].cmd = "publish" /\ proc'[p].slug = s /\ proc'[p].todo = plan
        /\ proc'[p].copy = copy /\ proc'[p].entries = <<e>>
        /\ \A q \in Procs : q # p => proc'[q] = proc[q]
    BY <2>3 DEF Begin, TypeOK, Idle
  <2>5. StandsAs(<<e>>, "published")
    <3>1. /\ 1 \in DOMAIN <<e>> /\ <<e>>[1] = e
          /\ \A j \in DOMAIN <<e>> : ~(1 < j)
      OBVIOUS
    <3> QED
      BY <2>1, <3>1 DEF StandsAs, Republishes
  <2>6. OnItsWay(proc[p])'
    BY <2>1, <2>2, <2>4, <2>5 DEF OnItsWay, Shows, Note
  <2> QED
    BY <1>1, <2>3, <2>4, <2>6, OwnStep DEF Begin
<1> QED
  BY <1>2, <1>3

LEMMA WithdrawStarts ==
  ASSUME TypeOK, CInv, NEW p \in Procs, NEW s \in Slugs, Withdraw(p, s) PROVE CInv'
<1>1. p \in crew
  BY DEF Withdraw, Issue
<1>2. CASE Return(p)
  BY <1>1, <1>2, StartsOnItsWay DEF Return, Idle
<1>3. CASE ~Return(p)
  <2> DEFINE e == Entry("record", "withdrawn")
             d == Entry("consent", "withdrawn")
             copy == [entity[s] EXCEPT !.withdrawn = TRUE, !.public = FALSE]
             plan == <<"write", "revoke", "append", "list", "listed", "attest">>
  <2>1. e.kind = "record" /\ e.note = "withdrawn" /\ copy.public = FALSE
    BY DEF Entry, TypeOK, Entities
  <2>2. plan \in Plans /\ Head(plan) = "write"
    BY DEF Plans
  <2> HIDE DEF e, d, copy, plan
  <2>3. PICK M \in {<<e>>, <<d, e>>} :
          Begin(p, [Idle EXCEPT !.cmd = "withdraw", !.slug = s, !.todo = plan, !.copy = copy,
                                !.entries = M])
    <3> DEFINE M == IF entity[s].policy = "attestation" THEN <<d, e>> ELSE <<e>>
    <3>1. M \in {<<e>>, <<d, e>>}
      OBVIOUS
    <3>2. Begin(p, [Idle EXCEPT !.cmd = "withdraw", !.slug = s, !.todo = plan, !.copy = copy,
                                !.entries = M])
      BY <1>3 DEF Withdraw, e, d, copy, plan
    <3> HIDE DEF M
    <3> QED
      BY <3>1, <3>2
  <2>4. /\ proc'[p].cmd = "withdraw" /\ proc'[p].slug = s /\ proc'[p].todo = plan
        /\ proc'[p].copy = copy /\ proc'[p].entries = M
        /\ \A q \in Procs : q # p => proc'[q] = proc[q]
    BY <2>3 DEF Begin, TypeOK, Idle
  <2>5. StandsAs(M, "withdrawn")
    <3> DEFINE n == Len(M)
    <3>1. n \in DOMAIN M /\ M[n] = e /\ \A j \in DOMAIN M : ~(n < j)
      <4>1. CASE M = <<e>>
        BY <4>1
      <4>2. CASE M = <<d, e>>
        BY <4>2
      <4> QED
        BY <4>1, <4>2
    <3> QED
      BY <2>1, <3>1 DEF StandsAs, Republishes
  <2>6. OnItsWay(proc[p])'
    BY <2>1, <2>2, <2>4, <2>5 DEF OnItsWay, Shows, Note
  <2> QED
    BY <1>1, <2>3, <2>4, <2>6, OwnStep DEF Begin
<1> QED
  BY <1>2, <1>3

\* A step taken by a command leaves the others where they are.
LEMMA WalksOn ==
  ASSUME TypeOK, NEW p \in Procs, Advance(p) \/ End(p)
  PROVE  /\ \A q \in Procs : q # p => proc'[q] = proc[q]
         /\ \/ proc'[p] = Idle
            \/ Advance(p) /\ Len(proc[p].todo) # 1
               /\ proc'[p] = [proc[p] EXCEPT !.todo = Tail(proc[p].todo)]
BY DEF Advance, End, TypeOK

LEMMA IdleIsOnItsWay ==
  ASSUME NEW p \in Procs, proc'[p] = Idle
  PROVE  OnItsWay(proc[p])'
BY ElsewhereIsOnItsWay DEF Idle

\* A step of a command that does not publish or withdraw.
LEMMA OtherCommandsWalk ==
  ASSUME TypeOK, CInv, NEW p \in Procs, p \in crew, Step(p),
         proc[p].cmd \notin {"publish", "withdraw"}
  PROVE  CInv'
<1>1. crew' = crew
  BY DEF Step, Upload, WriteEntity, WriteConsent, RevokeConsent, AppendEntries, ListRecords,
         WriteManifest, Attest, ManifestFails, LockRefused, Crash
<1>2. /\ \A q \in Procs : q # p => proc'[q] = proc[q]
      /\ proc'[p].cmd \in {"none", proc[p].cmd}
  <2>1. CASE \/ ListRecords(p)
             \/ proc' = [proc EXCEPT ![p].todo = Tail(@), ![p].made = FALSE]
    BY <2>1 DEF ListRecords, TypeOK, Operations
  <2>2. CASE Advance(p) \/ End(p)
    <3>1. proc[p] \in Operations
      BY DEF TypeOK
    <3> DEFINE d == [proc[p] EXCEPT !.todo = Tail(proc[p].todo)]
    <3>2. d.cmd = proc[p].cmd /\ Idle.cmd = "none"
      BY <3>1 DEF Operations, Idle
    <3> HIDE DEF d
    <3>3. /\ \A q \in Procs : q # p => proc'[q] = proc[q]
          /\ proc'[p] = Idle \/ proc'[p] = d
      BY <2>2, WalksOn DEF d
    <3> QED
      BY <3>2, <3>3
  <2> QED
    BY <2>1, <2>2 DEF Step, Upload, WriteEntity, WriteConsent, RevokeConsent, AppendEntries,
                      WriteManifest, Attest, ManifestFails, LockRefused, Crash
<1>3. OnItsWay(proc[p])'
  BY <1>2, ElsewhereIsOnItsWay
<1> QED
  BY <1>1, <1>2, <1>3, OwnStep

\* A step of a publication or a withdrawal does what the command set out to do.
LEMMA PlansWalk ==
  ASSUME TypeOK, CInv, NEW p \in Procs, crew = {p}, Step(p),
         proc[p].cmd \in {"publish", "withdraw"}
  PROVE  CInv'
<1>0. PICK c : c = proc[p]
  OBVIOUS
<1> DEFINE s == c.slug
           at == Head(c.todo)
           next == Head(Tail(c.todo))
<1>1. /\ c \in Operations /\ s \in Slugs /\ c.todo \in Plans /\ c.copy.public = Shows(c)
      /\ StandsAs(c.entries, Note(c)) /\ c.entries \in Ledgers /\ ledger[s] \in Ledgers
      /\ at # "write" => entity[s].public = Shows(c)
      /\ at \in {"list", "listed", "attest"} => StandsAs(ledger[s], Note(c))
      /\ at \in {"listed", "attest"} => (s \in c.list <=> Shows(c))
      /\ at = "attest" /\ c.made => (s \in manifest <=> Shows(c))
  <2>1. OnItsWay(c) /\ c.cmd \in {"publish", "withdraw"}
    BY <1>0 DEF CInv
  <2>2. c \in Operations /\ \A t \in Slugs : ledger[t] \in Ledgers
    BY <1>0 DEF TypeOK, Ledgers
  <2> QED
    BY <2>1, <2>2 DEF OnItsWay, Operations, Ledgers
<1>2. crew' = crew
  BY DEF Step, Upload, WriteEntity, WriteConsent, RevokeConsent, AppendEntries, ListRecords,
         WriteManifest, Attest, ManifestFails, LockRefused, Crash
<1>3. /\ \A q \in Procs : q # p => proc'[q] = proc[q]
      /\ \/ proc'[p] = Idle
         \/ /\ proc'[p].cmd = c.cmd /\ proc'[p].slug = s /\ proc'[p].todo = Tail(c.todo)
            /\ proc'[p].copy = c.copy /\ proc'[p].entries = c.entries
            /\ proc'[p].list = c.list \/ ListRecords(p)
            /\ Len(c.todo) # 1 \/ ListRecords(p) \/ ManifestFails(p)
            /\ proc'[p].made = c.made \/ ManifestFails(p)
  <2>1. CASE ListRecords(p)
    BY <1>0, <1>1, <2>1 DEF ListRecords, TypeOK, Operations
  <2>2. CASE Advance(p) \/ End(p)
    <3> DEFINE d == [c EXCEPT !.todo = Tail(c.todo)]
    <3>1. /\ d.cmd = c.cmd /\ d.slug = s /\ d.todo = Tail(c.todo) /\ d.copy = c.copy
          /\ d.entries = c.entries /\ d.list = c.list /\ d.made = c.made
      BY <1>1 DEF Operations
    <3> HIDE DEF d
    <3>2. /\ \A q \in Procs : q # p => proc'[q] = proc[q]
          /\ proc'[p] = Idle \/ (proc'[p] = d /\ Len(c.todo) # 1)
      BY <1>0, <2>2, WalksOn DEF d
    <3> QED
      BY <3>1, <3>2
  <2>3. CASE ManifestFails(p)
    <3>1. CASE End(p)
      BY <2>2, <3>1
    <3>2. CASE proc' = [proc EXCEPT ![p].todo = Tail(@), ![p].made = FALSE]
      BY <1>0, <1>1, <2>3, <3>2 DEF TypeOK, Operations
    <3> QED
      BY <2>3, <3>1, <3>2 DEF ManifestFails
  <2> QED
    BY <2>1, <2>2, <2>3
       DEF Step, Upload, WriteEntity, WriteConsent, RevokeConsent, AppendEntries,
           WriteManifest, Attest, LockRefused, Crash
<1>4. CASE proc'[p] = Idle
  BY <1>2, <1>3, <1>4, IdleIsOnItsWay, OwnStep
<1>5. CASE proc'[p] # Idle
  <2>1. /\ proc'[p].cmd = c.cmd /\ proc'[p].slug = s /\ proc'[p].todo = Tail(c.todo)
        /\ proc'[p].copy = c.copy /\ proc'[p].entries = c.entries
        /\ proc'[p].list = c.list \/ ListRecords(p)
        /\ Len(c.todo) # 1 \/ ListRecords(p) \/ ManifestFails(p)
        /\ proc'[p].made = c.made \/ ManifestFails(p)
    BY <1>3, <1>5
  <2>2. ~LockRefused(p) /\ ~Crash(p)
    BY <1>5 DEF LockRefused, Crash, End, TypeOK
  <2>3. /\ at \in {"write", "revoke", "append", "list", "listed"} /\ c.todo # <<>>
        /\ Tail(c.todo) \in Plans
        /\ at = "write" => next \in {"revoke", "append"}
        /\ at = "revoke" => next = "append"
        /\ at = "append" => next = "list"
        /\ at = "list" => next = "listed"
        /\ at = "listed" => next = "attest"
    <3>1. at # "attest"
      BY <1>0, <1>1, <2>1, PlansAre DEF ListRecords, ManifestFails, At
    <3> QED
      BY <1>1, <3>1, PlansAre
  <2>4. ~Upload(p) /\ ~WriteConsent(p) /\ ~Attest(p)
    BY <1>0, <2>3 DEF Upload, WriteConsent, Attest, At
  <2>5. /\ next # "write" => (entity[s].public)' = Shows(c)
        /\ next \in {"list", "listed", "attest"} => StandsAs(ledger'[s], Note(c))
        /\ next \in {"listed", "attest"} => (s \in proc'[p].list <=> Shows(c))
        /\ next = "attest" /\ proc'[p].made => (s \in manifest' <=> Shows(c))
    <3>1. CASE WriteEntity(p)
      <4>1. at = "write" /\ next \in {"revoke", "append"}
        BY <1>0, <2>3, <3>1 DEF WriteEntity, At
      <4>2. entity'[s] = c.copy
        BY <1>0, <1>1, <3>1 DEF WriteEntity, TypeOK
      <4> QED
        BY <1>1, <4>1, <4>2
    <3>2. CASE RevokeConsent(p)
      <4>1. at = "revoke" /\ next = "append" /\ entity' = entity
        BY <1>0, <2>3, <3>2 DEF RevokeConsent, At
      <4> QED
        BY <1>1, <4>1
    <3>3. CASE AppendEntries(p)
      <4>1. at = "append" /\ next = "list" /\ entity' = entity
        BY <1>0, <2>3, <3>3 DEF AppendEntries, At
      <4>2. ledger'[s] = ledger[s] \o c.entries
        BY <1>0, <1>1, <3>3 DEF AppendEntries, TypeOK
      <4>3. StandsAs(ledger[s] \o c.entries, Note(c))
        BY <1>1, StandsAfter
      <4> QED
        BY <1>1, <4>1, <4>2, <4>3
    <3>4. CASE ListRecords(p)
      <4>1. at = "list" /\ next = "listed" /\ UNCHANGED <<entity, ledger>>
        BY <1>0, <2>3, <3>4 DEF ListRecords, At
      <4>2. proc'[p].list = {t \in Slugs : entity[t].public}
        BY <1>0, <1>1, <3>4 DEF ListRecords, TypeOK, Operations
      <4>3. entity[s].public = Shows(c)
        BY <1>1, <4>1
      <4>4. (s \in proc'[p].list <=> Shows(c))
        BY <1>1, <4>2, <4>3
      <4> QED
        BY <1>1, <4>1, <4>4
    <3>5. CASE WriteManifest(p)
      <4>1. /\ at = "listed" /\ next = "attest" /\ UNCHANGED <<entity, ledger>>
            /\ manifest' = c.list
        BY <1>0, <2>3, <3>5 DEF WriteManifest, At
      <4>2. ~ListRecords(p)
        BY <1>0, <4>1 DEF ListRecords, At
      <4> QED
        BY <1>1, <2>1, <4>1, <4>2
    <3>6. CASE ManifestFails(p)
      <4>1. at = "listed" /\ next = "attest" /\ UNCHANGED <<entity, ledger>>
        BY <1>0, <2>3, <3>6 DEF ManifestFails, At
      <4>2. ~End(p)
        BY <1>5 DEF End, TypeOK
      <4>3. proc'[p].made = FALSE
        BY <1>0, <1>1, <3>6, <4>2 DEF ManifestFails, TypeOK, Operations
      <4>4. proc'[p].list = c.list
        BY <1>0, <2>1, <4>1 DEF ListRecords, At
      <4> QED
        BY <1>1, <4>1, <4>3, <4>4
    <3> QED
      BY <2>2, <2>4, <3>1, <3>2, <3>3, <3>4, <3>5, <3>6 DEF Step
  <2>6. OnItsWay(proc[p])'
    <3>1. Shows(proc'[p]) = Shows(c) /\ Note(proc'[p]) = Note(c)
      BY <2>1 DEF Shows, Note
    <3> HIDE DEF s, at
    <3> QED
      BY <1>1, <2>1, <2>3, <2>5, <3>1 DEF OnItsWay
  <2> QED
    BY <1>2, <1>3, <2>6, OwnStep
<1> QED
  BY <1>4, <1>5

LEMMA NextOnItsWay == ASSUME TypeOK, CInv, [Next]_vars PROVE CInv'
<1>1. CASE UNCHANGED vars
  BY <1>1 DEF vars, CInv, OnItsWay
<1>2. ASSUME NEW p \in Procs, NEW s, NEW a, NEW f, NEW o, NEW v, NEW status,
             \/ Ingest(p, s) \/ Sign(p, s) \/ Timestamp(p, s) \/ PublicDerivative(p, s, f)
             \/ AssessmentIngest(p, s, o, f) \/ Approve(p, s, v)
             \/ ConsentUpdate(p, s, a, status) \/ ManifestGenerate(p)
      PROVE  CInv'
  <2>1. p \in crew
    BY <1>2 DEF Issue, Ingest, Sign, Timestamp, PublicDerivative, AssessmentIngest, Approve,
                ConsentUpdate, ManifestGenerate
  <2>2. ASSUME Return(p) PROVE CInv'
    BY <2>1, <2>2, StartsOnItsWay DEF Return, Idle
  <2>3. CASE Ingest(p, s)
    <3> DEFINE op == [Idle EXCEPT !.cmd = "ingest", !.slug = s,
                    !.todo = <<"upload", "append">>,
                    !.entries = <<Entry("record", "ingested")>>]
    <3>1. op.cmd = "ingest"
      BY DEF Idle
    <3>2. Return(p) \/ Begin(p, op)
      BY <2>3 DEF Ingest
    <3> HIDE DEF op
    <3> QED
      BY <2>1, <2>2, <3>1, <3>2, StartsOnItsWay
  <2>4. CASE Sign(p, s)
    <3> DEFINE op == [Idle EXCEPT !.cmd = "sign", !.slug = s, !.todo = <<"append">>,
                    !.entries = <<[Entry("signed", "signed") EXCEPT
                                     !.payload = Payload(entity[s])]>>]
    <3>1. op.cmd = "sign"
      BY DEF Idle
    <3>2. Return(p) \/ Begin(p, op)
      BY <2>4 DEF Sign
    <3> HIDE DEF op
    <3> QED
      BY <2>1, <2>2, <3>1, <3>2, StartsOnItsWay
  <2>5. CASE Timestamp(p, s)
    <3> DEFINE op == [Idle EXCEPT !.cmd = "timestamp", !.slug = s,
                    !.todo = <<"upload", "append">>,
                    !.entries = <<[Entry("timestamped", "timestamped") EXCEPT
                                     !.payload = First(ledger[s], "signed").payload]>>]
    <3>1. op.cmd = "timestamp"
      BY DEF Idle
    <3>2. Return(p) \/ Begin(p, op)
      BY <2>5 DEF Timestamp
    <3> HIDE DEF op
    <3> QED
      BY <2>1, <2>2, <3>1, <3>2, StartsOnItsWay
  <2>6. CASE PublicDerivative(p, s, f)
    <3> DEFINE op == [Idle EXCEPT !.cmd = "public-derivative", !.slug = s,
                    !.todo = <<"upload", "write", "append">>,
                    !.copy = WithItem(entity[s], "public", f),
                    !.entries = <<Entry("record", "derived")>>]
    <3>1. op.cmd = "public-derivative"
      BY DEF Idle
    <3>2. Return(p) \/ Begin(p, op)
      BY <2>6 DEF PublicDerivative
    <3> HIDE DEF op
    <3> QED
      BY <2>1, <2>2, <3>1, <3>2, StartsOnItsWay
  <2>7. CASE AssessmentIngest(p, s, o, f)
    <3> DEFINE op == [Idle EXCEPT !.cmd = "assessment.ingest", !.slug = s,
                    !.todo = <<"upload", "write", "append">>,
                    !.copy = [WithItem(entity[s], "raw", f) EXCEPT
                                !.policy = "technical", !.observation = o],
                    !.entries = <<[Entry("record", "assessed") EXCEPT !.level = "N1"]>>]
    <3>1. op.cmd = "assessment.ingest"
      BY DEF Idle
    <3>2. Return(p) \/ Begin(p, op)
      BY <2>7 DEF AssessmentIngest
    <3> HIDE DEF op
    <3> QED
      BY <2>1, <2>2, <3>1, <3>2, StartsOnItsWay
  <2>8. CASE Approve(p, s, v)
    <3> DEFINE op == [Idle EXCEPT !.cmd = "approve", !.slug = s, !.todo = <<"append">>,
                    !.entries = <<[Entry("record", "approved") EXCEPT
                                     !.level = v.level, !.legal = v.legal]>>]
    <3>1. op.cmd = "approve"
      BY DEF Idle
    <3>2. Return(p) \/ Begin(p, op)
      BY <2>8 DEF Approve
    <3> HIDE DEF op
    <3> QED
      BY <2>1, <2>2, <3>1, <3>2, StartsOnItsWay
  <2>9. CASE ConsentUpdate(p, s, a, status)
    <3> DEFINE op == [Idle EXCEPT !.cmd = "consent.update", !.slug = s,
                    !.todo = <<"consent", "append">>,
                    !.aspect = a, !.status = status,
                    !.entries = <<Entry("consent", "updated")>>]
    <3>1. op.cmd = "consent.update"
      BY DEF Idle
    <3>2. Return(p) \/ Begin(p, op)
      BY <2>9 DEF ConsentUpdate
    <3> HIDE DEF op
    <3> QED
      BY <2>1, <2>2, <3>1, <3>2, StartsOnItsWay
  <2>10. CASE ManifestGenerate(p)
    <3> DEFINE op == [Idle EXCEPT !.cmd = "manifest.generate",
                    !.todo = <<"list", "listed", "attest">>]
    <3>1. op.cmd = "manifest.generate"
      BY DEF Idle
    <3>2. Return(p) \/ Begin(p, op)
      BY <2>10 DEF ManifestGenerate
    <3> HIDE DEF op
    <3> QED
      BY <2>1, <2>2, <3>1, <3>2, StartsOnItsWay
  <2> QED
    BY <1>2, <2>3, <2>4, <2>5, <2>6, <2>7, <2>8, <2>9, <2>10
<1>3. ASSUME NEW p \in Procs, Step(p) PROVE CInv'
  <2>1. proc[p].todo # <<>>
    BY <1>3 DEF Step, Upload, WriteEntity, WriteConsent, RevokeConsent, AppendEntries,
                ListRecords, WriteManifest, Attest, ManifestFails, LockRefused, Crash, At
  <2>2. p \in crew
    BY <2>1 DEF CInv, Idle
  <2>3. CASE proc[p].cmd \notin {"publish", "withdraw"}
    BY <1>3, <2>2, <2>3, OtherCommandsWalk
  <2>4. CASE crew # {p}
    <3>1. /\ crew' = crew /\ \A q \in Procs : q # p => proc'[q] = proc[q]
      <4>1. CASE ListRecords(p) \/ ManifestFails(p)
        BY <4>1, WalksOn DEF ListRecords, ManifestFails, TypeOK
      <4>2. CASE (Advance(p) \/ End(p)) /\ crew' = crew
        BY <4>2, WalksOn
      <4> QED
        BY <1>3, <4>1, <4>2
           DEF Step, Upload, WriteEntity, WriteConsent, RevokeConsent, AppendEntries,
               WriteManifest, Attest, LockRefused, Crash
    <3> QED
      BY <2>2, <2>4, <3>1, OwnStep
  <2> QED
    BY <1>3, <2>3, <2>4, PlansWalk
<1>4. ASSUME NEW p \in Procs,
             \/ \E s \in Slugs :
                  \/ Ingest(p, s) \/ Sign(p, s) \/ Timestamp(p, s)
                  \/ \E f \in Files : PublicDerivative(p, s, f)
                  \/ \E o, f \in Files : AssessmentIngest(p, s, o, f)
                  \/ \E v \in Verdicts : Approve(p, s, v)
                  \/ \E a \in Aspects : \E status \in Given :
                       ConsentUpdate(p, s, a, status)
             \/ ManifestGenerate(p)
      PROVE  CInv'
  BY <1>2, <1>4
<1>5. ASSUME NEW p \in Procs, NEW s \in Slugs, Publish(p, s) \/ Withdraw(p, s) PROVE CInv'
  BY <1>5, PublishStarts, WithdrawStarts
<1> QED
  BY <1>1, <1>3, <1>4, <1>5 DEF Next, Step

\* The step that reports success is the entry about the manifest.
LEMMA SuccessIs ==
  ASSUME IInv, CInv, NEW p \in Procs, NEW s \in Slugs, crew = {p}, [Next]_vars,
         NEW cmd \in {"publish", "withdraw"}, Succeeds(p, cmd, s)
  PROVE  /\ entity'[s].public = (cmd = "publish")
         /\ proc[p].made => (s \in manifest' <=> cmd = "publish")
         /\ StandsAs(ledger'[s], IF cmd = "publish" THEN "published" ELSE "withdrawn")
<1>0. PICK c : c = proc[p]
  OBVIOUS
<1>1. /\ c.cmd = cmd /\ c.slug = s /\ Head(c.todo) = "attest" /\ ledger' # ledger
      /\ c.todo # <<>>
  <2>1. Head(<<"attest">>) = "attest" /\ <<"attest">> # <<>>
    OBVIOUS
  <2> QED
    BY <1>0, <2>1 DEF Succeeds
<1>2. /\ entity[s].public = (cmd = "publish")
      /\ c.made => (s \in manifest <=> cmd = "publish")
      /\ StandsAs(ledger[s], IF cmd = "publish" THEN "published" ELSE "withdrawn")
  <2>1. OnItsWay(c)
    BY <1>0 DEF CInv
  <2> QED
    BY <1>1, <2>1 DEF OnItsWay, Shows, Note
<1>3. PICK q \in Procs : AppendEntries(q) \/ Attest(q)
  <2>1. ASSUME NEW q \in Procs, NEW t, NEW a, NEW f, NEW o, NEW v, NEW status,
               \/ Ingest(q, t) \/ Sign(q, t) \/ Timestamp(q, t) \/ Publish(q, t)
               \/ Withdraw(q, t) \/ PublicDerivative(q, t, f) \/ AssessmentIngest(q, t, o, f)
               \/ Approve(q, t, v) \/ ConsentUpdate(q, t, a, status) \/ ManifestGenerate(q)
        PROVE  FALSE
    <3>1. ledger' = ledger
      BY <2>1 DEF Begin, Return, Ingest, Sign, Timestamp, Publish, Withdraw, PublicDerivative,
                  AssessmentIngest, Approve, ConsentUpdate, ManifestGenerate
    <3> QED
      BY <1>1, <3>1
  <2>2. ASSUME NEW q \in Procs,
               \/ Upload(q) \/ WriteEntity(q) \/ WriteConsent(q) \/ RevokeConsent(q)
               \/ ListRecords(q) \/ WriteManifest(q) \/ ManifestFails(q)
               \/ LockRefused(q) \/ Crash(q)
        PROVE  FALSE
    BY <1>1, <2>2 DEF Upload, WriteEntity, WriteConsent, RevokeConsent, ListRecords,
                      WriteManifest, ManifestFails, LockRefused, Crash
  <2>3. Next
    BY <1>1 DEF vars
  <2> QED
    BY <2>1, <2>2, <2>3 DEF Next
<1>4. q = p
  <2>1. proc[q].todo # <<>>
    BY <1>3 DEF AppendEntries, Attest, At
  <2> QED
    BY <2>1 DEF CInv, Idle
<1>5. Attest(p)
  BY <1>0, <1>1, <1>3, <1>4 DEF AppendEntries, At
<1>6. /\ UNCHANGED <<entity, manifest>>
      /\ ledger'[s] = Append(ledger[s], Entry("sichtpass", "listed"))
  BY <1>0, <1>1, <1>5 DEF Attest, IInv, TypeOK
<1>7. ledger[s] \in Ledgers /\ ~Republishes(Entry("sichtpass", "listed"))
  BY DEF IInv, TypeOK, Ledgers, Republishes, Entry
<1> QED
  BY <1>0, <1>2, <1>6, <1>7, StandsStill

\* A publication or a withdrawal that reports success is whole: with one terminal
\* at work the record's file and the last word of its ledger agree with it, and so
\* does the public manifest unless making it failed, which the command does not
\* notice, whichever earlier command was refused a lock, failed to upload or was
\* killed between any two of its writes (nachweis-publish.ts, nachweis-withdraw.ts).
THEOREM SuccessesAreWhole == Spec => SuccessIsComplete
<1>1. Init => CInv
  BY DEF Init, CInv, OnItsWay, Idle
<1>2. IInv => TypeOK
  BY DEF IInv
<1>3. ASSUME IInv, CInv, [Next]_vars
      PROVE  [\A p \in Procs : \A s \in Slugs :
                crew = {p} =>
                  /\ Succeeds(p, "publish", s) =>
                       /\ entity'[s].public /\ StandsAs(ledger'[s], "published")
                       /\ proc[p].made => s \in manifest'
                  /\ Succeeds(p, "withdraw", s) =>
                       /\ ~entity'[s].public /\ StandsAs(ledger'[s], "withdrawn")
                       /\ proc[p].made => s \notin manifest']_vars
  <2>1. ASSUME NEW p \in Procs, NEW s \in Slugs, crew = {p}, Succeeds(p, "publish", s)
        PROVE  /\ entity'[s].public /\ StandsAs(ledger'[s], "published")
               /\ proc[p].made => s \in manifest'
    BY <1>3, <2>1, SuccessIs
  <2>2. ASSUME NEW p \in Procs, NEW s \in Slugs, crew = {p}, Succeeds(p, "withdraw", s)
        PROVE  /\ ~entity'[s].public /\ StandsAs(ledger'[s], "withdrawn")
               /\ proc[p].made => s \notin manifest'
    BY <1>3, <2>2, SuccessIs
  <2> QED
    BY <2>1, <2>2
<1> QED
  BY <1>1, <1>2, <1>3, NextOnItsWay, Invariance, PTL DEF Spec, SuccessIsComplete

=============================================================================
