-------------------------- MODULE LeitstandProofs --------------------------
(***************************************************************************)
(* The way of a release to the sites, for any number of processes, releases*)
(* and operations and whatever fails or is killed: the types, no release   *)
(* replaces another, and what a channel serves was cleared for it.         *)
(*                                                                         *)
(* A command reads a file once and acts on it later, so what it found must *)
(* outlive what the others do in between.  Placed says what a process that *)
(* stands at a point of its command may rely on; Alone says what a step    *)
(* leaves to the others: their place, a lock that is not its own, and      *)
(* releases, decisions and records, which are added and never taken back.  *)
(***************************************************************************)
EXTENDS Leitstand, FiniteSetTheorems, SequenceTheorems, NaturalsInduction,
        WellFoundedInduction, TLAPS

MaybeRelease == Releases \cup {None}

Evidence == [verdict : {"none", "pass", "fail", "skipped"}, tested : MaybeRelease,
             hash : {"none", "archive", "tree"}]

Decision == [release : Releases, gate : Channels, hash : {"none", "archive", "tree"},
             status : {"pass", "fail"}, tested : MaybeRelease]

DeployRecord == [channel : Channels, artifact : MaybeRelease, decision : Nat,
                 verification : Nat,
                 state : {"authorized", "succeeded", "failed", "rolled-back"},
                 at : Nat \ {0}, version : Nat, release : MaybeRelease]

SystemState == [last : [Channels -> MaybeRelease], release : MaybeRelease]

Readying == {"ready-lock", "ready-store", "ready-mark", "ready-write"}
Holding == {"building", "ready-store", "ready-mark", "ready-write"}
Deploying == {"domain", "propagate", "fresh", "health", "gate", "write-state",
              "succeed", "fail"}
Points == {"idle", "building", "certify", "roll", "rolled"} \cup Readying \cup Deploying

Place == [at : Points, release : MaybeRelease, channel : Channels, op : Nat,
          version : Nat, stamp : Nat,
          look : Evidence \cup {None, "rolled-back", "failed"},
          seen : SystemState \cup {None}]

Types ==
  /\ releases \in [Releases -> {"absent", "prepared", "ready"}]
  /\ stored \subseteq Releases /\ lock \in Procs \cup {"free"}
  /\ decisions \in Seq(Decision)
  /\ file \in [Releases -> [Channels -> Ids(Len(decisions))]]
  /\ verified \in [Releases -> Ids(Len(decisions))]
  /\ evidence \in [Releases -> Evidence]
  /\ records \in Seq(DeployRecord)
  /\ \A i \in DOMAIN records :
       records[i].decision <= Len(decisions) /\ records[i].at <= clock
  /\ worker \in [Channels -> Seq(Nat)]
  /\ \A ch \in Channels : \A i \in DOMAIN worker[ch] : worker[ch][i] \in DOMAIN records
  /\ state \in SystemState /\ clock \in Nat
  /\ proc \in [Procs -> Place]

\* The releases are numbered without a gap.
Consecutive == \A r \in Prepared : \A s \in 1 .. r : s \in Prepared

\* What the place of a process in its command promises it.
Placed(p) ==
  LET c == proc[p] IN
  /\ c.at \in Holding => lock = p
  /\ c.at = "building" =>
       /\ c.release \in Releases /\ c.release \notin Prepared
       /\ \A s \in 1 .. c.release - 1 : s \in Prepared
  /\ c.at \in Readying \cup {"certify"} => c.release \in Prepared
  /\ c.at \in Deploying =>
       /\ c.release \in Releases /\ c.op \in DOMAIN records
       /\ records[c.op].channel = c.channel /\ records[c.op].artifact = c.release
       /\ c.stamp \in 1 .. clock
  /\ c.at = "certify" => c.look \in Evidence
  /\ c.at = "rolled" => c.look \in {"rolled-back", "failed"}
  /\ c.at \in {"ready-write", "write-state"} => c.seen \in SystemState

IInv == Types /\ Consecutive /\ \A p \in Procs : Placed(p)

\* Records and decisions stay, and a main verification once written.
Grows ==
  /\ \A i \in DOMAIN records :
       /\ i \in DOMAIN records'
       /\ records'[i].channel = records[i].channel
       /\ records'[i].artifact = records[i].artifact
       /\ records'[i].decision = records[i].decision
  /\ \A i \in DOMAIN decisions : i \in DOMAIN decisions' /\ decisions'[i] = decisions[i]
  /\ \A r \in Releases : verified[r] # None => verified'[r] # None
  /\ clock <= clock'

\* What a step of p leaves to the others.
Alone(p) ==
  /\ \A q \in Procs : q # p => proc'[q] = proc[q]
  /\ lock \in {p, "free"} \/ lock' = lock
  /\ Prepared' = Prepared \/ (lock = p /\ \A r \in Prepared : r \in Prepared')
  /\ Grows

-----------------------------------------------------------------------------
(* The helpers.                                                            *)

\* A set of numbers up to a bound that has an element has a greatest.
LEMMA GreatestIs ==
  ASSUME NEW n \in Nat, NEW S, S \subseteq 0 .. n, S # {}
  PROVE  \E m \in S : \A k \in S : k <= m
<1> DEFINE T == {n - m : m \in S}
<1>1. T # {} /\ T \subseteq Nat
  <2>1. \A m \in S : m \in 0 .. n /\ n - m \in Nat
    OBVIOUS
  <2> QED
    BY <2>1
<1>2. PICK t \in T : \A u \in T : ~(<<u, t>> \in OpToRel(<, Nat))
  BY <1>1, WFMin, NatLessThanWellFounded
<1>3. PICK m \in S : t = n - m
  BY <1>2
<1>4. ASSUME NEW k \in S PROVE k <= m
  <2>1. n - k \in T /\ n - k \in Nat /\ t \in Nat
    BY <1>1
  <2>2. ~(n - k < t)
    BY <1>2, <2>1 DEF OpToRel
  <2> QED
    BY <1>3, <2>2
<1> QED
  BY <1>3, <1>4

\* release.prepare derives a number that is a release, is free, and follows
\* the ones there are.
LEMMA NextIsFree ==
  ASSUME Types, Consecutive, Cardinality(Prepared) < LastRelease
  PROVE  /\ NextRelease \in Releases /\ NextRelease \notin Prepared
         /\ \A s \in 1 .. NextRelease - 1 : s \in Prepared
<1>1. LastRelease \in Nat /\ Prepared \subseteq Releases
  BY LeitstandAssumption DEF Prepared
<1>2. LastRelease > 0
  <2>1. IsFiniteSet(Releases)
    BY <1>1, FS_Interval DEF Releases
  <2>2. Cardinality(Prepared) \in Nat
    BY <1>1, <2>1, FS_Subset, FS_CardinalityType
  <2> QED
    BY <1>1, <2>2
<1>3. CASE Prepared = {}
  BY <1>1, <1>2, <1>3 DEF NextRelease, Releases
<1>4. CASE Prepared # {}
  <2>1. \E m \in Prepared : \A k \in Prepared : k <= m
    <3>1. Prepared \subseteq 0 .. LastRelease
      BY <1>1 DEF Releases
    <3> QED
      BY <1>1, <1>4, <3>1, GreatestIs
  <2>2. Max(Prepared) \in Prepared /\ \A k \in Prepared : Max(Prepared) >= k
    <3>1. \E m \in Prepared : \A k \in Prepared : m >= k
      BY <1>1, <2>1 DEF Releases
    <3> QED
      BY <3>1 DEF Max
  <2> DEFINE m == Max(Prepared)
  <2>3. m \in 1 .. LastRelease /\ NextRelease = m + 1
    BY <1>1, <1>4, <2>2 DEF NextRelease, Releases
  <2> HIDE DEF m
  <2>4. m # LastRelease
    <3> SUFFICES ASSUME m = LastRelease PROVE FALSE
      OBVIOUS
    <3>1. Prepared = 1 .. LastRelease
      BY <1>1, <2>2 DEF Consecutive, Releases, m
    <3>2. Cardinality(Prepared) = LastRelease
      BY <1>1, <1>2, <3>1, FS_Interval
    <3> QED
      BY <3>2, <1>1
  <2>5. m + 1 \notin Prepared
    BY <1>1, <2>2, <2>3 DEF m
  <2>6. \A s \in 1 .. m : s \in Prepared
    BY <2>2 DEF Consecutive, m
  <2> QED
    BY <1>1, <2>3, <2>4, <2>5, <2>6 DEF Releases
<1> QED
  BY <1>3, <1>4

\* Of the records there are, one is the newest.
LEMMA NewestIs ==
  ASSUME Types, NEW S, S \subseteq DOMAIN records, S # {}
  PROVE  Newest(S) \in S /\ \A j \in S : records[j].at <= records[Newest(S)].at
<1> DEFINE T == {records[i].at : i \in S}
<1>1. T # {} /\ T \subseteq 0 .. clock /\ clock \in Nat
  <2>1. \A i \in S : records[i] \in DeployRecord /\ records[i].at <= clock
    BY DEF Types
  <2>2. \A i \in S : records[i].at \in Nat /\ records[i].at <= clock
    BY <2>1 DEF DeployRecord
  <2>3. clock \in Nat
    BY DEF Types
  <2> QED
    BY <2>2, <2>3
<1>2. PICK m \in T : \A k \in T : k <= m
  BY <1>1, GreatestIs
<1>3. \E i \in S : \A j \in S : records[j].at <= records[i].at
  BY <1>2
<1> QED
  BY <1>3 DEF Newest

\* What a channel serves is a release, or nothing.
LEMMA LiveIs ==
  ASSUME Types, NEW ch \in Channels
  PROVE  Live(ch) \in MaybeRelease
<1>1. CASE worker[ch] = <<>>
  BY <1>1 DEF Live, MaybeRelease
<1>2. CASE worker[ch] # <<>>
  <2>1. worker[ch] \in Seq(Nat) /\ Len(worker[ch]) \in DOMAIN worker[ch]
    BY <1>2, LenProperties, EmptySeq DEF Types
  <2>2. Last(worker[ch]) \in DOMAIN records
    BY <2>1 DEF Types, Last
  <2>3. records[Last(worker[ch])] \in DeployRecord
    BY <2>2 DEF Types
  <2> QED
    BY <1>2, <2>3 DEF Live, DeployRecord
<1> QED
  BY <1>1, <1>2

-----------------------------------------------------------------------------
(* The steps: each keeps the types, leaves the others alone and puts its   *)
(* process where the invariant allows.                                     *)

\* What every proof of a step starts from.
LEMMA Basics ==
  /\ LastRelease \in Nat /\ None = 0
  /\ None \in MaybeRelease /\ \A r \in Releases : r \in MaybeRelease /\ r # None
  /\ "free" \notin Procs
  /\ Idle \in Place /\ None \in Nat
  /\ Prepared \subseteq Releases
BY LeitstandAssumption
   DEF MaybeRelease, Releases, None, Idle, Place, Points, Prepared, Channels

LEMMA PointsAre ==
  /\ {"idle", "building", "certify", "roll", "rolled"} \subseteq Points
  /\ Readying \subseteq Points /\ Deploying \subseteq Points
  /\ "ready-lock" \in Readying /\ "ready-store" \in Readying
  /\ "ready-mark" \in Readying /\ "ready-write" \in Readying
BY DEF Points, Readying

LEMMA InitHolds == Init => IInv
<1> SUFFICES ASSUME Init PROVE IInv
  OBVIOUS
<1>1. Types
  <2>1. decisions = <<>> /\ records = <<>> /\ \A ch \in Channels : worker[ch] = <<>>
    BY DEF Init
  <2>2. NoEvidence \in Evidence /\ NoState \in SystemState
    BY Basics DEF NoEvidence, NoState, Evidence, SystemState
  <2> QED
    BY <2>1, <2>2, Basics DEF Init, Types, Ids
<1>2. Prepared = {}
  BY DEF Init, Prepared
<1> QED
  BY <1>1, <1>2 DEF IInv, Consecutive, Placed, Init, Idle, Holding, Readying, Deploying

\* A step that keeps the types, leaves the others alone and places its own
\* process keeps the invariant.
LEMMA StepPlaces ==
  ASSUME IInv, NEW p \in Procs, Types', Alone(p), Placed(p)', Consecutive'
  PROVE  IInv'
<1> SUFFICES ASSUME NEW q \in Procs, q # p PROVE Placed(q)'
  BY DEF IInv
<1>1. Placed(q) /\ proc'[q] = proc[q]
  BY DEF IInv, Alone
<1> DEFINE c == proc[q]
<1>2. c.at \in Holding => lock' = q /\ lock # p /\ Prepared' = Prepared
  BY <1>1, Basics DEF Alone, Placed
<1>3. \A r \in Prepared : r \in Prepared'
  BY DEF Alone
<1>4. c.at = "building" => c.at \in Holding
  BY DEF Holding
<1>5. c.at = "building" => /\ c.release \in Releases /\ c.release \notin Prepared'
                            /\ \A s \in 1 .. c.release - 1 : s \in Prepared'
  BY <1>1, <1>2, <1>4 DEF Placed
<1>6. c.at \in Deploying =>
        /\ c.release \in Releases /\ c.op \in DOMAIN records'
        /\ records'[c.op].channel = c.channel /\ records'[c.op].artifact = c.release
        /\ c.stamp \in 1 .. clock'
  <2>1. clock \in Nat /\ clock' \in Nat /\ clock <= clock'
    BY DEF IInv, Types, Alone, Grows
  <2> QED
    BY <1>1, <2>1 DEF Placed, Alone, Grows
<1> QED
  BY <1>1, <1>2, <1>3, <1>5, <1>6 DEF Placed

\* The frame of a step that leaves records, decisions and clock as they are.
LEMMA NothingAdded ==
  ASSUME UNCHANGED <<decisions, verified, records, clock>>, Types
  PROVE  Grows
BY DEF Grows, Types

\* A step that only moves its process to another place.
LEMMA OnlyMoves ==
  ASSUME IInv, NEW p \in Procs, NEW c \in Place, proc' = [proc EXCEPT ![p] = c],
         UNCHANGED <<Release, Certification, Deployment, state>>, Placed(p)'
  PROVE  IInv'
<1>1. Types' /\ Consecutive' /\ Prepared' = Prepared
  BY DEF IInv, Types, Consecutive, Prepared, Release, Certification, Deployment, Ids
<1>2. Alone(p)
  BY NothingAdded, <1>1 DEF Alone, IInv, Types, Release, Certification, Deployment
<1> QED
  BY <1>1, <1>2, StepPlaces

\* Nothing is promised to a process that is idle.
LEMMA IdlePlaced ==
  ASSUME NEW p \in Procs, proc'[p].at = "idle"
  PROVE  Placed(p)'
BY DEF Placed, Holding, Readying, Deploying

\* A command that ends without writing.
LEMMA Ends ==
  ASSUME IInv, NEW p \in Procs, Done(p),
         UNCHANGED <<Release, Certification, Deployment, state>>
  PROVE  IInv'
<1>1. Idle \in Place /\ proc' = [proc EXCEPT ![p] = Idle] /\ proc'[p].at = "idle"
  BY Basics DEF Done, IInv, Types, Idle
<1> QED
  BY <1>1, IdlePlaced, OnlyMoves

LEMMA PrepareStartStep == ASSUME IInv, NEW p \in Procs, PrepareStart(p) PROVE IInv'
<1> DEFINE c == [Idle EXCEPT !.at = "building", !.release = NextRelease]
<1>1. /\ NextRelease \in Releases /\ NextRelease \notin Prepared
      /\ \A s \in 1 .. NextRelease - 1 : s \in Prepared
  BY NextIsFree DEF PrepareStart, IInv
<1>2. c \in Place /\ c.at = "building" /\ c.release = NextRelease
  <2>1. "building" \in Points /\ NextRelease \in MaybeRelease
    BY <1>1, Basics, PointsAre
  <2> QED
    BY <2>1, Basics DEF Idle, Place
<1> HIDE DEF c
<1>3. proc' = [proc EXCEPT ![p] = c] /\ lock' = p /\ lock = "free"
      /\ UNCHANGED <<releases, stored, state, Certification, Deployment>>
  BY DEF PrepareStart, c
<1>4. Types' /\ Prepared' = Prepared /\ Consecutive'
  BY <1>2, <1>3 DEF IInv, Types, Consecutive, Prepared, Certification, Deployment, Ids
<1>5. Alone(p)
  BY <1>3, <1>4, NothingAdded DEF Alone, IInv, Types, Certification, Deployment
<1>6. proc'[p] = c
  BY <1>3 DEF IInv, Types
<1>7. Placed(p)'
  BY <1>1, <1>2, <1>3, <1>4, <1>6 DEF Placed, Holding, Readying, Deploying
<1> QED
  BY <1>4, <1>5, <1>7, StepPlaces

LEMMA PrepareMoveStep == ASSUME IInv, NEW p \in Procs, PrepareMove(p) PROVE IInv'
<1> DEFINE r == proc[p].release
<1>1. /\ lock = p /\ r \in Releases /\ r \notin Prepared
      /\ \A s \in 1 .. r - 1 : s \in Prepared
  BY DEF PrepareMove, IInv, Placed, Holding
<1> HIDE DEF r
<1>2. Prepared' \in {Prepared, Prepared \cup {r}}
  BY <1>1 DEF PrepareMove, Prepared, IInv, Types, r
<1>3. Types'
  BY Basics DEF PrepareMove, Done, IInv, Types, Certification, Deployment, Ids
<1>4. Consecutive'
  BY <1>1, <1>2, Basics DEF Consecutive, IInv, Releases
<1>5. Alone(p)
  BY <1>1, <1>2, NothingAdded
     DEF Alone, PrepareMove, Done, IInv, Types, Certification, Deployment
<1>6. proc'[p].at = "idle"
  BY DEF PrepareMove, Done, IInv, Types, Idle
<1> QED
  BY <1>3, <1>4, <1>5, <1>6, IdlePlaced, StepPlaces

LEMMA ReadyStartStep == ASSUME IInv, NEW p \in Procs, ReadyStart(p) PROVE IInv'
<1>1. PICK r \in Releases : releases[r] = "prepared"
        /\ proc' = [proc EXCEPT ![p] = [Idle EXCEPT !.at = "ready-lock", !.release = r]]
  BY DEF ReadyStart
<1> DEFINE c == [Idle EXCEPT !.at = "ready-lock", !.release = r]
<1>2. c \in Place /\ c.at = "ready-lock" /\ c.release = r
  <2>1. "ready-lock" \in Points /\ r \in MaybeRelease
    BY Basics, PointsAre
  <2> QED
    BY <2>1, Basics DEF Idle, Place
<1>3. UNCHANGED <<Release, Certification, Deployment, state>>
  BY DEF ReadyStart
<1> HIDE DEF c
<1>4. proc' = [proc EXCEPT ![p] = c] /\ proc'[p] = c
  BY <1>1 DEF c, IInv, Types
<1>5. r \in Prepared'
  BY <1>1, <1>3 DEF Prepared, Release
<1>6. Placed(p)'
  BY <1>2, <1>4, <1>5 DEF Placed, Holding, Readying, Deploying
<1> QED
  BY <1>2, <1>3, <1>4, <1>6, OnlyMoves

LEMMA ReadyLockStep == ASSUME IInv, NEW p \in Procs, ReadyLock(p) PROVE IInv'
<1>1. CASE lock # "free"
  BY <1>1, Ends DEF ReadyLock, Release
<1>2. CASE lock = "free"
  <2>1. proc' = [proc EXCEPT ![p].at = "ready-store"] /\ lock' = p
        /\ UNCHANGED <<releases, stored, state, Certification, Deployment>>
    BY <1>2 DEF ReadyLock, Goto
  <2>2. proc[p].release \in Prepared
    BY DEF ReadyLock, IInv, Placed, Readying
  <2>3. Types' /\ Prepared' = Prepared /\ Consecutive'
    <3>1. proc' \in [Procs -> Place]
      <4>1. [proc[p] EXCEPT !.at = "ready-store"] \in Place
        BY PointsAre DEF IInv, Types, Place
      <4> QED
        BY <2>1, <4>1 DEF IInv, Types
    <3> QED
      BY <2>1, <3>1 DEF IInv, Types, Consecutive, Prepared, Certification, Deployment, Ids
  <2>4. Alone(p)
    BY <1>2, <2>1, <2>3, NothingAdded DEF Alone, IInv, Types, Certification, Deployment
  <2>5. Placed(p)'
    BY <2>1, <2>2, <2>3
       DEF Placed, Holding, Readying, Deploying, IInv, Types, Place
  <2> QED
    BY <2>3, <2>4, <2>5, StepPlaces
<1> QED
  BY <1>1, <1>2

LEMMA ReadyStoreStep == ASSUME IInv, NEW p \in Procs, ReadyStore(p) PROVE IInv'
<1>1. /\ proc' = [proc EXCEPT ![p].at = "ready-mark"]
      /\ stored' = stored \cup {proc[p].release}
      /\ UNCHANGED <<releases, lock, state, Certification, Deployment>>
  BY DEF ReadyStore, Goto
<1>2. proc[p].release \in Prepared /\ lock = p
  BY DEF ReadyStore, IInv, Placed, Readying, Holding
<1>3. Types' /\ Prepared' = Prepared /\ Consecutive'
  <2>1. proc' \in [Procs -> Place]
    <3>1. [proc[p] EXCEPT !.at = "ready-mark"] \in Place
      BY PointsAre DEF IInv, Types, Place
    <3> QED
      BY <1>1, <3>1 DEF IInv, Types
  <2>2. stored' \subseteq Releases
    BY <1>1, <1>2, Basics DEF IInv, Types
  <2> QED
    BY <1>1, <2>1, <2>2 DEF IInv, Types, Consecutive, Prepared, Certification,
                            Deployment, Ids
<1>4. Alone(p)
  BY <1>1, <1>2, <1>3, NothingAdded DEF Alone, IInv, Types, Certification, Deployment
<1>5. Placed(p)'
  BY <1>1, <1>2, <1>3 DEF Placed, Holding, Readying, Deploying, IInv, Types, Place
<1> QED
  BY <1>3, <1>4, <1>5, StepPlaces

LEMMA ReadyMarkStep == ASSUME IInv, NEW p \in Procs, ReadyMark(p) PROVE IInv'
<1>1. /\ proc' = [proc EXCEPT ![p].seen = state, ![p].at = "ready-write"]
      /\ releases' = [releases EXCEPT ![proc[p].release] = "ready"]
      /\ UNCHANGED <<stored, lock, state, Certification, Deployment>>
  BY DEF ReadyMark
<1>2. proc[p].release \in Prepared /\ lock = p
  BY DEF ReadyMark, IInv, Placed, Readying, Holding
<1>3. Prepared' = Prepared
  BY <1>1, <1>2 DEF Prepared, IInv, Types
<1>4. Types' /\ Consecutive'
  <2>1. proc' \in [Procs -> Place]
    <3> DEFINE c == [proc[p] EXCEPT !.seen = state, !.at = "ready-write"]
    <3>1. c \in Place
      <4>1. proc[p] \in Place /\ state \in SystemState
        BY DEF IInv, Types
      <4> QED
        BY <4>1, PointsAre DEF Place
    <3>2. proc' = [proc EXCEPT ![p] = c]
      BY <1>1 DEF IInv, Types
    <3> QED
      BY <3>1, <3>2 DEF IInv, Types
  <2>2. releases' \in [Releases -> {"absent", "prepared", "ready"}]
    BY <1>1 DEF IInv, Types
  <2> QED
    BY <1>1, <1>3, <2>1, <2>2 DEF IInv, Types, Consecutive, Certification,
                                  Deployment, Ids
<1>5. Alone(p)
  BY <1>1, <1>2, <1>3, NothingAdded DEF Alone, IInv, Types, Certification, Deployment
<1>6. Placed(p)'
  BY <1>1, <1>2, <1>3 DEF Placed, Holding, Readying, Deploying, IInv, Types, Place
<1> QED
  BY <1>3, <1>4, <1>5, <1>6, StepPlaces

LEMMA ReadyWriteStateStep == ASSUME IInv, NEW p \in Procs, ReadyWriteState(p) PROVE IInv'
<1>1. /\ proc' = [proc EXCEPT ![p] = Idle] /\ lock' = "free"
      /\ state' = [proc[p].seen EXCEPT !.release = proc[p].release]
      /\ UNCHANGED <<releases, stored, Certification, Deployment>>
  BY DEF ReadyWriteState, Done
<1>2. /\ proc[p].release \in MaybeRelease /\ lock = p
      /\ proc[p].seen \in SystemState
  BY DEF ReadyWriteState, IInv, Placed, Readying, Holding, Types, Place
<1>3. state' \in SystemState
  BY <1>1, <1>2 DEF SystemState
<1>4. Types' /\ Prepared' = Prepared /\ Consecutive'
  BY <1>1, <1>3, Basics DEF IInv, Types, Consecutive, Prepared, Certification,
                            Deployment, Ids
<1>5. Alone(p)
  BY <1>1, <1>2, <1>4, NothingAdded DEF Alone, IInv, Types, Certification, Deployment
<1>6. proc'[p].at = "idle"
  BY <1>1 DEF IInv, Types, Idle
<1> QED
  BY <1>4, <1>5, <1>6, IdlePlaced, StepPlaces

LEMMA CertifyStartStep == ASSUME IInv, NEW p \in Procs, CertifyStart(p) PROVE IInv'
<1>1. PICK r \in Prepared, gate \in Channels :
        \E e \in Checked(r) \cup (IF Reusable(r) THEN {evidence[r]} ELSE {}) :
          proc' = [proc EXCEPT ![p] = [Idle EXCEPT !.at = "certify", !.release = r,
                     !.channel = gate, !.look = e]]
  BY DEF CertifyStart
<1>2. PICK e \in Checked(r) \cup (IF Reusable(r) THEN {evidence[r]} ELSE {}) :
        proc' = [proc EXCEPT ![p] = [Idle EXCEPT !.at = "certify", !.release = r,
                   !.channel = gate, !.look = e]]
  BY <1>1
<1>3. r \in Releases /\ evidence[r] \in Evidence
  BY Basics DEF IInv, Types
<1>4. Live("dev") \in MaybeRelease
  BY LiveIs DEF IInv, Channels
<1>5. ASSUME NEW d \in Checked(r) PROVE d \in Evidence
  <2>1. PICK v \in {"skipped", "pass", "fail"} :
          d = [verdict |-> v, tested |-> IF DevHasUrl THEN Live("dev") ELSE None,
               hash |-> ArtifactHash(r)]
    BY DEF Checked
  <2>2. ArtifactHash(r) \in {"archive", "tree"}
    BY DEF ArtifactHash
  <2>3. (IF DevHasUrl THEN Live("dev") ELSE None) \in MaybeRelease
    BY <1>4, Basics
  <2> QED
    BY <2>1, <2>2, <2>3 DEF Evidence
<1>6. e \in Evidence
  BY <1>3, <1>5
<1> DEFINE c == [Idle EXCEPT !.at = "certify", !.release = r, !.channel = gate, !.look = e]
<1>7. c \in Place /\ c.at = "certify" /\ c.release = r /\ c.look = e
  <2>1. "certify" \in Points /\ r \in MaybeRelease
    BY <1>3, Basics, PointsAre
  <2> QED
    BY <1>6, <2>1, Basics DEF Idle, Place
<1> HIDE DEF c
<1>8. proc' = [proc EXCEPT ![p] = c] /\ proc'[p] = c
  BY <1>2 DEF c, IInv, Types
<1>9. UNCHANGED <<Release, Certification, Deployment, state>> /\ Prepared' = Prepared
  BY DEF CertifyStart, Prepared, Release
<1>10. Placed(p)'
  BY <1>6, <1>7, <1>8, <1>9 DEF Placed, Holding, Readying, Deploying
<1> QED
  BY <1>7, <1>8, <1>9, <1>10, OnlyMoves

\* What a certification writes.
LEMMA CertifyWrites ==
  ASSUME IInv, NEW p \in Procs, CertifyDecide(p)
  PROVE  /\ proc[p].release \in Releases /\ proc[p].channel \in Channels
         /\ proc[p].look \in Evidence
         /\ \E new \in Decision :
              /\ new.release = proc[p].release /\ new.gate = proc[p].channel
              /\ decisions' = Append(decisions, new)
<1>1. /\ proc[p].release \in Releases /\ proc[p].channel \in Channels
      /\ proc[p].look \in Evidence
  BY Basics DEF CertifyDecide, IInv, Placed, Types, Place
<1> DEFINE new == [release |-> proc[p].release, gate |-> proc[p].channel,
                   hash |-> proc[p].look.hash, status |-> StatusOf(proc[p].look),
                   tested |-> proc[p].look.tested]
<1>2. new \in Decision /\ new.release = proc[p].release /\ new.gate = proc[p].channel
  BY <1>1 DEF Decision, Evidence, StatusOf
<1>3. decisions' = Append(decisions, new)
  BY DEF CertifyDecide
<1> QED
  BY <1>1, <1>2, <1>3

LEMMA CertifyDecideStep == ASSUME IInv, NEW p \in Procs, CertifyDecide(p) PROVE IInv'
<1> DEFINE r == proc[p].release
           d == Len(decisions) + 1
<1>1. PICK new \in Decision :
        /\ new.release = proc[p].release /\ new.gate = proc[p].channel
        /\ decisions' = Append(decisions, new)
  BY CertifyWrites
<1>2. r \in Releases /\ proc[p].channel \in Channels /\ proc[p].look \in Evidence
  BY CertifyWrites
<1>3. /\ decisions' \in Seq(Decision) /\ Len(decisions') = d /\ d \in Nat
      /\ \A i \in DOMAIN decisions : i \in DOMAIN decisions' /\ decisions'[i] = decisions[i]
  BY <1>1 DEF IInv, Types
<1>4. /\ file' = [file EXCEPT ![r][proc[p].channel] = d]
      /\ verified' \in {verified, [verified EXCEPT ![r] = d]}
      /\ evidence' = [evidence EXCEPT ![r] = proc[p].look]
      /\ proc' = [proc EXCEPT ![p] = Idle]
      /\ UNCHANGED <<Release, state, Deployment>>
  BY DEF CertifyDecide, Done
<1> HIDE DEF r, d
<1>5. Ids(Len(decisions)) \subseteq Ids(Len(decisions')) /\ d \in Ids(Len(decisions'))
  BY <1>3 DEF IInv, Types, Ids, d
<1>6. /\ file' \in [Releases -> [Channels -> Ids(Len(decisions'))]]
      /\ verified' \in [Releases -> Ids(Len(decisions'))]
      /\ evidence' \in [Releases -> Evidence]
  <2>1. file \in [Releases -> [Channels -> Ids(Len(decisions'))]]
    BY <1>5 DEF IInv, Types
  <2>2. verified \in [Releases -> Ids(Len(decisions'))]
    BY <1>5 DEF IInv, Types
  <2> QED
    BY <1>2, <1>4, <1>5, <2>1, <2>2 DEF IInv, Types
<1>7. Types' /\ Prepared' = Prepared /\ Consecutive'
  <2>1. proc' \in [Procs -> Place]
    BY <1>4, Basics DEF IInv, Types
  <2>2. \A i \in DOMAIN records : records[i].decision <= Len(decisions')
    <3>1. \A i \in DOMAIN records : records[i].decision \in Nat
      <4>1. \A i \in DOMAIN records : records[i] \in DeployRecord
        BY DEF IInv, Types
      <4> QED
        BY <4>1 DEF DeployRecord
    <3> QED
      BY <1>3, <3>1 DEF IInv, Types, d
  <2> QED
    BY <1>3, <1>4, <1>6, <2>1, <2>2
       DEF IInv, Types, Consecutive, Prepared, Release, Deployment
<1>8. Alone(p)
  <2>1. \A q \in Releases : verified[q] # None => verified'[q] # None
    BY <1>2, <1>3, <1>4, Basics DEF IInv, Types, d
  <2> QED
    BY <1>3, <1>4, <1>7, <2>1 DEF Alone, Grows, IInv, Types, Release, Deployment
<1>9. proc'[p].at = "idle"
  BY <1>4 DEF IInv, Types, Idle
<1> QED
  BY <1>7, <1>8, <1>9, IdlePlaced, StepPlaces

\* What a place of a deployment promises holds as long as the command goes on
\* with the same operation.
LEMMA DeployGoesOn ==
  ASSUME IInv, NEW p \in Procs, proc[p].at \in Deploying,
         UNCHANGED <<Release, Certification, Deployment, state>>,
         NEW c \in Place, proc' = [proc EXCEPT ![p] = c],
         c.at \in Deploying, c.release = proc[p].release, c.channel = proc[p].channel,
         c.op = proc[p].op, c.stamp = proc[p].stamp,
         c.at = "write-state" => c.seen \in SystemState
  PROVE  IInv'
<1>1. Placed(p) /\ proc'[p] = c
  BY DEF IInv, Types
<1>2. /\ c.at \notin Holding /\ c.at \notin Readying \cup {"certify"}
      /\ c.at # "rolled" /\ c.at # "ready-write"
  BY DEF Deploying, Holding, Readying
<1>3. Placed(p)'
  BY <1>1, <1>2 DEF Placed, Deployment, Holding
<1> QED
  BY <1>3, OnlyMoves

\* The same, for a step that only names the next point.
LEMMA DeployGoto ==
  ASSUME IInv, NEW p \in Procs, proc[p].at \in Deploying,
         UNCHANGED <<Release, Certification, Deployment, state>>,
         NEW at \in Deploying \ {"write-state"}, Goto(p, at)
  PROVE  IInv'
<1> DEFINE c == [proc[p] EXCEPT !.at = at]
<1>1. proc[p] \in Place
  BY DEF IInv, Types
<1>2. c \in Place /\ c.at = at /\ c.release = proc[p].release
      /\ c.channel = proc[p].channel /\ c.op = proc[p].op /\ c.stamp = proc[p].stamp
  BY <1>1 DEF Place, Points
<1>3. proc' = [proc EXCEPT ![p] = c]
  BY DEF Goto, IInv, Types
<1> HIDE DEF c
<1> QED
  BY <1>2, <1>3, DeployGoesOn

\* The places of a deployment that begins, and of one that takes a new stamp.
Begin(r, ch, op, stamp, first) ==
  [Idle EXCEPT !.release = r, !.channel = ch, !.op = op, !.stamp = stamp, !.at = first]

Restamp(c, at, stamp) == [c EXCEPT !.at = at, !.stamp = stamp]

LEMMA Begun ==
  ASSUME NEW r \in MaybeRelease, NEW ch \in Channels, NEW op \in Nat, NEW stamp \in Nat,
         NEW first \in Deploying
  PROVE  LET c == Begin(r, ch, op, stamp, first)
         IN  c \in Place /\ c.at = first /\ c.release = r /\ c.channel = ch
             /\ c.op = op /\ c.stamp = stamp
BY Basics DEF Place, Points, Idle, Begin

LEMMA Restamped ==
  ASSUME NEW b \in Place, NEW at \in Deploying, NEW stamp \in Nat
  PROVE  LET c == Restamp(b, at, stamp)
         IN  c \in Place /\ c.at = at /\ c.release = b.release /\ c.channel = b.channel
             /\ c.op = b.op /\ c.stamp = stamp
BY DEF Place, Points, Restamp

LEMMA DeployStartStep ==
  ASSUME IInv, NEW p \in Procs, NEW r \in Prepared, NEW ch \in Channels,
         NEW d \in Ids(Len(decisions)), NEW first \in {"domain", "propagate"},
         DeployStart(p, r, ch, d, first)
  PROVE  IInv'
<1> DEFINE mv == IF ch = "main" THEN verified[r] ELSE None
           new == Record(ch, r, d, mv, "authorized", clock + 1, None, None)
           c == Begin(r, ch, Len(records) + 1, clock + 1, first)
<1>1. r \in Releases /\ clock \in Nat /\ Len(records) \in Nat /\ Len(decisions) \in Nat
  BY Basics DEF IInv, Types
<1>2. mv \in Nat /\ d \in Nat /\ d <= Len(decisions)
  BY <1>1, Basics DEF IInv, Types, Ids
<1>3. new \in DeployRecord /\ new.decision = d /\ new.at = clock + 1
      /\ new.channel = ch /\ new.artifact = r
  BY <1>1, <1>2, Basics DEF DeployRecord, Record
<1>4. /\ c \in Place /\ c.at = first /\ c.release = r /\ c.channel = ch
      /\ c.op = Len(records) + 1 /\ c.stamp = clock + 1
  <2>1. clock + 1 \in Nat /\ Len(records) + 1 \in Nat /\ first \in Deploying
    BY <1>1 DEF Deploying
  <2>2. r \in MaybeRelease
    BY <1>1, Basics
  <2> QED
    BY <2>1, <2>2, Begun
<1>5. /\ records' = Append(records, new) /\ clock' = clock + 1
      /\ proc' = [proc EXCEPT ![p] = c]
      /\ UNCHANGED <<Release, state, Certification, worker>>
  BY DEF DeployStart, Begin
<1> HIDE DEF new, c, mv
<1>6. /\ records' \in Seq(DeployRecord) /\ Len(records') = Len(records) + 1
      /\ \A i \in DOMAIN records : i \in DOMAIN records' /\ records'[i] = records[i]
      /\ records'[Len(records) + 1] = new /\ Len(records) + 1 \in DOMAIN records'
      /\ \A i \in DOMAIN records' : i \in DOMAIN records \/ i = Len(records) + 1
  BY <1>3, <1>5 DEF IInv, Types
<1>7. \A i \in DOMAIN records' :
        records'[i].decision <= Len(decisions) /\ records'[i].at <= clock'
  <2>1. \A i \in DOMAIN records : records[i].at \in Nat
    <3>1. \A i \in DOMAIN records : records[i] \in DeployRecord
      BY DEF IInv, Types
    <3> QED
      BY <3>1 DEF DeployRecord
  <2>2. \A i \in DOMAIN records :
          records[i].decision <= Len(decisions) /\ records[i].at <= clock
    BY DEF IInv, Types
  <2> QED
    BY <1>1, <1>2, <1>3, <1>5, <1>6, <2>1, <2>2
<1>8. Types' /\ Prepared' = Prepared /\ Consecutive'
  <2>1. proc' \in [Procs -> Place]
    BY <1>4, <1>5 DEF IInv, Types
  <2> QED
    BY <1>1, <1>5, <1>6, <1>7, <2>1
       DEF IInv, Types, Consecutive, Prepared, Release, Certification
<1>9. Alone(p)
  BY <1>1, <1>5, <1>6, <1>8 DEF Alone, Grows, IInv, Types, Release, Certification
<1>10. Placed(p)'
  <2>1. proc'[p] = c
    BY <1>5 DEF IInv, Types
  <2>2. c.stamp \in 1 .. clock'
    BY <1>1, <1>4, <1>5
  <2> QED
    BY <1>1, <1>3, <1>4, <1>6, <2>1, <2>2 DEF Placed, Holding, Readying, Deploying
<1> QED
  BY <1>8, <1>9, <1>10, StepPlaces

\* The decision a deployment names is one that was made, or none.
LEMMA NamedDecisions ==
  ASSUME IInv, NEW r \in Prepared, NEW ch \in Channels
  PROVE  DecisionsFor(r, ch) \subseteq Ids(Len(decisions))
<1>1. file[r][ch] \in Ids(Len(decisions))
  BY Basics DEF IInv, Types
<1>2. DOMAIN decisions \subseteq Ids(Len(decisions))
  BY DEF IInv, Types, Ids
<1> QED
  BY <1>1, <1>2 DEF DecisionsFor

LEMMA StartSteps ==
  ASSUME IInv, NEW p \in Procs,
         RunLeitstandDevDeploy(p) \/ RunLeitstandPropagate(p) \/ RunLeitstandPromote(p)
  PROVE  IInv'
<1>1. CASE RunLeitstandDevDeploy(p)
  BY <1>1, DeployStartStep, NamedDecisions DEF RunLeitstandDevDeploy, Channels
<1>2. CASE RunLeitstandPropagate(p)
  BY <1>2, DeployStartStep, NamedDecisions DEF RunLeitstandPropagate, Channels
<1>3. CASE RunLeitstandPromote(p)
  BY <1>3, DeployStartStep, NamedDecisions DEF RunLeitstandPromote, Channels
<1> QED
  BY <1>1, <1>2, <1>3

LEMMA DeployDomainStep == ASSUME IInv, NEW p \in Procs, DeployDomain(p) PROVE IInv'
<1>1. CASE Done(p) /\ UNCHANGED clock
  BY <1>1, Ends DEF DeployDomain, Deployment
<1>2. CASE /\ clock' = clock + 1
           /\ proc' = [proc EXCEPT ![p].at = "propagate", ![p].stamp = clock + 1]
  <2> DEFINE c == Restamp(proc[p], "propagate", clock + 1)
  <2>1. clock \in Nat /\ proc[p] \in Place /\ proc[p].at \in Deploying
    BY DEF IInv, Types, DeployDomain, Deploying
  <2>2. /\ c \in Place /\ c.at = "propagate" /\ c.release = proc[p].release
        /\ c.channel = proc[p].channel /\ c.op = proc[p].op /\ c.stamp = clock + 1
    <3>1. clock + 1 \in Nat /\ "propagate" \in Deploying
      BY <2>1 DEF Deploying
    <3> QED
      BY <2>1, <3>1, Restamped
  <2>3. /\ proc' = [proc EXCEPT ![p] = c] /\ proc'[p] = c
        /\ UNCHANGED <<Release, state, Certification, records, worker>>
    BY <1>2 DEF DeployDomain, IInv, Types, Restamp
  <2> HIDE DEF c
  <2>4. \A i \in DOMAIN records : records[i].at <= clock'
    <3>1. \A i \in DOMAIN records : records[i] \in DeployRecord /\ records[i].at <= clock
      BY DEF IInv, Types
    <3>2. \A i \in DOMAIN records : records[i].at \in Nat
      BY <3>1 DEF DeployRecord
    <3> QED
      BY <1>2, <2>1, <3>1, <3>2
  <2>5. Types' /\ Prepared' = Prepared /\ Consecutive'
    BY <1>2, <2>1, <2>2, <2>3, <2>4
       DEF IInv, Types, Consecutive, Prepared, Release, Certification, Ids
  <2>6. Alone(p)
    BY <1>2, <2>1, <2>3, <2>5 DEF Alone, Grows, IInv, Types, Release, Certification
  <2>7. Placed(p)'
    BY <1>2, <2>1, <2>2, <2>3 DEF IInv, Placed, Holding, Readying, Deploying
  <2> QED
    BY <2>5, <2>6, <2>7, StepPlaces
<1> QED
  BY <1>1, <1>2 DEF DeployDomain

\* A version of a recorded operation goes live.
LEMMA MadeLive ==
  ASSUME Types, NEW ch \in Channels, NEW v \in DOMAIN records,
         worker' = worker \/ worker' = [worker EXCEPT ![ch] = Append(@, v)]
  PROVE  /\ worker' \in [Channels -> Seq(Nat)]
         /\ \A x \in Channels : \A i \in DOMAIN worker'[x] : worker'[x][i] \in DOMAIN records
<1>1. CASE worker' = worker
  BY <1>1 DEF Types
<1>2. CASE worker' = [worker EXCEPT ![ch] = Append(@, v)]
  <2>1. worker[ch] \in Seq(Nat) /\ v \in Nat
    BY DEF Types
  <2>2. /\ Append(worker[ch], v) \in Seq(Nat)
        /\ \A i \in DOMAIN Append(worker[ch], v) :
             \/ Append(worker[ch], v)[i] = v
             \/ i \in DOMAIN worker[ch] /\ Append(worker[ch], v)[i] = worker[ch][i]
    BY <2>1
  <2>3. worker'[ch] = Append(worker[ch], v) /\ \A x \in Channels : x # ch => worker'[x] = worker[x]
    BY <1>2 DEF Types
  <2>4. worker' \in [Channels -> Seq(Nat)]
    BY <1>2, <2>2 DEF Types
  <2> QED
    BY <2>2, <2>3, <2>4 DEF Types
<1> QED
  BY <1>1, <1>2

LEMMA DeployPropagateStep == ASSUME IInv, NEW p \in Procs, DeployPropagate(p) PROVE IInv'
<1> DEFINE ch == proc[p].channel
           op == proc[p].op
           next == IF ch = "dev" THEN "health" ELSE "fresh"
<1>1. /\ proc[p] \in Place /\ proc[p].at = "propagate" /\ proc[p].at \in Deploying
      /\ ch \in Channels /\ op \in DOMAIN records /\ op \in Nat
      /\ next \in Deploying \ {"write-state"}
  BY DEF DeployPropagate, IInv, Types, Placed, Deploying, Place
<1>2. CASE UNCHANGED worker /\ Goto(p, "fail")
  BY <1>1, <1>2, DeployGoto DEF DeployPropagate, Deployment, Deploying
<1>3. CASE \E w \in WranglerDeploys :
             /\ worker' = IF w.uploaded THEN [worker EXCEPT ![ch] = Append(@, op)] ELSE worker
             /\ proc' = [proc EXCEPT ![p].at = next,
                                     ![p].version = IF w.exit = 0 THEN op ELSE None]
  <2>1. PICK w \in WranglerDeploys :
             /\ worker' = IF w.uploaded THEN [worker EXCEPT ![ch] = Append(@, op)] ELSE worker
             /\ proc' = [proc EXCEPT ![p].at = next,
                                     ![p].version = IF w.exit = 0 THEN op ELSE None]
    BY <1>3
  <2> DEFINE v == IF w.exit = 0 THEN op ELSE None
             c == [proc[p] EXCEPT !.at = next, !.version = v]
  <2>2. v \in Nat
    BY <1>1, Basics
  <2> HIDE DEF v
  <2>3. /\ c \in Place /\ c.at = next /\ c.release = proc[p].release
        /\ c.channel = proc[p].channel /\ c.op = proc[p].op /\ c.stamp = proc[p].stamp
    BY <1>1, <2>2 DEF Place, Points
  <2>4. /\ proc' = [proc EXCEPT ![p] = c] /\ proc'[p] = c
        /\ UNCHANGED <<Release, state, Certification, records, clock>>
    BY <2>1 DEF DeployPropagate, IInv, Types, v
  <2> HIDE DEF c, ch, op, next
  <2>5. worker' = worker \/ worker' = [worker EXCEPT ![ch] = Append(@, op)]
    BY <2>1
  <2>6. /\ worker' \in [Channels -> Seq(Nat)]
        /\ \A x \in Channels : \A i \in DOMAIN worker'[x] : worker'[x][i] \in DOMAIN records
    BY <1>1, <2>5, MadeLive DEF IInv
  <2>7. Types' /\ Prepared' = Prepared /\ Consecutive'
    BY <2>3, <2>4, <2>6
       DEF IInv, Types, Consecutive, Prepared, Release, Certification, Ids
  <2>8. Alone(p)
    BY <2>4, <2>7, NothingAdded DEF Alone, IInv, Types, Release, Certification
  <2>9. Placed(p)'
    BY <1>1, <2>3, <2>4 DEF IInv, Placed, Holding, Readying, Deploying
  <2> QED
    BY <2>7, <2>8, <2>9, StepPlaces
<1> QED
  BY <1>2, <1>3 DEF DeployPropagate

LEMMA DeployFreshStep == ASSUME IInv, NEW p \in Procs, DeployFresh(p) PROVE IInv'
BY DeployGoto DEF DeployFresh, Deploying

LEMMA DeployHealthStep == ASSUME IInv, NEW p \in Procs, DeployHealth(p) PROVE IInv'
BY DeployGoto DEF DeployHealth, Deploying

LEMMA DeployGateStep == ASSUME IInv, NEW p \in Procs, DeployGate(p) PROVE IInv'
<1>1. PICK ok \in GateVerdicts(p) :
        proc' = [proc EXCEPT ![p].at = IF ok THEN "write-state" ELSE "fail",
                             ![p].seen = IF ok THEN state ELSE None]
  BY DEF DeployGate
<1> DEFINE at == IF ok THEN "write-state" ELSE "fail"
           seen == IF ok THEN state ELSE None
           c == [proc[p] EXCEPT !.at = at, !.seen = seen]
<1>2. /\ proc[p] \in Place /\ state \in SystemState /\ proc[p].at \in Deploying
      /\ at \in Deploying
      /\ seen \in SystemState \cup {None} /\ (at = "write-state" => seen \in SystemState)
  BY DEF DeployGate, IInv, Types, Deploying
<1>3. proc' = [proc EXCEPT ![p] = c]
  BY <1>1 DEF IInv, Types
<1> HIDE DEF at, seen
<1>4. /\ c \in Place /\ c.at = at /\ c.seen = seen /\ c.release = proc[p].release
      /\ c.channel = proc[p].channel /\ c.op = proc[p].op /\ c.stamp = proc[p].stamp
  BY <1>2 DEF Place, Points
<1> HIDE DEF c
<1> QED
  BY <1>2, <1>3, <1>4, DeployGoesOn DEF DeployGate

LEMMA DeployWriteStateStep ==
  ASSUME IInv, NEW p \in Procs, DeployWriteState(p) PROVE IInv'
<1> DEFINE c == [proc[p] EXCEPT !.at = "succeed", !.seen = None]
<1>1. /\ proc[p] \in Place /\ proc[p].at \in Deploying /\ proc[p].seen \in SystemState
      /\ proc[p].channel \in Channels /\ proc[p].release \in MaybeRelease
  BY DEF DeployWriteState, IInv, Types, Placed, Deploying, Place
<1>2. /\ c \in Place /\ c.at = "succeed" /\ c.release = proc[p].release
      /\ c.channel = proc[p].channel /\ c.op = proc[p].op /\ c.stamp = proc[p].stamp
  BY <1>1 DEF Place, Points, Deploying
<1>3. /\ proc' = [proc EXCEPT ![p] = c] /\ proc'[p] = c
      /\ state' = [proc[p].seen EXCEPT !.last[proc[p].channel] = proc[p].release]
      /\ UNCHANGED <<Release, Certification, Deployment>>
  BY DEF DeployWriteState, IInv, Types
<1> HIDE DEF c
<1>4. state' \in SystemState
  BY <1>1, <1>3 DEF SystemState
<1>5. Types' /\ Prepared' = Prepared /\ Consecutive'
  BY <1>2, <1>3, <1>4
     DEF IInv, Types, Consecutive, Prepared, Release, Certification, Deployment, Ids
<1>6. Alone(p)
  BY <1>3, <1>5, NothingAdded DEF Alone, IInv, Types, Release, Certification, Deployment
<1>7. Placed(p)'
  BY <1>1, <1>2, <1>3 DEF IInv, Placed, Holding, Readying, Deploying, Deployment
<1> QED
  BY <1>5, <1>6, <1>7, StepPlaces

\* The final record takes the place of the first one.
LEMMA ConcludeStep ==
  ASSUME IInv, NEW p \in Procs, NEW st \in {"succeeded", "failed"}, NEW v \in Nat,
         NEW rel \in MaybeRelease, proc[p].at \in Deploying, Conclude(p, st, v, rel)
  PROVE  IInv'
<1> DEFINE op == proc[p].op
           old == records[op]
           new == Record(old.channel, old.artifact, old.decision, None, st,
                         proc[p].stamp, v, rel)
<1>1. op \in DOMAIN records /\ proc[p].stamp \in 1 .. clock /\ clock \in Nat
  BY DEF IInv, Placed, Types
<1>2. old \in DeployRecord /\ old.decision <= Len(decisions)
  BY <1>1 DEF IInv, Types
<1>3. new \in DeployRecord /\ new.channel = old.channel /\ new.artifact = old.artifact
      /\ new.decision = old.decision /\ new.at = proc[p].stamp
  BY <1>1, <1>2, Basics DEF DeployRecord, Record
<1>4. /\ records' = [records EXCEPT ![op] = new] /\ proc' = [proc EXCEPT ![p] = Idle]
      /\ UNCHANGED <<Release, state, Certification, worker, clock>>
  BY DEF Conclude, Done
<1> HIDE DEF new, old, op
<1>5. /\ records' \in Seq(DeployRecord) /\ DOMAIN records' = DOMAIN records
      /\ records'[op] = new
      /\ \A i \in DOMAIN records : i # op => records'[i] = records[i]
  BY <1>1, <1>3, <1>4 DEF IInv, Types
<1>6. \A i \in DOMAIN records' :
        records'[i].decision <= Len(decisions) /\ records'[i].at <= clock
  <2>1. \A i \in DOMAIN records :
          records[i].decision <= Len(decisions) /\ records[i].at <= clock
    BY DEF IInv, Types
  <2>2. new.decision <= Len(decisions) /\ new.at <= clock
    BY <1>1, <1>2, <1>3
  <2> QED
    BY <1>5, <2>1, <2>2
<1>7. Types' /\ Prepared' = Prepared /\ Consecutive'
  BY <1>4, <1>5, <1>6, Basics
     DEF IInv, Types, Consecutive, Prepared, Release, Certification, Ids
<1>8. Alone(p)
  BY <1>1, <1>3, <1>4, <1>5, <1>7
     DEF Alone, Grows, IInv, Types, Release, Certification, old
<1>9. proc'[p].at = "idle"
  BY <1>4 DEF IInv, Types, Idle
<1> QED
  BY <1>7, <1>8, <1>9, IdlePlaced, StepPlaces

LEMMA DeployEnds ==
  ASSUME IInv, NEW p \in Procs, DeploySucceed(p) \/ DeployFail(p) PROVE IInv'
<1>1. proc[p].version \in Nat /\ proc[p].release \in MaybeRelease
  BY DEF IInv, Types, Place
<1>2. CASE DeploySucceed(p)
  BY <1>1, <1>2, ConcludeStep DEF DeploySucceed, Deploying
<1>3. CASE DeployFail(p)
  BY <1>3, Basics, ConcludeStep DEF DeployFail, Deploying
<1> QED
  BY <1>2, <1>3

LEMMA RollbackStartStep == ASSUME IInv, NEW p \in Procs, RollbackStart(p) PROVE IInv'
<1>1. PICK ch \in Channels, r \in Releases \cup {None} :
        proc' = [proc EXCEPT ![p] = [Idle EXCEPT !.at = "roll", !.channel = ch,
         !.version = IF RollbackRecords(r) = {} THEN None
                     ELSE records[Newest(RollbackRecords(r))].version,
         !.release = IF RollbackRecords(r) = {} THEN None ELSE r]]
  BY DEF RollbackStart
<1> DEFINE v == IF RollbackRecords(r) = {} THEN None
                ELSE records[Newest(RollbackRecords(r))].version
           to == IF RollbackRecords(r) = {} THEN None ELSE r
           c == [Idle EXCEPT !.at = "roll", !.channel = ch, !.version = v, !.release = to]
<1>2. v \in Nat
  <2>1. CASE RollbackRecords(r) = {}
    BY <2>1, Basics
  <2>2. CASE RollbackRecords(r) # {}
    <3>1. RollbackRecords(r) \subseteq DOMAIN records
      BY DEF RollbackRecords
    <3>2. Newest(RollbackRecords(r)) \in DOMAIN records
      BY <2>2, <3>1, NewestIs DEF IInv
    <3>3. records[Newest(RollbackRecords(r))] \in DeployRecord
      BY <3>2 DEF IInv, Types
    <3> QED
      BY <2>2, <3>3 DEF DeployRecord
  <2> QED
    BY <2>1, <2>2
<1>3. to \in MaybeRelease
  BY Basics DEF MaybeRelease
<1>4. proc' = [proc EXCEPT ![p] = c]
  BY <1>1
<1> HIDE DEF v, to
<1>5. c \in Place /\ c.at = "roll"
  BY <1>2, <1>3, Basics DEF Place, Points, Idle
<1> HIDE DEF c
<1>6. Placed(p)'
  BY <1>4, <1>5 DEF IInv, Types, Placed, Holding, Readying, Deploying
<1> QED
  BY <1>4, <1>5, <1>6, OnlyMoves DEF RollbackStart

\* What a rollback makes live was live on the channel before.
LEMMA TargetsWereLive ==
  ASSUME Types, NEW ch \in Channels, NEW v, NEW x \in RollbackTargets(ch, v)
  PROVE  \E i \in DOMAIN worker[ch] : x = worker[ch][i]
BY DEF RollbackTargets, ToSet

LEMMA RollbackWranglerStep ==
  ASSUME IInv, NEW p \in Procs, RollbackWrangler(p) PROVE IInv'
<1> DEFINE ch == proc[p].channel
           T == RollbackTargets(ch, proc[p].version)
<1>1. proc[p] \in Place /\ ch \in Channels
  BY DEF IInv, Types, Place
<1>2. PICK look \in {"rolled-back", "failed"} :
        proc' = [proc EXCEPT ![p].at = "rolled", ![p].look = look]
  BY DEF RollbackWrangler
<1>3. worker' = worker \/ \E v \in T : worker' = [worker EXCEPT ![ch] = Append(@, v)]
  BY DEF RollbackWrangler
<1>4. UNCHANGED <<Release, state, Certification, records, clock>>
  BY DEF RollbackWrangler
<1> DEFINE c == [proc[p] EXCEPT !.at = "rolled", !.look = look]
<1>5. c \in Place /\ c.at = "rolled" /\ c.look = look
  BY <1>1 DEF Place, Points
<1>6. proc' = [proc EXCEPT ![p] = c] /\ proc'[p] = c
  BY <1>2 DEF IInv, Types
<1> HIDE DEF c, T, ch
<1>7. /\ worker' \in [Channels -> Seq(Nat)]
      /\ \A x \in Channels : \A i \in DOMAIN worker'[x] : worker'[x][i] \in DOMAIN records
  <2>1. CASE worker' = worker
    BY <2>1 DEF IInv, Types
  <2>2. ASSUME NEW v \in T, worker' = [worker EXCEPT ![ch] = Append(@, v)]
        PROVE  /\ worker' \in [Channels -> Seq(Nat)]
               /\ \A x \in Channels :
                    \A i \in DOMAIN worker'[x] : worker'[x][i] \in DOMAIN records
    <3>1. v \in DOMAIN records
      BY <1>1, TargetsWereLive DEF T, IInv, Types
    <3> QED
      BY <1>1, <2>2, <3>1, MadeLive DEF IInv
  <2> QED
    BY <1>3, <2>1, <2>2
<1>8. Types' /\ Prepared' = Prepared /\ Consecutive'
  BY <1>4, <1>5, <1>6, <1>7
     DEF IInv, Types, Consecutive, Prepared, Release, Certification, Ids
<1>9. Alone(p)
  BY <1>4, <1>6, <1>8, NothingAdded DEF Alone, IInv, Types, Release, Certification
<1>10. Placed(p)'
  BY <1>5, <1>6 DEF Placed, Holding, Readying, Deploying
<1> QED
  BY <1>8, <1>9, <1>10, StepPlaces

LEMMA RollbackRecordStep ==
  ASSUME IInv, NEW p \in Procs, RollbackRecord(p) PROVE IInv'
<1> DEFINE new == Record(proc[p].channel, None, None, None, proc[p].look, clock + 1,
                         proc[p].version, proc[p].release)
<1>1. /\ clock \in Nat /\ Len(records) \in Nat /\ Len(decisions) \in Nat
      /\ proc[p] \in Place /\ proc[p].look \in {"rolled-back", "failed"}
  BY DEF IInv, Types, Placed, RollbackRecord
<1>2. clock + 1 \in Nat \ {0}
  BY <1>1
<1>3. new \in DeployRecord /\ new.decision = 0 /\ new.at = clock + 1
  BY <1>1, <1>2, Basics DEF DeployRecord, Record, Place
<1>4. /\ records' = Append(records, new) /\ clock' = clock + 1
      /\ proc' = [proc EXCEPT ![p] = Idle]
      /\ UNCHANGED <<Release, state, Certification, worker>>
  BY DEF RollbackRecord, Done
<1> HIDE DEF new
<1>5. /\ records' \in Seq(DeployRecord)
      /\ \A i \in DOMAIN records : i \in DOMAIN records' /\ records'[i] = records[i]
      /\ \A i \in DOMAIN records' : i \in DOMAIN records \/ records'[i] = new
  BY <1>3, <1>4 DEF IInv, Types
<1>6. \A i \in DOMAIN records' :
        records'[i].decision <= Len(decisions) /\ records'[i].at <= clock'
  <2>1. \A i \in DOMAIN records : records[i].at \in Nat
    <3>1. \A i \in DOMAIN records : records[i] \in DeployRecord
      BY DEF IInv, Types
    <3> QED
      BY <3>1 DEF DeployRecord
  <2>2. \A i \in DOMAIN records :
          records[i].decision <= Len(decisions) /\ records[i].at <= clock
    BY DEF IInv, Types
  <2> QED
    BY <1>1, <1>3, <1>4, <1>5, <2>1, <2>2
<1>7. Types' /\ Prepared' = Prepared /\ Consecutive'
  BY <1>1, <1>4, <1>5, <1>6, Basics
     DEF IInv, Types, Consecutive, Prepared, Release, Certification
<1>8. Alone(p)
  BY <1>1, <1>4, <1>5, <1>7 DEF Alone, Grows, IInv, Types, Release, Certification
<1>9. proc'[p].at = "idle"
  BY <1>4 DEF IInv, Types, Idle
<1> QED
  BY <1>7, <1>8, <1>9, IdlePlaced, StepPlaces

-----------------------------------------------------------------------------
(* The invariant and the theorems.                                         *)

LEMMA NextHolds == ASSUME IInv, [Next]_vars PROVE IInv'
<1>1. CASE UNCHANGED vars
  BY <1>1 DEF vars, IInv, Types, Consecutive, Placed, Prepared, Ids
<1>2. ASSUME NEW p \in Procs, ReleaseStep(p) PROVE IInv'
  BY <1>2, PrepareStartStep, PrepareMoveStep, ReadyStartStep, ReadyLockStep,
     ReadyStoreStep, ReadyMarkStep, ReadyWriteStateStep DEF ReleaseStep
<1>3. ASSUME NEW p \in Procs, CertifyStart(p) \/ CertifyDecide(p) \/ CertifyEnds(p)
      PROVE  IInv'
  BY <1>3, CertifyStartStep, CertifyDecideStep, Ends DEF CertifyEnds
<1>4. ASSUME NEW p \in Procs, DeployStep(p) PROVE IInv'
  <2>1. CASE PrepareDeployContext(p)
    BY <2>1, Ends DEF PrepareDeployContext, Deployment
  <2> QED
    BY <1>4, <2>1, StartSteps, DeployDomainStep, DeployPropagateStep, DeployFreshStep,
       DeployHealthStep, DeployGateStep, DeployWriteStateStep, DeployEnds DEF DeployStep
<1>5. ASSUME NEW p \in Procs,
             RollbackStart(p) \/ RollbackWrangler(p) \/ RollbackRecord(p) \/ Crash(p)
      PROVE  IInv'
  BY <1>5, RollbackStartStep, RollbackWranglerStep, RollbackRecordStep, Ends DEF Crash
<1> QED
  BY <1>1, <1>2, <1>3, <1>4, <1>5 DEF Next

\* The inductive invariant of the leitstand holds, whatever may fail.
THEOREM Invariance == Spec => []IInv
<1>1. Init => IInv
  BY InitHolds
<1>2. IInv /\ [Next]_vars => IInv'
  BY NextHolds
<1> QED
  BY <1>1, <1>2, PTL DEF Spec

\* Manifests, files, records and channels hold what their schemas allow.
THEOREM TypeCorrect == Spec => []TypeOK
<1>1. IInv => TypeOK
  <2> SUFFICES ASSUME IInv PROVE TypeOK
    OBVIOUS
  <2>1. \A i \in DOMAIN decisions : decisions[i].status \in {"pass", "fail"}
    <3>1. \A i \in DOMAIN decisions : decisions[i] \in Decision
      BY DEF IInv, Types
    <3> QED
      BY <3>1 DEF Decision
  <2>2. \A i \in DOMAIN records :
       /\ records[i].state \in {"authorized", "succeeded", "failed", "rolled-back"}
       /\ records[i].decision \in Ids(Len(decisions)) /\ records[i].at \in 1 .. clock
    <3>1. \A i \in DOMAIN records : /\ records[i] \in DeployRecord
                                    /\ records[i].decision <= Len(decisions)
                                    /\ records[i].at <= clock
      BY DEF IInv, Types
    <3>2. Len(decisions) \in Nat /\ clock \in Nat
      BY DEF IInv, Types
    <3> QED
      BY <3>1, <3>2 DEF DeployRecord, Ids
  <2>3. \A ch \in Channels : state.last[ch] \in Releases \cup {None}
    BY DEF IInv, Types, SystemState, MaybeRelease
  <2> QED
    BY <2>1, <2>2, <2>3 DEF IInv, Types, TypeOK
<1> QED
  BY <1>1, Invariance, PTL

\* Under the system lock nobody prepares a release under a number that is
\* taken, so the move of release.prepare deletes no release.
THEOREM NumbersAreFree == Spec => []NoReleaseIsReplaced
<1>1. IInv => NoReleaseIsReplaced
  BY DEF IInv, Placed, NoReleaseIsReplaced, Prepared
<1> QED
  BY <1>1, Invariance, PTL

-----------------------------------------------------------------------------
(* What is served was cleared, when --gate-decision names no other file: a *)
(* decision file answers for its release and its gate, a record was        *)
(* authorized by such a decision, and a channel serves such a record.      *)

FilesAnswer ==
  \A r \in Releases, ch \in Channels :
    file[r][ch] # None => /\ decisions[file[r][ch]].release = r
                          /\ decisions[file[r][ch]].gate = ch

Answered(rec) ==
  rec.artifact # None =>
    /\ rec.decision \in DOMAIN decisions
    /\ decisions[rec.decision].status = "pass"
    /\ decisions[rec.decision].release = rec.artifact
    /\ decisions[rec.decision].gate = rec.channel
    /\ rec.channel = "main" => verified[rec.artifact] # None

RecordsAnswer == \A i \in DOMAIN records : Answered(records[i])

Served ==
  \A ch \in Channels : \A i \in DOMAIN worker[ch] :
    /\ records[worker[ch][i]].channel = ch
    /\ records[worker[ch][i]].artifact # None

AInv == FilesAnswer /\ RecordsAnswer /\ Served

LEMMA ServedMeansCleared == ASSUME IInv, AInv PROVE DeploysWereCleared
<1> SUFFICES ASSUME NEW ch \in Channels, NEW i \in DOMAIN worker[ch]
             PROVE  LET rec == records[worker[ch][i]] IN
                    /\ rec.channel = ch
                    /\ rec.decision # None
                    /\ decisions[rec.decision].status = "pass"
                    /\ decisions[rec.decision].release = rec.artifact
                    /\ decisions[rec.decision].gate = ch
                    /\ ch = "main" => verified[rec.artifact] # None
  BY DEF DeploysWereCleared
<1> DEFINE rec == records[worker[ch][i]]
<1>1. rec.channel = ch /\ rec.artifact # None /\ worker[ch][i] \in DOMAIN records
  BY DEF AInv, Served, IInv, Types
<1> HIDE DEF rec
<1>2. Answered(rec)
  BY <1>1 DEF AInv, RecordsAnswer, rec
<1>3. 0 \notin DOMAIN decisions
  BY DEF IInv, Types
<1> QED
  BY <1>1, <1>2, <1>3 DEF Answered, rec, None

LEMMA CertifyAnswers == ASSUME IInv, AInv, NEW p \in Procs, CertifyDecide(p) PROVE AInv'
<1> DEFINE r == proc[p].release
           gate == proc[p].channel
           d == Len(decisions) + 1
<1>1. PICK new \in Decision :
        /\ new.release = r /\ new.gate = gate /\ decisions' = Append(decisions, new)
  BY CertifyWrites
<1>2. r \in Releases /\ gate \in Channels
  BY CertifyWrites
<1>3. /\ d \in Nat /\ d # None /\ decisions'[d] = new
      /\ DOMAIN decisions \subseteq DOMAIN decisions'
      /\ \A i \in DOMAIN decisions : decisions'[i] = decisions[i]
  BY <1>1 DEF IInv, Types, None
<1>4. /\ file' = [file EXCEPT ![r][gate] = d]
      /\ verified' = verified \/ verified' = [verified EXCEPT ![r] = d]
      /\ UNCHANGED <<records, worker>>
  BY DEF CertifyDecide, Deployment
<1> HIDE DEF r, gate, d
<1>5. \A x \in Releases : verified[x] # None => verified'[x] # None
  BY <1>2, <1>3, <1>4 DEF IInv, Types
<1>6. FilesAnswer'
  <2> SUFFICES ASSUME NEW x \in Releases, NEW ch \in Channels, file'[x][ch] # None
               PROVE  /\ decisions'[file'[x][ch]].release = x
                      /\ decisions'[file'[x][ch]].gate = ch
    BY DEF FilesAnswer
  <2>1. CASE x = r /\ ch = gate
    <3>1. file'[x][ch] = d
      BY <1>4, <2>1 DEF IInv, Types
    <3> QED
      BY <1>1, <1>3, <2>1, <3>1
  <2>2. CASE ~(x = r /\ ch = gate)
    <3>1. file'[x][ch] = file[x][ch] /\ file[x][ch] \in Ids(Len(decisions))
      BY <1>4, <2>2 DEF IInv, Types
    <3>2. file[x][ch] \in DOMAIN decisions
      BY <3>1 DEF IInv, Types, Ids, None
    <3> QED
      BY <1>3, <3>1, <3>2 DEF AInv, FilesAnswer
  <2> QED
    BY <2>1, <2>2
<1>7. RecordsAnswer'
  <2> SUFFICES ASSUME NEW i \in DOMAIN records PROVE Answered(records[i])'
    BY <1>4 DEF RecordsAnswer
  <2>1. Answered(records[i]) /\ records'[i] = records[i]
    BY <1>4 DEF AInv, RecordsAnswer
  <2>2. records[i].artifact # None => records[i].artifact \in Releases
    <3>1. records[i] \in DeployRecord
      BY DEF IInv, Types
    <3> QED
      BY <3>1 DEF DeployRecord, MaybeRelease
  <2> QED
    BY <1>3, <1>5, <2>1, <2>2 DEF Answered
<1> QED
  BY <1>4, <1>6, <1>7 DEF AInv, Served

\* A deployment is recorded with the decision that lies at its gate.
LEMMA StartAnswers ==
  ASSUME IInv, AInv, "override" \notin Faults, NEW p \in Procs, NEW r \in Prepared,
         NEW ch \in Channels, NEW d \in DecisionsFor(r, ch),
         NEW first, DeployStart(p, r, ch, d, first)
  PROVE  AInv'
<1> DEFINE new == Record(ch, r, d, IF ch = "main" THEN verified[r] ELSE None,
                         "authorized", clock + 1, None, None)
<1>1. /\ records' = Append(records, new)
      /\ UNCHANGED <<decisions, file, verified, worker>>
  BY DEF DeployStart, Certification
<1>2. r \in Releases /\ d = file[r][ch] /\ d \in Ids(Len(decisions))
  BY Basics DEF DecisionsFor, CanFail, IInv, Types
<1>3. /\ d # None /\ decisions[d].status = "pass"
      /\ ch = "main" => verified[r] # None
  BY DEF DeployStart, Cleared, Authorized, MainVerified
<1>4. d \in DOMAIN decisions /\ decisions[d].release = r /\ decisions[d].gate = ch
  BY <1>2, <1>3 DEF AInv, FilesAnswer, Ids, IInv, Types, None
<1>5. new.artifact = r /\ new.decision = d /\ new.channel = ch
  BY DEF Record
<1> HIDE DEF new
<1>6. Answered(new)
  BY <1>3, <1>4, <1>5 DEF Answered
<1>7. /\ \A i \in DOMAIN records : records'[i] = records[i]
      /\ \A i \in DOMAIN records' : i \in DOMAIN records \/ records'[i] = new
  BY <1>1 DEF IInv, Types
<1>8. RecordsAnswer'
  BY <1>1, <1>6, <1>7 DEF AInv, RecordsAnswer, Answered
<1>9. Served'
  BY <1>1, <1>7 DEF AInv, Served, IInv, Types
<1> QED
  BY <1>1, <1>8, <1>9 DEF AInv, FilesAnswer

\* What goes live is an operation of this channel.
LEMMA LiveAnswers ==
  ASSUME IInv, AInv, NEW ch \in Channels, NEW v \in DOMAIN records,
         records[v].channel = ch, records[v].artifact # None,
         worker' = worker \/ worker' = [worker EXCEPT ![ch] = Append(@, v)],
         UNCHANGED <<records, decisions, file, verified>>
  PROVE  AInv'
<1>1. CASE worker' = worker
  BY <1>1 DEF AInv, FilesAnswer, RecordsAnswer, Answered, Served
<1>2. CASE worker' = [worker EXCEPT ![ch] = Append(@, v)]
  <2>1. worker[ch] \in Seq(Nat) /\ v \in Nat
    BY DEF IInv, Types
  <2>2. \A i \in DOMAIN Append(worker[ch], v) :
          \/ Append(worker[ch], v)[i] = v
          \/ i \in DOMAIN worker[ch] /\ Append(worker[ch], v)[i] = worker[ch][i]
    BY <2>1
  <2>3. worker'[ch] = Append(worker[ch], v) /\ \A x \in Channels : x # ch => worker'[x] = worker[x]
    BY <1>2 DEF IInv, Types
  <2>4. Served'
    BY <2>2, <2>3 DEF AInv, Served
  <2> QED
    BY <2>4 DEF AInv, FilesAnswer, RecordsAnswer, Answered
<1> QED
  BY <1>1, <1>2

LEMMA PropagateAnswers == ASSUME IInv, AInv, NEW p \in Procs, DeployPropagate(p) PROVE AInv'
<1> DEFINE ch == proc[p].channel
           op == proc[p].op
<1>1. /\ ch \in Channels /\ op \in DOMAIN records
      /\ records[op].channel = ch /\ records[op].artifact # None
  BY Basics DEF DeployPropagate, IInv, Types, Place, Placed, Deploying
<1>2. worker' = worker \/ worker' = [worker EXCEPT ![ch] = Append(@, op)]
  BY DEF DeployPropagate
<1>3. UNCHANGED <<records, decisions, file, verified>>
  BY DEF DeployPropagate, Certification
<1> HIDE DEF ch, op
<1> QED
  BY <1>1, <1>2, <1>3, LiveAnswers

LEMMA RollbackAnswers == ASSUME IInv, AInv, NEW p \in Procs, RollbackWrangler(p) PROVE AInv'
<1> DEFINE ch == proc[p].channel
<1>1. ch \in Channels
  BY DEF IInv, Types, Place
<1>2. UNCHANGED <<records, decisions, file, verified>>
  BY DEF RollbackWrangler, Certification
<1>3. CASE worker' = worker
  BY <1>2, <1>3 DEF AInv, FilesAnswer, RecordsAnswer, Answered, Served
<1>4. ASSUME NEW v \in RollbackTargets(ch, proc[p].version),
             worker' = [worker EXCEPT ![ch] = Append(@, v)]
      PROVE  AInv'
  <2>1. v \in DOMAIN records /\ records[v].channel = ch /\ records[v].artifact # None
    BY <1>1, TargetsWereLive DEF AInv, Served, IInv, Types
  <2> QED
    BY <1>1, <1>2, <1>4, <2>1, LiveAnswers
<1> QED
  BY <1>3, <1>4 DEF RollbackWrangler

\* The final record keeps what was decided of the operation.
LEMMA ConcludeAnswers ==
  ASSUME IInv, AInv, NEW p \in Procs, NEW st, NEW v, NEW rel,
         proc[p].at \in Deploying, Conclude(p, st, v, rel)
  PROVE  AInv'
<1> DEFINE op == proc[p].op
           new == Record(records[op].channel, records[op].artifact, records[op].decision,
                         None, st, proc[p].stamp, v, rel)
<1>1. op \in DOMAIN records
  BY DEF IInv, Placed
<1>2. /\ records' = [records EXCEPT ![op] = new]
      /\ UNCHANGED <<decisions, file, verified, worker>>
  BY DEF Conclude, Certification
<1>3. /\ new.channel = records[op].channel /\ new.artifact = records[op].artifact
      /\ new.decision = records[op].decision
  BY DEF Record
<1> HIDE DEF new, op
<1>4. DOMAIN records' = DOMAIN records
      /\ \A i \in DOMAIN records : /\ records'[i].channel = records[i].channel
                                   /\ records'[i].artifact = records[i].artifact
                                   /\ records'[i].decision = records[i].decision
  BY <1>1, <1>2, <1>3 DEF IInv, Types
<1>5. RecordsAnswer'
  BY <1>2, <1>4 DEF AInv, RecordsAnswer, Answered
<1>6. Served'
  BY <1>2, <1>4 DEF AInv, Served, IInv, Types
<1> QED
  BY <1>2, <1>5, <1>6 DEF AInv, FilesAnswer

\* The record of a rollback was not authorized, and never goes live.
LEMMA RecordAnswers == ASSUME IInv, AInv, NEW p \in Procs, RollbackRecord(p) PROVE AInv'
<1> DEFINE new == Record(proc[p].channel, None, None, None, proc[p].look, clock + 1,
                         proc[p].version, proc[p].release)
<1>1. /\ records' = Append(records, new)
      /\ UNCHANGED <<decisions, file, verified, worker>>
  BY DEF RollbackRecord, Certification
<1>2. new.artifact = None
  BY DEF Record
<1> HIDE DEF new
<1>3. /\ \A i \in DOMAIN records : records'[i] = records[i]
      /\ \A i \in DOMAIN records' : i \in DOMAIN records \/ records'[i] = new
  BY <1>1 DEF IInv, Types
<1>4. RecordsAnswer'
  BY <1>1, <1>2, <1>3 DEF AInv, RecordsAnswer, Answered
<1>5. Served'
  BY <1>1, <1>3 DEF AInv, Served, IInv, Types
<1> QED
  BY <1>1, <1>4, <1>5 DEF AInv, FilesAnswer

LEMMA NextAnswers ==
  ASSUME IInv, AInv, "override" \notin Faults, [Next]_vars
  PROVE  AInv'
<1>1. CASE UNCHANGED <<records, decisions, file, verified, worker>>
  BY <1>1 DEF AInv, FilesAnswer, RecordsAnswer, Answered, Served
<1>2. CASE UNCHANGED vars
  BY <1>1, <1>2 DEF vars
<1>3. ASSUME NEW p \in Procs, ReleaseStep(p) PROVE AInv'
  BY <1>1, <1>3 DEF ReleaseStep, PrepareStart, PrepareMove, ReadyStart, ReadyLock,
     ReadyStore, ReadyMark, ReadyWriteState, Certification, Deployment
<1>4. ASSUME NEW p \in Procs, CertifyStart(p) \/ CertifyDecide(p) \/ CertifyEnds(p)
      PROVE  AInv'
  BY <1>1, <1>4, CertifyAnswers DEF CertifyStart, CertifyEnds, Certification, Deployment
<1>5. ASSUME NEW p \in Procs, DeployStep(p) PROVE AInv'
  <2>1. CASE RunLeitstandDevDeploy(p)
    BY <2>1, StartAnswers DEF RunLeitstandDevDeploy, Channels
  <2>2. CASE RunLeitstandPropagate(p)
    BY <2>2, StartAnswers DEF RunLeitstandPropagate, Channels
  <2>3. CASE RunLeitstandPromote(p)
    BY <2>3, StartAnswers DEF RunLeitstandPromote, Channels
  <2>4. CASE DeployPropagate(p)
    BY <2>4, PropagateAnswers
  <2>5. CASE DeploySucceed(p) \/ DeployFail(p)
    BY <2>5, ConcludeAnswers DEF DeploySucceed, DeployFail, Deploying
  <2>6. CASE PrepareDeployContext(p) \/ DeployDomain(p) \/ DeployFresh(p)
             \/ DeployHealth(p) \/ DeployGate(p) \/ DeployWriteState(p)
    BY <1>1, <2>6 DEF PrepareDeployContext, DeployDomain, DeployFresh, DeployHealth,
       DeployGate, DeployWriteState, Certification, Deployment
  <2> QED
    BY <1>5, <2>1, <2>2, <2>3, <2>4, <2>5, <2>6 DEF DeployStep
<1>6. ASSUME NEW p \in Procs,
             RollbackStart(p) \/ RollbackWrangler(p) \/ RollbackRecord(p) \/ Crash(p)
      PROVE  AInv'
  BY <1>1, <1>6, RollbackAnswers, RecordAnswers
     DEF RollbackStart, Crash, Certification, Deployment
<1> QED
  BY <1>2, <1>3, <1>4, <1>5, <1>6 DEF Next

\* What is served and released: unless an operator names a decision file by
\* hand, every version a channel ever served was cleared for that channel by a
\* passing decision about that release, main also by a main verification, and
\* no release replaced another.
THEOREM ServedWasCleared ==
  ASSUME "override" \notin Faults
  PROVE  Spec => []ReleasesStand
<1>1. Init => AInv
  <2> SUFFICES ASSUME Init PROVE AInv
    OBVIOUS
  <2>1. records = <<>> /\ \A ch \in Channels : worker[ch] = <<>>
    BY DEF Init
  <2> QED
    BY <2>1 DEF Init, AInv, FilesAnswer, RecordsAnswer, Served
<1>2. IInv /\ AInv /\ [Next]_vars => AInv'
  BY NextAnswers
<1>3. IInv /\ AInv => DeploysWereCleared
  BY ServedMeansCleared
<1>4. Spec => []DeploysWereCleared
  BY <1>1, <1>2, <1>3, Invariance, PTL DEF Spec
<1>5. TypeOK /\ DeploysWereCleared /\ NoReleaseIsReplaced => ReleasesStand
  BY DEF ReleasesStand
<1> QED
  BY <1>4, <1>5, TypeCorrect, NumbersAreFree, PTL

-----------------------------------------------------------------------------
(* A rollback on record is true.  The version a rollback asks wrangler for *)
(* comes from a record that succeeded, which holds the version its own     *)
(* operation uploaded; wrangler makes live only what the channel had.      *)

VersionsAreOwn ==
  \A i \in DOMAIN records :
    records[i].state = "succeeded" /\ records[i].version # None =>
      records[i].version = i /\ records[i].artifact = records[i].release

\* The channel served this version of the release before, and again.
WentBack(ch, v, r) ==
  /\ \E j, k \in DOMAIN worker[ch] :
       j < k /\ worker[ch][j] = worker[ch][k] /\ worker[ch][j] = v
  /\ v \in DOMAIN records /\ records[v].artifact = r

Holds(p) ==
  LET c == proc[p] IN
  /\ c.at \in Deploying => c.version \in {None, c.op}
  /\ c.at = "roll" /\ c.release # None =>
       c.version \in DOMAIN records /\ records[c.version].artifact = c.release
  /\ c.at = "rolled" /\ c.look = "rolled-back" /\ c.release # None =>
       WentBack(c.channel, c.version, c.release)

RecordsTrue ==
  \A i \in DOMAIN records :
    records[i].state = "rolled-back" /\ records[i].release # None =>
      WentBack(records[i].channel, records[i].version, records[i].release)

TInv == VersionsAreOwn /\ RecordsTrue /\ \A p \in Procs : Holds(p)

\* What was live stays in the history of its channel, and a record keeps its
\* artifact.
Longer ==
  /\ \A ch \in Channels : \A i \in DOMAIN worker[ch] :
       i \in DOMAIN worker'[ch] /\ worker'[ch][i] = worker[ch][i]
  /\ \A i \in DOMAIN records :
       i \in DOMAIN records' /\ records'[i].artifact = records[i].artifact

LEMMA WentBackStays ==
  ASSUME Longer, NEW ch \in Channels, NEW v, NEW r, WentBack(ch, v, r)
  PROVE  WentBack(ch, v, r)'
BY DEF Longer, WentBack

LEMMA HoldsStays ==
  ASSUME IInv, Longer, NEW q \in Procs, Holds(q), proc'[q] = proc[q]
  PROVE  Holds(q)'
<1>1. proc[q].channel \in Channels
  BY DEF IInv, Types, Place
<1>2. proc[q].at = "rolled" /\ proc[q].look = "rolled-back" /\ proc[q].release # None =>
        WentBack(proc[q].channel, proc[q].version, proc[q].release)'
  BY <1>1, WentBackStays DEF Holds
<1> QED
  BY <1>2 DEF Holds, Longer

\* A step that changes neither records nor channels and moves only p.
LEMMA TrueStays ==
  ASSUME IInv, TInv, NEW p \in Procs, UNCHANGED <<records, worker>>,
         \A q \in Procs : q # p => proc'[q] = proc[q], Holds(p)'
  PROVE  TInv'
<1>1. Longer
  BY DEF Longer
<1>2. ASSUME NEW q \in Procs PROVE Holds(q)'
  BY <1>1, HoldsStays DEF TInv
<1>3. VersionsAreOwn' /\ RecordsTrue'
  BY DEF TInv, VersionsAreOwn, RecordsTrue, WentBack
<1> QED
  BY <1>2, <1>3 DEF TInv

LEMMA ElsewhereHolds ==
  ASSUME NEW p \in Procs, proc'[p].at \notin Deploying \cup {"roll", "rolled"}
  PROVE  Holds(p)'
BY DEF Holds

\* The steps of a command that is neither a deployment nor a rollback.
LEMMA OtherStepsMove ==
  ASSUME IInv, NEW p \in Procs,
         ReleaseStep(p) \/ CertifyStart(p) \/ CertifyDecide(p) \/ CertifyEnds(p)
           \/ PrepareDeployContext(p) \/ Crash(p)
  PROVE  /\ UNCHANGED <<records, worker>> /\ \A q \in Procs : q # p => proc'[q] = proc[q]
         /\ proc'[p].at \in {"idle", "building", "certify"} \cup Readying
<1>1. CASE PrepareStart(p) \/ ReadyStart(p)
  <2>1. PICK at \in {"building", "ready-lock"} : \E r :
          proc' = [proc EXCEPT ![p] = [Idle EXCEPT !.at = at, !.release = r]]
    BY <1>1 DEF PrepareStart, ReadyStart
  <2>2. UNCHANGED <<records, worker>>
    BY <1>1 DEF PrepareStart, ReadyStart, Deployment
  <2> QED
    BY <2>1, <2>2 DEF Idle, IInv, Types, Readying
<1>2. CASE PrepareMove(p) \/ ReadyWriteState(p)
  BY <1>2 DEF PrepareMove, ReadyWriteState, Done, Idle, Deployment, IInv, Types
<1>3. CASE ReadyLock(p)
  BY <1>3 DEF ReadyLock, Goto, Done, Idle, Deployment, IInv, Types, Place, Readying
<1>4. CASE ReadyStore(p) \/ ReadyMark(p)
  BY <1>4 DEF ReadyStore, ReadyMark, Goto, Deployment, IInv, Types, Place, Readying
<1>5. CASE CertifyStart(p)
  <2>1. PICK r \in Prepared, gate \in Channels :
          \E e \in Checked(r) \cup (IF Reusable(r) THEN {evidence[r]} ELSE {}) :
            proc' = [proc EXCEPT ![p] = [Idle EXCEPT !.at = "certify", !.release = r,
                       !.channel = gate, !.look = e]]
    BY <1>5 DEF CertifyStart
  <2>2. PICK e \in Checked(r) \cup (IF Reusable(r) THEN {evidence[r]} ELSE {}) :
          proc' = [proc EXCEPT ![p] = [Idle EXCEPT !.at = "certify", !.release = r,
                     !.channel = gate, !.look = e]]
    BY <2>1
  <2>3. UNCHANGED <<records, worker>>
    BY <1>5 DEF CertifyStart, Deployment
  <2> QED
    BY <2>2, <2>3 DEF Idle, IInv, Types
<1>6. CASE CertifyDecide(p) \/ CertifyEnds(p) \/ PrepareDeployContext(p) \/ Crash(p)
  BY <1>6 DEF CertifyDecide, CertifyEnds, PrepareDeployContext, Crash, Done, Idle,
     Deployment, IInv, Types
<1> QED
  BY <1>1, <1>2, <1>3, <1>4, <1>5, <1>6 DEF ReleaseStep

LEMMA OtherStepsTrue ==
  ASSUME IInv, TInv, NEW p \in Procs,
         ReleaseStep(p) \/ CertifyStart(p) \/ CertifyDecide(p) \/ CertifyEnds(p)
           \/ PrepareDeployContext(p) \/ Crash(p)
  PROVE  TInv'
<1>1. proc'[p].at \notin Deploying \cup {"roll", "rolled"}
  BY OtherStepsMove DEF Readying, Deploying
<1> QED
  BY <1>1, OtherStepsMove, ElsewhereHolds, TrueStays

\* The phases of a deployment that upload nothing keep its version.
LEMMA PhasesTrue ==
  ASSUME IInv, TInv, NEW p \in Procs,
         DeployDomain(p) \/ DeployFresh(p) \/ DeployHealth(p) \/ DeployGate(p)
           \/ DeployWriteState(p)
  PROVE  TInv'
<1>1. /\ UNCHANGED <<records, worker>> /\ \A q \in Procs : q # p => proc'[q] = proc[q]
      /\ proc[p].at \in Deploying
      /\ \/ proc'[p].at = "idle"
         \/ /\ proc'[p].at \in Deploying
            /\ proc'[p].version = proc[p].version /\ proc'[p].op = proc[p].op
  <2>1. CASE DeployDomain(p)
    BY <2>1 DEF DeployDomain, Done, Idle, IInv, Types, Place, Deploying
  <2>2. CASE DeployFresh(p) \/ DeployHealth(p)
    BY <2>2 DEF DeployFresh, DeployHealth, Goto, Deployment, IInv, Types, Place, Deploying
  <2>3. CASE DeployGate(p)
    <3>1. PICK ok \in GateVerdicts(p) :
            proc' = [proc EXCEPT ![p].at = IF ok THEN "write-state" ELSE "fail",
                                 ![p].seen = IF ok THEN state ELSE None]
      BY <2>3 DEF DeployGate
    <3> DEFINE at == IF ok THEN "write-state" ELSE "fail"
    <3>2. at \in Deploying
      BY DEF Deploying
    <3> HIDE DEF at
    <3>3. /\ \A q \in Procs : q # p => proc'[q] = proc[q]
          /\ proc'[p].at = at /\ proc'[p].version = proc[p].version
          /\ proc'[p].op = proc[p].op
      BY <3>1 DEF IInv, Types, Place, at
    <3>4. proc[p].at \in Deploying /\ UNCHANGED <<records, worker>>
      BY <2>3 DEF DeployGate, Deployment, Deploying
    <3> QED
      BY <3>2, <3>3, <3>4
  <2>4. CASE DeployWriteState(p)
    BY <2>4 DEF DeployWriteState, Deployment, IInv, Types, Place, Deploying
  <2> QED
    BY <2>1, <2>2, <2>3, <2>4
<1>2. Holds(p)'
  BY <1>1 DEF TInv, Holds, Deploying
<1> QED
  BY <1>1, <1>2, TrueStays

\* A step that adds to records or channels: what was true stays, and what is
\* new has to be.
LEMMA TrueGrows ==
  ASSUME IInv, TInv, NEW p \in Procs, Longer, VersionsAreOwn', Holds(p)',
         \A q \in Procs : q # p => proc'[q] = proc[q],
         \A i \in DOMAIN records' :
           \/ i \in DOMAIN records /\ records'[i] = records[i]
           \/ (records'[i].state = "rolled-back" /\ records'[i].release # None)
              => WentBack(records[i].channel, records[i].version, records[i].release)'
  PROVE  TInv'
<1>1. ASSUME NEW q \in Procs PROVE Holds(q)'
  BY HoldsStays DEF TInv
<1>2. ASSUME NEW i \in DOMAIN records, records'[i] = records[i],
             records[i].state = "rolled-back", records[i].release # None
      PROVE  WentBack(records[i].channel, records[i].version, records[i].release)'
  <2>1. records[i] \in DeployRecord
    BY DEF IInv, Types
  <2>2. records[i].channel \in Channels
    BY <2>1 DEF DeployRecord
  <2>3. WentBack(records[i].channel, records[i].version, records[i].release)
    BY <1>2 DEF TInv, RecordsTrue
  <2> DEFINE ch == records[i].channel
             v == records[i].version
             r == records[i].release
  <2>4. (\E j, k \in DOMAIN worker'[ch] :
           j < k /\ worker'[ch][j] = worker'[ch][k] /\ worker'[ch][j] = v)
        /\ v \in DOMAIN records' /\ records'[v].artifact = r
    BY <2>2, <2>3 DEF WentBack, Longer
  <2> QED
    BY <1>2, <2>4 DEF WentBack
<1>3. RecordsTrue'
  BY <1>2 DEF RecordsTrue
<1> QED
  BY <1>1, <1>3 DEF TInv

LEMMA StartTrue ==
  ASSUME IInv, TInv, NEW p \in Procs, NEW r \in Prepared, NEW ch \in Channels,
         NEW d, NEW first \in {"domain", "propagate"}, DeployStart(p, r, ch, d, first)
  PROVE  TInv'
<1> DEFINE new == Record(ch, r, d, IF ch = "main" THEN verified[r] ELSE None,
                         "authorized", clock + 1, None, None)
<1>1. records' = Append(records, new) /\ UNCHANGED worker
  BY DEF DeployStart
<1>2. new.state = "authorized"
  BY DEF Record
<1> HIDE DEF new
<1>3. /\ \A i \in DOMAIN records : i \in DOMAIN records' /\ records'[i] = records[i]
      /\ \A i \in DOMAIN records' : i \in DOMAIN records \/ records'[i].state = "authorized"
  BY <1>1, <1>2 DEF IInv, Types
<1>4. /\ \A q \in Procs : q # p => proc'[q] = proc[q]
      /\ proc'[p].at \in Deploying /\ proc'[p].version = None
  BY DEF DeployStart, IInv, Types, Idle, Deploying
<1>5. Longer
  BY <1>1, <1>3 DEF Longer
<1>6. VersionsAreOwn'
  BY <1>3 DEF TInv, VersionsAreOwn
<1>7. Holds(p)'
  BY <1>4 DEF Holds, Deploying
<1> QED
  BY <1>3, <1>4, <1>5, <1>6, <1>7, TrueGrows

\* A version that goes live lengthens the history of its channel.
LEMMA LiveLonger ==
  ASSUME IInv, NEW ch \in Channels, NEW v, UNCHANGED records,
         worker' = worker \/ worker' = [worker EXCEPT ![ch] = Append(@, v)]
  PROVE  Longer
<1>1. CASE worker' = worker
  BY <1>1 DEF Longer
<1>2. CASE worker' = [worker EXCEPT ![ch] = Append(@, v)]
  <2>1. worker[ch] \in Seq(Nat)
    BY DEF IInv, Types
  <2>2. \A i \in DOMAIN worker[ch] :
          i \in DOMAIN Append(worker[ch], v) /\ Append(worker[ch], v)[i] = worker[ch][i]
    BY <2>1
  <2>3. worker'[ch] = Append(worker[ch], v) /\ \A x \in Channels : x # ch => worker'[x] = worker[x]
    BY <1>2 DEF IInv, Types
  <2> QED
    BY <2>2, <2>3 DEF Longer
<1> QED
  BY <1>1, <1>2

LEMMA PropagateTrue == ASSUME IInv, TInv, NEW p \in Procs, DeployPropagate(p) PROVE TInv'
<1> DEFINE ch == proc[p].channel
           op == proc[p].op
           next == IF ch = "dev" THEN "health" ELSE "fresh"
<1>1. proc[p] \in Place /\ ch \in Channels /\ Holds(p) /\ proc[p].at = "propagate"
      /\ UNCHANGED records
  BY DEF IInv, Types, Place, TInv, DeployPropagate
<1>2. worker' = worker \/ worker' = [worker EXCEPT ![ch] = Append(@, op)]
  BY DEF DeployPropagate
<1>3. Longer
  BY <1>1, <1>2, LiveLonger
<1>4. /\ \A q \in Procs : q # p => proc'[q] = proc[q]
      /\ proc'[p].at \in Deploying /\ proc'[p].version \in {None, proc'[p].op}
  <2>1. CASE Goto(p, "fail")
    BY <1>1, <2>1 DEF Goto, Holds, Deploying, IInv, Types, Place
  <2>2. CASE \E w \in WranglerDeploys :
               proc' = [proc EXCEPT ![p].at = next,
                                    ![p].version = IF w.exit = 0 THEN op ELSE None]
    <3>1. PICK v \in {None, op} : proc' = [proc EXCEPT ![p].at = next, ![p].version = v]
      BY <2>2
    <3>2. next \in Deploying
      BY DEF Deploying
    <3> HIDE DEF next
    <3> QED
      BY <1>1, <3>1, <3>2 DEF IInv, Types, Place
  <2> QED
    BY <2>1, <2>2 DEF DeployPropagate
<1>5. Holds(p)'
  BY <1>4 DEF Holds, Deploying
<1>6. VersionsAreOwn'
  BY <1>1 DEF TInv, VersionsAreOwn
<1> QED
  BY <1>1, <1>3, <1>4, <1>5, <1>6, TrueGrows

LEMMA ConcludeTrue ==
  ASSUME IInv, TInv, NEW p \in Procs, DeploySucceed(p) \/ DeployFail(p) PROVE TInv'
<1> DEFINE op == proc[p].op
<1>1. /\ op \in DOMAIN records /\ records[op].artifact = proc[p].release
      /\ proc[p].version \in {None, op}
  BY DEF DeploySucceed, DeployFail, Deploying, IInv, Placed, TInv, Holds
<1>2. PICK st \in {"succeeded", "failed"}, v \in {None, op}, rel \in MaybeRelease :
        /\ Conclude(p, st, v, rel)
        /\ st = "succeeded" => rel = proc[p].release
  <2>1. proc[p].release \in MaybeRelease
    BY DEF IInv, Types, Place
  <2> QED
    BY <1>1, <2>1, Basics DEF DeploySucceed, DeployFail
<1> DEFINE new == Record(records[op].channel, records[op].artifact, records[op].decision,
                         None, st, proc[p].stamp, v, rel)
<1>3. /\ records' = [records EXCEPT ![op] = new] /\ UNCHANGED worker
      /\ proc' = [proc EXCEPT ![p] = Idle]
  BY <1>2 DEF Conclude, Done
<1>4. /\ new.artifact = records[op].artifact /\ new.state = st /\ new.version = v
      /\ new.release = rel
  BY DEF Record
<1> HIDE DEF new, op
<1>5. /\ DOMAIN records' = DOMAIN records /\ records'[op] = new
      /\ \A i \in DOMAIN records : i # op => records'[i] = records[i]
  BY <1>1, <1>3 DEF IInv, Types
<1>6. Longer
  BY <1>1, <1>3, <1>4, <1>5 DEF Longer
<1>7. VersionsAreOwn'
  BY <1>1, <1>2, <1>4, <1>5 DEF TInv, VersionsAreOwn
<1>8. /\ \A q \in Procs : q # p => proc'[q] = proc[q]
      /\ proc'[p].at = "idle"
  BY <1>3 DEF IInv, Types, Idle
<1>9. Holds(p)'
  BY <1>8, ElsewhereHolds DEF Deploying
<1> QED
  BY <1>2, <1>4, <1>5, <1>6, <1>7, <1>8, <1>9, TrueGrows

LEMMA RollbackStartTrue == ASSUME IInv, TInv, NEW p \in Procs, RollbackStart(p) PROVE TInv'
<1>1. PICK ch \in Channels, r \in Releases \cup {None} :
        proc' = [proc EXCEPT ![p] = [Idle EXCEPT !.at = "roll", !.channel = ch,
         !.version = IF RollbackRecords(r) = {} THEN None
                     ELSE records[Newest(RollbackRecords(r))].version,
         !.release = IF RollbackRecords(r) = {} THEN None ELSE r]]
  BY DEF RollbackStart
<1> DEFINE S == RollbackRecords(r)
           v == IF S = {} THEN None ELSE records[Newest(S)].version
           to == IF S = {} THEN None ELSE r
<1>2. to # None => v \in DOMAIN records /\ records[v].artifact = to
  <2> SUFFICES ASSUME S # {} PROVE v \in DOMAIN records /\ records[v].artifact = r
    OBVIOUS
  <2>1. S \subseteq DOMAIN records
    BY DEF RollbackRecords
  <2>2. Newest(S) \in S
    BY <2>1, NewestIs DEF IInv
  <2>3. /\ Newest(S) \in DOMAIN records /\ records[Newest(S)].state = "succeeded"
        /\ records[Newest(S)].version # None /\ records[Newest(S)].release = r
    BY <2>2 DEF RollbackRecords
  <2> QED
    BY <2>3 DEF TInv, VersionsAreOwn
<1>3. proc' = [proc EXCEPT ![p] = [Idle EXCEPT !.at = "roll", !.channel = ch,
                                               !.version = v, !.release = to]]
  BY <1>1
<1> HIDE DEF v, to
<1>4. /\ \A q \in Procs : q # p => proc'[q] = proc[q]
      /\ proc'[p].at = "roll" /\ proc'[p].version = v /\ proc'[p].release = to
  BY <1>3 DEF IInv, Types, Idle
<1>5. UNCHANGED <<records, worker>>
  BY DEF RollbackStart, Deployment
<1>6. Holds(p)'
  BY <1>2, <1>4, <1>5 DEF Holds, Deploying
<1> QED
  BY <1>4, <1>5, <1>6, TrueStays

\* Given a version, wrangler goes to that one, which the channel has had.
LEMMA RollbackTrue == ASSUME IInv, TInv, NEW p \in Procs, RollbackWrangler(p) PROVE TInv'
<1> DEFINE ch == proc[p].channel
           v == proc[p].version
           r == proc[p].release
<1>1. /\ proc[p] \in Place /\ ch \in Channels /\ proc[p].at = "roll" /\ UNCHANGED records
      /\ r # None => v \in DOMAIN records /\ records[v].artifact = r
  BY DEF IInv, Types, Place, TInv, Holds, RollbackWrangler
<1>2. PICK look \in {"rolled-back", "failed"} :
        /\ proc' = [proc EXCEPT ![p].at = "rolled", ![p].look = look]
        /\ \/ \E t \in RollbackTargets(ch, v) : worker' = [worker EXCEPT ![ch] = Append(@, t)]
           \/ worker' = worker /\ look = "failed"
  BY DEF RollbackWrangler
<1>3. /\ \A q \in Procs : q # p => proc'[q] = proc[q]
      /\ proc'[p].at = "rolled" /\ proc'[p].look = look /\ proc'[p].channel = ch
      /\ proc'[p].version = v /\ proc'[p].release = r
  BY <1>2 DEF IInv, Types, Place
<1>4. VersionsAreOwn'
  BY <1>1 DEF TInv, VersionsAreOwn
<1>5. CASE worker' = worker /\ look = "failed"
  <2>1. Holds(p)'
    BY <1>3, <1>5 DEF Holds, Deploying
  <2> QED
    BY <1>1, <1>3, <1>5, <2>1, TrueStays
<1>6. ASSUME NEW t \in RollbackTargets(ch, v), worker' = [worker EXCEPT ![ch] = Append(@, t)]
      PROVE  TInv'
  <2> HIDE DEF ch, v, r
  <2>1. Longer
    BY <1>1, <1>6, LiveLonger
  <2>2. PICK j \in DOMAIN worker[ch] : t = worker[ch][j]
    BY <1>1, TargetsWereLive DEF IInv
  <2>3. r # None => t = v
    <3>1. r # None => v # None
      BY <1>1 DEF IInv, Types, None
    <3> QED
      BY <3>1 DEF RollbackTargets
  <2>4. \E i, k \in DOMAIN worker'[ch] :
          i < k /\ worker'[ch][i] = worker'[ch][k] /\ worker'[ch][i] = t
    <3> DEFINE k == Len(worker[ch]) + 1
    <3>1. worker[ch] \in Seq(Nat) /\ t \in Nat
      BY <1>1, <2>2 DEF IInv, Types
    <3>2. worker'[ch] = Append(worker[ch], t)
      BY <1>1, <1>6 DEF IInv, Types
    <3>3. /\ j \in DOMAIN worker'[ch] /\ k \in DOMAIN worker'[ch] /\ j < k
          /\ worker'[ch][j] = t /\ worker'[ch][k] = t
      BY <2>2, <3>1, <3>2
    <3> QED
      BY <3>3
  <2>5. r # None => WentBack(proc[p].channel, proc[p].version, proc[p].release)'
    BY <1>1, <1>3, <2>3, <2>4 DEF WentBack, ch, v, r
  <2>6. Holds(p)'
    BY <1>3, <2>5 DEF Holds, Deploying, ch, v, r
  <2> QED
    BY <1>1, <1>3, <1>4, <2>1, <2>6, TrueGrows
<1> QED
  BY <1>2, <1>5, <1>6

LEMMA RecordTrue == ASSUME IInv, TInv, NEW p \in Procs, RollbackRecord(p) PROVE TInv'
<1> DEFINE c == proc[p]
           new == Record(c.channel, None, None, None, c.look, clock + 1, c.version, c.release)
<1>1. /\ records' = Append(records, new) /\ UNCHANGED worker
      /\ proc' = [proc EXCEPT ![p] = Idle] /\ c.at = "rolled"
      /\ c.look \in {"rolled-back", "failed"} /\ c.channel \in Channels
  BY DEF RollbackRecord, Done, IInv, Placed, Types, Place
<1>2. /\ new.state = c.look /\ new.channel = c.channel /\ new.version = c.version
      /\ new.release = c.release
  BY DEF Record
<1> HIDE DEF new
<1>3. /\ \A i \in DOMAIN records : i \in DOMAIN records' /\ records'[i] = records[i]
      /\ \A i \in DOMAIN records' : i \in DOMAIN records \/ records'[i] = new
  BY <1>1 DEF IInv, Types
<1>4. Longer
  BY <1>1, <1>3 DEF Longer
<1>5. VersionsAreOwn'
  BY <1>1, <1>2, <1>3 DEF TInv, VersionsAreOwn
<1>6. /\ \A q \in Procs : q # p => proc'[q] = proc[q]
      /\ proc'[p].at = "idle"
  BY <1>1 DEF IInv, Types, Idle
<1>7. Holds(p)'
  BY <1>6, ElsewhereHolds DEF Deploying
<1>8. ASSUME NEW i \in DOMAIN records', records'[i] = new,
             new.state = "rolled-back", new.release # None
      PROVE  WentBack(records[i].channel, records[i].version, records[i].release)'
  <2>1. WentBack(c.channel, c.version, c.release)
    BY <1>1, <1>2, <1>8 DEF TInv, Holds
  <2> DEFINE ch == c.channel
             v == c.version
             r == c.release
  <2>2. /\ \E j, k \in DOMAIN worker[ch] :
             j < k /\ worker[ch][j] = worker[ch][k] /\ worker[ch][j] = v
        /\ v \in DOMAIN records' /\ records'[v].artifact = r
    BY <1>3, <2>1 DEF WentBack
  <2>3. records'[i].channel = ch /\ records'[i].version = v /\ records'[i].release = r
    BY <1>2, <1>8
  <2> HIDE DEF ch, v, r
  <2> QED
    BY <1>1, <2>2, <2>3 DEF WentBack
<1> QED
  BY <1>3, <1>4, <1>5, <1>6, <1>7, <1>8, TrueGrows

LEMMA NextTrue == ASSUME IInv, TInv, [Next]_vars PROVE TInv'
<1>1. CASE UNCHANGED vars
  BY <1>1 DEF vars, TInv, VersionsAreOwn, RecordsTrue, Holds, WentBack
<1>2. ASSUME NEW p \in Procs, DeployStep(p) PROVE TInv'
  <2>1. CASE RunLeitstandDevDeploy(p)
    BY <2>1, StartTrue DEF RunLeitstandDevDeploy, Channels
  <2>2. CASE RunLeitstandPropagate(p)
    BY <2>2, StartTrue DEF RunLeitstandPropagate, Channels
  <2>3. CASE RunLeitstandPromote(p)
    BY <2>3, StartTrue DEF RunLeitstandPromote, Channels
  <2> QED
    BY <1>2, <2>1, <2>2, <2>3, OtherStepsTrue, PhasesTrue, PropagateTrue, ConcludeTrue
       DEF DeployStep
<1> QED
  BY <1>1, <1>2, OtherStepsTrue, RollbackStartTrue, RollbackTrue, RecordTrue DEF Next

\* A record that says a channel was rolled back to a release is true, whatever
\* fails, is killed or deploys in between, and whoever named a decision.
THEOREM RollbacksAreTrue == Spec => []RollbackIsTruthful
<1>1. Init => TInv
  BY DEF Init, Idle, TInv, VersionsAreOwn, RecordsTrue, Holds, Deploying
<1>2. IInv /\ TInv /\ [Next]_vars => TInv'
  BY NextTrue
<1>3. TInv => RollbackIsTruthful
  BY DEF TInv, RecordsTrue, WentBack, RollbackIsTruthful
<1> QED
  BY <1>1, <1>2, <1>3, Invariance, PTL DEF Spec

-----------------------------------------------------------------------------
(* The status tells the truth.  What leitstand.status reports is the newest *)
(* record of a channel, what visitors see is the last version that went    *)
(* live.  The two are joined by the order of the stamps, by the checks that*)
(* come after an upload, and by nobody else touching the channel meanwhile.*)

\* One terminal deploys and rolls back, and it is not killed between a rollback
\* and its record.
OneDeployer ==
  /\ \E d \in Procs : \A p \in Procs : p # d => Runs[p] \cap {"deploy", "rollback"} = {}
  /\ "crash-rollback" \notin Faults

Engaged(p) == proc[p].at \in Deploying \cup {"roll", "rolled"}

\* A record's place is its age.
InTime == \A i, j \in DOMAIN records : i < j => records[i].at < records[j].at

Latest(i, ch) ==
  /\ i \in DOMAIN records /\ records[i].channel = ch
  /\ \A j \in DOMAIN records : i < j => records[j].channel # ch

\* What vouches for a success: wrangler gave a version, or the pages could be
\* compared with the build.
Sure(version, release) == version # None \/ release \notin Unidentified

\* The latest record of a channel, when it tells of a success that something
\* vouches for, names what the channel serves.
Told(ch) ==
  \A i \in DOMAIN records :
    /\ Latest(i, ch) /\ records[i].state = "succeeded"
    /\ Sure(records[i].version, records[i].artifact)
    => Live(ch) = records[i].artifact /\ records[i].artifact \in Releases

\* Where a deployment beyond dev knows that its channel serves its release: with
\* a version from the upload on, else once the freshness was checked.
Assured(c, at) ==
  /\ c.channel # "dev"
  /\ \/ at = "fresh" /\ c.version # None
     \/ at \in {"health", "gate", "write-state", "succeed"} /\ Sure(c.version, c.release)

\* A deployment under way is the last on record, and its channel serves its
\* release where that is assured.
Steady(p) ==
  LET c == proc[p] IN
  /\ Engaged(p) => Runs[p] \cap {"deploy", "rollback"} # {}
  /\ c.at \in Deploying =>
       /\ c.op = Len(records) /\ records[c.op].state = "authorized"
       /\ records[c.op].at <= c.stamp
  /\ Assured(c, c.at) => Live(c.channel) = c.release

RolledBack(ch) == \E p \in Procs : proc[p].at = "rolled" /\ proc[p].channel = ch

SInv ==
  /\ InTime
  /\ \A p \in Procs : Steady(p)
  /\ \A ch \in {"alt", "main"} : Told(ch) \/ RolledBack(ch)

\* What a channel serves depends on its own history and on what the records
\* say the versions are.
LEMMA LiveStays ==
  ASSUME Types, Longer, NEW ch \in Channels, worker'[ch] = worker[ch]
  PROVE  Live(ch)' = Live(ch)
<1>1. CASE worker[ch] = <<>>
  BY <1>1 DEF Live
<1>2. CASE worker[ch] # <<>>
  <2>1. worker[ch] \in Seq(Nat) /\ Len(worker[ch]) \in DOMAIN worker[ch]
    BY <1>2, LenProperties, EmptySeq DEF Types
  <2>2. Last(worker[ch]) \in DOMAIN records
    BY <2>1 DEF Types, Last
  <2> QED
    BY <1>2, <2>2 DEF Live, Longer
<1> QED
  BY <1>1, <1>2

\* Only one terminal is ever engaged.
LEMMA OthersAreNot ==
  ASSUME OneDeployer, SInv, NEW p \in Procs, Runs[p] \cap {"deploy", "rollback"} # {},
         NEW q \in Procs, q # p
  PROVE  ~Engaged(q)
BY DEF OneDeployer, SInv, Steady

\* The place of an engaged process among the records.
LEMMA SteadyPlaces ==
  ASSUME IInv, NEW p \in Procs, proc[p].at \in Deploying
  PROVE  /\ proc[p] \in Place /\ proc[p].op \in DOMAIN records
         /\ records[proc[p].op].channel = proc[p].channel
         /\ records[proc[p].op].artifact = proc[p].release
         /\ proc[p].release \in Releases /\ proc[p].stamp \in Nat
BY DEF IInv, Types, Placed

\* What a process may rely on is not changed by a step of others that leaves
\* records and channels alone.
LEMMA SteadyStays ==
  ASSUME IInv, UNCHANGED <<records, worker>>, NEW q \in Procs, Steady(q), proc'[q] = proc[q]
  PROVE  Steady(q)'
BY DEF Steady, Engaged, Assured, Live

\* A step that changes neither records nor channels and is no rollback.
LEMMA StatusStays ==
  ASSUME IInv, SInv, NEW p \in Procs, UNCHANGED <<records, worker>>,
         \A q \in Procs : q # p => proc'[q] = proc[q],
         proc[p].at # "rolled", Steady(p)'
  PROVE  SInv'
<1>1. InTime'
  BY DEF SInv, InTime
<1>2. ASSUME NEW q \in Procs PROVE Steady(q)'
  BY SteadyStays DEF SInv
<1>3. ASSUME NEW ch \in {"alt", "main"} PROVE (Told(ch) \/ RolledBack(ch))'
  <2>1. CASE Told(ch)
    BY <2>1 DEF Told, Latest, Live
  <2>2. CASE RolledBack(ch)
    BY <2>2 DEF RolledBack
  <2> QED
    BY <2>1, <2>2 DEF SInv
<1> QED
  BY <1>1, <1>2, <1>3 DEF SInv

LEMMA NotEngaged ==
  ASSUME NEW p \in Procs, proc'[p].at \in {"idle", "building", "certify"} \cup Readying
  PROVE  Steady(p)'
<1>1. proc'[p].at \notin Deploying \cup {"roll", "rolled"}
  BY DEF Readying, Deploying
<1>2. proc'[p].at \notin {"fresh", "health", "gate", "write-state", "succeed"}
  BY DEF Readying
<1> QED
  BY <1>1, <1>2 DEF Steady, Engaged, Assured

LEMMA OtherStepsSteady ==
  ASSUME OneDeployer, IInv, SInv, NEW p \in Procs,
         ReleaseStep(p) \/ CertifyStart(p) \/ CertifyDecide(p) \/ CertifyEnds(p)
           \/ PrepareDeployContext(p) \/ Crash(p)
  PROVE  SInv'
<1>1. proc[p].at # "rolled"
  BY DEF OneDeployer, ReleaseStep, PrepareStart, PrepareMove, ReadyStart, ReadyLock,
         ReadyStore, ReadyMark, ReadyWriteState, May, CertifyStart, CertifyDecide,
         CertifyEnds, PrepareDeployContext, Crash, KillPoints, CanFail
<1> QED
  BY <1>1, OtherStepsMove, NotEngaged, StatusStays

\* A phase that goes on to another one, of the same operation, and has looked
\* at what the channel serves before it counts as checked.
LEMMA PhaseGoesOn ==
  ASSUME IInv, SInv, NEW p \in Procs, UNCHANGED <<records, worker>>,
         \A q \in Procs : q # p => proc'[q] = proc[q],
         proc[p].at \in Deploying, proc'[p].at \in Deploying,
         proc'[p].op = proc[p].op, proc'[p].channel = proc[p].channel,
         proc'[p].release = proc[p].release, proc'[p].version = proc[p].version,
         proc'[p].stamp \in Nat, proc[p].stamp <= proc'[p].stamp,
         Assured(proc[p], proc'[p].at) => Live(proc[p].channel) = proc[p].release
  PROVE  SInv'
<1>1. /\ Steady(p) /\ proc[p].stamp \in Nat /\ proc[p].op \in DOMAIN records
      /\ records[proc[p].op].at \in Nat
  <2>1. proc[p].op \in DOMAIN records /\ proc[p].stamp \in Nat
    BY SteadyPlaces
  <2>2. records[proc[p].op] \in DeployRecord
    BY <2>1 DEF IInv, Types
  <2> QED
    BY <2>1, <2>2 DEF DeployRecord, SInv
<1>2. Live(proc[p].channel)' = Live(proc[p].channel)
  BY DEF Live
<1>3. proc[p].at # "rolled"
  BY DEF Deploying
<1>4. Engaged(p) /\ Runs[p] \cap {"deploy", "rollback"} # {}
  BY <1>1 DEF Steady, Engaged
<1>5. records'[proc'[p].op].at <= proc'[p].stamp
  BY <1>1 DEF Steady
<1>6. Assured(proc[p], proc[p].at)' => Live(proc[p].channel)' = proc'[p].release
  BY <1>2 DEF Assured
<1>7. Steady(p)'
  BY <1>1, <1>4, <1>5, <1>6 DEF Steady
<1> QED
  BY <1>3, <1>7, StatusStays

LEMMA PhasesSteady ==
  ASSUME IInv, SInv, NEW p \in Procs,
         DeployDomain(p) \/ DeployFresh(p) \/ DeployHealth(p) \/ DeployGate(p)
           \/ DeployWriteState(p)
  PROVE  SInv'
<1> DEFINE c == proc[p]
<1>1. proc[p].at \in Deploying
  BY DEF DeployDomain, DeployFresh, DeployHealth, DeployGate, DeployWriteState, Deploying
<1>2. c \in Place /\ c.stamp \in 1 .. clock /\ clock \in Nat /\ proc \in [Procs -> Place]
  BY <1>1 DEF IInv, Types, Placed
<1>3. Assured(c, c.at) => Live(c.channel) = c.release
  BY DEF SInv, Steady
<1>4. CASE DeployDomain(p)
  <2>1. CASE Done(p)
    <3>1. proc'[p].at = "idle" /\ \A q \in Procs : q # p => proc'[q] = proc[q]
      BY <1>2, <2>1 DEF Done, Idle
    <3>2. UNCHANGED <<records, worker>> /\ proc[p].at # "rolled"
      BY <1>4 DEF DeployDomain
    <3> QED
      BY <3>1, <3>2, NotEngaged, StatusStays
  <2>2. CASE proc' = [proc EXCEPT ![p].at = "propagate", ![p].stamp = clock + 1]
    <3>1. /\ \A q \in Procs : q # p => proc'[q] = proc[q]
          /\ proc'[p].at = "propagate" /\ proc'[p].op = c.op /\ proc'[p].channel = c.channel
          /\ proc'[p].release = c.release /\ proc'[p].stamp = clock + 1
          /\ proc'[p].version = c.version /\ ~Assured(c, "propagate")
      BY <1>2, <2>2 DEF Place, Assured
    <3>2. UNCHANGED <<records, worker>>
      BY <1>4 DEF DeployDomain
    <3>3. "propagate" \in Deploying
      BY DEF Deploying
    <3>4. clock + 1 \in Nat /\ c.stamp <= clock + 1
      BY <1>2
    <3> HIDE DEF c
    <3> QED
      BY <1>1, <3>1, <3>2, <3>3, <3>4, PhaseGoesOn DEF c
  <2> QED
    BY <1>4, <2>1, <2>2 DEF DeployDomain
<1>5. ASSUME NEW at \in Deploying, NEW seen,
             \/ proc' = [proc EXCEPT ![p].at = at]
             \/ proc' = [proc EXCEPT ![p].at = at, ![p].seen = seen],
             UNCHANGED <<records, worker>>,
             Assured(c, at) => Live(c.channel) = c.release
      PROVE  SInv'
  <2>1. /\ \A q \in Procs : q # p => proc'[q] = proc[q]
        /\ proc'[p].at = at /\ proc'[p].op = c.op /\ proc'[p].channel = c.channel
        /\ proc'[p].release = c.release /\ proc'[p].stamp = c.stamp
        /\ proc'[p].version = c.version
    BY <1>2, <1>5 DEF Place
  <2>2. c.stamp \in Nat /\ c.stamp <= c.stamp
    BY <1>2
  <2> QED
    BY <1>1, <1>5, <2>1, <2>2, PhaseGoesOn
<1>6. {"fail", "health", "gate", "write-state", "succeed"} \subseteq Deploying
  BY DEF Deploying
<1>7. ~Assured(c, "fail")
  BY DEF Assured
<1>8. CASE DeployFresh(p)
  <2>1. UNCHANGED <<records, worker>> /\ c.at = "fresh"
    BY <1>8 DEF DeployFresh, Deployment
  <2>2. ASSUME NEW known \in IdentityKnown(c.release), known => Fresh(p), Goto(p, "health")
        PROVE  SInv'
    <3>1. c.version # None \/ Fresh(p) \/ c.release \in Unidentified
      BY <2>2 DEF IdentityKnown
    <3>2. Assured(c, "health") => Live(c.channel) = c.release
      BY <1>3, <2>1, <3>1 DEF Assured, Sure, Fresh
    <3> QED
      BY <1>5, <1>6, <2>1, <2>2, <3>2 DEF Goto
  <2>3. CASE Goto(p, "fail")
    BY <1>5, <1>6, <1>7, <2>1, <2>3 DEF Goto
  <2> QED
    BY <1>8, <2>2, <2>3 DEF DeployFresh
<1>9. CASE DeployHealth(p)
  <2>1. UNCHANGED <<records, worker>> /\ c.at = "health"
    BY <1>9 DEF DeployHealth, Deployment
  <2>2. Goto(p, "fail") \/ Goto(p, "gate")
    BY <1>9 DEF DeployHealth
  <2>3. Assured(c, "gate") => Live(c.channel) = c.release
    BY <1>3, <2>1 DEF Assured
  <2> QED
    BY <1>5, <1>6, <1>7, <2>1, <2>2, <2>3 DEF Goto
<1>10. CASE DeployGate(p)
  <2>1. UNCHANGED <<records, worker>> /\ c.at = "gate"
    BY <1>10 DEF DeployGate, Deployment
  <2>2. \/ proc' = [proc EXCEPT ![p].at = "write-state", ![p].seen = state]
        \/ proc' = [proc EXCEPT ![p].at = "fail", ![p].seen = None]
    BY <1>10 DEF DeployGate
  <2>3. Assured(c, "write-state") => Live(c.channel) = c.release
    BY <1>3, <2>1 DEF Assured
  <2> QED
    BY <1>5, <1>6, <1>7, <2>1, <2>2, <2>3
<1>11. CASE DeployWriteState(p)
  <2>1. UNCHANGED <<records, worker>> /\ c.at = "write-state"
    BY <1>11 DEF DeployWriteState, Deployment
  <2>2. proc' = [proc EXCEPT ![p].at = "succeed", ![p].seen = None]
    BY <1>11 DEF DeployWriteState
  <2>3. Assured(c, "succeed") => Live(c.channel) = c.release
    BY <1>3, <2>1 DEF Assured
  <2> QED
    BY <1>5, <1>6, <2>1, <2>2, <2>3
<1> QED
  BY <1>4, <1>8, <1>9, <1>10, <1>11

\* Of the records of a channel the one that was just written is the latest.
LEMMA LastIsLatest ==
  ASSUME IInv, NEW ch, records # <<>>, records[Len(records)].channel = ch, NEW i, Latest(i, ch)
  PROVE  i = Len(records)
<1>1. records \in Seq(DeployRecord)
  BY DEF IInv, Types
<1>2. i \in 1 .. Len(records) /\ Len(records) \in DOMAIN records
  BY <1>1, LenProperties, EmptySeq DEF Latest
<1> QED
  BY <1>2 DEF Latest

LEMMA RollbackStartSteady ==
  ASSUME IInv, SInv, NEW p \in Procs, RollbackStart(p) PROVE SInv'
<1>1. PICK ch \in Channels : \E v, r :
        proc' = [proc EXCEPT ![p] = [Idle EXCEPT !.at = "roll", !.channel = ch,
                                                 !.version = v, !.release = r]]
  BY DEF RollbackStart
<1>2. /\ \A q \in Procs : q # p => proc'[q] = proc[q]
      /\ proc'[p].at = "roll"
  BY <1>1 DEF IInv, Types, Idle
<1>3. /\ UNCHANGED <<records, worker>> /\ proc[p].at # "rolled"
      /\ Runs[p] \cap {"deploy", "rollback"} # {}
  BY DEF RollbackStart, May, Deployment
<1>4. Steady(p)'
  BY <1>2, <1>3 DEF Steady, Assured, Deploying
<1> QED
  BY <1>2, <1>3, <1>4, StatusStays

\* A new record, of an operation that has not succeeded, is the latest of its
\* channel; the other channels are told of as before.
LEMMA AddedSteady ==
  ASSUME IInv, SInv, NEW p \in Procs, NEW new, records' = Append(records, new),
         new.at = clock + 1, new.state # "succeeded", UNCHANGED worker,
         \A q \in Procs : q # p => proc'[q] = proc[q] /\ ~Engaged(q),
         proc[p].at = "rolled" => proc[p].channel = new.channel,
         Steady(p)'
  PROVE  SInv'
<1> DEFINE n == Len(records)
<1>1. /\ records \in Seq(DeployRecord) /\ clock \in Nat /\ n \in Nat
      /\ \A i \in DOMAIN records : records[i].at \in Nat /\ records[i].at <= clock
  <2>1. \A i \in DOMAIN records : records[i] \in DeployRecord
    BY DEF IInv, Types
  <2> QED
    BY <2>1 DEF IInv, Types, DeployRecord
<1>2. /\ \A i \in DOMAIN records : i \in DOMAIN records' /\ records'[i] = records[i]
      /\ DOMAIN records = 1 .. n /\ DOMAIN records' = 1 .. n + 1 /\ records'[n + 1] = new
  BY <1>1
<1> HIDE DEF n
<1>3. Longer
  BY <1>2 DEF Longer
<1>4. InTime'
  <2> SUFFICES ASSUME NEW i \in DOMAIN records', NEW j \in DOMAIN records', i < j
               PROVE  records'[i].at < records'[j].at
    BY DEF InTime
  <2>1. i \in DOMAIN records
    BY <1>1, <1>2
  <2>2. CASE j \in DOMAIN records
    BY <1>2, <2>1, <2>2 DEF SInv, InTime
  <2>3. CASE j = n + 1
    BY <1>1, <1>2, <2>1, <2>3
  <2> QED
    BY <1>1, <1>2, <2>2, <2>3
<1>5. ASSUME NEW q \in Procs PROVE Steady(q)'
  <2> SUFFICES ASSUME q # p PROVE Steady(q)'
    OBVIOUS
  <2>1. proc'[q] = proc[q] /\ ~Engaged(q)
    OBVIOUS
  <2>2. proc'[q].at \notin Deploying \cup {"roll", "rolled"}
    BY <2>1 DEF Engaged
  <2> QED
    BY <2>2 DEF Steady, Assured, Engaged, Deploying
<1>6. ASSUME NEW ch \in {"alt", "main"} PROVE (Told(ch) \/ RolledBack(ch))'
  <2>1. CASE ch = new.channel
    <3>1. \A i \in DOMAIN records' : Latest(i, ch)' => records'[i].state # "succeeded"
      <4> SUFFICES ASSUME NEW i \in DOMAIN records', Latest(i, ch)'
                   PROVE  records'[i].state # "succeeded"
        OBVIOUS
      <4>1. i = n + 1
        BY <1>1, <1>2, <2>1 DEF Latest
      <4> QED
        BY <1>2, <4>1
    <3> QED
      BY <3>1 DEF Told
  <2>2. CASE ch # new.channel
    <3>1. Told(ch)
      <4>1. ~RolledBack(ch)
        BY <2>2 DEF RolledBack, Engaged
      <4> QED
        BY <4>1 DEF SInv
    <3>2. Live(ch)' = Live(ch)
      BY <1>3, LiveStays DEF IInv, Channels
    <3>3. ASSUME NEW i \in DOMAIN records', Latest(i, ch)', records'[i].state = "succeeded",
                 Sure(records'[i].version, records'[i].artifact)
          PROVE  Live(ch)' = records'[i].artifact /\ records'[i].artifact \in Releases
      <4>1. i \in DOMAIN records /\ records'[i] = records[i]
        BY <1>1, <1>2, <2>2, <3>3 DEF Latest
      <4>2. Latest(i, ch)
        BY <1>2, <3>3, <4>1 DEF Latest
      <4> QED
        BY <3>1, <3>2, <3>3, <4>1, <4>2 DEF Told
    <3> QED
      BY <3>3 DEF Told, Sure
  <2> QED
    BY <2>1, <2>2
<1> QED
  BY <1>4, <1>5, <1>6 DEF SInv

LEMMA StartSteady ==
  ASSUME OneDeployer, IInv, SInv, NEW p \in Procs, NEW r \in Prepared, NEW ch \in Channels,
         NEW d, NEW first \in {"domain", "propagate"}, DeployStart(p, r, ch, d, first)
  PROVE  SInv'
<1> DEFINE new == Record(ch, r, d, IF ch = "main" THEN verified[r] ELSE None,
                         "authorized", clock + 1, None, None)
<1>1. /\ records' = Append(records, new) /\ UNCHANGED worker
      /\ proc[p].at = "idle" /\ Runs[p] \cap {"deploy", "rollback"} # {}
  BY DEF DeployStart, May
<1>2. new.state = "authorized" /\ new.at = clock + 1
  BY DEF Record
<1> HIDE DEF new
<1>3. /\ \A q \in Procs : q # p => proc'[q] = proc[q]
      /\ proc'[p].at = first /\ proc'[p].op = Len(records) + 1 /\ proc'[p].stamp = clock + 1
  BY DEF DeployStart, IInv, Types, Idle
<1>4. \A q \in Procs : q # p => ~Engaged(q)
  BY <1>1, OthersAreNot
<1>5. clock + 1 \in Nat /\ records \in Seq(DeployRecord)
  BY DEF IInv, Types
<1>6. Len(records') = Len(records) + 1 /\ records'[Len(records) + 1] = new
  BY <1>1, <1>5
<1>7. first \notin {"fresh", "health", "gate", "write-state", "succeed"}
  OBVIOUS
<1>8. Steady(p)'
  BY <1>1, <1>2, <1>3, <1>5, <1>6, <1>7 DEF Steady, Assured
<1> QED
  BY <1>1, <1>2, <1>3, <1>4, <1>8, AddedSteady

LEMMA RecordSteady ==
  ASSUME OneDeployer, IInv, SInv, NEW p \in Procs, RollbackRecord(p) PROVE SInv'
<1> DEFINE new == Record(proc[p].channel, None, None, None, proc[p].look, clock + 1,
                         proc[p].version, proc[p].release)
<1>1. /\ records' = Append(records, new) /\ UNCHANGED worker
      /\ proc' = [proc EXCEPT ![p] = Idle] /\ proc[p].at = "rolled"
  BY DEF RollbackRecord, Done
<1>2. /\ new.state # "succeeded" /\ new.at = clock + 1 /\ new.channel = proc[p].channel
  BY <1>1 DEF Record, IInv, Placed
<1> HIDE DEF new
<1>3. /\ \A q \in Procs : q # p => proc'[q] = proc[q]
      /\ proc'[p].at = "idle"
  BY <1>1 DEF IInv, Types, Idle
<1>4. \A q \in Procs : q # p => ~Engaged(q)
  <2>1. Runs[p] \cap {"deploy", "rollback"} # {}
    BY <1>1 DEF SInv, Steady, Engaged
  <2> QED
    BY <2>1, OthersAreNot
<1>5. Steady(p)'
  BY <1>3, NotEngaged
<1> QED
  BY <1>1, <1>2, <1>3, <1>4, <1>5, AddedSteady

\* What goes live on a channel leaves the other channels as they are.
LEMMA OnlyThisChannel ==
  ASSUME IInv, SInv, NEW p \in Procs, NEW ch \in Channels, NEW v, UNCHANGED records,
         worker' = worker \/ worker' = [worker EXCEPT ![ch] = Append(@, v)],
         \A q \in Procs : q # p => proc'[q] = proc[q] /\ ~Engaged(q),
         proc[p].at # "rolled", Steady(p)',
         ch \in {"alt", "main"} => (Told(ch) \/ RolledBack(ch))'
  PROVE  SInv'
<1>1. Longer
  BY LiveLonger
<1>2. InTime'
  BY DEF SInv, InTime
<1>3. ASSUME NEW q \in Procs PROVE Steady(q)'
  <2> SUFFICES ASSUME q # p PROVE Steady(q)'
    OBVIOUS
  <2>1. proc'[q].at \notin Deploying \cup {"roll", "rolled"}
    BY DEF Engaged
  <2> QED
    BY <2>1 DEF Steady, Assured, Engaged, Deploying
<1>4. ASSUME NEW c \in {"alt", "main"}, c # ch PROVE (Told(c) \/ RolledBack(c))'
  <2>1. worker'[c] = worker[c]
    BY <1>4 DEF IInv, Types, Channels
  <2>2. Live(c)' = Live(c)
    BY <1>1, <2>1, LiveStays DEF IInv, Channels
  <2>3. Told(c)
    <3>1. ~RolledBack(c)
      BY DEF RolledBack, Engaged
    <3> QED
      BY <3>1 DEF SInv
  <2> QED
    BY <2>2, <2>3 DEF Told, Sure, Latest
<1> QED
  BY <1>2, <1>3, <1>4 DEF SInv

LEMMA PropagateSteady ==
  ASSUME OneDeployer, IInv, SInv, NEW p \in Procs, DeployPropagate(p) PROVE SInv'
<1> DEFINE c == proc[p]
           next == IF c.channel = "dev" THEN "health" ELSE "fresh"
<1>1. /\ c.at = "propagate" /\ c.at \in Deploying /\ UNCHANGED records
      /\ worker' = worker \/ worker' = [worker EXCEPT ![c.channel] = Append(@, c.op)]
  BY DEF DeployPropagate, Deploying
<1>2. /\ c \in Place /\ c.op \in DOMAIN records /\ records[c.op].channel = c.channel
      /\ proc \in [Procs -> Place] /\ c.channel \in Channels /\ c.at # "rolled"
  BY <1>1, SteadyPlaces DEF IInv, Types, Place
<1>3. /\ Runs[p] \cap {"deploy", "rollback"} # {}
      /\ c.op = Len(records) /\ records[c.op].state = "authorized"
      /\ records[c.op].at <= c.stamp
  BY <1>1 DEF SInv, Steady, Engaged
<1>4. PICK at \in {next, "fail"} : \E v :
        \/ at = "fail" /\ proc' = [proc EXCEPT ![p].at = at]
        \/ /\ proc' = [proc EXCEPT ![p].at = at, ![p].version = v]
           /\ v # None => worker' = [worker EXCEPT ![c.channel] = Append(@, c.op)]
  <2>1. CASE Goto(p, "fail")
    BY <2>1 DEF Goto
  <2>2. CASE \E w \in WranglerDeploys :
               /\ worker' = IF w.uploaded THEN [worker EXCEPT ![c.channel] = Append(@, c.op)]
                            ELSE worker
               /\ proc' = [proc EXCEPT ![p].at = next,
                                       ![p].version = IF w.exit = 0 THEN c.op ELSE None]
    <3>1. \A w \in WranglerDeploys : w.exit = 0 => w.uploaded
      BY DEF WranglerDeploys
    <3> QED
      BY <2>2, <3>1
  <2> QED
    BY <2>1, <2>2 DEF DeployPropagate
<1>5. /\ \A q \in Procs : q # p => proc'[q] = proc[q]
      /\ proc'[p].at = at /\ proc'[p].op = c.op /\ proc'[p].channel = c.channel
      /\ proc'[p].stamp = c.stamp /\ proc'[p].release = c.release
  BY <1>2, <1>4 DEF Place
<1>6. \A q \in Procs : q # p => ~Engaged(q)
  BY <1>3, OthersAreNot
<1>7. Steady(p)'
  <2>1. ASSUME Assured(proc[p], proc[p].at)'
        PROVE  worker' = [worker EXCEPT ![c.channel] = Append(@, c.op)]
    <3>1. at = "fresh" /\ proc'[p].version # None
      BY <1>5, <2>1 DEF Assured
    <3> QED
      BY <1>2, <1>4, <3>1 DEF Place
  <2>2. Assured(proc[p], proc[p].at)' => Live(c.channel)' = proc'[p].release
    <3> SUFFICES ASSUME worker' = [worker EXCEPT ![c.channel] = Append(@, c.op)]
                 PROVE  Live(c.channel)' = proc'[p].release
      BY <2>1
    <3> DEFINE w == worker[c.channel]
    <3>1. w \in Seq(Nat) /\ c.op \in Nat /\ worker'[c.channel] = Append(w, c.op)
      BY <1>2 DEF IInv, Types
    <3> HIDE DEF w
    <3>2. Append(w, c.op) # <<>> /\ Last(Append(w, c.op)) = c.op
      BY <3>1 DEF Last
    <3>3. Live(c.channel)' = records'[c.op].artifact
      BY <1>5, <3>1, <3>2 DEF Live
    <3> QED
      BY <1>1, <1>5, <3>3, SteadyPlaces
  <2> QED
    BY <1>1, <1>3, <1>5, <2>2 DEF Steady
<1>8. Told(c.channel)'
  <2>1. \A i \in DOMAIN records : Latest(i, c.channel) => i = c.op
    BY <1>2, <1>3, LastIsLatest, EmptySeq
  <2>2. \A i \in DOMAIN records : Latest(i, c.channel) => records[i].state # "succeeded"
    BY <1>3, <2>1
  <2>3. \A i \in DOMAIN records' : Latest(i, c.channel)' => records'[i].state # "succeeded"
    BY <1>1, <1>2, <1>5, <2>2 DEF Latest
  <2> QED
    BY <2>3 DEF Told
<1> HIDE DEF next, c
<1> QED
  BY <1>1, <1>2, <1>5, <1>6, <1>7, <1>8, OnlyThisChannel DEF c

LEMMA RollbackSteady ==
  ASSUME OneDeployer, IInv, SInv, NEW p \in Procs, RollbackWrangler(p) PROVE SInv'
<1> DEFINE c == proc[p]
<1>1. /\ c.at = "roll" /\ UNCHANGED records
      /\ worker' = worker
         \/ \E v \in RollbackTargets(c.channel, c.version) :
              worker' = [worker EXCEPT ![c.channel] = Append(@, v)]
  BY DEF RollbackWrangler
<1>2. c \in Place /\ proc \in [Procs -> Place] /\ c.channel \in Channels /\ c.at # "rolled"
  BY <1>1 DEF IInv, Types, Place
<1>3. Runs[p] \cap {"deploy", "rollback"} # {}
  BY <1>1 DEF SInv, Steady, Engaged
<1>4. PICK look \in {"rolled-back", "failed"} :
        proc' = [proc EXCEPT ![p].at = "rolled", ![p].look = look]
  BY DEF RollbackWrangler
<1>5. /\ \A q \in Procs : q # p => proc'[q] = proc[q]
      /\ proc'[p].at = "rolled" /\ proc'[p].channel = c.channel
  BY <1>2, <1>4 DEF Place
<1>6. \A q \in Procs : q # p => ~Engaged(q)
  BY <1>3, OthersAreNot
<1>7. Steady(p)'
  BY <1>3, <1>5 DEF Steady, Assured, Deploying
<1>8. RolledBack(c.channel)'
  BY <1>2, <1>5 DEF RolledBack
<1> HIDE DEF c
<1>9. CASE worker' = worker
  BY <1>1, <1>2, <1>5, <1>6, <1>7, <1>8, <1>9, OnlyThisChannel DEF c
<1>10. ASSUME NEW v, worker' = [worker EXCEPT ![c.channel] = Append(@, v)]
       PROVE  SInv'
  BY <1>1, <1>2, <1>5, <1>6, <1>7, <1>8, <1>10, OnlyThisChannel DEF c
<1> QED
  BY <1>1, <1>9, <1>10

\* The record that says a deployment on alt or main succeeded is written while
\* the channel serves its release, where something vouches for it.
LEMMA ConcludeSteady ==
  ASSUME OneDeployer, IInv, SInv, NEW p \in Procs, DeploySucceed(p) \/ DeployFail(p)
  PROVE  SInv'
<1> DEFINE c == proc[p]
           op == c.op
<1>1. /\ c.at \in {"succeed", "fail"} /\ c.at \in Deploying
      /\ \E v, rel : \/ c.at = "succeed" /\ v = c.version /\ Conclude(p, "succeeded", v, rel)
                     \/ Conclude(p, "failed", v, rel)
  BY DEF DeploySucceed, DeployFail, Deploying
<1>2. /\ c \in Place /\ op \in DOMAIN records /\ records[op].channel = c.channel
      /\ records[op].artifact = c.release /\ c.release \in Releases /\ c.stamp \in Nat
      /\ proc \in [Procs -> Place] /\ c.channel \in Channels
  BY <1>1, SteadyPlaces DEF IInv, Types, Place
<1>3. /\ Runs[p] \cap {"deploy", "rollback"} # {}
      /\ op = Len(records) /\ records[op].at <= c.stamp
      /\ c.at = "succeed" /\ c.channel # "dev" /\ Sure(c.version, c.release) =>
           Live(c.channel) = c.release
  BY <1>1 DEF SInv, Steady, Assured, Engaged
<1>4. PICK st \in {"succeeded", "failed"} : \E v, rel :
        Conclude(p, st, v, rel) /\ (st = "succeeded" => c.at = "succeed" /\ v = c.version)
  BY <1>1
<1>5. PICK new : /\ new.channel = records[op].channel /\ new.artifact = records[op].artifact
                 /\ new.state = st /\ new.at = c.stamp
                 /\ (st = "succeeded" => new.version = c.version)
                 /\ records' = [records EXCEPT ![op] = new]
  <2>1. PICK v, rel : Conclude(p, st, v, rel) /\ (st = "succeeded" => v = c.version)
    BY <1>4
  <2> DEFINE new == Record(records[op].channel, records[op].artifact, records[op].decision,
                           None, st, c.stamp, v, rel)
  <2>2. records' = [records EXCEPT ![op] = new]
    BY <2>1 DEF Conclude
  <2>3. /\ new.channel = records[op].channel /\ new.artifact = records[op].artifact
        /\ new.state = st /\ new.at = c.stamp
        /\ (st = "succeeded" => new.version = c.version)
    BY <2>1 DEF Record
  <2> HIDE DEF new
  <2> QED
    BY <2>2, <2>3
<1>6. worker' = worker /\ proc' = [proc EXCEPT ![p] = Idle]
  BY <1>4 DEF Conclude, Done
<1>7. /\ \A q \in Procs : q # p => proc'[q] = proc[q]
      /\ proc'[p].at = "idle"
  BY <1>2, <1>6 DEF Idle
<1>8. \A q \in Procs : q # p => ~Engaged(q)
  BY <1>3, OthersAreNot
<1>9. /\ DOMAIN records = 1 .. Len(records) /\ Len(records) \in Nat
      /\ DOMAIN records' = DOMAIN records /\ records'[op] = new
      /\ \A i \in DOMAIN records : i # op => records'[i] = records[i]
      /\ \A i \in DOMAIN records : records[i].at \in Nat
      /\ \A i \in DOMAIN records : /\ records'[i].channel = records[i].channel
                                   /\ records'[i].artifact = records[i].artifact
  <2>1. records \in Seq(DeployRecord)
    BY DEF IInv, Types
  <2>2. \A i \in DOMAIN records : records[i].at \in Nat
    <3>1. \A i \in DOMAIN records : records[i] \in DeployRecord
      BY <2>1
    <3> QED
      BY <3>1 DEF DeployRecord
  <2> HIDE DEF op
  <2>3. /\ DOMAIN records' = DOMAIN records /\ records'[op] = new
        /\ \A i \in DOMAIN records : i # op => records'[i] = records[i]
    BY <1>2, <1>5, <2>1
  <2>4. DOMAIN records = 1 .. Len(records) /\ Len(records) \in Nat
    BY <2>1
  <2> QED
    BY <1>2, <1>5, <2>2, <2>3, <2>4
<1> HIDE DEF c
<1>10. Longer
  BY <1>6, <1>9 DEF Longer
<1>11. InTime'
  <2> SUFFICES ASSUME NEW i \in DOMAIN records', NEW j \in DOMAIN records', i < j
               PROVE  records'[i].at < records'[j].at
    BY DEF InTime
  <2>1. i # op /\ records[i].at < records[j].at
    BY <1>3, <1>9 DEF SInv, InTime
  <2> QED
    BY <1>2, <1>3, <1>5, <1>9, <2>1
<1>12. ASSUME NEW q \in Procs PROVE Steady(q)'
  <2>1. proc'[q].at \notin Deploying \cup {"roll", "rolled"}
    BY <1>7, <1>8 DEF Engaged, Deploying
  <2> QED
    BY <2>1 DEF Steady, Assured, Engaged, Deploying
<1>13. ASSUME NEW ch \in {"alt", "main"} PROVE Told(ch)'
  <2>1. Live(ch)' = Live(ch)
    BY <1>6, <1>10, LiveStays DEF IInv, Channels
  <2>2. Told(ch)
    <3>1. ~RolledBack(ch)
      <4>1. c.at # "rolled"
        BY <1>1 DEF Deploying
      <4> QED
        BY <1>8, <4>1 DEF RolledBack, Engaged, c
    <3> QED
      BY <3>1 DEF SInv
  <2>3. ASSUME NEW i \in DOMAIN records', Latest(i, ch)', records'[i].state = "succeeded",
               Sure(records'[i].version, records'[i].artifact)
        PROVE  Live(ch)' = records'[i].artifact /\ records'[i].artifact \in Releases
    <3>1. Latest(i, ch)
      BY <1>9, <2>3 DEF Latest
    <3>2. CASE i = op
      BY <1>2, <1>3, <1>4, <1>5, <1>9, <2>1, <2>3, <3>1, <3>2 DEF Latest
    <3>3. CASE i # op
      BY <1>9, <2>1, <2>2, <2>3, <3>1, <3>3 DEF Told
    <3> QED
      BY <3>2, <3>3
  <2> QED
    BY <2>3 DEF Told, Sure
<1> QED
  BY <1>11, <1>12, <1>13 DEF SInv

LEMMA NextSteady == ASSUME OneDeployer, IInv, SInv, [Next]_vars PROVE SInv'
<1>1. CASE UNCHANGED vars
  BY <1>1 DEF vars, SInv, InTime, Steady, Assured, Sure, Engaged, Told, Latest, RolledBack, Live
<1>2. ASSUME NEW p \in Procs, DeployStep(p) PROVE SInv'
  <2>1. CASE RunLeitstandDevDeploy(p)
    BY <2>1, StartSteady DEF RunLeitstandDevDeploy, Channels
  <2>2. CASE RunLeitstandPropagate(p)
    BY <2>2, StartSteady DEF RunLeitstandPropagate, Channels
  <2>3. CASE RunLeitstandPromote(p)
    BY <2>3, StartSteady DEF RunLeitstandPromote, Channels
  <2> QED
    BY <1>2, <2>1, <2>2, <2>3, OtherStepsSteady, PhasesSteady, PropagateSteady, ConcludeSteady
       DEF DeployStep
<1> QED
  BY <1>1, <1>2, OtherStepsSteady, RollbackStartSteady, RollbackSteady, RecordSteady DEF Next

\* The newest record of a channel by its stamp is its latest by its place.
LEMMA NewestIsLatest ==
  ASSUME IInv, SInv, NEW ch, NEW own, own = {i \in DOMAIN records : records[i].channel = ch},
         own # {}
  PROVE  Latest(Newest(own), ch)
<1>1. Newest(own) \in own /\ \A j \in own : records[j].at <= records[Newest(own)].at
  BY NewestIs DEF IInv
<1> DEFINE n == Newest(own)
<1> HIDE DEF n
<1>2. \A i \in DOMAIN records : records[i].at \in Nat
  <2>1. \A i \in DOMAIN records : records[i] \in DeployRecord
    BY DEF IInv, Types
  <2> QED
    BY <2>1 DEF DeployRecord
<1>3. n \in DOMAIN records /\ records[n].channel = ch
  BY <1>1 DEF n
<1>4. ASSUME NEW j \in DOMAIN records, n < j, records[j].channel = ch PROVE FALSE
  <2>1. records[n].at < records[j].at
    BY <1>3, <1>4 DEF SInv, InTime
  <2>2. records[j].at <= records[n].at
    BY <1>1, <1>4 DEF n
  <2> QED
    BY <1>2, <1>3, <2>1, <2>2
<1> QED
  BY <1>3, <1>4 DEF Latest, n

\* The status is honest: with one terminal that deploys and rolls back, and no
\* kill between a rollback and its record, a success that leitstand.status
\* reports for alt or main while nothing runs is what the channel serves, however
\* wrangler, the probes, the purge or the network fail and wherever a deployment
\* is killed; and leitstand.pipeline.check says so of no channel that is empty.
\* Excepted are the successes nothing vouches for: wrangler failed, and the build
\* identity could not be read, so that the freshness was never looked at.
THEOREM StatusTellsTruth ==
  ASSUME OneDeployer
  PROVE  Spec => []StatusIsHonest
<1>1. Init => SInv
  <2> SUFFICES ASSUME Init PROVE SInv
    OBVIOUS
  <2>1. records = <<>> /\ \A p \in Procs : proc[p].at = "idle"
    BY DEF Init, Idle
  <2> QED
    BY <2>1 DEF SInv, InTime, Steady, Assured, Engaged, Told, Deploying
<1>2. IInv /\ SInv /\ [Next]_vars => SInv'
  BY NextSteady
<1>3. IInv /\ SInv => StatusIsHonest
  <2> SUFFICES ASSUME IInv, SInv, Quiet PROVE StatusIsHonest
    BY DEF StatusIsHonest
  <2>1. ASSUME NEW ch \in {"alt", "main"}, Reported(ch).state = "succeeded", Vouched(ch)
        PROVE  Live(ch) = Reported(ch).artifact /\ Live(ch) \in Releases
    <3>1. Told(ch)
      BY DEF SInv, RolledBack, Quiet
    <3> DEFINE own == {i \in DOMAIN records : records[i].channel = ch}
    <3>2. own # {}
      BY <2>1 DEF Reported, NoOperation
    <3>3. /\ Reported(ch).state = records[Newest(own)].state
          /\ Reported(ch).artifact = records[Newest(own)].artifact
          /\ Reported(ch).version = records[Newest(own)].version
      <4>1. Reported(ch) = [f \in DOMAIN NoOperation |-> records[Newest(own)][f]]
        BY <3>2 DEF Reported
      <4>2. {"state", "artifact", "version"} \subseteq DOMAIN NoOperation
        BY DEF NoOperation
      <4> HIDE DEF own
      <4> QED
        BY <4>1, <4>2
    <3>4. Latest(Newest(own), ch)
      <4> HIDE DEF own
      <4> QED
        BY <3>2, NewestIsLatest DEF own
    <3> QED
      BY <2>1, <3>1, <3>3, <3>4 DEF Told, Latest, Vouched, Sure
  <2>2. PipelineState = "main-deployed" => Reported("main").state = "succeeded"
    BY DEF PipelineState
  <2>3. PipelineState = "alt-deployed" => Reported("alt").state = "succeeded"
    BY DEF PipelineState
  <2>4. \A ch \in {"alt", "main"} : Reported(ch).state = "succeeded" /\ Vouched(ch) => Live(ch) # None
    BY <2>1, Basics
  <2> QED
    BY <2>1, <2>2, <2>3, <2>4 DEF StatusIsHonest
<1> QED
  BY <1>1, <1>2, <1>3, Invariance, PTL DEF Spec
=============================================================================
