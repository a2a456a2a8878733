-------------------------- MODULE PlatformProofs ---------------------------
(***************************************************************************)
(* Theorems about the kernel's commands, the workshops' repositories, their*)
(* logs and their table, the artifacts of the platform, the stores and the *)
(* gates: MCPlatform, for any values of its constants.                     *)
(***************************************************************************)
EXTENDS MCPlatform, FiniteSetTheorems, SequenceTheorems,
  WellFoundedInduction, TLAPS


(* The components count with the same operator.                             *)
LEMMA MeshCount == \A S : Mesh!Cardinality(S) = Cardinality(S)
  BY DEF Mesh!Cardinality, Cardinality
-----------------------------------------------------------------------------
(* The clones of the workshops (GitMesh).                                   *)

Phases == {"idle", "reopen", "break", "locked", "fetch", "merge", "release"}
AtWork == {"locked", "fetch", "merge", "release"}
SyncStates == [phase : Phases, verifySignatures : BOOLEAN, left : SUBSET Remotes, fetched : SUBSET Commits,
               chosen : Commits \cup {99}]

\* What a sync that verifies signatures is about to merge is signed beyond HEAD.
MayMerge(p) ==
  sync[p].phase = "merge" =>
    /\ sync[p].chosen \in Commits
    /\ sync[p].verifySignatures => Mesh!Ancestors(sync[p].chosen) \ Mesh!Ancestors(head) \subseteq Signed
\* The lock file is there while a sync works, and no other does.
LockHeld ==
  \A p, q \in Syncs : sync[p].phase \in AtWork =>
    lock # "none" /\ (sync[q].phase \in AtWork => q = p)

MeshInv ==
  /\ head \in Commits /\ lock \in {"none", "empty", "fresh", "stale"}
  /\ {remote, tracking} \subseteq [Remotes -> Commits] /\ sync \in [Syncs -> SyncStates]
  /\ {last, verify} \subseteq Commits \cup {99} /\ counted \subseteq Commits /\ broken \in BOOLEAN
  /\ Mesh!HeadKeepsHistory /\ Mesh!NothingEscapesVerification
  /\ \A p \in Syncs : MayMerge(p)
  /\ broken \/ (LockHeld /\ \A p \in Syncs : sync[p].phase # "reopen")

LEMMA Root == 0 \in Commits /\ 99 \notin Commits /\ \A c \in Commits \ {0} : Parent[c] \in Commits
BY PlatformAssumption

LEMMA AncestorsAre ==
  ASSUME NEW c \in Commits
  PROVE  Mesh!Ancestors(c) = {a \in Commits : \A S \in Histories : c \in S => a \in S}
BY Root DEF Mesh!Ancestors, AncestorsOf, Mesh!None

LEMMA OwnAncestor == ASSUME NEW c \in Commits PROVE c \in Mesh!Ancestors(c)
BY AncestorsAre

LEMMA AncestorsOfAncestors ==
  ASSUME NEW c \in Commits, NEW a \in Mesh!Ancestors(c)
  PROVE  a \in Commits /\ Mesh!Ancestors(a) \subseteq Mesh!Ancestors(c)
BY AncestorsAre

LEMMA AncestorsOfParent ==
  ASSUME NEW c \in Commits, c # 0 PROVE Parent[c] \in Mesh!Ancestors(c)
<1>1. Parent[c] \in Commits /\ \A S \in Histories : c \in S => Parent[c] \in S
  BY Root DEF Histories
<1> QED
  BY <1>1, AncestorsAre

LEMMA MeshInit == ASSUME Mesh!Init PROVE MeshInv
<1>1. head = 0 /\ had = {0} /\ received = {} /\ last = 99 /\ counted = {}
      /\ Mesh!Ancestors(last) = {}
  BY DEF Mesh!Init, Mesh!None, Mesh!Ancestors
<1>2. sync = [p \in Syncs |-> Mesh!Idle] /\ Mesh!Idle \in SyncStates
  BY DEF Mesh!Init, Mesh!Idle, Mesh!None, SyncStates, Phases
<1>3. \A p \in Syncs : sync[p].phase = "idle"
  BY <1>2 DEF Mesh!Idle
<1>4. Mesh!HeadKeepsHistory /\ Mesh!NothingEscapesVerification
  BY <1>1, Root, OwnAncestor DEF Mesh!HeadKeepsHistory, Mesh!NothingEscapesVerification
<1>5. LockHeld /\ \A p \in Syncs : MayMerge(p) /\ sync[p].phase # "reopen"
  BY <1>3 DEF LockHeld, MayMerge, AtWork
<1>6. remote \in [Remotes -> Commits] /\ tracking = remote /\ verify = 99 /\ broken = FALSE /\ lock = "none"
  BY Root DEF Mesh!Init, Mesh!None
<1> QED
  BY <1>1, <1>2, <1>4, <1>5, <1>6, Root DEF MeshInv

\* HEAD goes forward only.
LEMMA ForwardKeeps ==
  ASSUME MeshInv, NEW p \in Syncs, MayMerge(p), NEW c \in Commits, head \in Mesh!Ancestors(c),
         head' = c, sync'[p] = sync[p]
  PROVE  MayMerge(p)'
<1>1. Mesh!Ancestors(head) \subseteq Mesh!Ancestors(c)
  BY AncestorsOfAncestors
<1>2. Mesh!Ancestors(head)' = Mesh!Ancestors(c)
  BY DEF Mesh!Ancestors
<1>3. PICK d : d = sync[p].chosen
  OBVIOUS
<1>4. Mesh!Ancestors(sync[p].chosen)' = Mesh!Ancestors(d)
  BY <1>3 DEF Mesh!Ancestors
<1> QED
  BY <1>1, <1>2, <1>3, <1>4 DEF MayMerge

LEMMA MeshStep == ASSUME MeshInv, Mesh!Next PROVE MeshInv'
<1> DEFINE Same == UNCHANGED <<head, had, received, last, counted>>
<1>1. ASSUME NEW p \in Syncs, NEW st \in SyncStates, sync' = [sync EXCEPT ![p] = st], UNCHANGED verify,
             {remote', tracking'} \subseteq [Remotes -> Commits],
             lock' \in {"none", "empty", "fresh", "stale"}, broken' \in BOOLEAN, broken => broken',
             Same, MayMerge(p)',
             \/ broken'
             \/ /\ ~ broken /\ st.phase # "reopen"
                /\ \/ st.phase \notin AtWork /\ lock' = lock
                   \/ sync[p].phase \in AtWork /\ st.phase \notin AtWork
                   \/ sync[p].phase \in AtWork /\ lock' # "none"
                   \/ lock = "none" /\ lock' # "none"
      PROVE  MeshInv'
  <2>1. Mesh!HeadKeepsHistory' /\ Mesh!NothingEscapesVerification'
    BY <1>1 DEF MeshInv, Mesh!HeadKeepsHistory, Mesh!NothingEscapesVerification, Mesh!Ancestors
  <2>2. sync' \in [Syncs -> SyncStates] /\ sync'[p] = st /\ \A q \in Syncs \ {p} : sync'[q] = sync[q]
    BY <1>1 DEF MeshInv
  <2>3. ASSUME NEW q \in Syncs PROVE MayMerge(q)'
    <3>1. CASE q = p
      BY <1>1, <3>1
    <3>2. CASE q # p
      <4>1. sync'[q] = sync[q] /\ MayMerge(q)
        BY <2>2, <3>2 DEF MeshInv
      <4> QED
        BY <1>1, <4>1 DEF MayMerge, Mesh!Ancestors
    <3> QED
      BY <3>1, <3>2
  <2>4. broken' \/ (LockHeld' /\ \A q \in Syncs : sync'[q].phase # "reopen")
    <3> SUFFICES ASSUME ~ broken' PROVE LockHeld' /\ \A q \in Syncs : sync'[q].phase # "reopen"
      OBVIOUS
    <3>1. LockHeld /\ ~ broken /\ \A q \in Syncs : sync[q].phase # "reopen"
      BY <1>1 DEF MeshInv
    <3>2. \A q \in Syncs : sync'[q].phase # "reopen"
      BY <1>1, <2>2, <3>1
    <3>3. ASSUME NEW q \in Syncs, NEW q2 \in Syncs, sync'[q].phase \in AtWork
          PROVE  lock' # "none" /\ (sync'[q2].phase \in AtWork => q2 = q)
      BY <1>1, <2>2, <3>1, <3>3 DEF LockHeld
    <3> QED
      BY <3>2, <3>3 DEF LockHeld
  <2> QED
    BY <1>1, <2>1, <2>2, <2>3, <2>4 DEF MeshInv
<1>2. ASSUME UNCHANGED <<sync, verify, last, counted, broken, lock, received>>,
             {remote', tracking'} \subseteq [Remotes -> Commits], head' \in Commits,
             head \in Mesh!Ancestors(head'), had' \in {had, had \cup {head'}}
      PROVE  MeshInv'
  <2>1. Mesh!Ancestors(head') = Mesh!Ancestors(head)'
    BY DEF Mesh!Ancestors
  <2>2. Mesh!HeadKeepsHistory' /\ Mesh!NothingEscapesVerification'
    <3>1. Mesh!Ancestors(head) \subseteq Mesh!Ancestors(head') /\ head' \in Mesh!Ancestors(head')
      BY <1>2, AncestorsOfAncestors, OwnAncestor
    <3>2. Mesh!NothingEscapesVerification'
      BY <1>2 DEF MeshInv, Mesh!NothingEscapesVerification, Mesh!Ancestors
    <3> QED
      BY <1>2, <2>1, <3>1, <3>2 DEF MeshInv, Mesh!HeadKeepsHistory
  <2>3. ASSUME NEW p \in Syncs PROVE MayMerge(p)'
    BY <1>2, ForwardKeeps DEF MeshInv
  <2>4. broken' \/ (LockHeld' /\ \A p \in Syncs : sync'[p].phase # "reopen")
    BY <1>2 DEF MeshInv, LockHeld
  <2> QED
    BY <1>2, <2>2, <2>3, <2>4 DEF MeshInv
<1>3. CASE \/ \E r \in Remotes, c \in Commits : Mesh!Push(r, c)
           \/ \E c \in Commits : Mesh!Commit(c)
  <2>1. ASSUME NEW r \in Remotes, NEW c \in Commits, Mesh!Push(r, c) PROVE MeshInv'
    <3>1. {remote', tracking'} \subseteq [Remotes -> Commits] /\ head' \in Commits /\ head' = head
      BY <2>1 DEF Mesh!Push, MeshInv
    <3> QED
      BY <1>2, <2>1, <3>1, OwnAncestor DEF Mesh!Push
  <2>2. ASSUME NEW c \in Commits, Mesh!Commit(c) PROVE MeshInv'
    <3>1. head' = c /\ head \in Mesh!Ancestors(c)
      BY <2>2, AncestorsOfParent DEF Mesh!Commit
    <3> QED
      BY <1>2, <2>2, <3>1 DEF Mesh!Commit, MeshInv
  <2> QED
    BY <1>3, <2>1, <2>2
<1>4. ASSUME NEW p \in Syncs, Mesh!MergeFfOnly(p) PROVE MeshInv'
  <2>1. PICK c : c = sync[p].chosen
    OBVIOUS
  <2>2. /\ c \in Commits /\ sync[p].phase = "merge"
        /\ sync[p].verifySignatures => Mesh!Ancestors(c) \ Mesh!Ancestors(head) \subseteq Signed
    BY <1>4, <2>1 DEF Mesh!MergeFfOnly, MeshInv, MayMerge
  <2>3. /\ IF head \in Mesh!Ancestors(c)
           THEN /\ head' = c /\ had' = had \cup {c}
                /\ received' = IF sync[p].verifySignatures
                               THEN received \cup (Mesh!Ancestors(c) \ Mesh!Ancestors(head)) ELSE received
           ELSE UNCHANGED <<head, had, received>>
        /\ UNCHANGED <<remote, tracking, lock, broken, last, verify, counted>>
    BY <1>4, <2>1 DEF Mesh!MergeFfOnly, Mesh!Merged, Mesh!IsAncestor
  <2>4. PICK st : st = [Mesh!Idle EXCEPT !.phase = "release"]
    OBVIOUS
  <2>5. st \in SyncStates /\ st.phase = "release" /\ sync' = [sync EXCEPT ![p] = st]
    BY <1>4, <2>4 DEF Mesh!MergeFfOnly, Mesh!Idle, Mesh!None, SyncStates, Phases
  <2>6. sync' \in [Syncs -> SyncStates] /\ sync'[p] = st /\ \A q \in Syncs \ {p} : sync'[q] = sync[q]
    BY <2>5 DEF MeshInv
  <2>7. head' \in Commits /\ head \in Mesh!Ancestors(head')
    BY <2>2, <2>3, OwnAncestor DEF MeshInv
  <2>8. Mesh!Ancestors(head') = Mesh!Ancestors(head)' /\ Mesh!Ancestors(last') = Mesh!Ancestors(last)'
    BY DEF Mesh!Ancestors
  <2>9. Mesh!HeadKeepsHistory' /\ Mesh!NothingEscapesVerification'
    <3>1. Mesh!Ancestors(head) \subseteq Mesh!Ancestors(head') /\ head' \in Mesh!Ancestors(head')
      BY <2>7, AncestorsOfAncestors, OwnAncestor
    <3>2. had' \subseteq Mesh!Ancestors(head') /\ received' \subseteq Signed
      BY <2>2, <2>3, <3>1 DEF MeshInv, Mesh!HeadKeepsHistory
    <3>3. Mesh!NothingEscapesVerification'
      BY <2>3, <2>8 DEF MeshInv, Mesh!NothingEscapesVerification
    <3> QED
      BY <2>8, <3>2, <3>3 DEF Mesh!HeadKeepsHistory
  <2>10. ASSUME NEW q \in Syncs PROVE MayMerge(q)'
    <3>1. CASE q = p
      BY <2>5, <2>6, <3>1 DEF MayMerge
    <3>2. CASE q # p
      <4>1. sync'[q] = sync[q] /\ MayMerge(q)
        BY <2>6, <3>2 DEF MeshInv
      <4> QED
        BY <2>7, <4>1, ForwardKeeps
    <3> QED
      BY <3>1, <3>2
  <2>11. broken' \/ (LockHeld' /\ \A q \in Syncs : sync'[q].phase # "reopen")
    <3>1. \A q \in Syncs : (sync'[q].phase \in AtWork <=> sync[q].phase \in AtWork)
                           /\ (sync'[q].phase = "reopen" => sync[q].phase = "reopen")
      BY <2>2, <2>5, <2>6 DEF AtWork
    <3> QED
      BY <2>3, <3>1 DEF MeshInv, LockHeld
  <2> QED
    BY <2>3, <2>6, <2>7, <2>9, <2>10, <2>11 DEF MeshInv
<1>5. ASSUME NEW p \in Syncs,
             \/ Mesh!OpenLock(p) \/ Mesh!BreakLock(p) \/ Mesh!StampLock(p) \/ Mesh!Refuse(p)
             \/ Mesh!ReleaseLock(p) \/ Mesh!Crash(p)
      PROVE  MeshInv'
  <2>1. sync[p] \in SyncStates /\ sync \in [Syncs -> SyncStates] /\ broken \in BOOLEAN
        /\ (~ broken => sync[p].phase # "reopen") /\ lock \in {"none", "empty", "fresh", "stale"}
    BY DEF MeshInv
  <2>2. PICK st : st = sync'[p]
    OBVIOUS
  <2>3. /\ sync' = [sync EXCEPT ![p] = st] /\ st \in SyncStates /\ st.phase # "merge"
        /\ UNCHANGED Mesh!Elsewhere
    <3>1. ASSUME NEW f \in Phases, f # "merge", Mesh!To(p, f)
          PROVE  sync' = [sync EXCEPT ![p] = st] /\ st \in SyncStates /\ st.phase = f
      BY <2>1, <2>2, <3>1 DEF Mesh!To, SyncStates
    <3>2. CASE Mesh!StampLock(p) \/ Mesh!Crash(p)
      <4>1. PICK new \in {Mesh!Idle, [Mesh!Idle EXCEPT !.phase = "fetch", !.left = Remotes]} :
              sync' = [sync EXCEPT ![p] = new]
        BY <3>2 DEF Mesh!StampLock, Mesh!Crash
      <4>2. new \in SyncStates /\ new.phase # "merge"
        <5>1. Mesh!Idle \in SyncStates /\ Mesh!Idle.phase = "idle"
          BY DEF Mesh!Idle, Mesh!None, SyncStates, Phases
        <5>2. CASE new = [Mesh!Idle EXCEPT !.phase = "fetch", !.left = Remotes]
          BY <5>1, <5>2 DEF SyncStates, Phases
        <5> QED
          BY <5>1, <5>2
      <4>3. st = new
        BY <2>1, <2>2, <4>1
      <4> QED
        BY <3>2, <4>1, <4>2, <4>3 DEF Mesh!StampLock, Mesh!Crash
    <3>3. CASE Mesh!OpenLock(p) \/ Mesh!BreakLock(p) \/ Mesh!Refuse(p) \/ Mesh!ReleaseLock(p)
      <4>1. {"idle", "reopen", "break", "locked", "release"} \subseteq Phases
        BY DEF Phases
      <4> QED
        BY <3>1, <3>3, <4>1 DEF Mesh!OpenLock, Mesh!BreakLock, Mesh!Refuse, Mesh!ReleaseLock
    <3> QED
      BY <1>5, <3>2, <3>3 DEF Mesh!OpenLock, Mesh!BreakLock, Mesh!Refuse, Mesh!ReleaseLock,
         Mesh!StampLock, Mesh!Crash
  <2>4. /\ lock' \in {"none", "empty", "fresh", "stale"} /\ broken' \in BOOLEAN /\ (broken => broken')
        /\ \/ broken'
           \/ /\ ~ broken /\ st.phase # "reopen"
              /\ \/ st.phase \notin AtWork /\ lock' = lock
                 \/ sync[p].phase \in AtWork /\ st.phase \notin AtWork
                 \/ sync[p].phase \in AtWork /\ lock' # "none"
                 \/ lock = "none" /\ lock' # "none"
    <3>1. CASE Mesh!OpenLock(p)
      BY <2>1, <2>2, <3>1 DEF Mesh!OpenLock, Mesh!To, AtWork, SyncStates
    <3>2. CASE Mesh!BreakLock(p)
      <4>1. CASE lock = "none"
        <5>1. st.phase = "idle" /\ lock' = lock /\ broken' = broken
          BY <2>1, <2>2, <3>2, <4>1 DEF Mesh!BreakLock, Mesh!To, SyncStates
        <5> QED
          BY <2>1, <5>1 DEF AtWork
      <4>2. CASE lock # "none"
        BY <3>2, <4>2 DEF Mesh!BreakLock
      <4> QED
        BY <4>1, <4>2
    <3>3. CASE Mesh!StampLock(p)
      BY <2>1, <2>2, <3>3 DEF Mesh!StampLock, Mesh!Idle, AtWork, SyncStates
    <3>4. CASE Mesh!Refuse(p) \/ Mesh!ReleaseLock(p)
      <4>1. Mesh!NothingEscapesVerification /\ (~ broken => LockHeld)
        BY DEF MeshInv
      <4>2. Mesh!Refuse(p) /\ ~ broken => lock # "none"
        BY <4>1 DEF LockHeld, AtWork, Mesh!Refuse
      <4> QED
        BY <2>1, <2>2, <3>4, <4>2 DEF Mesh!Refuse, Mesh!ReleaseLock, Mesh!To, AtWork, SyncStates
    <3>5. CASE Mesh!Crash(p)
      BY <2>1, <2>2, <3>5 DEF Mesh!Crash, Mesh!Idle, AtWork
    <3> QED
      BY <1>5, <3>1, <3>2, <3>3, <3>4, <3>5
  <2>5. MayMerge(p)' /\ {remote', tracking'} \subseteq [Remotes -> Commits]
    BY <2>2, <2>3 DEF MayMerge, MeshInv, Mesh!Elsewhere
  <2> QED
    BY <1>1, <2>3, <2>4, <2>5 DEF Mesh!Elsewhere
<1>6. ASSUME NEW p \in Syncs,
             \/ \E verifies \in BOOLEAN : Mesh!Choose(p, verifies)
             \/ \E r \in Remotes, reachable \in BOOLEAN : Mesh!Fetch(p, r, reachable)
      PROVE  MeshInv'
  <2>1. /\ sync[p] \in SyncStates /\ sync \in [Syncs -> SyncStates] /\ sync[p].phase = "fetch"
        /\ UNCHANGED <<head, remote, lock, broken, had, received, last, verify, counted>>
        /\ broken \in BOOLEAN /\ lock \in {"none", "empty", "fresh", "stale"}
    BY <1>6 DEF MeshInv, Mesh!Choose, Mesh!Fetch, Mesh!Elsewhere
  <2>2. PICK st : st = sync'[p]
    OBVIOUS
  <2>3. /\ sync' = [sync EXCEPT ![p] = st] /\ st \in SyncStates /\ st.phase \in {"fetch", "merge", "release"}
        /\ {remote', tracking'} \subseteq [Remotes -> Commits] /\ MayMerge(p)'
    <3>1. ASSUME NEW r \in Remotes, NEW reachable \in BOOLEAN, Mesh!Fetch(p, r, reachable)
          PROVE  /\ sync' = [sync EXCEPT ![p] = st] /\ st \in SyncStates /\ st.phase = "fetch"
                 /\ {remote', tracking'} \subseteq [Remotes -> Commits]
      <4>1. PICK c, got : c = sync[p] /\ got = IF reachable THEN c.fetched \cup {remote[r]} ELSE c.fetched
        OBVIOUS
      <4>2. remote \in [Remotes -> Commits] /\ tracking \in [Remotes -> Commits]
        BY DEF MeshInv
      <4>3. c \in SyncStates /\ c.phase = "fetch" /\ got \in SUBSET Commits
        BY <2>1, <4>1, <4>2 DEF SyncStates
      <4>4. sync' = [sync EXCEPT ![p] = [c EXCEPT !.left = c.left \ {r}, !.fetched = got]]
        BY <2>1, <3>1, <4>1 DEF Mesh!Fetch, SyncStates
      <4>5. st = [c EXCEPT !.left = c.left \ {r}, !.fetched = got]
        BY <2>1, <2>2, <4>4
      <4>6. st \in SyncStates /\ st.phase = "fetch"
        BY <4>3, <4>5 DEF SyncStates
      <4>7. {remote', tracking'} \subseteq [Remotes -> Commits]
        BY <3>1, <4>2 DEF Mesh!Fetch
      <4> QED
        BY <4>4, <4>5, <4>6, <4>7
    <3>2. ASSUME NEW verifies \in BOOLEAN, Mesh!Choose(p, verifies)
          PROVE  /\ sync' = [sync EXCEPT ![p] = st] /\ st \in SyncStates /\ st.phase \in {"merge", "release"}
                 /\ {remote', tracking'} \subseteq [Remotes -> Commits] /\ MayMerge(p)'
      <4>1. PICK F : F = sync[p].fetched
        OBVIOUS
      <4>2. F \in SUBSET Commits
        BY <2>1, <4>1 DEF SyncStates
      <4>3. F # {} => Mesh!Latest(F) \in F
        BY <4>2, PlatformAssumption DEF Mesh!Latest
      <4>4. PICK c : c = Mesh!Latest(F)
        OBVIOUS
      <4>5. \/ /\ F # {} /\ (verifies => Mesh!Ancestors(c) \ Mesh!Ancestors(head) \subseteq Signed)
               /\ sync' = [sync EXCEPT ![p] =
                    [Mesh!Idle EXCEPT !.phase = "merge", !.verifySignatures = verifies, !.chosen = c]]
            \/ sync' = [sync EXCEPT ![p] = [Mesh!Idle EXCEPT !.phase = "release"]]
        BY <3>2, <4>1, <4>4 DEF Mesh!Choose, Mesh!Acceptable
      <4>6. UNCHANGED <<remote, tracking>>
        BY <3>2 DEF Mesh!Choose, Mesh!Elsewhere
      <4>7. CASE /\ F # {} /\ (verifies => Mesh!Ancestors(c) \ Mesh!Ancestors(head) \subseteq Signed)
                 /\ sync' = [sync EXCEPT ![p] =
                      [Mesh!Idle EXCEPT !.phase = "merge", !.verifySignatures = verifies, !.chosen = c]]
        <5>1. /\ c \in Commits
              /\ st = [Mesh!Idle EXCEPT !.phase = "merge", !.verifySignatures = verifies, !.chosen = c]
          BY <2>1, <2>2, <4>2, <4>3, <4>4, <4>7
        <5>2. st \in SyncStates /\ st.phase = "merge" /\ st.chosen = c /\ st.verifySignatures = verifies
          BY <5>1 DEF Mesh!Idle, Mesh!None, SyncStates, Phases
        <5>3. MayMerge(p)'
          BY <2>1, <2>2, <4>7, <5>1, <5>2 DEF MayMerge, Mesh!Ancestors
        <5> QED
          BY <4>6, <4>7, <5>1, <5>2, <5>3 DEF MeshInv
      <4>8. CASE sync' = [sync EXCEPT ![p] = [Mesh!Idle EXCEPT !.phase = "release"]]
        <5>1. st = [Mesh!Idle EXCEPT !.phase = "release"]
          BY <2>1, <2>2, <4>8
        <5>2. st \in SyncStates /\ st.phase = "release"
          BY <5>1 DEF Mesh!Idle, Mesh!None, SyncStates, Phases
        <5> QED
          BY <2>2, <4>6, <4>8, <5>1, <5>2 DEF MeshInv, MayMerge
      <4> QED
        BY <4>5, <4>7, <4>8
    <3> QED
      BY <1>6, <2>2, <3>1, <3>2 DEF MayMerge
  <2>4. ~ broken => lock # "none"
    BY <2>1 DEF MeshInv, LockHeld, AtWork
  <2> QED
    BY <1>1, <2>1, <2>3, <2>4 DEF AtWork
<1>7. CASE Mesh!SixMinutes
  <2>1. Mesh!HeadKeepsHistory' /\ Mesh!NothingEscapesVerification'
    BY <1>7 DEF Mesh!SixMinutes, Mesh!Elsewhere, MeshInv, Mesh!HeadKeepsHistory,
       Mesh!NothingEscapesVerification, Mesh!Ancestors
  <2>2. ASSUME NEW p \in Syncs PROVE MayMerge(p)'
    BY <1>7 DEF Mesh!SixMinutes, Mesh!Elsewhere, MeshInv, MayMerge, Mesh!Ancestors
  <2> QED
    BY <1>7, <2>1, <2>2 DEF Mesh!SixMinutes, Mesh!Elsewhere, MeshInv, LockHeld
<1>8. CASE Mesh!VerifyReadsHead \/ Mesh!VerifyRecords
  <2>1. UNCHANGED <<head, remote, tracking, lock, sync, broken, had, received>>
    BY <1>8 DEF Mesh!VerifyReadsHead, Mesh!VerifyRecords
  <2>2. {last', verify'} \subseteq Commits \cup {99} /\ counted' \subseteq Commits
    BY <1>8, AncestorsAre DEF Mesh!VerifyReadsHead, Mesh!VerifyRecords, Mesh!Recorded, Mesh!None, MeshInv
  <2>3. Mesh!HeadKeepsHistory' /\ \A p \in Syncs : MayMerge(p)'
    BY <2>1 DEF MeshInv, Mesh!HeadKeepsHistory, MayMerge, Mesh!Ancestors
  <2>4. Mesh!NothingEscapesVerification'
    <3>1. Mesh!Ancestors(last)' = Mesh!Ancestors(last') /\ Mesh!Ancestors(last) \subseteq counted
      BY DEF Mesh!Ancestors, MeshInv, Mesh!NothingEscapesVerification
    <3> QED
      BY <1>8, <3>1 DEF Mesh!VerifyReadsHead, Mesh!VerifyRecords, Mesh!Recorded,
         Mesh!NothingEscapesVerification
  <2> QED
    BY <2>1, <2>2, <2>3, <2>4 DEF MeshInv, LockHeld
<1> QED
  BY <1>3, <1>4, <1>5, <1>6, <1>7, <1>8 DEF Mesh!Next

LEMMA MeshSafe ==
  ASSUME MeshInv
  PROVE  /\ Mesh!TypeOK /\ Mesh!HeadKeepsHistory
         /\ Mesh!OverlapNeedsTakeover /\ Mesh!NothingEscapesVerification
<1>1. Mesh!TypeOK
  BY DEF MeshInv, Mesh!TypeOK, Mesh!None, SyncStates, Phases
<1>2. Mesh!OverlapNeedsTakeover
  <2>1. broken \/ \A p, q \in Mesh!AtWork : q = p
    BY DEF MeshInv, LockHeld, AtWork, Mesh!AtWork
  <2>2. broken \/ Mesh!AtWork = {} \/ \E p : Mesh!AtWork = {p}
    BY <2>1
  <2>3. broken \/ Mesh!Cardinality(Mesh!AtWork) \in {0, 1}
    BY <2>2, MeshCount, FS_EmptySet, FS_Singleton
  <2>4. CASE broken
    BY <2>4 DEF Mesh!OverlapNeedsTakeover
  <2>5. CASE ~ broken
    <3>1. PICK n : n = Mesh!Cardinality(Mesh!AtWork)
      OBVIOUS
    <3>2. n \in {0, 1}
      BY <2>3, <2>5, <3>1
    <3>3. ~ (n > 1)
      BY <3>2
    <3> QED
      BY <3>1, <3>3 DEF Mesh!OverlapNeedsTakeover
  <2> QED
    BY <2>4, <2>5
<1> QED
  BY <1>1, <1>2 DEF MeshInv

-----------------------------------------------------------------------------
(* The gates. What the broker counts are the requests in flight, and each   *)
(* request is answered once.                                                *)
LEMMA GatesCount == \A S : Gates!Cardinality(S) = Cardinality(S)
  BY DEF Gates!Cardinality, Cardinality

Seconds == 0 .. MaxSeconds

BrokerInv ==
  /\ registered \subseteq Capabilities /\ inflight \in SUBSET Requests /\ IsFiniteSet(inflight)
  /\ active = Cardinality(inflight) /\ active \in Nat /\ active <= Concurrent
  /\ audited \in [Requests -> Nat] /\ inflight \cap answered = {}
  /\ \A r \in Requests : audited[r] = IF r \in answered THEN 1 ELSE 0

(* Before a time t; the requests let through up to each time are P.         *)
Sum(P, t) == IF t <= 0 THEN 0 ELSE P[t - 1]

(* The window that ends at `to` began at to - Window: what passed since is  *)
(* at most its count and at most its limit, nothing passed since its end,   *)
(* and what passed less than a window before its beginning is at most one   *)
(* limit.                                                                   *)
Windowed(P, now, count, to) ==
  /\ \A t, u \in Seconds : t <= u => P[t] <= P[u]
  /\ \A u \in Seconds : now <= u => P[u] = P[now]
  /\ \A u \in Seconds : to <= u => P[u] = Sum(P, to)
  /\ to - Window <= now
  /\ P[now] - Sum(P, to - Window) <= count
  /\ P[now] - Sum(P, to - Window) <= PerWindow
  /\ \A t \in Seconds : t <= to - Window /\ to - Window < t + Window
                        => Sum(P, to - Window) - Sum(P, t) <= PerWindow
  /\ \A t, u \in Seconds : u < t + Window => P[u] - Sum(P, t) <= 2 * PerWindow

GateInv ==
  /\ gatesClock \in Seconds /\ dispatching \in [Gates!Channels -> Nat]
  /\ bucket \in [Gates!Channels -> [count : Nat, expires : Nat]]
  /\ passed \in [Gates!Channels -> [Seconds -> Nat]]
  /\ \A c \in Gates!Channels : Windowed(passed[c], gatesClock, bucket[c].count, bucket[c].expires)

GatesInv == BrokerInv /\ GateInv

LEMMA SumTyped ==
  ASSUME NEW P \in [Seconds -> Nat], NEW t \in Int, t <= MaxSeconds + 1
  PROVE  Sum(P, t) \in Nat
<1>1. MaxSeconds \in Nat
  BY PlatformAssumption
<1> QED
  BY <1>1 DEF Sum, Seconds

LEMMA SumGrows ==
  ASSUME NEW P \in [Seconds -> Nat], NEW t \in Int, NEW u \in Int, t <= u, u <= MaxSeconds + 1,
         \A v, w \in Seconds : v <= w => P[v] <= P[w]
  PROVE  Sum(P, t) <= Sum(P, u)
<1>1. MaxSeconds \in Nat
  BY PlatformAssumption
<1>2. CASE t <= 0
  BY <1>1, <1>2, SumTyped DEF Sum
<1>3. CASE t > 0
  <2>1. t - 1 \in Seconds /\ u - 1 \in Seconds /\ t - 1 <= u - 1
    BY <1>1, <1>3 DEF Seconds
  <2> QED
    BY <1>3, <2>1 DEF Sum
<1> QED
  BY <1>2, <1>3

(* A window opened after the last one has ended.                            *)
LEMMA WindowOpens ==
  ASSUME NEW P \in [Seconds -> Nat], NEW now \in Seconds, NEW count \in Nat, NEW to \in Nat,
         Windowed(P, now, count, to), to <= now
  PROVE  Windowed(P, now, 0, now + Window)
<1>1. MaxSeconds \in Nat /\ Window \in Nat \ {0} /\ PerWindow \in Nat /\ now \in Nat
      /\ now <= MaxSeconds
  BY PlatformAssumption DEF Seconds
<1>2. P[now] = Sum(P, to) /\ P[now] - Sum(P, to - Window) <= PerWindow
      /\ \A v, w \in Seconds : v <= w => P[v] <= P[w]
  BY DEF Windowed
<1>3. \A t, u \in Int : t <= u /\ u <= MaxSeconds + 1
        => Sum(P, t) <= Sum(P, u) /\ Sum(P, t) \in Nat /\ Sum(P, u) \in Nat
  <2> TAKE t, u \in Int
  <2> HAVE t <= u /\ u <= MaxSeconds + 1
  <2>1. t <= MaxSeconds + 1
    BY <1>1
  <2> QED
    BY <1>2, <2>1, SumTyped, SumGrows
<1>4. Sum(P, to) <= Sum(P, now) /\ Sum(P, now) \in Nat /\ P[now] \in Nat /\ to - Window \in Int
  BY <1>1, <1>3
<1>5. now + Window - Window = now
  BY <1>1
<1>6. P[now] - Sum(P, now) <= 0
  BY <1>2, <1>4
<1>7. ASSUME NEW t \in Seconds, t <= now, now < t + Window
      PROVE  Sum(P, now) - Sum(P, t) <= PerWindow
  <2>1. t \in Int /\ to - Window <= t /\ Sum(P, now) <= P[now]
    <3>1. Sum(P, now) <= Sum(P, now + 1) /\ Sum(P, now + 1) = P[now]
      BY <1>1, <1>3 DEF Sum
    <3> QED
      BY <1>1, <1>7, <3>1 DEF Seconds
  <2>2. Sum(P, to - Window) <= Sum(P, t) /\ Sum(P, to - Window) \in Nat /\ Sum(P, t) \in Nat
    BY <1>1, <1>3, <1>4, <1>7, <2>1
  <2>3. PICK a, b, c, d : a = P[now] /\ b = Sum(P, to - Window) /\ c = Sum(P, t) /\ d = Sum(P, now)
    OBVIOUS
  <2>4. a \in Nat /\ b \in Nat /\ c \in Nat /\ d \in Nat /\ a - b <= PerWindow /\ b <= c /\ d <= a
    BY <1>2, <1>4, <2>1, <2>2, <2>3
  <2> QED
    BY <1>1, <2>3, <2>4
<1>8. \A u \in Seconds : now + Window <= u => P[u] = Sum(P, now + Window)
  <2> SUFFICES ASSUME NEW u \in Seconds, now + Window <= u PROVE P[u] = Sum(P, now + Window)
    OBVIOUS
  <2>1. now + Window - 1 \in Seconds /\ now <= now + Window - 1 /\ now <= u /\ now + Window > 0
    BY <1>1 DEF Seconds
  <2>2. P[u] = P[now] /\ P[now + Window - 1] = P[now]
    BY <2>1 DEF Windowed
  <2> QED
    BY <1>1, <2>1, <2>2 DEF Sum
<1>9. P[now] - Sum(P, now) <= PerWindow
  BY <1>1, <1>4, <1>6
<1> QED
  BY <1>1, <1>5, <1>6, <1>7, <1>8, <1>9 DEF Windowed

(* One more request passes while a window is open and not used up.          *)
Counting(P, now) == [t \in Seconds |-> IF t < now THEN P[t] ELSE P[t] + 1]

LEMMA WindowCounts ==
  ASSUME NEW P \in [Seconds -> Nat], NEW now \in Seconds, NEW count \in Nat, NEW to \in Nat,
         Windowed(P, now, count, to), now < to, count + 1 <= PerWindow
  PROVE  Counting(P, now) \in [Seconds -> Nat] /\ Windowed(Counting(P, now), now, count + 1, to)
<1>1. MaxSeconds \in Nat /\ Window \in Nat \ {0} /\ PerWindow \in Nat /\ now \in Nat
      /\ now <= MaxSeconds
  BY PlatformAssumption DEF Seconds
<1>2. PICK Q : Q = Counting(P, now)
  OBVIOUS
<1>3. Q \in [Seconds -> Nat] /\ \A t \in Seconds : Q[t] = IF t < now THEN P[t] ELSE P[t] + 1
  BY <1>2 DEF Counting
<1>4. PICK s : s = to - Window
  OBVIOUS
<1>5. s \in Int /\ s <= now /\ to \in Int
  BY <1>1, <1>4 DEF Windowed
<1>6. \A t \in Int : t <= MaxSeconds + 1
        => /\ Sum(P, t) \in Nat
           /\ Sum(Q, t) = IF t <= now THEN Sum(P, t) ELSE Sum(P, t) + 1
  <2> SUFFICES ASSUME NEW t \in Int, t <= MaxSeconds + 1
               PROVE  /\ Sum(P, t) \in Nat
                      /\ Sum(Q, t) = IF t <= now THEN Sum(P, t) ELSE Sum(P, t) + 1
    OBVIOUS
  <2>1. CASE t <= 0
    BY <1>1, <2>1 DEF Sum
  <2>2. CASE t > 0
    <3>1. t - 1 \in Seconds /\ (t - 1 < now <=> t <= now)
      BY <1>1, <2>2 DEF Seconds
    <3> QED
      BY <1>3, <2>2, <3>1 DEF Sum
  <2> QED
    BY <2>1, <2>2
<1>7. /\ \A v, w \in Seconds : v <= w => P[v] <= P[w]
      /\ \A v \in Seconds : now <= v => P[v] = P[now]
      /\ P[now] - Sum(P, s) <= count /\ P[now] \in Nat /\ Sum(P, s) \in Nat
  BY <1>1, <1>4, <1>5, <1>6 DEF Windowed
<1>8. Sum(Q, s) = Sum(P, s) /\ Q[now] = P[now] + 1
  BY <1>1, <1>3, <1>5, <1>6
<1>9. \A t, u \in Seconds : t <= u => Q[t] <= Q[u]
  <2> SUFFICES ASSUME NEW t \in Seconds, NEW u \in Seconds, t <= u PROVE Q[t] <= Q[u]
    OBVIOUS
  <2>1. P[t] <= P[u] /\ P[t] \in Nat /\ P[u] \in Nat /\ t \in Nat /\ u \in Nat
    BY <1>7 DEF Seconds
  <2> QED
    BY <1>1, <1>3, <2>1
<1>10. \A u \in Seconds : now <= u => Q[u] = Q[now]
  BY <1>1, <1>3, <1>7 DEF Seconds
<1>11. \A u \in Seconds : to <= u => Q[u] = Sum(Q, to)
  <2> SUFFICES ASSUME NEW u \in Seconds, to <= u PROVE Q[u] = Sum(Q, to)
    OBVIOUS
  <2>1. P[u] = Sum(P, to) /\ u \in Nat /\ ~ (u < now) /\ ~ (to <= now) /\ to <= MaxSeconds + 1
    BY <1>1 DEF Windowed, Seconds
  <2> QED
    BY <1>3, <1>5, <1>6, <2>1
<1>12. Q[now] - Sum(Q, s) <= count + 1 /\ Q[now] - Sum(Q, s) <= PerWindow
  BY <1>1, <1>7, <1>8
<1>13. \A t \in Seconds : t <= s /\ s < t + Window => Sum(Q, s) - Sum(Q, t) <= PerWindow
  <2> SUFFICES ASSUME NEW t \in Seconds, t <= s, s < t + Window
               PROVE  Sum(Q, s) - Sum(Q, t) <= PerWindow
    OBVIOUS
  <2>1. t \in Int /\ t <= now /\ t <= MaxSeconds + 1
    BY <1>1, <1>5 DEF Seconds
  <2>2. Sum(Q, t) = Sum(P, t)
    BY <1>6, <2>1
  <2> QED
    BY <1>4, <1>8, <2>2 DEF Windowed
<1>14. \A t, u \in Seconds : u < t + Window => Q[u] - Sum(Q, t) <= 2 * PerWindow
  <2> SUFFICES ASSUME NEW t \in Seconds, NEW u \in Seconds, u < t + Window
               PROVE  Q[u] - Sum(Q, t) <= 2 * PerWindow
    OBVIOUS
  <2>1. t \in Int /\ u \in Int /\ t <= MaxSeconds + 1 /\ u <= MaxSeconds + 1
    BY <1>1 DEF Seconds
  <2>2. Sum(P, t) \in Nat /\ P[u] \in Nat /\ P[u] - Sum(P, t) <= 2 * PerWindow
        /\ Sum(Q, t) \in Nat /\ Q[u] \in Nat
    BY <1>3, <1>6, <2>1 DEF Windowed
  <2>3. CASE u < now \/ ~ (t <= now)
    <3>1. Sum(P, t) <= Sum(Q, t)
      BY <1>6, <2>1, <2>2
    <3>2. CASE u < now
      <4>1. Q[u] = P[u]
        BY <1>3, <3>2
      <4> QED
        BY <1>1, <2>2, <3>1, <4>1
    <3>3. CASE ~ (t <= now)
      <4>1. Sum(Q, t) = Sum(P, t) + 1 /\ Q[u] <= P[u] + 1
        BY <1>3, <1>6, <2>1, <2>2, <3>3
      <4> QED
        BY <1>1, <2>2, <4>1
    <3> QED
      BY <2>3, <3>2, <3>3
  <2>4. CASE ~ (u < now) /\ t <= now
    <3>1. Q[u] = P[now] + 1 /\ Sum(Q, t) = Sum(P, t)
      BY <1>3, <1>6, <1>7, <2>1, <2>4, now \in Int
    <3>2. Q[u] - Sum(P, s) <= PerWindow
      BY <1>8, <1>12, <3>1
    <3>3. CASE t <= s
      <4>1. s < t + Window
        BY <1>1, <1>5, <2>1, <2>4
      <4>2. Sum(P, s) - Sum(P, t) <= PerWindow
        BY <1>4, <3>3, <4>1 DEF Windowed
      <4> QED
        BY <1>1, <1>7, <2>2, <3>1, <3>2, <4>2
    <3>4. CASE ~ (t <= s)
      <4>1. Sum(P, s) <= Sum(P, t)
        BY <1>5, <1>7, <2>1, <3>4, SumGrows
      <4> QED
        BY <1>1, <1>7, <2>2, <3>1, <3>2, <4>1
    <3> QED
      BY <3>3, <3>4
  <2> QED
    BY <2>3, <2>4
<1>15. Windowed(Q, now, count + 1, to)
  BY <1>4, <1>5, <1>9, <1>10, <1>11, <1>12, <1>13, <1>14 DEF Windowed
<1> QED
  BY <1>2, <1>3, <1>15

LEMMA GatesInit ==
  ASSUME Gates!Init
  PROVE  GatesInv
<1>1. IsFiniteSet({}) /\ Cardinality({}) = 0 /\ Concurrent \in Nat
      /\ MaxSeconds \in Nat /\ Window \in Nat \ {0} /\ PerWindow \in Nat
  BY FS_EmptySet, PlatformAssumption
<1>2. BrokerInv
  BY <1>1 DEF Gates!Init, BrokerInv
<1>3. /\ gatesClock = 0 /\ 0 \in Seconds
      /\ bucket = [c \in Gates!Channels |-> [count |-> 0, expires |-> 0]]
      /\ passed = [c \in Gates!Channels |-> [t \in Seconds |-> 0]]
      /\ dispatching = [c \in Gates!Channels |-> 0]
  BY <1>1 DEF Gates!Init, Gates!NoBucket, Seconds
<1>4. ASSUME NEW P \in [Seconds -> Nat], \A t \in Seconds : P[t] = 0
      PROVE  Windowed(P, 0, 0, 0)
  <2>1. \A t \in Int : t <= MaxSeconds + 1 => Sum(P, t) = 0
    BY <1>1, <1>4 DEF Sum, Seconds
  <2>2. Sum(P, 0) = 0 /\ Sum(P, 0 - Window) = 0 /\ \A t \in Seconds : Sum(P, t) = 0
    BY <1>1, <2>1 DEF Seconds
  <2> QED
    BY <1>1, <1>3, <1>4, <2>2 DEF Windowed, Seconds
<1>5. \A c \in Gates!Channels : Windowed(passed[c], gatesClock, bucket[c].count, bucket[c].expires)
  <2> TAKE c \in Gates!Channels
  <2>1. passed[c] \in [Seconds -> Nat] /\ \A t \in Seconds : passed[c][t] = 0
    BY <1>3
  <2>2. bucket[c].count = 0 /\ bucket[c].expires = 0
    BY <1>3
  <2> QED
    BY <1>3, <1>4, <2>1, <2>2
<1>6. GateInv
  BY <1>3, <1>5 DEF GateInv
<1> QED
  BY <1>2, <1>6 DEF GatesInv

LEMMA BrokerStep ==
  ASSUME BrokerInv, Gates!BrokerNext
  PROVE  BrokerInv' /\ UNCHANGED <<gatesClock, bucket, passed, dispatching>>
<1>0. UNCHANGED <<gatesClock, bucket, passed, dispatching>>
  BY DEF Gates!BrokerNext, Gates!RegisterCapability, Gates!Terminate, Gates!InvokeDenied,
     Gates!InvokeStarts, Gates!InvokeEnds, Gates!gateVars
<1>1. ASSUME (\E c \in Capabilities : Gates!RegisterCapability(c)) \/ Gates!Terminate
      PROVE  BrokerInv'
  BY <1>1 DEF BrokerInv, Gates!RegisterCapability, Gates!Terminate
<1>2. ASSUME NEW r \in Requests, r \notin inflight \cup answered, Gates!Answer(r),
             UNCHANGED <<registered, active, inflight>>
      PROVE  BrokerInv'
  BY <1>2 DEF BrokerInv, Gates!Answer
<1>3. ASSUME NEW r \in Requests, r \notin inflight \cup answered, active < Concurrent,
             active' = active + 1, inflight' = inflight \cup {r}, UNCHANGED <<registered, audited, answered>>
      PROVE  BrokerInv'
  <2>1. IsFiniteSet(inflight') /\ Cardinality(inflight') = Cardinality(inflight) + 1
    BY <1>3, FS_AddElement DEF BrokerInv
  <2>2. active' \in Nat /\ active' <= Concurrent
    BY <1>3, PlatformAssumption DEF BrokerInv
  <2> QED
    BY <1>3, <2>1, <2>2 DEF BrokerInv
<1>4. ASSUME NEW r \in Requests, r \in inflight, inflight' = inflight \ {r}, active' = active - 1,
             Gates!Answer(r), UNCHANGED registered
      PROVE  BrokerInv'
  <2>1. IsFiniteSet(inflight') /\ Cardinality(inflight') = Cardinality(inflight) - 1
        /\ Cardinality(inflight') \in Nat
    BY <1>4, FS_RemoveElement, FS_CardinalityType DEF BrokerInv
  <2>2. active' = Cardinality(inflight') /\ active' \in Nat /\ active' <= Concurrent
    BY <1>4, <2>1, PlatformAssumption DEF BrokerInv
  <2>3. answered' = answered \cup {r} /\ inflight' \cap answered' = {} /\ inflight' \in SUBSET Requests
    BY <1>4 DEF BrokerInv, Gates!Answer
  <2>4. audited' \in [Requests -> Nat] /\ \A q \in Requests : audited'[q] = IF q \in answered' THEN 1 ELSE 0
    BY <1>4, <2>3 DEF BrokerInv, Gates!Answer
  <2> QED
    BY <1>4, <2>1, <2>2, <2>3, <2>4 DEF BrokerInv
<1> QED
  BY <1>0, <1>1, <1>2, <1>3, <1>4 DEF Gates!BrokerNext, Gates!InvokeDenied, Gates!InvokeStarts,
     Gates!InvokeEnds, Gates!MayInvoke

LEMMA GateStep ==
  ASSUME GateInv, Gates!GateNext
  PROVE  GateInv' /\ UNCHANGED <<registered, active, inflight, audited, answered>>
<1>0. UNCHANGED <<registered, active, inflight, audited, answered>>
  BY DEF Gates!GateNext, Gates!Tick, Gates!DispatchReturns, Gates!HandleAction, Gates!brokerVars
<1>1. MaxSeconds \in Nat /\ Window \in Nat \ {0} /\ PerWindow \in Nat
  BY PlatformAssumption
<1>2. ASSUME Gates!Tick PROVE GateInv'
  <2>1. gatesClock' = gatesClock + 1 /\ gatesClock' \in Seconds
        /\ UNCHANGED <<bucket, passed, dispatching>>
    BY <1>1, <1>2 DEF Gates!Tick, GateInv, Seconds
  <2>2. ASSUME NEW c \in Gates!Channels
        PROVE  Windowed(passed[c], gatesClock', bucket[c].count, bucket[c].expires)
    <3>1. PICK P, now, count, to : P = passed[c] /\ now = gatesClock /\ count = bucket[c].count
                                   /\ to = bucket[c].expires
      OBVIOUS
    <3>2. P \in [Seconds -> Nat] /\ now \in Seconds /\ count \in Nat /\ to \in Nat
          /\ Windowed(P, now, count, to) /\ gatesClock' = now + 1 /\ now + 1 \in Seconds
      BY <2>1, <3>1 DEF GateInv
    <3>3. P[now + 1] = P[now] /\ (\A u \in Seconds : now + 1 <= u => P[u] = P[now + 1])
          /\ to - Window <= now + 1
      BY <1>1, <3>2 DEF Windowed, Seconds
    <3>4. Windowed(P, now + 1, count, to)
      BY <3>2, <3>3 DEF Windowed
    <3> QED
      BY <3>1, <3>2, <3>4
  <2> QED
    BY <2>1, <2>2 DEF GateInv
<1>3. ASSUME NEW c \in Gates!Channels, Gates!DispatchReturns(c)
      PROVE  GateInv'
  BY <1>3 DEF GateInv, Gates!DispatchReturns
<1>4. ASSUME NEW c \in Gates!Channels, NEW known \in BOOLEAN, NEW fits \in BOOLEAN, NEW valid \in BOOLEAN,
             Gates!HandleAction(c, known, fits, valid)
      PROVE  GateInv'
  <2>1. PICK P, now, old, b : P = passed[c] /\ now = gatesClock /\ old = Gates!Renewed(c)
                              /\ b = [old EXCEPT !.count = @ + 1]
    OBVIOUS
  <2>2. P \in [Seconds -> Nat] /\ now \in Seconds /\ now \in Nat
        /\ bucket[c] \in [count : Nat, expires : Nat]
        /\ Windowed(P, now, bucket[c].count, bucket[c].expires)
    BY <1>1, <2>1 DEF GateInv, Seconds
  <2>3. old \in [count : Nat, expires : Nat] /\ now < old.expires /\ Windowed(P, now, old.count, old.expires)
    <3>1. CASE now >= bucket[c].expires
      <4>1. old = [count |-> 0, expires |-> now + Window]
        BY <2>1, <3>1 DEF Gates!Renewed
      <4>2. Windowed(P, now, 0, now + Window)
        BY <2>2, <3>1, WindowOpens
      <4> QED
        BY <1>1, <2>2, <4>1, <4>2
    <3>2. CASE ~ (now >= bucket[c].expires)
      <4>1. old = bucket[c]
        BY <2>1, <3>2 DEF Gates!Renewed
      <4> QED
        BY <2>2, <3>2, <4>1
    <3> QED
      BY <3>1, <3>2
  <2>4. b \in [count : Nat, expires : Nat] /\ b.count = old.count + 1 /\ b.expires = old.expires
    BY <2>1, <2>3
  <2>5. Windowed(P, now, b.count, b.expires)
    <3>1. PICK x, y : x = P[now] - Sum(P, old.expires - Window) /\ y = old.count
      OBVIOUS
    <3>2. y \in Nat /\ x \in Int /\ x <= y => x <= y + 1
      OBVIOUS
    <3>3. old.expires - Window \in Int /\ old.expires - Window <= now /\ now <= MaxSeconds
      BY <1>1, <2>2, <2>3 DEF Windowed, Seconds
    <3>4. Sum(P, old.expires - Window) \in Nat
      BY <1>1, <2>2, <3>3, SumTyped
    <3>5. x \in Int /\ y \in Nat /\ x <= y
      BY <2>2, <2>3, <3>1, <3>4 DEF Windowed
    <3> QED
      BY <2>3, <2>4, <3>1, <3>2, <3>5 DEF Windowed
  <2>6. gatesClock' = gatesClock /\ dispatching' \in [Gates!Channels -> Nat]
        /\ bucket' \in [Gates!Channels -> [count : Nat, expires : Nat]]
    BY <1>4, <2>1, <2>4 DEF GateInv, Gates!HandleAction
  <2>7. ASSUME NEW d \in Gates!Channels
        PROVE  passed'[d] \in [Seconds -> Nat]
               /\ Windowed(passed'[d], gatesClock, bucket'[d].count, bucket'[d].expires)
    <3>1. CASE known /\ fits /\ Gates!Allowed(b.count)
      <4>1. Gates!Counted(P) = Counting(P, now)
        BY <2>1 DEF Gates!Counted, Counting, Seconds
      <4>2. passed' = [passed EXCEPT ![c] = Counting(P, now)] /\ bucket' = [bucket EXCEPT ![c] = b]
        BY <1>4, <2>1, <3>1, <4>1 DEF Gates!HandleAction
      <4>3. Counting(P, now) \in [Seconds -> Nat] /\ Windowed(Counting(P, now), now, b.count, b.expires)
        BY <2>2, <2>3, <2>4, <3>1, WindowCounts DEF Gates!Allowed
      <4> QED
        BY <2>1, <4>2, <4>3 DEF GateInv
    <3>2. CASE ~ (known /\ fits /\ Gates!Allowed(b.count))
      <4>1. passed' = passed /\ bucket' \in {bucket, [bucket EXCEPT ![c] = b]}
        BY <1>4, <2>1, <3>2 DEF Gates!HandleAction
      <4>2. passed'[d] = passed[d] /\ (bucket'[d] = bucket[d] \/ (d = c /\ bucket'[d] = b))
        BY <4>1 DEF GateInv
      <4> QED
        BY <2>1, <2>5, <4>2 DEF GateInv
    <3> QED
      BY <3>1, <3>2
  <2>8. passed' \in [Gates!Channels -> [Seconds -> Nat]]
    <3>1. \E f : passed' = [passed EXCEPT ![c] = f] \/ passed' = passed
      BY <1>4 DEF Gates!HandleAction
    <3> QED
      BY <2>7, <3>1 DEF GateInv
  <2> QED
    BY <2>6, <2>7, <2>8 DEF GateInv
<1> QED
  BY <1>0, <1>2, <1>3, <1>4 DEF Gates!GateNext

LEMMA GatesStep ==
  ASSUME GatesInv, Gates!Next
  PROVE  GatesInv'
<1>1. CASE Gates!BrokerNext
  BY <1>1, BrokerStep DEF GatesInv, GateInv, BrokerInv
<1>2. CASE Gates!GateNext
  BY <1>2, GateStep DEF GatesInv, BrokerInv
<1> QED
  BY <1>1, <1>2 DEF Gates!Next

LEMMA GatesSafe ==
  ASSUME GatesInv
  PROVE  Gates!TypeOK /\ Gates!BrokerAccounts /\ Gates!BurstIsBounded
<1>1. Gates!TypeOK
  BY DEF GatesInv, BrokerInv, GateInv, Gates!TypeOK, Seconds
<1>2. Gates!BrokerAccounts
  BY GatesCount DEF GatesInv, BrokerInv, Gates!BrokerAccounts
<1>3. Gates!BurstIsBounded
  <2>1. ASSUME NEW c \in Gates!Channels, NEW t \in 0 .. MaxSeconds, NEW u \in 0 .. MaxSeconds,
               u < t + Window
        PROVE  passed[c][u] - Gates!Before(c, t) <= 2 * PerWindow
    <3>1. Gates!Before(c, t) = Sum(passed[c], t)
      BY DEF Gates!Before, Sum
    <3>2. Windowed(passed[c], gatesClock, bucket[c].count, bucket[c].expires)
      BY DEF GatesInv, GateInv
    <3> QED
      BY <2>1, <3>1, <3>2 DEF Windowed, Seconds
  <2> QED
    BY <2>1 DEF Gates!BurstIsBounded
<1> QED
  BY <1>1, <1>2, <1>3

-----------------------------------------------------------------------------
(* The artifact store. A manifest that names a release stands beside the    *)
(* archive that release stored last; a put that is past its removal has     *)
(* left no other manifest of its release.                                   *)
Puts == [phase : {"none", "locked", "archived", "cleared"}, tree : Trees \cup {"none"}]

StoreTypes ==
  /\ archive \in SUBSET Trees /\ storeManifest \in [Trees -> Releases \cup {"none"}]
  /\ {copy, stored} \subseteq [Releases -> Trees \cup {"none"}] /\ put \in [Releases -> Puts]

OneManifest(r) == \A t \in Trees : storeManifest[t] = r => stored[r] = t /\ t \in archive
StillFound(r) ==
  r \notin displaced \cup cut /\ put[r].phase # "cleared" /\ stored[r] # "none"
  => storeManifest[stored[r]] = r
UnderWay(r) ==
  /\ put[r].phase # "none" => put[r].tree \in Trees
  /\ put[r].phase \in {"archived", "cleared"} => put[r].tree \in archive /\ copy[r] = put[r].tree
  /\ put[r].phase = "cleared" => \A t \in Trees : storeManifest[t] = r => t = put[r].tree
  /\ put[r].phase = "none" /\ r \notin cut => copy[r] = stored[r]

StoreInv ==
  StoreTypes /\ \A r \in Releases : OneManifest(r) /\ StillFound(r) /\ UnderWay(r)

LEMMA NoName == "none" \notin Releases /\ "none" \notin Trees
  BY PlatformAssumption

LEMMA StoreInit ==
  ASSUME Store!Init
  PROVE  StoreInv
<1>1. StoreTypes
  BY DEF Store!Init, Store!NotPutting, Store!None, StoreTypes, Puts
<1>2. ASSUME NEW r \in Releases PROVE OneManifest(r) /\ StillFound(r) /\ UnderWay(r)
  BY NoName DEF Store!Init, Store!NotPutting, Store!None, OneManifest, StillFound, UnderWay
<1> QED
  BY <1>1, <1>2 DEF StoreInv

(* What is found for a release is the one manifest that names it.           *)
LEMMA FoundIsStored ==
  ASSUME StoreInv, NEW r \in Releases
  PROVE  /\ Store!ManifestsOf(r) \subseteq {stored[r]}
         /\ Store!FindArtifactManifest(r) = IF Store!ManifestsOf(r) = {} THEN "none" ELSE stored[r]
<1>1. Store!ManifestsOf(r) \subseteq {stored[r]}
  BY DEF StoreInv, OneManifest, Store!ManifestsOf
<1>2. CASE Store!ManifestsOf(r) = {}
  BY <1>2, <1>1 DEF Store!FindArtifactManifest, Store!None
<1>3. CASE Store!ManifestsOf(r) # {}
  <2>1. Store!ManifestsOf(r) = {stored[r]}
    BY <1>1, <1>3
  <2> QED
    BY <2>1 DEF Store!FindArtifactManifest
<1> QED
  BY <1>1, <1>2, <1>3

LEMMA StoreStep ==
  ASSUME StoreInv, Store!Next
  PROVE  StoreInv'
<1> USE DEF StoreInv
<1>1. ASSUME NEW r \in Releases, NEW t \in Trees, Store!RunArtifactStorePut(r, t) PROVE StoreInv'
  <2>1. /\ put' = [put EXCEPT ![r] = [phase |-> "locked", tree |-> t]] /\ put[r].phase = "none"
        /\ UNCHANGED <<archive, storeManifest, copy, stored, displaced, cut>>
    BY <1>1 DEF Store!RunArtifactStorePut
  <2>2. StoreTypes'
    BY <2>1 DEF StoreTypes, Puts
  <2>3. ASSUME NEW q \in Releases PROVE OneManifest(q)' /\ StillFound(q)' /\ UnderWay(q)'
    BY <2>1 DEF OneManifest, StillFound, UnderWay, StoreTypes
  <2> QED
    BY <2>2, <2>3
<1>2. ASSUME NEW r \in Releases, Store!MoveArchive(r) PROVE StoreInv'
  <2>1. PICK t : t = put[r].tree
    OBVIOUS
  <2>2. /\ put' = [put EXCEPT ![r].phase = "archived"] /\ put[r].phase = "locked" /\ t \in Trees
        /\ archive' = archive \cup {t} /\ copy' = [copy EXCEPT ![r] = t]
        /\ UNCHANGED <<storeManifest, stored, displaced, cut>>
    BY <1>2, <2>1 DEF Store!MoveArchive, Store!To, UnderWay
  <2>3. put' \in [Releases -> Puts] /\ put'[r].phase = "archived" /\ put'[r].tree = t
        /\ \A q \in Releases \ {r} : put'[q] = put[q]
    BY <2>1, <2>2 DEF StoreTypes, Puts
  <2>4. StoreTypes'
    BY <2>2, <2>3 DEF StoreTypes
  <2>5. ASSUME NEW q \in Releases PROVE OneManifest(q)' /\ StillFound(q)' /\ UnderWay(q)'
    <3>1. OneManifest(q)' /\ StillFound(q)'
      BY <2>2, <2>3 DEF OneManifest, StillFound
    <3>2. UnderWay(q)'
      BY <2>2, <2>3 DEF UnderWay, StoreTypes
    <3> QED
      BY <3>1, <3>2
  <2> QED
    BY <2>4, <2>5
<1>3. ASSUME NEW r \in Releases, Store!RemoveManifest(r) PROVE StoreInv'
  <2>1. PICK f : f = Store!FindArtifactManifest(r)
    OBVIOUS
  <2>2. /\ put' = [put EXCEPT ![r].phase = "cleared"] /\ put[r].phase = "archived"
        /\ storeManifest' = IF f \in {"none", put[r].tree} THEN storeManifest
                            ELSE [storeManifest EXCEPT ![f] = "none"]
        /\ UNCHANGED <<archive, copy, stored, displaced, cut>>
    BY <1>3, <2>1 DEF Store!RemoveManifest, Store!To, Store!None
  <2>3. put' \in [Releases -> Puts] /\ put'[r].phase = "cleared" /\ put'[r].tree = put[r].tree
        /\ \A q \in Releases \ {r} : put'[q] = put[q]
    BY <2>2 DEF StoreTypes, Puts
  <2>4. /\ storeManifest' \in [Trees -> Releases \cup {"none"}]
        /\ \A t \in Trees : storeManifest'[t] = storeManifest[t]
                            \/ (storeManifest[t] = r /\ storeManifest'[t] = "none")
        /\ \A t \in Trees : storeManifest'[t] = r => t = put[r].tree
    <3>1. storeManifest \in [Trees -> Releases \cup {"none"}]
      BY DEF StoreTypes
    <3>2. f = IF Store!ManifestsOf(r) = {} THEN "none" ELSE stored[r]
      BY <2>1, FoundIsStored
    <3>3. \A t \in Trees : storeManifest[t] = r => f = t
      BY <3>2, FoundIsStored DEF Store!ManifestsOf
    <3>4. CASE f \in {"none", put[r].tree}
      BY <2>2, <3>1, <3>3, <3>4, NoName
    <3>5. CASE f \notin {"none", put[r].tree}
      <4>1. f \in Trees /\ storeManifest[f] = r
        BY <3>2, <3>5, FoundIsStored DEF Store!ManifestsOf
      <4> QED
        BY <2>2, <3>1, <3>3, <3>5, <4>1, NoName
    <3> QED
      BY <3>4, <3>5
  <2>5. StoreTypes'
    BY <2>2, <2>3, <2>4 DEF StoreTypes
  <2>6. ASSUME NEW q \in Releases PROVE OneManifest(q)' /\ StillFound(q)' /\ UnderWay(q)'
    <3>1. OneManifest(q)'
      BY <2>2, <2>4, NoName DEF OneManifest
    <3>2. StillFound(q)'
      BY <2>2, <2>3, <2>4 DEF StillFound, StoreTypes
    <3>3. UnderWay(q)'
      BY <2>2, <2>3, <2>4, NoName DEF UnderWay
    <3> QED
      BY <3>1, <3>2, <3>3
  <2> QED
    BY <2>5, <2>6
<1>4. ASSUME NEW r \in Releases, Store!WriteManifest(r) PROVE StoreInv'
  <2>1. PICK t : t = put[r].tree
    OBVIOUS
  <2>2. /\ put[r].phase = "cleared" /\ t \in Trees /\ t \in archive /\ copy[r] = t
        /\ \A x \in Trees : storeManifest[x] = r => x = t
        /\ storeManifest' = [storeManifest EXCEPT ![t] = r] /\ stored' = [stored EXCEPT ![r] = t]
        /\ displaced' = (displaced \cup ({storeManifest[t]} \ {"none", r})) \ {r} /\ cut' = cut \ {r}
        /\ put' = [put EXCEPT ![r] = [phase |-> "none", tree |-> "none"]]
        /\ UNCHANGED <<archive, copy>>
    BY <1>4, <2>1 DEF Store!WriteManifest, Store!NotPutting, Store!None, UnderWay
  <2>3. StoreTypes' /\ put'[r].phase = "none" /\ \A q \in Releases \ {r} : put'[q] = put[q]
    BY <2>2 DEF StoreTypes, Puts
  <2>4. /\ storeManifest'[t] = r /\ stored'[r] = t
        /\ \A x \in Trees \ {t} : storeManifest'[x] = storeManifest[x]
        /\ \A q \in Releases \ {r} : stored'[q] = stored[q]
    BY <2>2 DEF StoreTypes
  <2>5. ASSUME NEW q \in Releases PROVE OneManifest(q)' /\ StillFound(q)' /\ UnderWay(q)'
    <3>1. OneManifest(q)'
      BY <2>2, <2>4 DEF OneManifest
    <3>2. StillFound(q)'
      <4>1. CASE q = r
        BY <2>4, <4>1 DEF StillFound
      <4>2. ASSUME q # r, q \notin displaced' \cup cut', put'[q].phase # "cleared", stored'[q] # "none"
            PROVE  storeManifest'[stored'[q]] = q
        <5>1. q \notin displaced \cup cut /\ storeManifest[t] # q
          BY <2>2, <4>2, NoName
        <5>2. stored'[q] = stored[q] /\ put'[q] = put[q] /\ stored[q] \in Trees
          BY <2>3, <2>4, <4>2 DEF StoreTypes
        <5>3. storeManifest[stored[q]] = q
          BY <4>2, <5>1, <5>2 DEF StillFound
        <5> QED
          BY <2>4, <5>1, <5>2, <5>3
      <4> QED
        BY <4>1, <4>2 DEF StillFound
    <3>3. UnderWay(q)'
      <4>1. CASE q = r
        BY <2>2, <2>3, <2>4, <4>1 DEF UnderWay
      <4>2. CASE q # r
        BY <2>2, <2>3, <2>4, <4>2 DEF UnderWay
      <4> QED
        BY <4>1, <4>2
    <3> QED
      BY <3>1, <3>2, <3>3
  <2> QED
    BY <2>3, <2>5
<1>5. ASSUME NEW r \in Releases, Store!CutShort(r) PROVE StoreInv'
  <2>1. /\ put' = [put EXCEPT ![r] = [phase |-> "none", tree |-> "none"]] /\ cut' = cut \cup {r}
        /\ UNCHANGED <<archive, storeManifest, copy, stored, displaced>>
    BY <1>5 DEF Store!CutShort, Store!NotPutting, Store!None
  <2>2. StoreTypes' /\ put'[r].phase = "none" /\ \A q \in Releases \ {r} : put'[q] = put[q]
    BY <2>1 DEF StoreTypes, Puts
  <2>3. ASSUME NEW q \in Releases PROVE OneManifest(q)' /\ StillFound(q)' /\ UnderWay(q)'
    BY <2>1, <2>2 DEF OneManifest, StillFound, UnderWay
  <2> QED
    BY <2>2, <2>3
<1>6. CASE \/ \E bytes \in Trees, allowed \in BOOLEAN : Store!Publish(bytes, allowed)
           \/ \E a \in Adapters, conformance, policy \in Versions, decision \in {"pass", "fail"} :
                Store!Admit(a, conformance, policy, decision)
  BY <1>6 DEF Store!Publish, Store!Admit, Store!storeVars, StoreTypes, OneManifest, StillFound, UnderWay
<1> QED
  BY <1>1, <1>2, <1>3, <1>4, <1>5, <1>6 DEF Store!Next

LEMMA StoreSafe ==
  ASSUME StoreInv
  PROVE  Store!TypeOK /\ Store!WhatWasStoredIsFound
<1>1. Store!TypeOK
  BY DEF StoreInv, StoreTypes, Puts, Store!TypeOK, Store!None
<1>2. ASSUME NEW r \in Releases
      PROVE  /\ Store!ManifestsOf(r) # {} => Store!ManifestsOf(r) = {stored[r]} /\ stored[r] \in archive
             /\ (r \notin displaced \cup cut /\ put[r].phase # "cleared")
                => IF stored[r] = "none" THEN ~ Store!RunArtifactStoreValidate(r)
                   ELSE Store!ArtifactStorePreflight(r, stored[r])
             /\ r \notin cut /\ put[r].phase = "none" => copy[r] = stored[r]
  <2>1. Store!ManifestsOf(r) # {} => Store!ManifestsOf(r) = {stored[r]} /\ stored[r] \in archive
    BY FoundIsStored DEF StoreInv, OneManifest, Store!ManifestsOf
  <2>2. ASSUME r \notin displaced \cup cut, put[r].phase # "cleared"
        PROVE  IF stored[r] = "none" THEN ~ Store!RunArtifactStoreValidate(r)
               ELSE Store!ArtifactStorePreflight(r, stored[r])
    <3>1. CASE stored[r] = "none"
      <4>1. Store!ManifestsOf(r) = {}
        BY <3>1, FoundIsStored, NoName DEF Store!ManifestsOf
      <4> QED
        BY <3>1, <4>1, FoundIsStored DEF Store!RunArtifactStoreValidate, Store!None
    <3>2. CASE stored[r] # "none"
      <4>1. storeManifest[stored[r]] = r /\ stored[r] \in Trees
        BY <2>2, <3>2 DEF StoreInv, StillFound, StoreTypes
      <4>2. Store!FindArtifactManifest(r) = stored[r]
        BY <4>1, FoundIsStored DEF Store!ManifestsOf
      <4> QED
        BY <3>2, <4>2 DEF Store!ArtifactStorePreflight, Store!None
    <3> QED
      BY <3>1, <3>2
  <2> QED
    BY <2>1, <2>2 DEF StoreInv, UnderWay
<1> QED
  BY <1>1, <1>2 DEF Store!WhatWasStoredIsFound, Store!None

-----------------------------------------------------------------------------
(* Platform artifacts. The directories have names of their own; what        *)
(* matters of them is which there are, whatever their order.                *)
LEMMA DeployCount == \A S : Deploy!Cardinality(S) = Cardinality(S)
  BY DEF Deploy!Cardinality, Cardinality

Dirs == [name : Hashes \cup {"staging"}, tree : Hashes \cup {"none", "other"},
         manifest : Hashes \cup {"none"}, signature : {"none", "signed"}]
Distinct(D) == \A i, j \in DOMAIN D : D[i].name = D[j].name => i = j
Held(D) == {D[i] : i \in DOMAIN D}

LEMMA OneFewer ==
  ASSUME NEW D \in Seq(Dirs), Distinct(D), NEW i \in DOMAIN D
  PROVE  LET E == Deploy!RemoveAt(D, i)
         IN  E \in Seq(Dirs) /\ Distinct(E) /\ Held(E) = {d \in Held(D) : d.name # D[i].name}
<1>1. PICK n, E : n = Len(D) /\ E = Deploy!RemoveAt(D, i)
  OBVIOUS
<1>2. n \in Nat /\ DOMAIN D = 1 .. n /\ i \in 1 .. n
  BY <1>1
<1>3. E = SubSeq(D, 1, i - 1) \o SubSeq(D, i + 1, n)
  BY <1>1 DEF Deploy!RemoveAt
<1>4. PICK A, B : A = SubSeq(D, 1, i - 1) /\ B = SubSeq(D, i + 1, n)
  OBVIOUS
<1>5. A \in Seq(Dirs) /\ Len(A) = i - 1 /\ \A k \in 1 .. i - 1 : A[k] = D[k]
  <2>1. \A k \in 1 .. i - 1 : D[k] \in Dirs
    BY <1>2
  <2>2. A \in Seq(Dirs) /\ Len(A) = (IF 1 <= i - 1 THEN i - 1 - 1 + 1 ELSE 0)
        /\ \A k \in 1 .. i - 1 - 1 + 1 : A[k] = D[1 + k - 1]
    BY <1>2, <1>4, <2>1, SubSeqProperties
  <2> QED
    BY <1>2, <2>2
<1>6. B \in Seq(Dirs) /\ Len(B) = n - i /\ \A k \in 1 .. n - i : B[k] = D[i + k]
  <2>1. \A k \in i + 1 .. n : D[k] \in Dirs
    BY <1>2
  <2>2. B \in Seq(Dirs) /\ Len(B) = (IF i + 1 <= n THEN n - (i + 1) + 1 ELSE 0)
        /\ \A k \in 1 .. n - (i + 1) + 1 : B[k] = D[i + 1 + k - 1]
    BY <1>2, <1>4, <2>1, SubSeqProperties
  <2> QED
    BY <1>2, <2>2
<1>7. E \in Seq(Dirs) /\ Len(E) = n - 1
      /\ \A k \in 1 .. n - 1 : E[k] = IF k < i THEN D[k] ELSE D[k + 1]
  <2>1. E \in Seq(Dirs) /\ Len(E) = Len(A) + Len(B)
        /\ \A k \in 1 .. Len(A) + Len(B) : E[k] = IF k <= Len(A) THEN A[k] ELSE B[k - Len(A)]
    <3>1. E = A \o B /\ A \in Seq(Dirs) /\ B \in Seq(Dirs)
      BY <1>3, <1>4, <1>5, <1>6
    <3> QED
      BY <3>1, ConcatProperties
  <2>2. Len(E) = n - 1
    BY <1>2, <1>5, <1>6, <2>1
  <2>3. ASSUME NEW k \in 1 .. n - 1 PROVE E[k] = IF k < i THEN D[k] ELSE D[k + 1]
    <3>1. E[k] = IF k <= i - 1 THEN A[k] ELSE B[k - (i - 1)]
      BY <1>2, <1>5, <1>6, <2>1
    <3>2. CASE k <= i - 1
      BY <1>2, <1>5, <3>1, <3>2
    <3>3. CASE ~ (k <= i - 1)
      <4>1. k - (i - 1) \in 1 .. n - i /\ i + (k - (i - 1)) = k + 1 /\ ~ (k < i)
        BY <1>2, <3>3
      <4> QED
        BY <1>6, <3>1, <3>3, <4>1
    <3> QED
      BY <3>2, <3>3
  <2> QED
    BY <2>1, <2>2, <2>3
<1>8. DOMAIN E = 1 .. n - 1
  BY <1>7
<1>9. Distinct(E)
  <2> SUFFICES ASSUME NEW k \in 1 .. n - 1, NEW m \in 1 .. n - 1, E[k].name = E[m].name PROVE k = m
    BY <1>8 DEF Distinct
  <2>1. PICK a \in 1 .. n, b \in 1 .. n : /\ E[k] = D[a] /\ E[m] = D[b]
                                          /\ a = IF k < i THEN k ELSE k + 1
                                          /\ b = IF m < i THEN m ELSE m + 1
    <3>1. (IF k < i THEN k ELSE k + 1) \in 1 .. n /\ (IF m < i THEN m ELSE m + 1) \in 1 .. n
      BY <1>2
    <3> QED
      BY <1>7, <3>1
  <2>2. a = b
    BY <1>2, <2>1 DEF Distinct
  <2> QED
    BY <1>2, <2>1, <2>2
<1>10. Held(E) = {d \in Held(D) : d.name # D[i].name}
  <2>1. ASSUME NEW d \in Held(E) PROVE d \in Held(D) /\ d.name # D[i].name
    <3>1. PICK k \in 1 .. n - 1 : d = E[k]
      BY <1>8 DEF Held
    <3>2. PICK a \in 1 .. n : d = D[a] /\ a # i
      <4>1. CASE k < i
        BY <1>2, <1>7, <3>1, <4>1
      <4>2. CASE ~ (k < i)
        <5>1. k + 1 \in 1 .. n /\ k + 1 # i
          BY <1>2, <4>2
        <5> QED
          BY <1>7, <3>1, <4>2, <5>1
      <4> QED
        BY <4>1, <4>2
    <3> QED
      BY <1>2, <3>2 DEF Held, Distinct
  <2>2. ASSUME NEW d \in Held(D), d.name # D[i].name PROVE d \in Held(E)
    <3>1. PICK a \in 1 .. n : d = D[a]
      BY <1>2 DEF Held
    <3>2. a # i
      BY <2>2, <3>1
    <3>3. PICK k : k = IF a < i THEN a ELSE a - 1
      OBVIOUS
    <3>4. k \in 1 .. n - 1 /\ (IF k < i THEN k ELSE k + 1) = a
      BY <1>2, <3>2, <3>3
    <3>5. E[k] = D[a]
      BY <1>7, <3>4
    <3> QED
      BY <1>8, <3>1, <3>4, <3>5 DEF Held
  <2> QED
    BY <2>1, <2>2
<1> QED
  BY <1>1, <1>7, <1>9, <1>10

LEMMA OneMore ==
  ASSUME NEW D \in Seq(Dirs), Distinct(D), NEW d \in Dirs, \A e \in Held(D) : e.name # d.name
  PROVE  LET E == <<d>> \o D
         IN  E \in Seq(Dirs) /\ Distinct(E) /\ Held(E) = {d} \cup Held(D)
<1>1. PICK n, E : n = Len(D) /\ E = <<d>> \o D
  OBVIOUS
<1>2. n \in Nat /\ DOMAIN D = 1 .. n /\ <<d>> \in Seq(Dirs) /\ Len(<<d>>) = 1 /\ <<d>>[1] = d
  BY <1>1
<1>3. E \in Seq(Dirs) /\ Len(E) = 1 + n
      /\ \A k \in 1 .. 1 + n : E[k] = IF k <= 1 THEN <<d>>[k] ELSE D[k - 1]
  BY <1>1, <1>2, ConcatProperties
<1>4. DOMAIN E = 1 .. n + 1 /\ E[1] = d /\ \A k \in 1 .. n : E[k + 1] = D[k]
  <2>1. ASSUME NEW k \in 1 .. n PROVE E[k + 1] = D[k]
    <3>1. k + 1 \in 1 .. 1 + n /\ ~ (k + 1 <= 1) /\ (k + 1) - 1 = k
      BY <1>2
    <3> QED
      BY <1>3, <3>1
  <2> QED
    BY <1>2, <1>3, <2>1
<1>5. \A k \in 1 .. n + 1 : k = 1 \/ \E m \in 1 .. n : k = m + 1
  <2> TAKE k \in 1 .. n + 1
  <2>1. k = 1 \/ (k - 1 \in 1 .. n /\ k = (k - 1) + 1)
    BY <1>2
  <2> QED
    BY <2>1
<1>6. Held(E) = {d} \cup Held(D)
  <2>1. Held(E) \subseteq {d} \cup Held(D)
    <3> SUFFICES ASSUME NEW k \in 1 .. n + 1 PROVE E[k] \in {d} \cup Held(D)
      BY <1>4 DEF Held
    <3>1. CASE k = 1
      BY <1>4, <3>1
    <3>2. ASSUME NEW m \in 1 .. n, k = m + 1 PROVE E[k] \in Held(D)
      BY <1>2, <1>4, <3>2 DEF Held
    <3> QED
      BY <1>5, <3>1, <3>2
  <2>2. ASSUME NEW e \in Held(D) PROVE e \in Held(E)
    <3>1. PICK k \in 1 .. n : e = D[k]
      BY <1>2 DEF Held
    <3>2. k + 1 \in 1 .. n + 1
      BY <1>2
    <3> QED
      BY <1>4, <3>1, <3>2 DEF Held
  <2>3. d \in Held(E)
    <3>1. 1 \in 1 .. n + 1
      BY <1>2
    <3> QED
      BY <1>4, <3>1 DEF Held
  <2> QED
    BY <2>1, <2>2, <2>3
<1>7. Distinct(E)
  <2> SUFFICES ASSUME NEW k \in 1 .. n + 1, NEW m \in 1 .. n + 1, E[k].name = E[m].name PROVE k = m
    BY <1>4 DEF Distinct
  <2>1. \A a \in 1 .. n : D[a].name # d.name
    BY <1>2 DEF Held
  <2>2. CASE k = 1
    BY <1>4, <1>5, <2>1, <2>2
  <2>3. CASE m = 1
    BY <1>4, <1>5, <2>1, <2>3
  <2>4. CASE k # 1 /\ m # 1
    <3>1. PICK a \in 1 .. n, b \in 1 .. n : k = a + 1 /\ m = b + 1
      BY <1>5, <2>4
    <3>2. D[a].name = D[b].name
      BY <1>4, <3>1
    <3>3. a = b
      BY <1>2, <3>2 DEF Distinct
    <3> QED
      BY <3>1, <3>3
  <2> QED
    BY <2>2, <2>3, <2>4
<1> QED
  BY <1>1, <1>3, <1>6, <1>7

Changed(D, name, d) == [i \in DOMAIN D |-> IF D[i].name = name THEN d ELSE D[i]]

LEMMA OneChanged ==
  ASSUME NEW D \in Seq(Dirs), Distinct(D), NEW d \in Dirs, d.name \in {e.name : e \in Held(D)}
  PROVE  LET E == Changed(D, d.name, d)
         IN  E \in Seq(Dirs) /\ Distinct(E) /\ Held(E) = {d} \cup {e \in Held(D) : e.name # d.name}
<1>1. PICK n, E : n = Len(D) /\ E = Changed(D, d.name, d)
  OBVIOUS
<1>2. n \in Nat /\ DOMAIN D = 1 .. n /\ DOMAIN E = 1 .. n
      /\ \A i \in 1 .. n : E[i] = (IF D[i].name = d.name THEN d ELSE D[i]) /\ D[i] \in Dirs
  BY <1>1 DEF Changed
<1>3. E \in Seq(Dirs)
  <2>1. E \in [1 .. n -> Dirs]
    BY <1>1, <1>2 DEF Changed
  <2> QED
    BY <1>2, <2>1
<1>4. Distinct(E)
  BY <1>2 DEF Distinct
<1>5. Held(E) = {d} \cup {e \in Held(D) : e.name # d.name}
  <2>1. PICK i \in 1 .. n : D[i].name = d.name
    BY <1>2 DEF Held
  <2>2. d \in Held(E)
    BY <1>2, <2>1 DEF Held
  <2> QED
    BY <1>2, <2>2 DEF Held
<1> QED
  BY <1>1, <1>3, <1>4, <1>5

LinkTo == Hashes \cup {"none"}
Workers == [op : {"idle", "staged", "renamed", "swapping", "switching"}, hash : LinkTo, old : LinkTo]
Collectors == [running : BOOLEAN, candidates : SUBSET (Hashes \cup {"staging"})]

DirsInv == dirs \in Seq(Dirs) /\ Distinct(dirs)

(* What a link may name: a directory with a manifest.                       *)
Stands(h) == \E d \in Held(dirs) : d.name = h /\ d.manifest # "none"
Switching == worker.op \in {"swapping", "switching"}

DeployTypes ==
  /\ DirsInv /\ {current, previous} \subseteq LinkTo /\ worker \in Workers
  /\ worker.op # "idle" => worker.hash \in Hashes
  /\ gc \in Collectors /\ overlapped \in BOOLEAN

(* While no collection overlaps a switch, what the links name stands, what  *)
(* the worker is about to link stands, and the collector wants neither.     *)
LinksInv ==
  ~ overlapped =>
    /\ \A h \in {current, previous} \ {"none"} : Stands(h)
    /\ Switching => /\ Stands(worker.hash) /\ ~ gc.running
                    /\ worker.old # "none" => Stands(worker.old)
    /\ gc.candidates \cap {current, previous} = {}

(* The way back is prepared before the switch.                              *)
WayInv ==
  /\ \A s \in switched : s.from \notin {"none", s.hash} => previous \in {s.from, s.hash}
  /\ Switching => switched = {}
  /\ worker.op = "switching" /\ worker.old \notin {"none", worker.hash}
     => previous \in {worker.old, worker.hash}

DeployInv ==
  DeployTypes /\ (~ gc.running => gc.candidates = {}) /\ LinksInv /\ WayInv

LEMMA NoHash == "none" \notin Hashes /\ "staging" \notin Hashes /\ "other" \notin Hashes
  BY PlatformAssumption

LEMMA DirsBecome ==
  ASSUME NEW D, D \in Seq(Dirs), Distinct(D), dirs' = D
  PROVE  DirsInv' /\ Held(dirs)' = Held(D)
BY DEF DirsInv, Held, Distinct

LEMMA DeployInit ==
  ASSUME Deploy!Init
  PROVE  DeployInv
<1>1. dirs = <<>> /\ current = "none" /\ previous = "none" /\ switched = {} /\ overlapped = FALSE
      /\ worker = [op |-> "idle", hash |-> "none", old |-> "none"]
      /\ gc = [running |-> FALSE, candidates |-> {}]
  BY DEF Deploy!Init, Deploy!None, Deploy!Idle, Deploy!NotRunning
<1>2. DirsInv
  BY <1>1 DEF DirsInv, Distinct
<1> QED
  BY <1>1, <1>2 DEF DeployInv, DeployTypes, LinksInv, WayInv, Switching, LinkTo, Workers, Collectors

LEMMA WithoutIs ==
  ASSUME DirsInv, NEW n
  PROVE  LET E == Deploy!Without(n)
         IN  E \in Seq(Dirs) /\ Distinct(E) /\ Held(E) = {d \in Held(dirs) : d.name # n}
<1>1. CASE n \in Deploy!Names
  <2>1. PICK i : i = Deploy!IndexOf(n)
    OBVIOUS
  <2>2. i \in DOMAIN dirs /\ dirs[i].name = n
    BY <1>1, <2>1 DEF Deploy!IndexOf, Deploy!Names
  <2>3. Deploy!Without(n) = Deploy!RemoveAt(dirs, i)
    BY <1>1, <2>1 DEF Deploy!Without
  <2> QED
    BY <2>2, <2>3, OneFewer DEF DirsInv
<1>2. CASE n \notin Deploy!Names
  <2>1. Deploy!Without(n) = dirs /\ \A d \in Held(dirs) : d.name # n
    BY <1>2 DEF Deploy!Without, Deploy!Names, Held
  <2> QED
    BY <2>1 DEF DirsInv
<1> QED
  BY <1>1, <1>2

LEMMA NamesAre ==
  ASSUME DirsInv
  PROVE  /\ \A h : h \in Deploy!Names <=> \E d \in Held(dirs) : d.name = h
         /\ \A d \in Held(dirs) : d \in Dirs /\ Deploy!Named(d.name) = d
<1>1. ASSUME NEW d \in Held(dirs) PROVE d \in Dirs /\ Deploy!Named(d.name) = d
  <2>1. PICK i \in DOMAIN dirs : dirs[i] = d
    BY DEF Held
  <2>2. d \in Dirs
    BY <2>1 DEF DirsInv
  <2>3. Deploy!IndexOf(d.name) \in DOMAIN dirs /\ dirs[Deploy!IndexOf(d.name)].name = d.name
    BY <2>1 DEF Deploy!IndexOf
  <2>4. Deploy!IndexOf(d.name) = i
    BY <2>1, <2>3 DEF DirsInv, Distinct
  <2> QED
    BY <2>1, <2>2, <2>4 DEF Deploy!Named
<1>2. \A h : h \in Deploy!Names <=> \E d \in Held(dirs) : d.name = h
  BY DEF Deploy!Names, Held
<1> QED
  BY <1>1, <1>2

LEMMA VerifiedStands ==
  ASSUME DirsInv, NEW h, Deploy!Verified(h)
  PROVE  Stands(h)
<1>1. PICK d \in Held(dirs) : d.name = h
  BY NamesAre DEF Deploy!Verified
<1> QED
  BY <1>1, NamesAre DEF Deploy!Verified, Deploy!None, Stands

(* What keeps the directories with a manifest keeps the links standing.     *)
LEMMA StandsStay ==
  ASSUME DeployInv, DirsInv', UNCHANGED <<current, previous, gc, switched, overlapped>>,
         \A h \in Hashes : Stands(h) => Stands(h)',
         worker' \in Workers, worker'.op \notin {"swapping", "switching"},
         worker'.op # "idle" => worker'.hash \in Hashes
  PROVE  DeployInv'
<1>1. DeployTypes' /\ (~ gc.running => gc.candidates = {})'
  BY DEF DeployInv, DeployTypes
<1>2. LinksInv'
  BY DEF DeployInv, DeployTypes, LinksInv, Switching, LinkTo
<1>3. WayInv'
  BY DEF DeployInv, WayInv, Switching
<1> QED
  BY <1>1, <1>2, <1>3 DEF DeployInv

LEMMA BuildStep ==
  ASSUME DeployInv,
         \/ \E hash \in Hashes : Deploy!BuildStages(hash) \/ Deploy!Corrupt(hash)
         \/ Deploy!BuildRenames \/ Deploy!BuildWritesManifest
  PROVE  DeployInv'
<1>1. DirsInv /\ worker \in Workers /\ (worker.op # "idle" => worker.hash \in Hashes)
  BY DEF DeployInv, DeployTypes
<1>2. ASSUME NEW hash \in Hashes, Deploy!BuildStages(hash) PROVE DeployInv'
  <2>1. PICK d, E : d = Deploy!Dir("staging", hash, "none", "none") /\ E = Deploy!Without("staging")
    OBVIOUS
  <2>2. d \in Dirs /\ d.name = "staging"
    BY <2>1 DEF Deploy!Dir, Dirs
  <2>3. E \in Seq(Dirs) /\ Distinct(E) /\ Held(E) = {e \in Held(dirs) : e.name # "staging"}
    BY <1>1, <2>1, WithoutIs
  <2>4. dirs' = <<d>> \o E /\ UNCHANGED <<current, previous, gc, switched, overlapped>>
        /\ worker' = [op |-> "staged", hash |-> hash, old |-> "none"]
    BY <1>2, <2>1 DEF Deploy!BuildStages, Deploy!Idle, Deploy!None
  <2>5. DirsInv' /\ Held(dirs)' = {d} \cup Held(E)
    <3>1. PICK D : D = <<d>> \o E
      OBVIOUS
    <3>2. D \in Seq(Dirs) /\ Distinct(D) /\ Held(D) = {d} \cup Held(E)
      BY <2>2, <2>3, <3>1, OneMore DEF DirsInv
    <3> QED
      BY <2>4, <3>1, <3>2, DirsBecome
  <2>6. \A h \in Hashes : Stands(h) => Stands(h)'
    BY <2>3, <2>5, NoHash DEF Stands
  <2>7. worker' \in Workers /\ worker'.op = "staged" /\ worker'.hash \in Hashes
    BY <2>4 DEF Workers, LinkTo
  <2> QED
    BY <2>4, <2>5, <2>6, <2>7, StandsStay
<1>3. ASSUME Deploy!BuildRenames PROVE DeployInv'
  <2>1. PICK E, d : E = Deploy!Without("staging") /\ d = Deploy!Dir(worker.hash, worker.hash, "none", "none")
    OBVIOUS
  <2>2. E \in Seq(Dirs) /\ Distinct(E) /\ Held(E) = {e \in Held(dirs) : e.name # "staging"}
    BY <1>1, <2>1, WithoutIs
  <2>3. worker.op = "staged" /\ worker.hash \in Hashes /\ UNCHANGED <<current, previous, gc, switched, overlapped>>
    BY <1>1, <1>3 DEF Deploy!BuildRenames
  <2>4. CASE worker.hash \in Deploy!Names \/ "staging" \notin Deploy!Names
    <3>1. dirs' = E /\ worker' = [op |-> "idle", hash |-> "none", old |-> "none"]
      BY <1>3, <2>1, <2>4 DEF Deploy!BuildRenames, Deploy!Idle, Deploy!None
    <3>2. worker' \in Workers /\ worker'.op = "idle"
      BY <3>1 DEF Workers, LinkTo
    <3>3. DirsInv' /\ \A h \in Hashes : Stands(h) => Stands(h)'
      BY <2>2, <3>1, NoHash DEF DirsInv, Stands, Held, Distinct
    <3> QED
      BY <2>3, <3>2, <3>3, StandsStay
  <2>5. CASE ~ (worker.hash \in Deploy!Names \/ "staging" \notin Deploy!Names)
    <3>1. dirs' = <<d>> \o E /\ worker' = [worker EXCEPT !.op = "renamed"]
      BY <1>3, <2>1, <2>5 DEF Deploy!BuildRenames, Deploy!None
    <3>2. d \in Dirs /\ d.name = worker.hash
      BY <2>1, <2>3 DEF Deploy!Dir, Dirs
    <3>3. \A e \in Held(E) : e.name # d.name
      BY <1>1, <2>2, <2>5, <3>2, NamesAre
    <3>4. DirsInv' /\ Held(dirs)' = {d} \cup Held(E)
      <4>1. PICK D : D = <<d>> \o E
        OBVIOUS
      <4>2. D \in Seq(Dirs) /\ Distinct(D) /\ Held(D) = {d} \cup Held(E)
        BY <2>2, <3>2, <3>3, <4>1, OneMore DEF DirsInv
      <4> QED
        BY <3>1, <4>1, <4>2, DirsBecome
    <3>5. \A h \in Hashes : Stands(h) => Stands(h)'
      BY <2>2, <3>4, NoHash DEF Stands
    <3>6. worker' \in Workers /\ worker'.op = "renamed" /\ worker'.hash \in Hashes
      BY <1>1, <2>3, <3>1 DEF Workers
    <3> QED
      BY <2>3, <3>4, <3>5, <3>6, StandsStay
  <2> QED
    BY <2>4, <2>5
<1>4. ASSUME Deploy!BuildWritesManifest PROVE DeployInv'
  <2>1. PICK w, d : w = worker.hash
                    /\ d = Deploy!Dir(w, IF w \in Deploy!Names THEN w ELSE "none", w,
                                      IF Keyed THEN "signed" ELSE "none")
    OBVIOUS
  <2>2. w \in Hashes /\ worker' = [op |-> "idle", hash |-> "none", old |-> "none"]
        /\ UNCHANGED <<current, previous, gc, switched, overlapped>>
        /\ dirs' = IF w \in Deploy!Names THEN Deploy!Edit(w, d) ELSE <<d>> \o dirs
    BY <1>1, <1>4, <2>1 DEF Deploy!BuildWritesManifest, Deploy!Idle, Deploy!None
  <2>3. d \in Dirs /\ d.name = w /\ d.manifest = w
    BY <2>1, <2>2 DEF Deploy!Dir, Dirs
  <2>4. DirsInv' /\ Held(dirs)' = {d} \cup {e \in Held(dirs) : e.name # w}
    <3>1. CASE w \in Deploy!Names
      <4>1. dirs' = Changed(dirs, d.name, d) /\ d.name \in {e.name : e \in Held(dirs)}
        BY <1>1, <2>2, <2>3, <3>1, NamesAre DEF Deploy!Edit, Changed
      <4> QED
        <5>1. PICK D : D = Changed(dirs, d.name, d)
          OBVIOUS
        <5>2. D \in Seq(Dirs) /\ Distinct(D) /\ Held(D) = {d} \cup {e \in Held(dirs) : e.name # w}
          BY <1>1, <2>3, <4>1, <5>1, OneChanged DEF DirsInv
        <5> QED
          BY <4>1, <5>1, <5>2, DirsBecome
    <3>2. CASE w \notin Deploy!Names
      <4>1. dirs' = <<d>> \o dirs /\ \A e \in Held(dirs) : e.name # d.name
        BY <1>1, <2>2, <2>3, <3>2, NamesAre
      <4>2. DirsInv' /\ Held(dirs)' = {d} \cup Held(dirs)
        <5>1. PICK D : D = <<d>> \o dirs
          OBVIOUS
        <5>2. D \in Seq(Dirs) /\ Distinct(D) /\ Held(D) = {d} \cup Held(dirs)
          BY <1>1, <2>3, <4>1, <5>1, OneMore DEF DirsInv
        <5> QED
          BY <4>1, <5>1, <5>2, DirsBecome
      <4> QED
        BY <2>3, <4>1, <4>2
    <3> QED
      BY <3>1, <3>2
  <2>5. \A h \in Hashes : Stands(h) => Stands(h)'
    BY <2>2, <2>3, <2>4, NoHash DEF Stands
  <2>6. worker' \in Workers /\ worker'.op = "idle"
    BY <2>2 DEF Workers, LinkTo
  <2> QED
    BY <2>2, <2>4, <2>5, <2>6, StandsStay
<1>5. ASSUME NEW n \in Hashes, Deploy!Corrupt(n) PROVE DeployInv'
  <2>1. PICK e \in Held(dirs) : e.name = n
    BY <1>1, <1>5, NamesAre DEF Deploy!Corrupt
  <2>2. PICK d : d = [e EXCEPT !.tree = "other"]
    OBVIOUS
  <2>3. e \in Dirs /\ Deploy!Named(n) = e
    BY <1>1, <2>1, NamesAre
  <2>4. d \in Dirs /\ d.name = n /\ d.manifest = e.manifest
    BY <2>1, <2>2, <2>3 DEF Dirs
  <2>5. dirs' = Changed(dirs, d.name, d) /\ worker.op = "idle"
        /\ UNCHANGED <<current, previous, worker, gc, switched, overlapped>>
    BY <1>5, <2>2, <2>3, <2>4 DEF Deploy!Corrupt, Deploy!Edit, Changed
  <2>6. DirsInv' /\ Held(dirs)' = {d} \cup {x \in Held(dirs) : x.name # n}
    <3>1. PICK D : D = Changed(dirs, d.name, d)
      OBVIOUS
    <3>2. D \in Seq(Dirs) /\ Distinct(D) /\ Held(D) = {d} \cup {x \in Held(dirs) : x.name # n}
      BY <1>1, <2>1, <2>4, <3>1, OneChanged DEF DirsInv
    <3> QED
      BY <2>5, <3>1, <3>2, DirsBecome
  <2>7. \A h \in Hashes : Stands(h) => Stands(h)'
    <3> SUFFICES ASSUME NEW h \in Hashes, NEW x \in Held(dirs), x.name = h, x.manifest # "none"
                 PROVE  \E y \in Held(dirs)' : y.name = h /\ y.manifest # "none"
      BY DEF Stands
    <3>1. CASE h = n
      <4>1. x = e
        BY <1>1, <2>3, <3>1, NamesAre
      <4> QED
        BY <2>4, <2>6, <3>1, <4>1
    <3>2. CASE h # n
      BY <2>6, <3>2
    <3> QED
      BY <3>1, <3>2
  <2> QED
    BY <1>1, <2>5, <2>6, <2>7, StandsStay
<1> QED
  BY <1>2, <1>3, <1>4, <1>5

LEMMA LinkStep ==
  ASSUME DeployInv,
         \/ \E hash \in Hashes : Deploy!SwapVerifies(hash)
         \/ Deploy!SwapSetsPrevious \/ Deploy!RollbackVerifies \/ Deploy!SetCurrent \/ Deploy!Crash
  PROVE  DeployInv'
<1>1. DirsInv /\ worker \in Workers /\ (worker.op # "idle" => worker.hash \in Hashes)
      /\ current \in LinkTo /\ previous \in LinkTo /\ gc \in Collectors /\ overlapped \in BOOLEAN
      /\ (~ gc.running => gc.candidates = {})
  BY DEF DeployInv, DeployTypes
<1>2. ASSUME UNCHANGED <<dirs, gc>>
      PROVE  DirsInv' /\ gc' \in Collectors /\ (~ gc.running => gc.candidates = {})'
             /\ \A h : Stands(h)' <=> Stands(h)
  BY <1>1, <1>2 DEF DirsInv, Stands, Held, Distinct
<1>3. ASSUME NEW h \in Hashes, Deploy!Verified(h), worker.op = "idle",
             NEW op \in {"swapping", "switching"}, worker' = [op |-> op, hash |-> h, old |-> current],
             op = "switching" => h = previous,
             overlapped' = (overlapped \/ gc.running), switched' = {},
             UNCHANGED <<dirs, current, previous, gc>>
      PROVE  DeployInv'
  <2>1. worker' \in Workers /\ worker'.op = op /\ worker'.hash = h /\ worker'.old = current
    BY <1>1, <1>3 DEF Workers, LinkTo
  <2>2. DeployTypes' /\ (~ gc.running => gc.candidates = {})'
    BY <1>1, <1>2, <1>3, <2>1 DEF DeployTypes
  <2>3. LinksInv'
    <3>1. Stands(h)
      BY <1>1, <1>3, VerifiedStands
    <3>2. CASE overlapped'
      BY <3>2 DEF LinksInv
    <3>3. CASE ~ overlapped'
      <4>1. ~ overlapped /\ ~ gc.running
        BY <1>1, <1>3, <3>3
      <4>2. (\A x \in {current, previous} \ {"none"} : Stands(x)) /\ gc.candidates \cap {current, previous} = {}
        BY <4>1 DEF DeployInv, LinksInv
      <4> QED
        BY <1>2, <1>3, <2>1, <3>1, <4>1, <4>2 DEF LinksInv
    <3> QED
      BY <3>2, <3>3
  <2>4. WayInv'
    BY <1>3, <2>1 DEF WayInv
  <2> QED
    BY <2>2, <2>3, <2>4 DEF DeployInv
<1>4. ASSUME NEW h \in Hashes, Deploy!SwapVerifies(h) PROVE DeployInv'
  BY <1>3, <1>4 DEF Deploy!SwapVerifies
<1>5. ASSUME Deploy!RollbackVerifies PROVE DeployInv'
  <2>1. previous \in Hashes
    BY <1>1, <1>5 DEF Deploy!RollbackVerifies, Deploy!None, LinkTo
  <2> QED
    BY <1>3, <1>5, <2>1 DEF Deploy!RollbackVerifies
<1>6. ASSUME Deploy!SwapSetsPrevious PROVE DeployInv'
  <2>1. /\ worker.op = "swapping" /\ worker' = [worker EXCEPT !.op = "switching"]
        /\ previous' = (IF worker.old \notin {"none", worker.hash} THEN worker.old ELSE previous)
        /\ UNCHANGED <<dirs, current, gc, switched, overlapped>>
    BY <1>6 DEF Deploy!SwapSetsPrevious, Deploy!None
  <2>2. worker' \in Workers /\ worker'.op = "switching" /\ worker'.hash = worker.hash
        /\ worker'.old = worker.old /\ worker.old \in LinkTo
    BY <1>1, <2>1 DEF Workers
  <2>3. DeployTypes' /\ (~ gc.running => gc.candidates = {})'
    BY <1>1, <1>2, <2>1, <2>2 DEF DeployTypes
  <2>4. LinksInv'
    <3> SUFFICES ASSUME ~ overlapped
                 PROVE  /\ \A h \in {current, previous'} \ {"none"} : Stands(h)
                        /\ Stands(worker.hash) /\ ~ gc.running /\ (worker.old # "none" => Stands(worker.old))
                        /\ gc.candidates \cap {current, previous'} = {}
      BY <1>2, <2>1, <2>2 DEF LinksInv
    <3>1. /\ \A h \in {current, previous} \ {"none"} : Stands(h)
          /\ Stands(worker.hash) /\ ~ gc.running /\ (worker.old # "none" => Stands(worker.old))
      BY <2>1 DEF DeployInv, LinksInv, Switching
    <3> QED
      BY <1>1, <2>1, <3>1
  <2>5. WayInv'
    <3>1. switched = {} /\ switched' = {}
      BY <2>1 DEF DeployInv, WayInv, Switching
    <3> QED
      BY <2>1, <2>2, <3>1 DEF WayInv
  <2> QED
    BY <2>3, <2>4, <2>5 DEF DeployInv
<1>7. ASSUME Deploy!SetCurrent PROVE DeployInv'
  <2>1. /\ worker.op = "switching" /\ current' = worker.hash
        /\ switched' = {[hash |-> worker.hash, from |-> worker.old]}
        /\ worker' = [op |-> "idle", hash |-> "none", old |-> "none"]
        /\ UNCHANGED <<dirs, previous, gc, overlapped>>
    BY <1>7 DEF Deploy!SetCurrent, Deploy!Idle, Deploy!None
  <2>2. worker' \in Workers /\ worker'.op = "idle" /\ current' \in LinkTo
    BY <1>1, <2>1 DEF Workers, LinkTo
  <2>3. DeployTypes' /\ (~ gc.running => gc.candidates = {})'
    BY <1>1, <1>2, <2>1, <2>2 DEF DeployTypes
  <2>4. LinksInv'
    <3> SUFFICES ASSUME ~ overlapped
                 PROVE  /\ \A h \in {worker.hash, previous} \ {"none"} : Stands(h)
                        /\ gc.candidates \cap {worker.hash, previous} = {}
      BY <1>2, <2>1, <2>2 DEF LinksInv, Switching
    <3>1. /\ \A h \in {current, previous} \ {"none"} : Stands(h)
          /\ Stands(worker.hash) /\ ~ gc.running
      BY <2>1 DEF DeployInv, LinksInv, Switching
    <3> QED
      BY <1>1, <3>1
  <2>5. WayInv'
    <3>1. worker.old \notin {"none", worker.hash} => previous \in {worker.old, worker.hash}
      BY <2>1 DEF DeployInv, WayInv
    <3> QED
      BY <2>1, <2>2, <3>1 DEF WayInv, Switching
  <2> QED
    BY <2>3, <2>4, <2>5 DEF DeployInv
<1>8. ASSUME Deploy!Crash PROVE DeployInv'
  <2>1. /\ worker' = [op |-> "idle", hash |-> "none", old |-> "none"]
        /\ UNCHANGED <<dirs, current, previous, gc, switched, overlapped>>
    BY <1>8 DEF Deploy!Crash, Deploy!Idle, Deploy!None
  <2>2. worker' \in Workers /\ worker'.op = "idle"
    BY <2>1 DEF Workers, LinkTo
  <2> QED
    BY <1>2, <2>1, <2>2, StandsStay
<1> QED
  BY <1>4, <1>5, <1>6, <1>7, <1>8

LEMMA CollectStep ==
  ASSUME DeployInv,
         Deploy!GcReads \/ Deploy!GcEnds \/ \E name \in gc.candidates : Deploy!GcDeletes(name)
  PROVE  DeployInv'
<1>1. DirsInv /\ gc \in Collectors /\ overlapped \in BOOLEAN /\ DeployTypes /\ LinksInv /\ WayInv
      /\ (~ gc.running => gc.candidates = {})
  BY DEF DeployInv, DeployTypes
<1>2. ASSUME Deploy!GcReads PROVE DeployInv'
  <2>1. PICK want : want = {dirs[i].name : i \in {j \in DOMAIN dirs :
                              j > Retain /\ dirs[j].name \notin {current, previous}}}
    OBVIOUS
  <2>2. /\ gc' = [running |-> TRUE, candidates |-> want]
        /\ overlapped' = (overlapped \/ Switching)
        /\ UNCHANGED <<dirs, current, previous, worker, switched>>
    BY <1>2, <2>1 DEF Deploy!GcReads, Deploy!Referenced, Switching
  <2>3. want \subseteq Hashes \cup {"staging"} /\ want \cap {current, previous} = {}
    <3>1. \A i \in DOMAIN dirs : dirs[i] \in Dirs
      BY <1>1 DEF DirsInv
    <3> QED
      BY <2>1, <3>1 DEF Dirs
  <2>4. gc' \in Collectors /\ gc'.running /\ gc'.candidates = want
    BY <2>2, <2>3 DEF Collectors
  <2>5. DirsInv' /\ \A h : Stands(h)' <=> Stands(h)
    BY <1>1, <2>2 DEF DirsInv, Stands, Held, Distinct
  <2>6. DeployTypes'
    BY <1>1, <2>2, <2>4, <2>5 DEF DeployTypes, Switching
  <2>7. LinksInv'
    BY <1>1, <2>2, <2>3, <2>4, <2>5 DEF LinksInv, Switching
  <2>8. WayInv'
    BY <1>1, <2>2 DEF WayInv, Switching
  <2> QED
    BY <2>4, <2>6, <2>7, <2>8 DEF DeployInv
<1>3. ASSUME Deploy!GcEnds PROVE DeployInv'
  <2>1. gc' = [running |-> FALSE, candidates |-> {}]
        /\ UNCHANGED <<dirs, current, previous, worker, switched, overlapped>>
    BY <1>3 DEF Deploy!GcEnds, Deploy!NotRunning
  <2>2. gc' \in Collectors /\ ~ gc'.running /\ gc'.candidates = {}
    BY <2>1 DEF Collectors
  <2>3. DirsInv' /\ \A h : Stands(h)' <=> Stands(h)
    BY <1>1, <2>1 DEF DirsInv, Stands, Held, Distinct
  <2>4. DeployTypes' /\ LinksInv' /\ WayInv'
    BY <1>1, <2>1, <2>2, <2>3 DEF DeployTypes, LinksInv, WayInv, Switching
  <2> QED
    BY <2>2, <2>4 DEF DeployInv
<1>4. ASSUME NEW n \in gc.candidates, Deploy!GcDeletes(n) PROVE DeployInv'
  <2>1. gc' = [gc EXCEPT !.candidates = @ \ {n}] /\ dirs' = Deploy!Without(n)
        /\ UNCHANGED <<current, previous, worker, switched, overlapped>>
    BY <1>4 DEF Deploy!GcDeletes
  <2>2. gc' \in Collectors /\ gc'.running = gc.running /\ gc'.candidates = gc.candidates \ {n} /\ gc.running
    BY <1>1, <1>4, <2>1 DEF Collectors
  <2>3. DirsInv' /\ Held(dirs)' = {d \in Held(dirs) : d.name # n}
    BY <1>1, <2>1, WithoutIs DEF DirsInv, Held, Distinct
  <2>4. \A h : h # n /\ Stands(h) => Stands(h)'
    BY <2>3 DEF Stands
  <2>5. DeployTypes'
    BY <1>1, <2>1, <2>2, <2>3 DEF DeployTypes
  <2>6. LinksInv'
    BY <1>1, <1>4, <2>1, <2>2, <2>4 DEF LinksInv, Switching
  <2>7. WayInv'
    BY <1>1, <2>1 DEF WayInv, Switching
  <2> QED
    BY <2>2, <2>5, <2>6, <2>7 DEF DeployInv
<1> QED
  BY <1>2, <1>3, <1>4

LEMMA DeployStep ==
  ASSUME DeployInv, Deploy!Next
  PROVE  DeployInv'
BY BuildStep, LinkStep, CollectStep DEF Deploy!Next

LEMMA DeploySafe ==
  ASSUME DeployInv
  PROVE  Deploy!TypeOK /\ Deploy!LinksStand /\ Deploy!WayBack
<1>1. Deploy!TypeOK
  <2>1. Deploy!Cardinality(Deploy!Names) = Len(dirs)
    <3>1. PICK n, f : n = Len(dirs) /\ f = [i \in 1 .. n |-> dirs[i].name]
      OBVIOUS
    <3>2. n \in Nat /\ DOMAIN dirs = 1 .. n
      BY <3>1 DEF DeployInv, DeployTypes, DirsInv
    <3>3. f \in [1 .. n -> Deploy!Names] /\ (\A i \in 1 .. n : f[i] = dirs[i].name)
          /\ \A x \in Deploy!Names : \E i \in 1 .. n : f[i] = x
      BY <3>1, <3>2 DEF Deploy!Names
    <3>4. \A i, j \in 1 .. n : f[i] = f[j] => i = j
      BY <3>2, <3>3 DEF DeployInv, DeployTypes, DirsInv, Distinct
    <3>5. f \in Bijection(1 .. n, Deploy!Names)
      BY <3>3, <3>4 DEF Bijection, Injection, Surjection, IsInjective
    <3>6. IsFiniteSet(1 .. n) /\ Cardinality(1 .. n) = n
      BY <3>2, FS_Interval
    <3>7. ExistsBijection(1 .. n, Deploy!Names)
      BY <3>5 DEF ExistsBijection
    <3>8. Cardinality(Deploy!Names) = n
      BY <3>6, <3>7, FS_Bijection
    <3> QED
      BY <3>1, <3>8, DeployCount
  <2>2. Deploy!Names \subseteq Hashes \cup {"staging"}
    BY NamesAre DEF DeployInv, DeployTypes, Dirs
  <2> QED
    BY <2>1, <2>2 DEF Deploy!TypeOK, DeployInv, DeployTypes, LinkTo, Workers, Deploy!None
<1>2. Deploy!LinksStand
  <2>1. ASSUME ~ overlapped, NEW h \in {current, previous} \ {"none"}
        PROVE  h \in Deploy!Names /\ Deploy!Named(h).manifest # "none"
    <3>1. DirsInv /\ Stands(h)
      BY <2>1 DEF DeployInv, DeployTypes, LinksInv
    <3> QED
      BY <3>1, NamesAre DEF Stands
  <2> QED
    BY <2>1 DEF Deploy!LinksStand, Deploy!None
<1>3. Deploy!WayBack
  BY DEF DeployInv, WayInv, Deploy!WayBack, Deploy!None
<1> QED
  BY <1>1, <1>2, <1>3

-----------------------------------------------------------------------------
(* The logs of the workshops. What a selection of lines is: their           *)
(* positions, counted off in order.                                         *)
LEMMA SwimCount == \A S : Swim!Cardinality(S) = Cardinality(S)
  BY DEF Swim!Cardinality, Cardinality

LEMMA LeastNat ==
  ASSUME NEW T \in SUBSET Nat, T # {}
  PROVE  \E x \in T : \A y \in T : x <= y
<1>1. PICK x \in T : \A z \in T : ~ (<<z, x>> \in OpToRel(<, Nat))
  BY WFMin, NatLessThanWellFounded
<1>2. \A z \in T : ~ (z < x)
  BY <1>1 DEF OpToRel
<1>3. \A z \in T : x <= z
  BY <1>2
<1> QED
  BY <1>3

LEMMA GreatestNat ==
  ASSUME NEW n \in Nat, NEW T \in SUBSET (0 .. n), T # {}
  PROVE  \E x \in T : \A y \in T : y <= x
<1> DEFINE D == {n - x : x \in T}
<1>1. D \in SUBSET Nat /\ D # {}
  <2>1. \A x \in T : x \in 0 .. n
    OBVIOUS
  <2>2. \A x \in T : n - x \in Nat
    BY <2>1
  <2> QED
    BY <2>2
<1> HIDE DEF D
<1>2. PICK d \in D : \A e \in D : d <= e
  BY <1>1, LeastNat
<1>3. PICK x \in T : d = n - x
  BY DEF D
<1>4. ASSUME NEW y \in T PROVE y <= x
  <2>1. n - x <= n - y
    BY <1>2, <1>3 DEF D
  <2> QED
    BY <2>1
<1> QED
  BY <1>4

(* The rank of a position counts those up to it.                            *)
Rank(I, i) == Cardinality({j \in I : j <= i})

LEMMA RanksCount ==
  ASSUME NEW n \in Nat, NEW I \in SUBSET (1 .. n)
  PROVE  /\ Cardinality(I) \in Nat /\ IsFiniteSet(I)
         /\ \A i \in I : Rank(I, i) \in 1 .. Cardinality(I)
         /\ \A i, j \in I : i < j <=> Rank(I, i) < Rank(I, j)
         /\ \A k \in 1 .. Cardinality(I) : \E i \in I : Rank(I, i) = k
<1>1. IsFiniteSet(I) /\ Cardinality(I) \in Nat
  <2>1. IsFiniteSet(1 .. n)
    BY FS_Interval
  <2> QED
    BY <2>1, FS_Subset, FS_CardinalityType
<1>2. ASSUME NEW i \in I
      PROVE  /\ Rank(I, i) \in 1 .. Cardinality(I) /\ IsFiniteSet({x \in I : x <= i})
  <2>1. PICK J : J = {x \in I : x <= i}
    OBVIOUS
  <2>2. IsFiniteSet(J) /\ Cardinality(J) <= Cardinality(I) /\ Cardinality(J) \in Nat /\ i \in J
    BY <1>1, <2>1, FS_Subset, FS_CardinalityType
  <2>3. Cardinality(J) # 0
    BY <2>2, FS_EmptySet
  <2> QED
    BY <1>1, <2>1, <2>2, <2>3 DEF Rank
<1>3. ASSUME NEW i \in I, NEW j \in I, i < j PROVE Rank(I, i) < Rank(I, j)
  <2>1. PICK A, B : A = {x \in I : x <= i} /\ B = {x \in I : x <= j}
    OBVIOUS
  <2>2. IsFiniteSet(A) /\ IsFiniteSet(B)
    BY <1>2, <2>1
  <2>3. A \subseteq B /\ j \in B /\ j \notin A
    <3>1. \A x \in I : x \in 1 .. n
      OBVIOUS
    <3>2. \A x \in I : x <= i => x <= j
      BY <1>3, <3>1
    <3>3. ~ (j <= i) /\ j <= j
      BY <1>3, <3>1
    <3> QED
      BY <2>1, <3>2, <3>3
  <2>4. Cardinality(A) \in Nat /\ Cardinality(B) \in Nat
    BY <2>2, FS_CardinalityType
  <2>5. Cardinality(A) <= Cardinality(B) /\ (Cardinality(A) = Cardinality(B) => A = B)
    BY <2>2, <2>3, FS_Subset
  <2>6. Cardinality(A) < Cardinality(B)
    BY <2>3, <2>4, <2>5
  <2> QED
    BY <2>1, <2>6 DEF Rank
<1>4. \A i, j \in I : i < j <=> Rank(I, i) < Rank(I, j)
  <2> TAKE i, j \in I
  <2>1. i < j \/ i = j \/ j < i
    OBVIOUS
  <2>2. PICK m : m = Cardinality(I) /\ m \in Nat
    BY <1>1
  <2>3. Rank(I, i) \in 1 .. m /\ Rank(I, j) \in 1 .. m
    BY <1>2, <2>2
  <2>4. Rank(I, i) \in Nat /\ Rank(I, j) \in Nat
    BY <2>2, <2>3
  <2> QED
    BY <1>3, <2>1, <2>4
<1>5. ASSUME NEW k \in 1 .. Cardinality(I) PROVE \E i \in I : Rank(I, i) = k
  <2>1. PICK m, f : m = Cardinality(I) /\ f = [i \in I |-> Rank(I, i)]
    OBVIOUS
  <2>2. f \in [I -> 1 .. m] /\ \A i \in I : f[i] = Rank(I, i)
    BY <1>2, <2>1
  <2>3. \A i, j \in I : f[i] = f[j] => i = j
    <3> TAKE i, j \in I
    <3>1. i < j \/ i = j \/ j < i
      OBVIOUS
    <3>2. m \in Nat /\ f[i] \in 1 .. m /\ f[j] \in 1 .. m
      BY <1>1, <2>1, <2>2
    <3>3. f[i] \in Nat /\ f[j] \in Nat
      BY <3>2
    <3>4. (i < j => f[i] < f[j]) /\ (j < i => f[j] < f[i])
      BY <1>4, <2>2
    <3> QED
      BY <3>1, <3>3, <3>4
  <2>4. f \in Injection(I, 1 .. m)
    BY <2>2, <2>3 DEF Injection, IsInjective
  <2>5. IsFiniteSet(1 .. m) /\ Cardinality(1 .. m) = m
    BY <1>1, <2>1, FS_Interval
  <2>6. f \in Surjection(I, 1 .. m)
    BY <1>1, <2>1, <2>4, <2>5, FS_Injection
  <2> QED
    BY <2>1, <2>2, <2>6 DEF Surjection
<1> QED
  BY <1>1, <1>2, <1>4, <1>5

LEMMA SelectionIs ==
  ASSUME NEW S, NEW s \in Seq(S), NEW K, NEW t, t = Swim!Selected(s, K)
  PROVE  /\ t \in Seq(S)
         /\ \A e : e \in Swim!ToSet(t) <=> e \in Swim!ToSet(s) /\ e \in K
         /\ \E f : /\ f \in [1 .. Len(t) -> DOMAIN s]
                   /\ \A k \in 1 .. Len(t) : t[k] = s[f[k]]
                   /\ \A k, l \in 1 .. Len(t) : k < l <=> f[k] < f[l]
                   /\ \A i \in DOMAIN s : s[i] \in K => \E k \in 1 .. Len(t) : f[k] = i
<1>1. PICK n, I : n = Len(s) /\ I = {i \in DOMAIN s : s[i] \in K}
  OBVIOUS
<1>2. n \in Nat /\ DOMAIN s = 1 .. n /\ I \in SUBSET (1 .. n)
  BY <1>1
<1>3. PICK m : m = Cardinality(I)
  OBVIOUS
<1>4. /\ m \in Nat
      /\ \A i \in I : Rank(I, i) \in 1 .. m
      /\ \A i, j \in I : i < j <=> Rank(I, i) < Rank(I, j)
      /\ \A k \in 1 .. m : \E i \in I : Rank(I, i) = k
  BY <1>2, <1>3, RanksCount
<1>5. PICK f : f = [k \in 1 .. m |-> CHOOSE i \in I : Rank(I, i) = k]
  OBVIOUS
<1>6. \A k \in 1 .. m : f[k] \in I /\ Rank(I, f[k]) = k
  BY <1>4, <1>5
<1>7. t = [k \in 1 .. m |-> s[f[k]]]
  <2>1. \A k \in 1 .. m : f[k] = CHOOSE i \in I : Swim!Cardinality({j \in I : j <= i}) = k
    BY <1>5, SwimCount DEF Rank
  <2>2. t = [k \in 1 .. m |-> s[CHOOSE i \in I : Swim!Cardinality({j \in I : j <= i}) = k]]
    BY <1>1, <1>3, SwimCount DEF Swim!Selected
  <2> QED
    BY <2>1, <2>2
<1>8. t \in Seq(S) /\ Len(t) = m /\ DOMAIN t = 1 .. m
  <2>1. ASSUME NEW k \in 1 .. m PROVE s[f[k]] \in S
    <3>1. f[k] \in 1 .. n
      BY <1>2, <1>6
    <3> QED
      BY <1>1, <3>1
  <2>2. t \in [1 .. m -> S]
    BY <1>7, <2>1
  <2> QED
    BY <1>4, <2>2
<1>9. \A k \in 1 .. m : t[k] = s[f[k]]
  BY <1>7
<1>10. \A k, l \in 1 .. m : k < l <=> f[k] < f[l]
  BY <1>4, <1>6
<1>11. \A i \in DOMAIN s : s[i] \in K => \E k \in 1 .. m : f[k] = i
  <2> SUFFICES ASSUME NEW i \in I PROVE \E k \in 1 .. m : f[k] = i
    BY <1>1
  <2>1. PICK k \in 1 .. m : k = Rank(I, i)
    BY <1>4
  <2>2. f[k] \in I /\ Rank(I, f[k]) = Rank(I, i)
    BY <1>6, <2>1
  <2>3. ~ (Rank(I, f[k]) < Rank(I, i)) /\ ~ (Rank(I, i) < Rank(I, f[k]))
    BY <1>4, <2>1, <2>2
  <2>4. ~ (f[k] < i) /\ ~ (i < f[k]) /\ f[k] \in 1 .. n /\ i \in 1 .. n
    BY <1>2, <1>4, <2>2, <2>3
  <2>5. f[k] = i
    BY <1>2, <2>4
  <2> QED
    BY <2>5
<1>12. \A e : e \in Swim!ToSet(t) <=> e \in Swim!ToSet(s) /\ e \in K
  <2>1. ASSUME NEW e, e \in Swim!ToSet(t) PROVE e \in Swim!ToSet(s) /\ e \in K
    <3>1. PICK k \in 1 .. m : t[k] = e
      BY <1>8, <2>1 DEF Swim!ToSet
    <3>2. e = s[f[k]] /\ f[k] \in I
      BY <1>6, <1>9, <3>1
    <3>3. f[k] \in DOMAIN s /\ e \in K
      BY <1>1, <3>2
    <3> QED
      BY <3>2, <3>3 DEF Swim!ToSet
  <2>2. ASSUME NEW i \in DOMAIN s, s[i] \in K PROVE s[i] \in Swim!ToSet(t)
    <3>1. PICK k \in 1 .. m : f[k] = i
      BY <1>11, <2>2
    <3> QED
      BY <1>8, <1>9, <3>1 DEF Swim!ToSet
  <2> QED
    BY <2>1, <2>2 DEF Swim!ToSet
<1>13. f \in [1 .. m -> DOMAIN s]
  BY <1>2, <1>5, <1>6
<1> QED
  BY <1>8, <1>9, <1>10, <1>11, <1>12, <1>13

(* One entry stands before every occurrence of another.                     *)
Before(s, e, f) == \E i \in DOMAIN s : s[i] = e /\ \A j \in DOMAIN s : s[j] = f => i < j

LEMMA BeforeIsIn ==
  ASSUME NEW s, NEW e, NEW f, Before(s, e, f) PROVE e \in Swim!ToSet(s)
BY DEF Before, Swim!ToSet

LEMMA OneIsBefore ==
  ASSUME NEW S, NEW s \in Seq(S), NEW e \in Swim!ToSet(s), NEW f \in Swim!ToSet(s), e # f
  PROVE  /\ Before(s, e, f) \/ Before(s, f, e)
         /\ ~ (Before(s, e, f) /\ Before(s, f, e))
<1>1. PICK I, J : I = {i \in DOMAIN s : s[i] = e} /\ J = {i \in DOMAIN s : s[i] = f}
  OBVIOUS
<1>2. /\ I \in SUBSET Nat /\ J \in SUBSET Nat
      /\ \A i \in I : s[i] = e /\ i \in DOMAIN s
      /\ \A i \in J : s[i] = f /\ i \in DOMAIN s
  BY <1>1
<1>3. I # {} /\ J # {}
  BY <1>1 DEF Swim!ToSet
<1>4. PICK i \in I : \A x \in I : i <= x
  BY <1>2, <1>3, LeastNat
<1>5. PICK j \in J : \A x \in J : j <= x
  BY <1>2, <1>3, LeastNat
<1>6. i \in Nat /\ j \in Nat /\ i # j
  BY <1>2
<1>7. CASE i < j
  <2>1. \A x \in J : i < x
    BY <1>2, <1>5, <1>6, <1>7
  <2>2. ~ Before(s, f, e)
    <3> SUFFICES ASSUME NEW x \in J, \A y \in I : x < y PROVE FALSE
      BY <1>1 DEF Before
    <3>1. x < i /\ i < x /\ x \in Nat
      BY <1>2, <2>1
    <3> QED
      BY <1>6, <3>1
  <2> QED
    BY <1>1, <1>2, <2>1, <2>2 DEF Before
<1>8. CASE j < i
  <2>1. \A x \in I : j < x
    BY <1>2, <1>4, <1>6, <1>8
  <2>2. ~ Before(s, e, f)
    <3> SUFFICES ASSUME NEW x \in I, \A y \in J : x < y PROVE FALSE
      BY <1>1 DEF Before
    <3>1. x < j /\ j < x /\ x \in Nat
      BY <1>2, <2>1
    <3> QED
      BY <1>6, <3>1
  <2> QED
    BY <1>1, <1>2, <2>1, <2>2 DEF Before
<1> QED
  BY <1>6, <1>7, <1>8

LEMMA AppendElements ==
  ASSUME NEW S, NEW s \in Seq(S), NEW g \in S, NEW t, t = Append(s, g)
  PROVE  \A e : e \in Swim!ToSet(t) <=> (e \in Swim!ToSet(s) \/ e = g)
<1>1. PICK n : n = Len(s) /\ n \in Nat /\ DOMAIN s = 1 .. n
  OBVIOUS
<1>2. DOMAIN t = 1 .. (n + 1) /\ t[n + 1] = g /\ \A i \in 1 .. n : t[i] = s[i]
  BY <1>1
<1>3. 1 .. (n + 1) = (1 .. n) \cup {n + 1}
  BY <1>1
<1> QED
  BY <1>1, <1>2, <1>3 DEF Swim!ToSet

LEMMA BeforeAppend ==
  ASSUME NEW S, NEW s \in Seq(S), NEW g \in S, NEW t, t = Append(s, g)
  PROVE  /\ \A e, f : Before(s, e, f) => Before(t, e, f)
         /\ \A e, f : Before(t, e, f) /\ f \in Swim!ToSet(s) => Before(s, e, f)
<1>1. PICK n : n = Len(s) /\ n \in Nat /\ DOMAIN s = 1 .. n
  OBVIOUS
<1>2. /\ DOMAIN t = 1 .. (n + 1)
      /\ \A i \in 1 .. n : t[i] = s[i]
      /\ t[n + 1] = g
  BY <1>1
<1>3. 1 .. (n + 1) = (1 .. n) \cup {n + 1}
  BY <1>1
<1>5. ASSUME NEW e, NEW f, Before(s, e, f) PROVE Before(t, e, f)
  <2>1. PICK i \in 1 .. n : s[i] = e /\ \A j \in 1 .. n : s[j] = f => i < j
    BY <1>1, <1>5 DEF Before
  <2>2. \A j \in 1 .. (n + 1) : t[j] = f => i < j
    BY <1>1, <1>2, <1>3, <2>1
  <2> QED
    BY <1>2, <1>3, <2>1, <2>2 DEF Before
<1>6. ASSUME NEW e, NEW f, Before(t, e, f), f \in Swim!ToSet(s) PROVE Before(s, e, f)
  <2>1. PICK i \in 1 .. (n + 1) : t[i] = e /\ \A j \in 1 .. (n + 1) : t[j] = f => i < j
    BY <1>2, <1>6 DEF Before
  <2>2. PICK k \in 1 .. n : s[k] = f
    BY <1>1, <1>6 DEF Swim!ToSet
  <2>3. i < k
    BY <1>2, <1>3, <2>1, <2>2
  <2>4. i \in 1 .. n
    BY <1>1, <2>1, <2>2, <2>3
  <2>5. \A j \in 1 .. n : s[j] = f => i < j
    BY <1>2, <1>3, <2>1
  <2> QED
    BY <1>1, <1>2, <2>1, <2>4, <2>5 DEF Before
<1> QED
  BY <1>5, <1>6

LEMMA ConcatElements ==
  ASSUME NEW S, NEW x \in Seq(S), NEW y \in Seq(S)
  PROVE  Swim!ToSet(x \o y) = Swim!ToSet(x) \cup Swim!ToSet(y)
<1> DEFINE t == x \o y
<1>0. Len(x) \in Nat /\ Len(y) \in Nat /\ DOMAIN x = 1 .. Len(x) /\ DOMAIN y = 1 .. Len(y)
  OBVIOUS
<1>1. PICK n, m : n = Len(x) /\ m = Len(y) /\ n \in Nat /\ m \in Nat /\ DOMAIN x = 1 .. n /\ DOMAIN y = 1 .. m
  BY <1>0
<1>2. /\ DOMAIN t = 1 .. (n + m)
      /\ \A i \in 1 .. n : t[i] = x[i]
      /\ \A i \in 1 .. m : t[n + i] = y[i]
  BY <1>1
<1> HIDE DEF t
<1>3. /\ \A i \in 1 .. n : i \in 1 .. (n + m)
      /\ \A i \in 1 .. m : n + i \in 1 .. (n + m)
  BY <1>1
<1>4. \A i \in 1 .. (n + m) : i \in 1 .. n \/ \E k \in 1 .. m : i = n + k
  <2> TAKE i \in 1 .. (n + m)
  <2>1. i \in 1 .. n \/ (i - n \in 1 .. m /\ i = n + (i - n))
    BY <1>1
  <2> QED
    BY <2>1
<1>5. Swim!ToSet(t) = Swim!ToSet(x) \cup Swim!ToSet(y)
  <2>1. ASSUME NEW i \in 1 .. (n + m) PROVE t[i] \in Swim!ToSet(x) \cup Swim!ToSet(y)
    <3>1. CASE i \in 1 .. n
      BY <1>1, <1>2, <3>1 DEF Swim!ToSet
    <3>2. ASSUME NEW k \in 1 .. m, i = n + k PROVE t[i] \in Swim!ToSet(y)
      BY <1>1, <1>2, <3>2 DEF Swim!ToSet
    <3> QED
      BY <1>4, <3>1, <3>2
  <2>2. ASSUME NEW i \in 1 .. n PROVE x[i] \in Swim!ToSet(t)
    BY <1>2, <1>3 DEF Swim!ToSet
  <2>3. ASSUME NEW i \in 1 .. m PROVE y[i] \in Swim!ToSet(t)
    BY <1>2, <1>3 DEF Swim!ToSet
  <2>4. /\ Swim!ToSet(t) = {t[i] : i \in 1 .. (n + m)} /\ Swim!ToSet(x) = {x[i] : i \in 1 .. n}
        /\ Swim!ToSet(y) = {y[i] : i \in 1 .. m}
    BY <1>1, <1>2 DEF Swim!ToSet
  <2>5. Swim!ToSet(t) \subseteq Swim!ToSet(x) \cup Swim!ToSet(y)
    BY <2>1, <2>4
  <2>6. Swim!ToSet(x) \subseteq Swim!ToSet(t) /\ Swim!ToSet(y) \subseteq Swim!ToSet(t)
    BY <2>2, <2>3, <2>4
  <2> QED
    BY <2>5, <2>6
<1> QED
  BY <1>5 DEF t

LEMMA BeforeConcat ==
  ASSUME NEW S, NEW x \in Seq(S), NEW y \in Seq(S), NEW t, t = x \o y
  PROVE  /\ t \in Seq(S) /\ Swim!ToSet(t) = Swim!ToSet(x) \cup Swim!ToSet(y)
         /\ \A e, f : Before(x, e, f) => Before(t, e, f)
         /\ \A e, f : Before(y, e, f) /\ f \notin Swim!ToSet(x) => Before(t, e, f)
         /\ \A e, f : e \in Swim!ToSet(x) /\ f \notin Swim!ToSet(x) => Before(t, e, f)
         /\ \A e, f : Before(t, e, f) /\ f \in Swim!ToSet(x) => Before(x, e, f)
<1>0. Len(x) \in Nat /\ Len(y) \in Nat /\ DOMAIN x = 1 .. Len(x) /\ DOMAIN y = 1 .. Len(y)
  OBVIOUS
<1>1. PICK n, m : n = Len(x) /\ m = Len(y) /\ n \in Nat /\ m \in Nat /\ DOMAIN x = 1 .. n /\ DOMAIN y = 1 .. m
  BY <1>0
<1>2. /\ t \in Seq(S) /\ DOMAIN t = 1 .. (n + m)
      /\ \A i \in 1 .. n : t[i] = x[i]
      /\ \A i \in 1 .. m : t[n + i] = y[i]
  BY <1>1
<1>3. /\ \A i \in 1 .. n : i \in 1 .. (n + m)
      /\ \A i \in 1 .. m : n + i \in 1 .. (n + m)
  BY <1>1
<1>4. \A i \in 1 .. (n + m) : i \in 1 .. n \/ \E k \in 1 .. m : i = n + k
  <2> TAKE i \in 1 .. (n + m)
  <2>1. i \in 1 .. n \/ (i - n \in 1 .. m /\ i = n + (i - n))
    BY <1>1
  <2> QED
    BY <2>1
<1>5. Swim!ToSet(t) = Swim!ToSet(x) \cup Swim!ToSet(y)
  BY ConcatElements
<1>6. ASSUME NEW e, NEW f, Before(x, e, f) PROVE Before(t, e, f)
  <2>1. PICK i \in 1 .. n : x[i] = e /\ \A j \in 1 .. n : x[j] = f => i < j
    BY <1>1, <1>6 DEF Before
  <2>2. ASSUME NEW j \in 1 .. (n + m), t[j] = f PROVE i < j
    <3>1. CASE j \in 1 .. n
      BY <1>2, <2>1, <2>2, <3>1
    <3>2. CASE \E k \in 1 .. m : j = n + k
      BY <1>1, <3>2
    <3> QED
      BY <1>4, <3>1, <3>2
  <2> QED
    BY <1>2, <1>3, <2>1, <2>2 DEF Before
<1>7. ASSUME NEW e, NEW f, Before(y, e, f), f \notin Swim!ToSet(x) PROVE Before(t, e, f)
  <2>1. PICK i \in 1 .. m : y[i] = e /\ \A j \in 1 .. m : y[j] = f => i < j
    BY <1>1, <1>7 DEF Before
  <2>2. ASSUME NEW j \in 1 .. (n + m), t[j] = f PROVE n + i < j
    <3>1. j \notin 1 .. n
      BY <1>1, <1>2, <1>7, <2>2 DEF Swim!ToSet
    <3>2. PICK k \in 1 .. m : j = n + k
      BY <1>4, <3>1
    <3>3. i < k
      BY <1>2, <2>1, <2>2, <3>2
    <3> QED
      BY <1>1, <3>2, <3>3
  <2> QED
    BY <1>2, <1>3, <2>1, <2>2 DEF Before
<1>8. ASSUME NEW e, NEW f, e \in Swim!ToSet(x), f \notin Swim!ToSet(x) PROVE Before(t, e, f)
  <2>1. Before(x, e, f)
    BY <1>8 DEF Before, Swim!ToSet
  <2> QED
    BY <1>6, <2>1
<1>9. ASSUME NEW e, NEW f, Before(t, e, f), f \in Swim!ToSet(x) PROVE Before(x, e, f)
  <2>1. PICK i \in 1 .. (n + m) : t[i] = e /\ \A j \in 1 .. (n + m) : t[j] = f => i < j
    BY <1>2, <1>9 DEF Before
  <2>2. PICK k \in 1 .. n : x[k] = f
    BY <1>1, <1>9 DEF Swim!ToSet
  <2>3. i < k
    BY <1>2, <1>3, <2>1, <2>2
  <2>4. i \in 1 .. n
    BY <1>1, <2>1, <2>2, <2>3
  <2>5. \A j \in 1 .. n : x[j] = f => i < j
    BY <1>2, <1>3, <2>1
  <2> QED
    BY <1>1, <1>2, <2>1, <2>4, <2>5 DEF Before
<1> QED
  BY <1>2, <1>5, <1>6, <1>7, <1>8, <1>9

(* A selection keeps the order of what it selects.                          *)
LEMMA SelectionKeepsOrder ==
  ASSUME NEW S, NEW s \in Seq(S), NEW K, NEW t, t = Swim!Selected(s, K), NEW e \in K, NEW f \in K
  PROVE  Before(t, e, f) <=> Before(s, e, f)
<1>1. t \in Seq(S) /\ DOMAIN t = 1 .. Len(t)
  BY SelectionIs
<1>2. PICK g : /\ g \in [1 .. Len(t) -> DOMAIN s]
               /\ \A k \in 1 .. Len(t) : t[k] = s[g[k]]
               /\ \A k, l \in 1 .. Len(t) : k < l <=> g[k] < g[l]
               /\ \A i \in DOMAIN s : s[i] \in K => \E k \in 1 .. Len(t) : g[k] = i
  BY SelectionIs
<1>3. ASSUME Before(s, e, f) PROVE Before(t, e, f)
  <2>1. PICK i \in DOMAIN s : s[i] = e /\ \A j \in DOMAIN s : s[j] = f => i < j
    BY <1>3 DEF Before
  <2>2. PICK k \in 1 .. Len(t) : g[k] = i
    BY <1>2, <2>1
  <2>3. ASSUME NEW l \in 1 .. Len(t), t[l] = f PROVE k < l
    <3>1. g[l] \in DOMAIN s /\ s[g[l]] = f
      BY <1>2, <2>3
    <3>2. g[k] < g[l]
      BY <2>1, <2>2, <3>1
    <3> QED
      BY <1>2, <3>2
  <2>4. t[k] = e
    BY <1>2, <2>1, <2>2
  <2> QED
    BY <1>1, <2>3, <2>4 DEF Before
<1>4. ASSUME Before(t, e, f) PROVE Before(s, e, f)
  <2>1. PICK k \in 1 .. Len(t) : t[k] = e /\ \A l \in 1 .. Len(t) : t[l] = f => k < l
    BY <1>1, <1>4 DEF Before
  <2>2. g[k] \in DOMAIN s /\ s[g[k]] = e
    BY <1>2, <2>1
  <2>3. ASSUME NEW j \in DOMAIN s, s[j] = f PROVE g[k] < j
    <3>1. PICK l \in 1 .. Len(t) : g[l] = j
      BY <1>2, <2>3
    <3>2. t[l] = f
      BY <1>2, <2>3, <3>1
    <3>3. k < l
      BY <2>1, <3>2
    <3> QED
      BY <1>2, <3>1, <3>3
  <2> QED
    BY <2>2, <2>3 DEF Before
<1> QED
  BY <1>3, <1>4

(* The entries of a workshop are in its own log; a log that has one of them *)
(* has those its own log has before it, in the same order.                  *)
Keys(w) == OperatorKeys[w] \cup {"none"}
Entries == [workshop : Workshops, event : {"alive", "left"}, time : 1 .. MaxTime,
            by : UNION {Keys(w) : w \in Workshops}]
OwnComplete ==
  \A v, w \in Workshops : \A e \in Swim!ToSet(log[v]) : e.workshop = w => e \in Swim!ToSet(log[w])
OwnOrder ==
  \A v, w \in Workshops : \A f \in Swim!ToSet(log[v]), e \in Swim!ToSet(log[w]) :
    e.workshop = w /\ f.workshop = w /\ e # f /\ Before(log[w], e, f) => Before(log[v], e, f)
SwimTypes ==
  /\ log \in [Workshops -> Seq(Entries)] /\ \A w \in Workshops : Len(log[w]) <= MaxEntries
  /\ clock \in 1 .. MaxTime /\ torn \in [Workshops -> BOOLEAN]
  /\ DOMAIN identity = Workshops /\ \A w \in Workshops : identity[w] \in Keys(w)
SwimInv == SwimTypes /\ OwnComplete /\ OwnOrder

LEMMA EntriesFacts == \A e \in Entries : e.workshop \in Workshops /\ e.time \in Nat
<1>1. MaxTime \in Nat
  BY PlatformAssumption
<1> QED
  BY <1>1 DEF Entries

LEMMA InOfSeq ==
  ASSUME NEW S, NEW t \in Seq(S) PROVE \A e \in Swim!ToSet(t) : e \in S
BY DEF Swim!ToSet

LEMMA SelectionElements ==
  ASSUME NEW S, NEW s \in Seq(S), NEW K, NEW t, t = Swim!Selected(s, K)
  PROVE  t \in Seq(S) /\ \A e : e \in Swim!ToSet(t) <=> e \in Swim!ToSet(s) /\ e \in K
<1>1. /\ t \in Seq(S)
      /\ \A e : e \in Swim!ToSet(t) <=> e \in Swim!ToSet(s) /\ e \in K
      /\ \E f : /\ f \in [1 .. Len(t) -> DOMAIN s]
                /\ \A k \in 1 .. Len(t) : t[k] = s[f[k]]
                /\ \A k, l \in 1 .. Len(t) : k < l <=> f[k] < f[l]
                /\ \A i \in DOMAIN s : s[i] \in K => \E k \in 1 .. Len(t) : f[k] = i
  BY SelectionIs
<1> QED
  BY <1>1

\* With a key or without, what is read keeps the order of the log.
LEMMA ReadIs ==
  ASSUME SwimTypes, NEW w \in Workshops, NEW key, NEW r, r = Swim!ReadGenomeLog(w, key)
  PROVE  /\ r \in Seq(Entries) /\ Swim!ToSet(r) \subseteq Swim!ToSet(log[w])
         /\ \A e, f \in Swim!ToSet(r) : Before(r, e, f) <=> Before(log[w], e, f)
         /\ key = "none" => r = log[w]
<1>1. log[w] \in Seq(Entries)
  BY DEF SwimTypes
<1>2. CASE key = "none"
  <2>1. r = log[w]
    BY <1>2 DEF Swim!ReadGenomeLog
  <2> QED
    BY <1>1, <2>1
<1>3. CASE key # "none"
  <2>1. PICK K : K = {e \in Swim!ToSet(log[w]) : e.by = key}
    OBVIOUS
  <2>2. r = Swim!Selected(log[w], K)
    BY <1>3, <2>1 DEF Swim!ReadGenomeLog
  <2>3. r \in Seq(Entries) /\ \A e : e \in Swim!ToSet(r) <=> e \in Swim!ToSet(log[w]) /\ e \in K
    BY <1>1, <2>2, SelectionElements
  <2>4. \A e, f \in Swim!ToSet(r) : Before(r, e, f) <=> Before(log[w], e, f)
    BY <1>1, <2>2, <2>3, SelectionKeepsOrder
  <2> QED
    BY <1>3, <2>3, <2>4
<1> QED
  BY <1>2, <1>3

LEMMA MergeIs ==
  ASSUME NEW x \in Seq(Entries), NEW y \in Seq(Entries), NEW z, z = Swim!MergeGenomeLogs(x, y)
  PROVE  /\ z \in Seq(Entries) /\ Swim!ToSet(z) = Swim!ToSet(x) \cup Swim!ToSet(y)
         /\ \A e, f : Before(x, e, f) => Before(z, e, f)
         /\ \A e, f \in Swim!ToSet(z) : f \notin Swim!ToSet(x) /\ Before(y, e, f) => Before(z, e, f)
         /\ \A e, f : Before(z, e, f) /\ f \in Swim!ToSet(x) => Before(x, e, f)
<1>1. PICK K, t : K = Swim!ToSet(y) \ Swim!ToSet(x) /\ t = Swim!Selected(y, K)
  OBVIOUS
<1>2. z = x \o t
  BY <1>1 DEF Swim!MergeGenomeLogs
<1>3. t \in Seq(Entries) /\ \A e : e \in Swim!ToSet(t) <=> e \in Swim!ToSet(y) /\ e \in K
  BY <1>1, SelectionIs
<1>4. Swim!ToSet(z) = Swim!ToSet(x) \cup Swim!ToSet(t) /\ z \in Seq(Entries)
  <2>1. t \in Seq(Entries)
    BY <1>3
  <2>2. z \in Seq(Entries)
    BY <1>2, <2>1
  <2>3. Swim!ToSet(z) = Swim!ToSet(x) \cup Swim!ToSet(t)
    BY <1>2, <2>1, ConcatElements
  <2> QED
    BY <2>2, <2>3
<1>5. Swim!ToSet(z) = Swim!ToSet(x) \cup Swim!ToSet(y)
  BY <1>1, <1>3, <1>4
<1>6. /\ \A e, f : Before(x, e, f) => Before(z, e, f)
      /\ \A e, f : Before(z, e, f) /\ f \in Swim!ToSet(x) => Before(x, e, f)
  BY <1>2, <1>3, BeforeConcat
<1>7. ASSUME NEW e \in Swim!ToSet(z), NEW f \in Swim!ToSet(z), f \notin Swim!ToSet(x), Before(y, e, f)
      PROVE  Before(z, e, f)
  <2>1. CASE e \in Swim!ToSet(x)
    <3>1. Before(x, e, f)
      BY <1>7, <2>1 DEF Before, Swim!ToSet
    <3> QED
      BY <1>6, <3>1
  <2>2. CASE e \notin Swim!ToSet(x)
    <3>1. e \in K /\ f \in K
      BY <1>1, <1>5, <1>7, <2>2
    <3>2. Before(t, e, f)
      BY <1>1, <1>7, <3>1, SelectionKeepsOrder
    <3> QED
      BY <1>2, <1>3, <1>7, <3>2, BeforeConcat
  <2> QED
    BY <2>1, <2>2
<1> QED
  BY <1>4, <1>5, <1>7, <1>6

LEMMA SwimInit == Swim!Init => SwimInv
<1> SUFFICES ASSUME Swim!Init PROVE SwimInv
  OBVIOUS
<1>1. 1 \in 1 .. MaxTime /\ MaxEntries \in Nat
  BY PlatformAssumption
<1>2. /\ log \in [Workshops -> Seq(Entries)] /\ \A w \in Workshops : log[w] = <<>>
      /\ torn \in [Workshops -> BOOLEAN] /\ clock = 1
      /\ DOMAIN identity = Workshops /\ \A w \in Workshops : identity[w] \in Keys(w)
  BY DEF Swim!Init, Keys
<1>3. \A w \in Workshops : Swim!ToSet(log[w]) = {} /\ Len(log[w]) = 0
  BY <1>2 DEF Swim!ToSet
<1> QED
  BY <1>1, <1>2, <1>3 DEF SwimInv, SwimTypes, OwnComplete, OwnOrder

LEMMA AppendStep ==
  ASSUME SwimInv, NEW w \in Workshops, NEW g \in Entries, g.workshop = w,
         Len(log[w]) < MaxEntries, Swim!AppendGenomeEntry(w, g), UNCHANGED <<clock, identity>>
  PROVE  SwimInv'
<1>0. /\ log' = [log EXCEPT ![w] = IF torn[w] THEN @ ELSE Append(@, g)]
      /\ torn' \in [Workshops -> BOOLEAN] /\ w \in DOMAIN log
      /\ log'[w] = IF torn[w] THEN log[w] ELSE Append(log[w], g)
  BY DEF Swim!AppendGenomeEntry, SwimInv, SwimTypes
<1>1. CASE log'[w] = log[w]
  <2>1. log' = log
    BY <1>0, <1>1 DEF SwimInv, SwimTypes
  <2> QED
    BY <1>0, <2>1 DEF SwimInv, SwimTypes, OwnComplete, OwnOrder
<1>2. CASE log'[w] = Append(log[w], g)
  <2>1. /\ log[w] \in Seq(Entries) /\ MaxEntries \in Nat
        /\ \A v \in Workshops : v # w => log'[v] = log[v]
    BY <1>0, PlatformAssumption DEF SwimInv, SwimTypes
  <2>2. /\ log'[w] \in Seq(Entries) /\ Len(log'[w]) = Len(log[w]) + 1
        /\ Swim!ToSet(log'[w]) = Swim!ToSet(log[w]) \cup {g}
        /\ \A e, f : Before(log[w], e, f) => Before(log'[w], e, f)
        /\ \A e, f : Before(log'[w], e, f) /\ f \in Swim!ToSet(log[w]) => Before(log[w], e, f)
    <3>1. PICK s, t : s = log[w] /\ t = log'[w]
      OBVIOUS
    <3>2. s \in Seq(Entries) /\ g \in Entries /\ t = Append(s, g)
      BY <1>2, <2>1, <3>1
    <3>3. t \in Seq(Entries) /\ Len(t) = Len(s) + 1
      BY <3>2
    <3>4. \A e : e \in Swim!ToSet(t) <=> (e \in Swim!ToSet(s) \/ e = g)
      BY <3>2, AppendElements
    <3>5. /\ \A e, f : Before(s, e, f) => Before(t, e, f)
          /\ \A e, f : Before(t, e, f) /\ f \in Swim!ToSet(s) => Before(s, e, f)
      BY <3>2, BeforeAppend
    <3> QED
      BY <3>1, <3>3, <3>4, <3>5
  <2>3. SwimTypes'
    <3>1. Len(log[w]) \in Nat
      BY <2>1
    <3>2. Len(log'[w]) <= MaxEntries
      BY <2>1, <2>2, <3>1
    <3>3. log' = [v \in Workshops |-> IF v = w THEN log'[w] ELSE log[v]]
      BY <1>0 DEF SwimInv, SwimTypes
    <3> QED
      BY <1>0, <2>1, <2>2, <3>2, <3>3 DEF SwimInv, SwimTypes
  <2>4. \A v \in Workshops : Swim!ToSet(log[v]) \subseteq Swim!ToSet(log'[v])
    BY <2>1, <2>2
  <2>5. ASSUME NEW v \in Workshops, NEW u \in Workshops, NEW e \in Swim!ToSet(log'[v]), e.workshop = u
        PROVE  e \in Swim!ToSet(log'[u])
    <3>1. CASE e \in Swim!ToSet(log[v])
      BY <2>4, <2>5, <3>1 DEF SwimInv, OwnComplete
    <3>2. CASE e \notin Swim!ToSet(log[v])
      <4>1. e = g /\ u = w
        BY <2>1, <2>2, <2>5, <3>2, EntriesFacts
      <4> QED
        BY <2>2, <4>1
    <3> QED
      BY <3>1, <3>2
  <2>6. ASSUME NEW v \in Workshops, NEW u \in Workshops,
               NEW f \in Swim!ToSet(log'[v]), NEW e \in Swim!ToSet(log'[u]),
               e.workshop = u, f.workshop = u, e # f, Before(log'[u], e, f), v # u
        PROVE  Before(log'[v], e, f)
    <3>1. CASE v # w
      <4>1. f \in Swim!ToSet(log[v]) /\ log'[v] = log[v]
        BY <2>1, <2>6, <3>1
      <4>2. f \in Swim!ToSet(log[u])
        BY <2>6, <4>1 DEF SwimInv, OwnComplete
      <4>3. Before(log[u], e, f)
        BY <2>1, <2>2, <2>6, <4>2
      <4>4. e \in Swim!ToSet(log[u])
        BY <4>3, BeforeIsIn
      <4> QED
        BY <2>6, <4>1, <4>3, <4>4 DEF SwimInv, OwnOrder
    <3>2. CASE v = w
      <4>1. f # g /\ log'[u] = log[u]
        BY <2>1, <2>6, <3>2, EntriesFacts
      <4>2. f \in Swim!ToSet(log[v])
        BY <2>2, <2>6, <3>2, <4>1
      <4>3. Before(log[v], e, f)
        BY <2>6, <4>1, <4>2 DEF SwimInv, OwnOrder
      <4> QED
        BY <2>2, <3>2, <4>3
    <3> QED
      BY <3>1, <3>2
  <2> QED
    BY <2>3, <2>5, <2>6 DEF SwimInv, OwnComplete, OwnOrder
<1> QED
  BY <1>0, <1>1, <1>2

LEMMA MergeStep ==
  ASSUME SwimInv, NEW w \in Workshops, NEW v \in Workshops, Swim!Merge(w, v)
  PROVE  SwimInv'
<1>1. PICK x, y, z : x = log[w] /\ y = log[v] /\ z = Swim!MergeGenomeLogs(x, y)
  OBVIOUS
<1>2. /\ w # v /\ Len(z) <= MaxEntries /\ torn' = [torn EXCEPT ![w] = FALSE]
      /\ log' = [log EXCEPT ![w] = z] /\ UNCHANGED <<clock, identity>>
  BY <1>1 DEF Swim!Merge, Swim!ReadGenomeLog
<1>3. /\ log'[w] = z /\ \A u \in Workshops : u # w => log'[u] = log[u]
  BY <1>2 DEF SwimInv, SwimTypes
<1>4. x \in Seq(Entries) /\ y \in Seq(Entries)
  BY <1>1 DEF SwimInv, SwimTypes
<1>6. /\ z \in Seq(Entries) /\ Swim!ToSet(z) = Swim!ToSet(x) \cup Swim!ToSet(y)
      /\ \A e, f : Before(x, e, f) => Before(z, e, f)
      /\ \A e, f \in Swim!ToSet(z) : f \notin Swim!ToSet(x) /\ Before(y, e, f) => Before(z, e, f)
      /\ \A e, f : Before(z, e, f) /\ f \in Swim!ToSet(x) => Before(x, e, f)
  BY <1>1, <1>4, MergeIs
<1>7. \A e : e \in Swim!ToSet(z) <=> e \in Swim!ToSet(log[w]) \/ e \in Swim!ToSet(log[v])
  BY <1>1, <1>6
<1>8. SwimTypes'
  <2>1. log' = [u \in Workshops |-> IF u = w THEN z ELSE log[u]]
    BY <1>2 DEF SwimInv, SwimTypes
  <2> QED
    BY <1>2, <1>6, <2>1 DEF SwimInv, SwimTypes
<1>9. ASSUME NEW p \in Workshops, NEW q \in Workshops, NEW e \in Swim!ToSet(log'[p]), e.workshop = q
      PROVE  e \in Swim!ToSet(log[q]) /\ e \in Swim!ToSet(log'[q])
  <2>1. \E o \in Workshops : e \in Swim!ToSet(log[o])
    BY <1>3, <1>7, <1>9
  <2>2. e \in Swim!ToSet(log[q])
    BY <1>9, <2>1 DEF SwimInv, OwnComplete
  <2> QED
    BY <1>3, <1>7, <2>2
<1>10. ASSUME NEW p \in Workshops, NEW q \in Workshops,
              NEW f \in Swim!ToSet(log'[p]), NEW e \in Swim!ToSet(log'[q]),
              e.workshop = q, f.workshop = q, e # f, Before(log'[q], e, f), p # q
       PROVE  Before(log'[p], e, f)
  <2>1. e \in Swim!ToSet(log[q]) /\ f \in Swim!ToSet(log[q])
    BY <1>9, <1>10
  <2>2. Before(log[q], e, f)
    <3>1. CASE q = w
      BY <1>1, <1>3, <1>6, <1>10, <2>1, <3>1
    <3> QED
      BY <1>3, <1>10, <3>1
  <2>3. \A o \in Workshops : f \in Swim!ToSet(log[o]) => Before(log[o], e, f) /\ e \in Swim!ToSet(log[o])
    BY <1>10, <2>1, <2>2, BeforeIsIn DEF SwimInv, OwnOrder
  <2>4. CASE p # w
    BY <1>3, <1>10, <2>3, <2>4
  <2>5. CASE p = w /\ f \in Swim!ToSet(x)
    BY <1>1, <1>3, <1>6, <2>3, <2>5
  <2>6. CASE p = w /\ f \notin Swim!ToSet(x)
    <3>1. f \in Swim!ToSet(z) /\ f \in Swim!ToSet(y)
      BY <1>3, <1>6, <1>10, <2>6
    <3>2. Before(y, e, f) /\ e \in Swim!ToSet(z)
      BY <1>1, <1>6, <2>3, <3>1
    <3> QED
      BY <1>3, <1>6, <2>6, <3>1, <3>2
  <2> QED
    BY <2>4, <2>5, <2>6
<1> QED
  BY <1>8, <1>9, <1>10 DEF SwimInv, OwnComplete, OwnOrder

LEMMA SwimStep == SwimInv /\ Swim!Next => SwimInv'
<1> SUFFICES ASSUME SwimInv, Swim!Next PROVE SwimInv'
  OBVIOUS
<1>1. ASSUME NEW t \in 1 .. MaxTime, Swim!SetClock(t) PROVE SwimInv'
  BY <1>1 DEF Swim!SetClock, SwimInv, SwimTypes, OwnComplete, OwnOrder
<1>2. ASSUME NEW w \in Workshops, NEW key \in OperatorKeys[w], Swim!Prepare(w, key) PROVE SwimInv'
  BY <1>2 DEF Swim!Prepare, SwimInv, SwimTypes, Keys, OwnComplete, OwnOrder
<1>3. \A w \in Workshops, event \in {"alive", "left"} :
        Swim!Entry(w, event) \in Entries /\ Swim!Entry(w, event).workshop = w
  BY DEF Swim!Entry, Entries, SwimInv, SwimTypes
<1>4. ASSUME NEW w \in Workshops, NEW reachable \in BOOLEAN, Swim!RunSwimJoin(w, reachable)
      PROVE  SwimInv'
  BY <1>3, <1>4, AppendStep DEF Swim!RunSwimJoin
<1>5. ASSUME NEW w \in Workshops, Swim!RunSwimLeave(w) PROVE SwimInv'
  BY <1>3, <1>5, AppendStep DEF Swim!RunSwimLeave
<1>6. ASSUME NEW w \in Workshops, Swim!TearAppend(w) PROVE SwimInv'
  BY <1>6 DEF Swim!TearAppend, SwimInv, SwimTypes, OwnComplete, OwnOrder
<1> QED
  BY <1>1, <1>2, <1>4, <1>5, <1>6, MergeStep DEF Swim!Next

(* The entry a view keeps of a workshop is the one that nothing later and   *)
(* nothing as late but earlier in the log contests.                         *)
LEMMA LatestIs ==
  ASSUME NEW s \in Seq(Entries), NEW w, NEW d \in Swim!ToSet(s), d.workshop = w,
         NEW l, l = Swim!Latest(s, w)
  PROVE  /\ l \in Swim!ToSet(s) /\ l.workshop = w
         /\ \A f \in Swim!ToSet(s) :
              f.workshop = w /\ f # l => f.time < l.time \/ (f.time = l.time /\ Before(s, l, f))
<1>1. PICK I : I = {i \in DOMAIN s : s[i].workshop = w}
  OBVIOUS
<1>2. /\ DOMAIN s \in SUBSET Nat
      /\ \A i \in DOMAIN s : s[i] \in Entries /\ s[i].time \in 0 .. MaxTime /\ s[i] \in Swim!ToSet(s)
      /\ MaxTime \in Nat
  <2>1. MaxTime \in Nat
    BY PlatformAssumption
  <2>2. \A i \in DOMAIN s : s[i] \in Entries
    OBVIOUS
  <2>3. \A e \in Entries : e.time \in 0 .. MaxTime
    BY <2>1 DEF Entries
  <2> QED
    BY <2>1, <2>2, <2>3 DEF Swim!ToSet
<1>3. I # {}
  BY <1>1 DEF Swim!ToSet
<1>4. PICK T : T = {s[i].time : i \in I}
  OBVIOUS
<1>5. T \in SUBSET (0 .. MaxTime) /\ T # {}
  BY <1>1, <1>2, <1>3, <1>4
<1>6. PICK m \in T : \A x \in T : x <= m
  BY <1>2, <1>5, GreatestNat
<1>7. PICK J : J = {i \in I : s[i].time = m}
  OBVIOUS
<1>8. J \in SUBSET Nat /\ J # {}
  BY <1>1, <1>2, <1>4, <1>6, <1>7
<1>9. PICK i \in J : \A j \in J : i <= j
  BY <1>8, LeastNat
<1>10. ASSUME NEW j \in DOMAIN s, s[j].workshop = w
       PROVE  s[j].time < s[i].time \/ (s[j].time = s[i].time /\ i <= j)
  <2>1. j \in I /\ s[j].time \in T /\ s[i].time = m
    BY <1>1, <1>4, <1>7, <1>9, <1>10
  <2>2. s[j].time <= m /\ s[j].time \in Nat /\ m \in Nat
    BY <1>2, <1>5, <1>6, <2>1
  <2>3. s[j].time = m => j \in J
    BY <1>7, <2>1
  <2> QED
    BY <1>9, <2>1, <2>2, <2>3
<1>11. i \in DOMAIN s /\ s[i].workshop = w
  BY <1>1, <1>7
<1>12. PICK c : c = CHOOSE a \in DOMAIN s :
                      /\ s[a].workshop = w
                      /\ \A j \in DOMAIN s : s[j].workshop = w =>
                           s[j].time < s[a].time \/ (s[j].time = s[a].time /\ a <= j)
  OBVIOUS
<1>13. /\ c \in DOMAIN s /\ s[c].workshop = w
       /\ \A j \in DOMAIN s : s[j].workshop = w =>
            s[j].time < s[c].time \/ (s[j].time = s[c].time /\ c <= j)
  BY <1>10, <1>11, <1>12
<1>14. l = s[c]
  BY <1>12 DEF Swim!Latest
<1>15. ASSUME NEW f \in Swim!ToSet(s), f.workshop = w, f # l
       PROVE  f.time < l.time \/ (f.time = l.time /\ Before(s, l, f))
  <2>1. PICK k \in DOMAIN s : s[k] = f
    BY DEF Swim!ToSet
  <2>2. f.time < l.time \/ f.time = l.time
    BY <1>13, <1>14, <1>15, <2>1
  <2>3. ASSUME f.time = l.time PROVE Before(s, l, f)
    <3>1. ASSUME NEW j \in DOMAIN s, s[j] = f PROVE c < j
      <4>1. ~ (f.time < l.time)
        BY <1>2, <1>13, <1>14, <2>1, <2>3
      <4>2. c <= j /\ c # j
        BY <1>13, <1>14, <1>15, <2>3, <3>1, <4>1
      <4> QED
        BY <1>2, <1>13, <4>2
    <3> QED
      BY <1>13, <1>14, <3>1 DEF Before
  <2> QED
    BY <2>2, <2>3
<1> QED
  BY <1>2, <1>13, <1>14, <1>15

LEMMA ViewsAreEqual ==
  ASSUME SwimInv, NEW w \in Workshops, NEW v \in Workshops,
         Swim!ToSet(Swim!Known(w)) = Swim!ToSet(Swim!Known(v))
  PROVE  Swim!View(w) = Swim!View(v)
<1>1. PICK r, s : r = Swim!Known(w) /\ s = Swim!Known(v)
  OBVIOUS
<1>2. /\ r \in Seq(Entries) /\ Swim!ToSet(r) \subseteq Swim!ToSet(log[w])
      /\ \A e, f \in Swim!ToSet(r) : Before(r, e, f) <=> Before(log[w], e, f)
  BY <1>1, ReadIs DEF SwimInv, Swim!Known
<1>3. /\ s \in Seq(Entries) /\ Swim!ToSet(s) \subseteq Swim!ToSet(log[v])
      /\ \A e, f \in Swim!ToSet(s) : Before(s, e, f) <=> Before(log[v], e, f)
  BY <1>1, ReadIs DEF SwimInv, Swim!Known
<1>4. Swim!ToSet(r) = Swim!ToSet(s)
  BY <1>1
<1>5. ASSUME NEW u \in Swim!Mentioned(r) PROVE Swim!Latest(r, u) = Swim!Latest(s, u)
  <2>1. PICK d \in Swim!ToSet(r) : d.workshop = u
    BY DEF Swim!Mentioned
  <2>2. PICK k, l : k = Swim!Latest(r, u) /\ l = Swim!Latest(s, u)
    OBVIOUS
  <2>3. /\ k \in Swim!ToSet(r) /\ k.workshop = u
        /\ \A f \in Swim!ToSet(r) :
             f.workshop = u /\ f # k => f.time < k.time \/ (f.time = k.time /\ Before(r, k, f))
    BY <1>2, <2>1, <2>2, LatestIs
  <2>4. /\ l \in Swim!ToSet(s) /\ l.workshop = u
        /\ \A f \in Swim!ToSet(s) :
             f.workshop = u /\ f # l => f.time < l.time \/ (f.time = l.time /\ Before(s, l, f))
    <3>1. d \in Swim!ToSet(s)
      BY <1>4
    <3> QED
      BY <1>3, <2>1, <2>2, <3>1, LatestIs
  <2>5. SUFFICES ASSUME k # l PROVE FALSE
    BY <2>2
  <2>6. k \in Entries /\ l \in Entries
    BY <1>2, <1>3, <2>3, <2>4, InOfSeq
  <2>7. u \in Workshops /\ k.time \in Nat /\ l.time \in Nat
    BY <2>3, <2>6, EntriesFacts
  <2>8. Before(r, k, l) /\ Before(s, l, k)
    BY <1>4, <2>3, <2>4, <2>5, <2>7
  <2>9. Before(log[w], k, l) /\ Before(log[v], l, k)
    BY <1>2, <1>3, <1>4, <2>3, <2>4, <2>8
  <2>10. /\ k \in Swim!ToSet(log[w]) /\ l \in Swim!ToSet(log[w])
         /\ k \in Swim!ToSet(log[v]) /\ l \in Swim!ToSet(log[v])
    BY <1>2, <1>3, <1>4, <2>3, <2>4
  <2>11. k \in Swim!ToSet(log[u]) /\ l \in Swim!ToSet(log[u])
    BY <2>3, <2>4, <2>7, <2>10 DEF SwimInv, OwnComplete
  <2>12. \A o \in Workshops : log[o] \in Seq(Entries)
    BY DEF SwimInv, SwimTypes
  <2>13. Before(log[u], k, l) \/ Before(log[u], l, k)
    BY <2>5, <2>7, <2>11, <2>12, OneIsBefore
  <2>14. CASE Before(log[u], k, l)
    <3>1. Before(log[v], k, l)
      BY <2>3, <2>4, <2>5, <2>7, <2>10, <2>11, <2>14 DEF SwimInv, OwnOrder
    <3> QED
      BY <2>5, <2>9, <2>10, <2>12, <3>1, OneIsBefore
  <2>15. CASE Before(log[u], l, k)
    <3>1. Before(log[w], l, k)
      BY <2>3, <2>4, <2>5, <2>7, <2>10, <2>11, <2>15 DEF SwimInv, OwnOrder
    <3> QED
      BY <2>5, <2>9, <2>10, <2>12, <3>1, OneIsBefore
  <2> QED
    BY <2>13, <2>14, <2>15
<1>6. Swim!Mentioned(r) = Swim!Mentioned(s)
  BY <1>4 DEF Swim!Mentioned
<1> QED
  BY <1>1, <1>5, <1>6 DEF Swim!View, Swim!DeriveMembershipView

LEMMA SwimSafe == SwimInv => Swim!TypeOK /\ Swim!ViewsConverge
<1> SUFFICES ASSUME SwimInv PROVE Swim!TypeOK /\ Swim!ViewsConverge
  OBVIOUS
<1>1. Swim!TypeOK
  BY DEF Swim!TypeOK, SwimInv, SwimTypes, Keys
<1>2. ASSUME NEW w \in Workshops, NEW v \in Workshops, NEW r, NEW s,
             r = Swim!ReadGenomeLog(w, "none"), s = Swim!ReadGenomeLog(v, "none")
      PROVE  Swim!ToSet(Swim!MergeGenomeLogs(r, s)) = Swim!ToSet(Swim!MergeGenomeLogs(s, r))
  <2>1. r \in Seq(Entries) /\ s \in Seq(Entries)
    BY <1>2, ReadIs DEF SwimInv
  <2>2. Swim!ToSet(Swim!MergeGenomeLogs(r, s)) = Swim!ToSet(r) \cup Swim!ToSet(s)
    BY <2>1, MergeIs
  <2>3. Swim!ToSet(Swim!MergeGenomeLogs(s, r)) = Swim!ToSet(s) \cup Swim!ToSet(r)
    BY <2>1, MergeIs
  <2> QED
    BY <2>2, <2>3
<1>3. ASSUME NEW w \in Workshops, NEW v \in Workshops
      PROVE  /\ Swim!ToSet(Swim!Known(w)) = Swim!ToSet(Swim!Known(v)) => Swim!View(w) = Swim!View(v)
             /\ Swim!ToSet(Swim!MergeGenomeLogs(Swim!ReadGenomeLog(w, "none"), Swim!ReadGenomeLog(v, "none")))
                  = Swim!ToSet(Swim!MergeGenomeLogs(Swim!ReadGenomeLog(v, "none"), Swim!ReadGenomeLog(w, "none")))
  <2>1. Swim!ToSet(Swim!Known(w)) = Swim!ToSet(Swim!Known(v)) => Swim!View(w) = Swim!View(v)
    BY ViewsAreEqual
  <2> QED
    BY <1>2, <2>1
<1>4. Swim!ViewsConverge
  BY <1>3, Zenon DEF Swim!ViewsConverge
<1> QED
  BY <1>1, <1>4

-----------------------------------------------------------------------------
(* The shared table. What a lookup is about to keep was published by this   *)
(* operator; what a placement has found are announcements.                  *)
Values == [by : Workshops \cup {"none"}, time : Nat, shape : {"absent", "malformed", "entry"}]
Announcements == [of : Workshops \cup {"none"}, slots : 0 .. MaxSlots, by : Workshops \cup {"none"}]
Calls == [op : {"idle", "register", "publish", "lookup", "keep", "place"}, read : Values,
          left : SUBSET Workshops, found : SUBSET Announcements]
PlacedWell(p) ==
  /\ p.winner # Table!NoCapacity => p.winner.slots > 0
  /\ p.strategy = "least-loaded" => \A c \in p.found : c.slots <= p.winner.slots
DhtTypes ==
  /\ dhtClock \in 1 .. MaxTime /\ setup \subseteq Workshops
  /\ dhtCall \in [Workshops -> Calls]
  /\ cache \in [Workshops -> [entry : Values, expires : 0 .. (MaxTime + 1)]]
  /\ published \subseteq Values
  /\ capacity \in [Workshops -> Announcements]
Kept(w) == dhtCall[w].op = "keep" => dhtCall[w].read \in published /\ dhtCall[w].read.by = w
Cached(w) == cache[w] # Table!NoEntry => cache[w].entry \in published /\ cache[w].entry.by = w
DhtInv ==
  /\ DhtTypes
  /\ site \in published \cup {Table!Nothing, Table!Malformed}
  /\ \A w \in Workshops : Kept(w) /\ Cached(w)
  /\ \A p \in placed : PlacedWell(p)

LEMMA DhtRecords ==
  /\ Table!Nothing \in Values /\ Table!Malformed \in Values /\ Table!NoCapacity \in Announcements
  /\ Table!Idle \in Calls /\ Table!Idle.op = "idle"
  /\ Table!NoEntry \in [entry : Values, expires : 0 .. (MaxTime + 1)]
  /\ \A w \in Workshops, t \in 1 .. MaxTime : [by |-> w, time |-> t, shape |-> "entry"] \in Values
<1>1. 0 \in 0 .. MaxSlots /\ 0 \in 0 .. (MaxTime + 1) /\ MaxTime \in Nat
  BY PlatformAssumption
<1>2. Table!Nothing \in Values /\ Table!Malformed \in Values
  BY DEF Table!Nothing, Table!Malformed, Values
<1>3. Table!Idle \in Calls /\ Table!Idle.op = "idle"
  BY <1>2 DEF Table!Idle, Calls
<1>4. Table!NoCapacity \in Announcements
  BY <1>1 DEF Table!NoCapacity, Announcements
<1>5. Table!NoEntry \in [entry : Values, expires : 0 .. (MaxTime + 1)]
  BY <1>1, <1>2 DEF Table!NoEntry
<1>6. \A w \in Workshops, t \in 1 .. MaxTime : [by |-> w, time |-> t, shape |-> "entry"] \in Values
  BY <1>1 DEF Values
<1> QED
  BY <1>2, <1>3, <1>4, <1>5, <1>6

LEMMA DhtInit == Table!Init => DhtInv
<1> SUFFICES ASSUME Table!Init PROVE DhtInv
  OBVIOUS
<1>1. 1 \in 1 .. MaxTime
  BY PlatformAssumption
<1>2. DhtTypes
  BY <1>1, DhtRecords DEF Table!Init, DhtTypes
<1>3. \A w \in Workshops : Kept(w) /\ Cached(w)
  BY DhtRecords DEF Table!Init, Kept, Cached
<1> QED
  BY <1>2, <1>3 DEF Table!Init, DhtInv

(* A call that only begins, goes on or ends.                                *)
LEMMA CallStep ==
  ASSUME DhtInv, NEW w \in Workshops, NEW c \in Calls, dhtCall' = [dhtCall EXCEPT ![w] = c],
         c.op = "keep" => c.read \in published /\ c.read.by = w,
         UNCHANGED <<site, cache, setup, dhtClock, published, capacity, placed>>
  PROVE  DhtInv'
<1>1. DhtTypes'
  BY DEF DhtInv, DhtTypes
<1>2. \A v \in Workshops : dhtCall'[v] = IF v = w THEN c ELSE dhtCall[v]
  BY DEF DhtInv, DhtTypes
<1>3. ASSUME NEW v \in Workshops PROVE Kept(v)' /\ Cached(v)'
  BY <1>2 DEF DhtInv, Kept, Cached
<1> QED
  BY <1>1, <1>3 DEF DhtInv, PlacedWell

LEMMA PublishStep ==
  ASSUME DhtInv, NEW w \in Workshops, Table!RegisterPublishes(w) PROVE DhtInv'
<1>1. /\ site' = dhtCall[w].read /\ published' = published \cup {dhtCall[w].read}
      /\ cache' = [cache EXCEPT ![w] = Table!NoEntry] /\ dhtCall' = [dhtCall EXCEPT ![w] = Table!Idle]
      /\ UNCHANGED <<setup, dhtClock, capacity, placed>>
  BY DEF Table!RegisterPublishes, Table!End, Table!capacityVars
<1>2. dhtCall[w].read \in Values
  BY DEF DhtInv, DhtTypes, Calls
<1>3. DhtTypes'
  BY <1>1, <1>2, DhtRecords DEF DhtInv, DhtTypes
<1>4. \A v \in Workshops : /\ dhtCall'[v] = IF v = w THEN Table!Idle ELSE dhtCall[v]
                           /\ cache'[v] = IF v = w THEN Table!NoEntry ELSE cache[v]
  BY <1>1 DEF DhtInv, DhtTypes
<1>5. ASSUME NEW v \in Workshops PROVE Kept(v)' /\ Cached(v)'
  BY <1>1, <1>4, DhtRecords DEF DhtInv, Kept, Cached
<1> QED
  BY <1>1, <1>3, <1>5 DEF DhtInv, PlacedWell

LEMMA KeepStep ==
  ASSUME DhtInv, NEW w \in Workshops, Table!LookupKeeps(w) PROVE DhtInv'
<1>1. PICK e : e = [entry |-> dhtCall[w].read, expires |-> dhtClock + 1]
  OBVIOUS
<1>2. /\ dhtCall[w].op = "keep" /\ cache' = [cache EXCEPT ![w] = e]
      /\ dhtCall' = [dhtCall EXCEPT ![w] = Table!Idle]
      /\ UNCHANGED <<site, setup, dhtClock, published, capacity, placed>>
  BY <1>1 DEF Table!LookupKeeps, Table!End, Table!capacityVars
<1>3. e \in [entry : Values, expires : 0 .. (MaxTime + 1)]
  <2>1. dhtCall[w].read \in Values /\ dhtClock \in 1 .. MaxTime
    BY DEF DhtInv, DhtTypes, Calls
  <2>2. dhtClock + 1 \in 0 .. (MaxTime + 1)
    BY <2>1, PlatformAssumption
  <2> QED
    BY <1>1, <2>1, <2>2
<1>4. DhtTypes'
  BY <1>2, <1>3, DhtRecords DEF DhtInv, DhtTypes
<1>5. \A v \in Workshops : /\ dhtCall'[v] = IF v = w THEN Table!Idle ELSE dhtCall[v]
                           /\ cache'[v] = IF v = w THEN e ELSE cache[v]
  BY <1>2 DEF DhtInv, DhtTypes
<1>6. e.entry \in published /\ e.entry.by = w
  BY <1>1, <1>2 DEF DhtInv, Kept
<1>7. ASSUME NEW v \in Workshops PROVE Kept(v)' /\ Cached(v)'
  BY <1>2, <1>5, <1>6, DhtRecords DEF DhtInv, Kept, Cached
<1> QED
  BY <1>2, <1>4, <1>7 DEF DhtInv, PlacedWell

LEMMA SiteStep ==
  ASSUME DhtInv, NEW w \in Workshops, Table!SiteNext(w) PROVE DhtInv'
<1> USE DEF Table!siteVars, Table!capacityVars
<1>1. dhtClock \in 1 .. MaxTime
  BY DEF DhtInv, DhtTypes
<1>2. ASSUME NEW op \in {"register", "lookup"}
      PROVE  [Table!Idle EXCEPT !.op = op] \in Calls /\ [Table!Idle EXCEPT !.op = op].op # "keep"
  BY DhtRecords DEF Table!Idle, Calls
<1>3. CASE Table!StartRegister(w)
  BY <1>2, <1>3, CallStep DEF Table!StartRegister, Table!Begin
<1>4. CASE Table!RegisterReads(w)
  <2>1. PICK c : c = [Table!Idle EXCEPT !.op = "publish",
                        !.read = [by |-> w, time |-> dhtClock, shape |-> "entry"]]
    OBVIOUS
  <2>2. c \in Calls /\ c.op # "keep"
    BY <1>1, <2>1, DhtRecords DEF Table!Idle, Calls
  <2>3. dhtCall' = [dhtCall EXCEPT ![w] = Table!Idle] \/ dhtCall' = [dhtCall EXCEPT ![w] = c]
    BY <1>4, <2>1 DEF Table!RegisterReads, Table!End
  <2> QED
    BY <1>4, <2>2, <2>3, CallStep, DhtRecords DEF Table!RegisterReads
<1>5. CASE Table!RegisterPublishes(w)
  BY <1>5, PublishStep
<1>6. ASSUME NEW force \in BOOLEAN, Table!StartLookup(w, force) PROVE DhtInv'
  BY <1>2, <1>6, CallStep DEF Table!StartLookup, Table!Begin
<1>7. CASE Table!LookupReads(w)
  <2>1. PICK c : c = [Table!Idle EXCEPT !.op = "keep", !.read = site]
    OBVIOUS
  <2>2. CASE Table!VerifyDhtEntry(site, w)
    <3>1. site \in published /\ site.by = w
      BY <2>2 DEF Table!VerifyDhtEntry, Table!Nothing, Table!Malformed, DhtInv
    <3>2. c \in Calls /\ c.read = site
      BY <2>1, <3>1, DhtRecords DEF Table!Idle, Calls, DhtInv, DhtTypes
    <3> QED
      BY <1>7, <2>1, <2>2, <3>1, <3>2, CallStep DEF Table!LookupReads
  <2>3. CASE ~ Table!VerifyDhtEntry(site, w)
    BY <1>7, <2>3, CallStep, DhtRecords DEF Table!LookupReads, Table!End
  <2> QED
    BY <2>2, <2>3
<1>8. CASE Table!LookupKeeps(w)
  BY <1>8, KeepStep
<1> QED
  BY <1>3, <1>4, <1>5, <1>6, <1>7, <1>8 DEF Table!SiteNext

LEMMA SelectsTheLeastLoaded ==
  ASSUME NEW found \in SUBSET Announcements, NEW c, c = Table!SelectLeastLoaded(found)
  PROVE  /\ c # Table!NoCapacity => c.slots > 0
         /\ \A d \in found : d.slots <= c.slots
<1>1. MaxSlots \in Nat /\ \A d \in found : d.slots \in 0 .. MaxSlots
  BY PlatformAssumption DEF Announcements
<1>2. CASE Table!Available(found) = {}
  <2>1. c = Table!NoCapacity /\ c.slots = 0
    BY <1>2 DEF Table!SelectLeastLoaded, Table!NoCapacity
  <2>2. \A d \in found : ~ (d.slots > 0)
    BY <1>2 DEF Table!Available
  <2> QED
    BY <1>1, <2>1, <2>2
<1>3. CASE Table!Available(found) # {}
  <2>1. PICK T : T = {d.slots : d \in Table!Available(found)}
    OBVIOUS
  <2>2. T \in SUBSET (0 .. MaxSlots) /\ T # {}
    BY <1>1, <1>3, <2>1 DEF Table!Available
  <2>3. PICK m \in T : \A x \in T : x <= m
    BY <1>1, <2>2, GreatestNat
  <2>4. PICK b \in Table!Available(found) : b.slots = m
    BY <2>1
  <2>5. ASSUME NEW d \in found PROVE d.slots <= b.slots
    <3>1. CASE d.slots > 0
      BY <2>1, <2>3, <2>4, <3>1 DEF Table!Available
    <3>2. CASE ~ (d.slots > 0)
      BY <1>1, <2>4, <3>2 DEF Table!Available
    <3> QED
      BY <3>1, <3>2
  <2>6. c = CHOOSE a \in Table!Available(found) : \A d \in found : d.slots <= a.slots
    BY <1>3 DEF Table!SelectLeastLoaded
  <2>7. c \in Table!Available(found) /\ \A d \in found : d.slots <= c.slots
    BY <2>5, <2>6
  <2> QED
    BY <2>7 DEF Table!Available
<1> QED
  BY <1>2, <1>3

LEMMA CapacityStep ==
  ASSUME DhtInv, NEW w \in Workshops, Table!CapacityNext(w) PROVE DhtInv'
<1> USE DEF Table!siteVars, Table!capacityVars
<1>1. ASSUME NEW of \in Workshops, NEW slots \in 0 .. MaxSlots, Table!RunDhtCapacityPublish(w, of, slots)
      PROVE  DhtInv'
  <2>1. [of |-> of, slots |-> slots, by |-> w] \in Announcements
    BY DEF Announcements
  <2>2. capacity' \in [Workshops -> Announcements]
    BY <1>1, <2>1 DEF Table!RunDhtCapacityPublish, DhtInv, DhtTypes
  <2> QED
    BY <1>1, <2>2 DEF Table!RunDhtCapacityPublish, DhtInv, DhtTypes, Kept, Cached, PlacedWell
<1>2. ASSUME NEW asked \in SUBSET Workshops, Table!StartPlacement(w, asked) PROVE DhtInv'
  <2>1. PICK c : c = [Table!Idle EXCEPT !.op = "place", !.left = asked]
    OBVIOUS
  <2>2. c \in Calls /\ c.op # "keep"
    BY <2>1, DhtRecords DEF Table!Idle, Calls
  <2> QED
    BY <1>2, <2>1, <2>2, CallStep DEF Table!StartPlacement
<1>3. ASSUME NEW v \in Workshops, Table!PlacementReads(w, v) PROVE DhtInv'
  <2>1. PICK c : c = [dhtCall[w] EXCEPT !.left = @ \ {v},
                        !.found = IF capacity[v].by = w THEN @ \cup {capacity[v]} ELSE @]
    OBVIOUS
  <2>2. dhtCall[w] \in Calls /\ capacity[v] \in Announcements /\ dhtCall[w].op = "place"
    BY <1>3 DEF Table!PlacementReads, DhtInv, DhtTypes
  <2>3. c \in Calls /\ c.op # "keep"
    BY <2>1, <2>2 DEF Calls
  <2>4. dhtCall' = [dhtCall EXCEPT ![w] = c]
    BY <1>3, <2>1 DEF Table!PlacementReads, DhtInv, DhtTypes
  <2> QED
    BY <1>3, <2>3, <2>4, CallStep DEF Table!PlacementReads
<1>4. ASSUME NEW strategy \in {"least-loaded", "owner-preference"}, Table!PlacementChooses(w, strategy)
      PROVE  DhtInv'
  <2>1. PICK found : found = dhtCall[w].found
    OBVIOUS
  <2>2. PICK winner : /\ winner \in IF strategy = "owner-preference" /\ Table!Available(found) # {}
                                    THEN Table!Available(found) ELSE {Table!SelectLeastLoaded(found)}
                      /\ placed' = {[found |-> found, winner |-> winner, strategy |-> strategy]}
    BY <1>4, <2>1 DEF Table!PlacementChooses
  <2>3. found \in SUBSET Announcements
    BY <2>1 DEF DhtInv, DhtTypes, Calls
  <2>4. /\ winner # Table!NoCapacity => winner.slots > 0
        /\ strategy = "least-loaded" => \A c \in found : c.slots <= winner.slots
    BY <2>2, <2>3, SelectsTheLeastLoaded DEF Table!Available
  <2>5. \A p \in placed' : PlacedWell(p)
    BY <2>2, <2>4 DEF PlacedWell
  <2>6. /\ dhtCall' = [dhtCall EXCEPT ![w] = Table!Idle]
        /\ UNCHANGED <<site, cache, setup, dhtClock, published, capacity>>
    BY <1>4 DEF Table!PlacementChooses, Table!End
  <2>7. DhtTypes'
    BY <2>6, DhtRecords DEF DhtInv, DhtTypes
  <2>8. \A v \in Workshops : dhtCall'[v] = IF v = w THEN Table!Idle ELSE dhtCall[v]
    BY <2>6 DEF DhtInv, DhtTypes
  <2>9. \A v \in Workshops : Kept(v)' /\ Cached(v)'
    BY <2>6, <2>8, DhtRecords DEF DhtInv, Kept, Cached
  <2> QED
    BY <2>5, <2>6, <2>7, <2>9 DEF DhtInv, PlacedWell
<1> QED
  BY <1>1, <1>2, <1>3, <1>4 DEF Table!CapacityNext

LEMMA DhtStep == DhtInv /\ Table!Next => DhtInv'
<1> SUFFICES ASSUME DhtInv, Table!Next PROVE DhtInv'
  OBVIOUS
<1> USE DEF Table!siteVars, Table!capacityVars
<1>1. ASSUME NEW w \in Workshops, Table!RunDhtNodeInit(w) PROVE DhtInv'
  BY <1>1 DEF Table!RunDhtNodeInit, DhtInv, DhtTypes, Kept, Cached, PlacedWell
<1>2. ASSUME NEW w \in Workshops, Table!Fail(w) PROVE DhtInv'
  BY <1>2, CallStep, DhtRecords DEF Table!Fail, Table!End
<1>3. CASE Table!Tick
  <2>1. dhtClock' \in 1 .. MaxTime
    BY <1>3, PlatformAssumption DEF Table!Tick, DhtInv, DhtTypes
  <2> QED
    BY <1>3, <2>1 DEF Table!Tick, DhtInv, DhtTypes, Kept, Cached, PlacedWell
<1> QED
  BY <1>1, <1>2, <1>3, SiteStep, CapacityStep DEF Table!Next

LEMMA DhtSafe ==
  DhtInv => Table!TypeOK /\ Table!CacheServesThePublished /\ Table!NeverPlacedOnTheFull
<1> SUFFICES ASSUME DhtInv
             PROVE  Table!TypeOK /\ Table!CacheServesThePublished /\ Table!NeverPlacedOnTheFull
  OBVIOUS
<1>1. Table!TypeOK
  BY DEF DhtInv, DhtTypes, Calls, Table!TypeOK
<1>2. Table!CacheServesThePublished
  BY DEF DhtInv, Cached, Table!CacheServesThePublished
<1>3. Table!NeverPlacedOnTheFull
  BY DEF DhtInv, PlacedWell, Table!NeverPlacedOnTheFull
<1> QED
  BY <1>1, <1>2, <1>3

-----------------------------------------------------------------------------
(* Pipelines and their cache. A write gives its files metadata nothing had  *)
(* before, so metadata that fits a file tells its contents, if it is that of*)
(* the contents that were read: of what a run is still hashing this is so   *)
(* for the metadata the files had when they were read.  Every name          *)
(* among the hits, in a run, in the file runs share or in a copy of it that *)
(* is about to be written back, was earned.                                 *)
Holdings == 0 .. MaxWrites
Stored(e) == e.command \in DOMAIN Reads /\ e.seen \in [Reads[e.command] -> Holdings]
Dated(m) ==
  /\ m.command \in DOMAIN Reads
  /\ \E T \in SUBSET Reads[m.command] : m.metadata \in [T -> 1 .. writes] /\ m.hash \in [T -> Holdings]
  /\ m.whole => \A f \in DOMAIN m.metadata : m.metadata[f] = stamp[f] => m.hash[f] = content[f]
TreeInv ==
  /\ writes \in Holdings /\ content \in [Inputs -> Holdings] /\ stamp \in [Inputs -> 0 .. writes]
  /\ \A f \in Inputs : stamp[f] = 0 <=> content[f] = 0
  /\ \A e \in results : Stored(e)
  /\ \A m \in metas : Dated(m)
HitRecords == [commands : SUBSET earned, age : {"fresh", "stale"}]
RunFields == {"phase", "step", "mode", "index", "hits", "seen", "inputs", "file"}
RunPhases == {"idle", "indexed", "step", "running", "hashing", "stored", "persist", "write"}
RunFits(p, r) ==
  /\ DOMAIN r = RunFields
  /\ r.phase \in RunPhases
  /\ r.mode \in {"normal", "force", "dry"} /\ r.hits \subseteq earned
  /\ r.phase \in {"step", "running", "hashing", "stored"} => r.step \in 1 .. Len(Steps[p])
  /\ r.phase \in {"running", "hashing"} => r.seen \in [Reads[Steps[p][r.step]] -> Holdings]
  /\ r.phase = "write" => r.file \in [Pipelines -> HitRecords]
RunsInv ==
  /\ earned \subseteq DOMAIN Reads /\ hitsFile \in [Pipelines -> HitRecords]
  /\ DOMAIN run = Pipelines /\ \A p \in Pipelines : RunFits(p, run[p])
(* What a step does to the files leaves what was dated before dated.        *)
DatesStay ==
  /\ writes \in Nat /\ writes' \in Nat /\ writes <= writes'
  /\ \A m : Dated(m) => Dated(m)'
Snapshot(c, i) == [command |-> c, metadata |-> i.was, hash |-> i.hash, whole |-> TRUE]
HashFits(p, r) ==
  r.phase \in {"hashing", "stored"} =>
    /\ DOMAIN r.inputs = {"left", "hash", "was", "metadata"}
    /\ r.inputs.left \subseteq Reads[Steps[p][r.step]]
    /\ Dated(Snapshot(Steps[p][r.step], r.inputs))
    /\ \E U \in SUBSET DOMAIN r.inputs.hash : r.inputs.metadata \in [U -> 1 .. writes]
    /\ r.phase = "stored" => DOMAIN r.inputs.metadata = DOMAIN r.inputs.hash
HashesInv == \A p \in Pipelines : HashFits(p, run[p])
CacheInv == TreeInv /\ RunsInv /\ HashesInv

LEMMA CacheInit == Cache!Init => CacheInv
<1> SUFFICES ASSUME Cache!Init PROVE CacheInv
  OBVIOUS
<1>1. /\ content = [f \in Inputs |-> 0] /\ stamp = [f \in Inputs |-> 0] /\ writes = 0
      /\ results = {} /\ metas = {} /\ earned = {}
      /\ hitsFile = [p \in Pipelines |-> [commands |-> {}, age |-> "stale"]]
      /\ run = [p \in Pipelines |-> Cache!NoRun]
  BY DEF Cache!Init, Cache!NoHits
<1>2. TreeInv
  BY <1>1, KernelAssumption DEF TreeInv, Holdings
<1>3. \A p \in Pipelines : RunFits(p, Cache!NoRun)
  BY <1>1 DEF RunFits, RunFields, RunPhases, Cache!NoRun
<1>4. \A p \in Pipelines : HashFits(p, Cache!NoRun)
  BY DEF HashFits, Cache!NoRun
<1> QED
  BY <1>1, <1>2, <1>3, <1>4 DEF CacheInv, RunsInv, HashesInv, HitRecords

\* A step of one run, which at most earns it something.
LEMMA RunMoves ==
  ASSUME RunsInv, NEW p \in Pipelines, NEW r, run' = [run EXCEPT ![p] = r], RunFits(p, r)',
         earned \subseteq earned', earned' \subseteq DOMAIN Reads,
         hitsFile' \in [Pipelines -> HitRecords']
  PROVE  RunsInv'
<1>1. DOMAIN run' = Pipelines /\ run'[p] = r /\ \A q \in Pipelines \ {p} : run'[q] = run[q]
  BY DEF RunsInv
<1>2. \A q \in Pipelines : RunFits(q, run[q])'  \/ q = p
  <2>1. HitRecords \subseteq HitRecords'
    BY DEF HitRecords
  <2>2. ASSUME NEW q \in Pipelines, q # p PROVE RunFits(q, run[q])'
    <3>1. PICK s : s = run[q]
      OBVIOUS
    <3>2. RunFits(q, s) /\ run'[q] = s
      BY <1>1, <2>2, <3>1 DEF RunsInv
    <3> QED
      BY <2>1, <3>2 DEF RunFits
  <2> QED
    BY <2>2
<1>3. \A q \in Pipelines : RunFits(q, run[q])'
  BY <1>1, <1>2 DEF RunFits
<1> QED
  BY <1>1, <1>3 DEF RunsInv

\* What a run has hashed stays good while the tree moves on.
LEMMA HashStays ==
  ASSUME NEW p, NEW r, HashFits(p, r), DatesStay
  PROVE  HashFits(p, r)'
<1> SUFFICES ASSUME r.phase \in {"hashing", "stored"} PROVE HashFits(p, r)'
  BY DEF HashFits
<1>1. Dated(Snapshot(Steps[p][r.step], r.inputs))'
  <2>1. PICK m : m = Snapshot(Steps[p][r.step], r.inputs)
    OBVIOUS
  <2>2. Dated(m)'
    BY <2>1 DEF HashFits, DatesStay
  <2> QED
    BY <2>1, <2>2 DEF Snapshot
<1>2. PICK U \in SUBSET DOMAIN r.inputs.hash : r.inputs.metadata \in [U -> 1 .. writes]
  BY DEF HashFits
<1>3. r.inputs.metadata \in [U -> 1 .. writes']
  <2>1. 1 .. writes \subseteq 1 .. writes'
    BY DEF DatesStay
  <2> QED
    BY <1>2, <2>1
<1> QED
  BY <1>1, <1>2, <1>3 DEF HashFits

LEMMA HashesMove ==
  ASSUME RunsInv, HashesInv, NEW p \in Pipelines, NEW r, run' = [run EXCEPT ![p] = r], HashFits(p, r)',
         DatesStay
  PROVE  HashesInv'
<1>1. DOMAIN run = Pipelines
  BY DEF RunsInv
<1>2. ASSUME NEW q \in Pipelines PROVE HashFits(q, run[q])'
  <2>1. PICK s : s = run'[q]
    OBVIOUS
  <2>2. (s = r /\ q = p) \/ s = run[q]
    BY <1>1, <2>1
  <2>3. HashFits(q, s)'
    BY <2>2, HashStays DEF HashesInv
  <2> QED
    BY <2>1, <2>3 DEF HashFits
<1> QED
  BY <1>2 DEF HashesInv

LEMMA FilesRest ==
  ASSUME TreeInv, UNCHANGED <<content, stamp, writes>>
  PROVE  DatesStay
<1>1. writes \in Nat
  BY KernelAssumption DEF TreeInv, Holdings
<1> QED
  BY <1>1 DEF Dated, DatesStay

LEMMA TreeRests ==
  ASSUME TreeInv, UNCHANGED <<content, stamp, writes, results, metas>>
  PROVE  TreeInv' /\ DatesStay
<1>1. DatesStay
  BY FilesRest
<1>2. TreeInv'
  <2>1. \A e : Stored(e)' <=> Stored(e)
    BY DEF Stored
  <2> QED
    BY <1>1, <2>1 DEF TreeInv, DatesStay
<1> QED
  BY <1>1, <1>2

\* The hits stay records when more is earned.
LEMMA HitsRest ==
  ASSUME RunsInv, UNCHANGED hitsFile, earned \subseteq earned'
  PROVE  hitsFile' \in [Pipelines -> HitRecords']
  BY DEF RunsInv, HitRecords

\* The command a run is at is one of its pipeline's.
LEMMA CommandIsOne ==
  ASSUME RunsInv, NEW p \in Pipelines, run[p].phase \in {"step", "running", "hashing", "stored"}
  PROVE  /\ Cache!Command(p) \in DOMAIN Reads /\ run[p].step \in 1 .. Len(Steps[p])
         /\ Reads[Cache!Command(p)] \subseteq Inputs
<1>1. RunFits(p, run[p]) /\ Steps[p] \in Seq(DOMAIN Reads)
  BY KernelAssumption DEF RunsInv
<1> QED
  BY <1>1, KernelAssumption DEF RunFits, Cache!Command

LEMMA RunAdvances ==
  ASSUME RunsInv, NEW p \in Pipelines, run[p].phase \in {"step", "running", "hashing", "stored"}
  PROVE  RunFits(p, Cache!Advanced(run[p], p)) /\ Cache!Advanced(run[p], p).hits = run[p].hits
         /\ Cache!Advanced(run[p], p).phase \in {"step", "persist"}
         /\ RunFits(p, Cache!Ended(run[p])) /\ Cache!Ended(run[p]).phase = "persist"
<1>1. PICK r : r = run[p]
  OBVIOUS
<1>2. RunFits(p, r) /\ r.phase \in {"step", "running", "hashing", "stored"} /\ Steps[p] \in Seq(DOMAIN Reads)
  BY <1>1, KernelAssumption DEF RunsInv
<1>3. /\ RunFits(p, Cache!Ended(r)) /\ Cache!Ended(r).hits = r.hits
      /\ Cache!Ended(r).phase = "persist"
  BY <1>2 DEF RunFits, RunFields, RunPhases, Cache!Ended
<1>4. CASE r.step = Len(Steps[p])
  BY <1>1, <1>3, <1>4 DEF Cache!Advanced
<1>5. CASE r.step # Len(Steps[p])
  <2>1. r.step + 1 \in 1 .. Len(Steps[p])
    BY <1>2, <1>5 DEF RunFits
  <2>2. PICK s : s = [r EXCEPT !.phase = "step", !.step = @ + 1, !.seen = Cache!NoSeen, !.inputs = Cache!NoInputs]
    OBVIOUS
  <2>3. s.step = r.step + 1 /\ s.phase = "step" /\ s.hits = r.hits /\ s.mode = r.mode /\ DOMAIN s = RunFields
    BY <1>2, <2>2 DEF RunFits, RunFields
  <2>4. RunFits(p, s)
    BY <1>2, <2>1, <2>3 DEF RunFits, RunPhases
  <2>5. Cache!Advanced(r, p) = s
    BY <1>5, <2>2 DEF Cache!Advanced
  <2> QED
    BY <1>1, <1>3, <2>3, <2>4, <2>5
<1> QED
  BY <1>4, <1>5

\* What a command generates is one of the contents it has seen, or none.
LEMMA GeneratedIsOne ==
  ASSUME NEW S, NEW seen \in [S -> Holdings]
  PROVE  Cache!Generated(seen) \in Holdings
<1>1. PICK T : T = {0} \cup {seen[f] : f \in DOMAIN seen}
  OBVIOUS
<1>2. T \in SUBSET (0 .. MaxWrites) /\ T # {} /\ MaxWrites \in Nat
  BY <1>1, KernelAssumption DEF Holdings
<1>3. PICK x \in T : \A y \in T : y <= x
  BY <1>2, GreatestNat
<1>4. \A y \in T : x >= y
  BY <1>2, <1>3
<1>5. Cache!Max(T) \in T
  BY <1>3, <1>4 DEF Cache!Max
<1> QED
  BY <1>1, <1>2, <1>5 DEF Cache!Generated, Holdings

(* A write of some files: whatever named their metadata before is none of   *)
(* theirs any more.                                                         *)
LEMMA TreeWritten ==
  ASSUME TreeInv, NEW out \in SUBSET Inputs, NEW w \in Holdings, w # 0, writes < MaxWrites, writes' = writes + 1,
         content' = [f \in Inputs |-> IF f \in out THEN w ELSE content[f]],
         stamp' = [f \in Inputs |-> IF f \in out THEN writes + 1 ELSE stamp[f]]
  PROVE  /\ writes' \in Holdings /\ content' \in [Inputs -> Holdings] /\ stamp' \in [Inputs -> 0 .. writes']
         /\ \A f \in Inputs : stamp'[f] = 0 <=> content'[f] = 0
         /\ DatesStay
<1>1. /\ MaxWrites \in Nat /\ writes \in Nat /\ writes' \in Nat
      /\ \A f \in Inputs : content[f] \in Holdings /\ stamp[f] \in Nat /\ stamp[f] <= writes
  BY KernelAssumption DEF TreeInv, Holdings
<1>2. writes' \in Holdings /\ content' \in [Inputs -> Holdings] /\ stamp' \in [Inputs -> 0 .. writes']
  BY <1>1 DEF Holdings
<1>3. \A f \in Inputs : stamp'[f] = 0 <=> content'[f] = 0
  BY <1>1 DEF TreeInv
<1>4. ASSUME NEW m, Dated(m) PROVE Dated(m)'
  <2>1. PICK T \in SUBSET Reads[m.command] : m.metadata \in [T -> 1 .. writes] /\ m.hash \in [T -> Holdings]
    BY <1>4 DEF Dated
  <2>2. m.metadata \in [T -> 1 .. writes'] /\ DOMAIN m.metadata = T
    BY <1>1, <2>1
  <2>3. T \subseteq Inputs
    BY <1>4, <2>1, KernelAssumption DEF Dated
  <2>4. ASSUME m.whole, NEW f \in T, m.metadata[f] = stamp'[f] PROVE m.hash[f] = content'[f]
    <3>1. m.metadata[f] # writes + 1
      BY <1>1, <2>1
    <3>2. stamp'[f] = stamp[f] /\ content'[f] = content[f]
      BY <2>3, <2>4, <3>1
    <3> QED
      BY <1>4, <2>2, <2>4, <3>2 DEF Dated
  <2> QED
    BY <1>4, <2>1, <2>2, <2>4 DEF Dated
<1> QED
  BY <1>1, <1>2, <1>3, <1>4 DEF DatesStay

\* A command that succeeds: its writes, and the files it goes on to hash.
LEMMA StepFinishes ==
  ASSUME CacheInv, NEW p \in Pipelines, Cache!FinishStep(p)
  PROVE  CacheInv'
<1>1. PICK c, out, left, w : /\ c = Cache!Command(p) /\ out = Cache!Written(p)
                             /\ left = {f \in Reads[c] : run[p].index[f] # 0}
                             /\ w = Cache!Generated(run[p].seen)
  OBVIOUS
<1>2. PICK a, i, h : /\ a = Cache!Advanced(run[p], p)
                     /\ i = [Cache!NoInputs EXCEPT !.left = left]
                     /\ h = [run[p] EXCEPT !.phase = "hashing", !.inputs = i]
  OBVIOUS
<1>3. TreeInv /\ RunsInv /\ HashesInv /\ RunFits(p, run[p]) /\ DOMAIN run = Pipelines
  BY DEF CacheInv, RunsInv
<1>4. PICK r \in {a, h} : run' = [run EXCEPT ![p] = r]
  BY <1>1, <1>2, <1>3 DEF Cache!FinishStep
<1>5. /\ run[p].phase = "running" /\ (out = {} \/ writes < MaxWrites)
      /\ writes' = IF out = {} THEN writes ELSE writes + 1
      /\ content' = [f \in Inputs |-> IF f \in out THEN w ELSE content[f]]
      /\ stamp' = [f \in Inputs |-> IF f \in out THEN writes + 1 ELSE stamp[f]]
      /\ UNCHANGED <<results, metas, hitsFile, earned>>
  BY <1>1 DEF Cache!FinishStep
<1>6. c \in DOMAIN Reads /\ c = Steps[p][run[p].step] /\ run[p].seen \in [Reads[c] -> Holdings]
  BY <1>1, <1>3, <1>5, CommandIsOne DEF RunFits, Cache!Command
<1>7. w \in Holdings
  BY <1>1, <1>6, GeneratedIsOne
<1>8. /\ writes' \in Holdings /\ content' \in [Inputs -> Holdings] /\ stamp' \in [Inputs -> 0 .. writes']
      /\ \A f \in Inputs : stamp'[f] = 0 <=> content'[f] = 0
      /\ DatesStay
  <2>1. CASE out = {}
    <3>1. UNCHANGED <<writes, content, stamp>>
      BY <1>3, <1>5, <2>1 DEF TreeInv
    <3>2. DatesStay
      BY <1>3, <3>1, FilesRest
    <3> QED
      BY <1>3, <3>1, <3>2 DEF TreeInv
  <2>2. CASE out # {}
    <3>1. w # 0
      BY <1>1, <2>2 DEF Cache!Written
    <3>2. PICK o : o = out \cap Inputs
      OBVIOUS
    <3>3. /\ o \in SUBSET Inputs
          /\ content' = [f \in Inputs |-> IF f \in o THEN w ELSE content[f]]
          /\ stamp' = [f \in Inputs |-> IF f \in o THEN writes + 1 ELSE stamp[f]]
      BY <1>5, <3>2
    <3> QED
      BY <1>3, <1>5, <1>7, <2>2, <3>1, <3>3, TreeWritten
  <2> QED
    BY <2>1, <2>2
<1>9. TreeInv'
  BY <1>3, <1>5, <1>8 DEF TreeInv, Stored, DatesStay
<1>11. RunFits(p, a) /\ a.phase \in {"step", "persist"} /\ HashFits(p, a)'
  BY <1>2, <1>3, <1>5, RunAdvances DEF HashFits
<1>12. /\ DOMAIN h = RunFields /\ h.phase = "hashing" /\ h.inputs = i /\ h.step = run[p].step
       /\ h.mode = run[p].mode /\ h.hits = run[p].hits /\ h.seen = run[p].seen
  BY <1>2, <1>3 DEF RunFits, RunFields
<1>13. RunFits(p, h)
  BY <1>3, <1>5, <1>12 DEF RunFits, RunPhases
<1>14. HashFits(p, h)'
  <2>1. /\ DOMAIN i = {"left", "hash", "was", "metadata"} /\ i.left = left
        /\ i.hash = Cache!NoSeen /\ i.was = Cache!NoSeen /\ i.metadata = Cache!NoSeen
    BY <1>2 DEF Cache!NoInputs
  <2>2. PICK none : none = Cache!NoSeen
    OBVIOUS
  <2>3. DOMAIN none = {} /\ none \in [{} -> 1 .. writes'] /\ none \in [{} -> Holdings]
    BY <2>2 DEF Cache!NoSeen
  <2>4. Dated(Snapshot(c, i))'
    <3>1. PICK m : m = Snapshot(c, i)
      OBVIOUS
    <3>2. m.command = c /\ m.metadata = none /\ m.hash = none
      BY <2>1, <2>2, <3>1 DEF Snapshot
    <3>3. {} \in SUBSET Reads[m.command]
      OBVIOUS
    <3>4. \E T \in SUBSET Reads[m.command] : m.metadata \in [T -> 1 .. writes'] /\ m.hash \in [T -> Holdings]
      BY <2>3, <3>2, <3>3
    <3>5. Dated(m)'
      BY <1>6, <2>3, <3>2, <3>4 DEF Dated
    <3> QED
      BY <3>1, <3>5 DEF Snapshot
  <2>5. \E U \in SUBSET DOMAIN h.inputs.hash : h.inputs.metadata \in [U -> 1 .. writes']
    BY <1>12, <2>1, <2>2, <2>3
  <2>6. h.inputs.left \subseteq Reads[c]
    BY <1>1, <1>12, <2>1
  <2> QED
    BY <1>6, <1>12, <2>1, <2>4, <2>5, <2>6 DEF HashFits
<1>15. RunFits(p, r)' /\ HashFits(p, r)'
  BY <1>4, <1>5, <1>11, <1>13, <1>14 DEF RunFits, HitRecords
<1>16. RunsInv'
  <2>1. earned \subseteq earned' /\ earned' \subseteq DOMAIN Reads
    BY <1>3, <1>5 DEF RunsInv
  <2> QED
    BY <1>3, <1>4, <1>5, <1>15, <2>1, HitsRest, RunMoves
<1>17. HashesInv'
  BY <1>3, <1>4, <1>8, <1>15, HashesMove
<1> QED
  BY <1>9, <1>16, <1>17 DEF CacheInv

\* One more file is read.
LEMMA FileIsRead ==
  ASSUME CacheInv, NEW p \in Pipelines, NEW f \in Inputs, Cache!FingerprintFile(p, f)
  PROVE  \E r : /\ run' = [run EXCEPT ![p] = r] /\ RunFits(p, r) /\ HashFits(p, r)
                /\ UNCHANGED <<content, stamp, writes, results, metas, hitsFile, earned>>
<1>1. PICK i, c : i = run[p].inputs /\ c = Steps[p][run[p].step]
  OBVIOUS
<1>2. PICK hash, was : hash = Cache!With(i.hash, f, content[f]) /\ was = Cache!With(i.was, f, stamp[f])
  OBVIOUS
<1>3. PICK j : j = [i EXCEPT !.left = i.left \ {f}, !.hash = hash, !.was = was]
  OBVIOUS
<1>4. PICK r : r = [run[p] EXCEPT !.inputs = j]
  OBVIOUS
<1>5. /\ TreeInv /\ RunsInv /\ RunFits(p, run[p]) /\ HashFits(p, run[p])
      /\ run[p].phase = "hashing" /\ f \in i.left
  BY <1>1 DEF CacheInv, RunsInv, HashesInv, Cache!FingerprintFile
<1>6. /\ DOMAIN i = {"left", "hash", "was", "metadata"} /\ i.left \subseteq Reads[c]
      /\ Dated(Snapshot(c, i)) /\ c \in DOMAIN Reads
      /\ \E U \in SUBSET DOMAIN i.hash : i.metadata \in [U -> 1 .. writes]
  BY <1>1, <1>5, CommandIsOne DEF HashFits, Cache!Command
<1>7. run' = [run EXCEPT ![p] = r]
  <2>1. DOMAIN run = Pipelines /\ DOMAIN run[p] = RunFields
    BY <1>5 DEF RunsInv, RunFits
  <2>2. run' = [run EXCEPT ![p].inputs.left = i.left \ {f}, ![p].inputs.hash = hash, ![p].inputs.was = was]
    BY <1>1, <1>2 DEF Cache!FingerprintFile
  <2> QED
    BY <1>1, <1>3, <1>4, <1>6, <2>1, <2>2 DEF RunFields
<1>8. /\ DOMAIN r = RunFields /\ r.phase = "hashing" /\ r.inputs = j /\ r.step = run[p].step
      /\ r.mode = run[p].mode /\ r.hits = run[p].hits /\ r.seen = run[p].seen
  BY <1>4, <1>5 DEF RunFits, RunFields
<1>9. RunFits(p, r)
  BY <1>5, <1>8 DEF RunFits
<1>10. /\ DOMAIN j = {"left", "hash", "was", "metadata"} /\ j.left = i.left \ {f} /\ j.metadata = i.metadata
       /\ j.hash = hash /\ j.was = was
  BY <1>3, <1>6
<1>11. PICK T \in SUBSET Reads[c] : i.was \in [T -> 1 .. writes] /\ i.hash \in [T -> Holdings]
  BY <1>6 DEF Dated, Snapshot
<1>12. \A g \in T : i.was[g] = stamp[g] => i.hash[g] = content[g]
  BY <1>6, <1>11 DEF Dated, Snapshot
<1>13. f \in Inputs /\ (content[f] = 0 <=> stamp[f] = 0)
  BY <1>5 DEF TreeInv
<1>14. CASE content[f] = 0
  <2>1. hash = i.hash /\ was = i.was
    BY <1>2, <1>13, <1>14 DEF Cache!With
  <2>2. Snapshot(c, j) = Snapshot(c, i)
    BY <1>10, <2>1 DEF Snapshot
  <2> QED
    BY <1>1, <1>6, <1>7, <1>8, <1>9, <1>10, <2>1, <2>2 DEF HashFits, Cache!FingerprintFile
<1>15. CASE content[f] # 0
  <2>1. PICK V : V = T \cup {f}
    OBVIOUS
  <2>2. hash = [x \in V |-> IF x = f THEN content[f] ELSE i.hash[x]]
        /\ was = [x \in V |-> IF x = f THEN stamp[f] ELSE i.was[x]]
    BY <1>2, <1>11, <1>13, <1>15, <2>1 DEF Cache!With
  <2>3. content[f] \in Holdings /\ stamp[f] \in 1 .. writes
    BY <1>5, <1>15, KernelAssumption DEF TreeInv, Holdings
  <2>4. hash \in [V -> Holdings] /\ was \in [V -> 1 .. writes] /\ V \in SUBSET Reads[c]
    BY <1>5, <1>6, <1>11, <2>1, <2>2, <2>3
  <2>5. \A g \in V : was[g] = stamp[g] => hash[g] = content[g]
    BY <1>12, <2>1, <2>2
  <2>6. Dated(Snapshot(c, j))
    BY <1>6, <1>10, <2>4, <2>5 DEF Dated, Snapshot
  <2>7. \E U \in SUBSET DOMAIN j.hash : j.metadata \in [U -> 1 .. writes]
    BY <1>6, <1>10, <1>11, <2>1, <2>4
  <2> QED
    BY <1>1, <1>6, <1>7, <1>8, <1>9, <1>10, <2>6, <2>7 DEF HashFits, Cache!FingerprintFile
<1> QED
  BY <1>14, <1>15

\* Its metadata is asked for, and may be of something newer.
LEMMA FileIsDated ==
  ASSUME CacheInv, NEW p \in Pipelines, NEW f \in Inputs, Cache!StatFile(p, f)
  PROVE  \E r : /\ run' = [run EXCEPT ![p] = r] /\ RunFits(p, r) /\ HashFits(p, r)
                /\ UNCHANGED <<content, stamp, writes, results, metas, hitsFile, earned>>
<1>1. PICK i, c, metadata : /\ i = run[p].inputs /\ c = Steps[p][run[p].step]
                            /\ metadata = Cache!With(i.metadata, f, stamp[f])
  OBVIOUS
<1>2. PICK j : j = [i EXCEPT !.metadata = metadata]
  OBVIOUS
<1>3. PICK r : r = [run[p] EXCEPT !.inputs = j]
  OBVIOUS
<1>4. /\ TreeInv /\ RunsInv /\ RunFits(p, run[p]) /\ HashFits(p, run[p])
      /\ run[p].phase = "hashing" /\ f \in DOMAIN i.hash
  BY <1>1 DEF CacheInv, RunsInv, HashesInv, Cache!StatFile
<1>5. /\ DOMAIN i = {"left", "hash", "was", "metadata"} /\ i.left \subseteq Reads[c]
      /\ Dated(Snapshot(c, i))
  BY <1>1, <1>4 DEF HashFits
<1>6. CASE stamp[f] = 0
  <2>1. run' = [run EXCEPT ![p] = Cache!NoRun]
    BY <1>6 DEF Cache!StatFile
  <2>2. RunFits(p, Cache!NoRun) /\ HashFits(p, Cache!NoRun)
    BY DEF RunFits, RunFields, RunPhases, HashFits, Cache!NoRun
  <2> QED
    BY <2>1, <2>2 DEF Cache!StatFile
<1>7. CASE stamp[f] # 0
  <2>1. run' = [run EXCEPT ![p] = r]
    <3>1. DOMAIN run = Pipelines /\ DOMAIN run[p] = RunFields
      BY <1>4 DEF RunsInv, RunFits
    <3>2. run' = [run EXCEPT ![p] = [run[p] EXCEPT !.inputs.metadata = metadata]]
      BY <1>1, <1>7 DEF Cache!StatFile
    <3> QED
      BY <1>1, <1>2, <1>3, <1>5, <3>1, <3>2 DEF RunFields
  <2>2. /\ DOMAIN r = RunFields /\ r.phase = "hashing" /\ r.inputs = j /\ r.step = run[p].step
        /\ r.mode = run[p].mode /\ r.hits = run[p].hits /\ r.seen = run[p].seen
    BY <1>3, <1>4 DEF RunFits, RunFields
  <2>3. RunFits(p, r)
    BY <1>4, <2>2 DEF RunFits
  <2>4. /\ DOMAIN j = {"left", "hash", "was", "metadata"} /\ j.left = i.left /\ j.metadata = metadata
        /\ j.hash = i.hash /\ j.was = i.was
    BY <1>2, <1>5
  <2>5. Snapshot(c, j) = Snapshot(c, i)
    BY <2>4 DEF Snapshot
  <2>6. PICK U \in SUBSET DOMAIN i.hash : i.metadata \in [U -> 1 .. writes]
    BY <1>1, <1>4 DEF HashFits
  <2>7. stamp[f] \in 1 .. writes
    BY <1>4, <1>7, KernelAssumption DEF TreeInv, Holdings
  <2>8. PICK V : V = U \cup {f}
    OBVIOUS
  <2>9. metadata \in [V -> 1 .. writes] /\ V \in SUBSET DOMAIN j.hash
    <3>1. metadata = [x \in V |-> IF x = f THEN stamp[f] ELSE i.metadata[x]]
      BY <1>1, <1>7, <2>6, <2>8 DEF Cache!With
    <3> QED
      BY <1>4, <2>4, <2>6, <2>7, <2>8, <3>1
  <2>10. HashFits(p, r)
    <3>1. \E W \in SUBSET DOMAIN j.hash : j.metadata \in [W -> 1 .. writes]
      BY <2>4, <2>9
    <3>2. Dated(Snapshot(c, j))
      BY <1>5, <2>5
    <3>3. j.left \subseteq Reads[c] /\ c = Steps[p][r.step]
      BY <1>1, <1>5, <2>2, <2>4
    <3> QED
      BY <2>2, <2>4, <3>1, <3>2, <3>3 DEF HashFits
  <2> QED
    BY <2>1, <2>3, <2>10 DEF Cache!StatFile
<1> QED
  BY <1>6, <1>7

\* The report is stored, and then the metadata.
LEMMA ResultIsStored ==
  ASSUME CacheInv, NEW p \in Pipelines, Cache!StoreResult(p)
  PROVE  CacheInv'
<1>1. PICK c, i, e : /\ c = Cache!Command(p) /\ i = run[p].inputs
                     /\ e = [command |-> c, site |-> SiteOf[p], hash |-> i.hash, seen |-> run[p].seen]
  OBVIOUS
<1>2. PICK a, h : a = Cache!Advanced(run[p], p) /\ h = [run[p] EXCEPT !.phase = "stored"]
  OBVIOUS
<1>3. PICK r \in {a, h} : run' = [run EXCEPT ![p] = r]
  <2>1. DOMAIN run = Pipelines
    BY DEF CacheInv, RunsInv
  <2> QED
    BY <1>1, <1>2, <2>1 DEF Cache!StoreResult
<1>4. /\ TreeInv /\ RunsInv /\ HashesInv /\ RunFits(p, run[p]) /\ HashFits(p, run[p])
      /\ run[p].phase = "hashing" /\ DOMAIN i.hash = DOMAIN i.metadata
      /\ results' = Cache!Set(results, e, "hash")
      /\ UNCHANGED <<content, stamp, writes, metas, hitsFile, earned>>
  BY <1>1 DEF CacheInv, RunsInv, HashesInv, Cache!StoreResult
<1>5. Stored(e)
  <2>1. c \in DOMAIN Reads /\ run[p].seen \in [Reads[c] -> Holdings]
    BY <1>1, <1>4, CommandIsOne DEF RunFits, Cache!Command
  <2> QED
    BY <1>1, <2>1 DEF Stored
<1>6. results' \subseteq results \cup {e}
  BY <1>4 DEF Cache!Set
<1>7. TreeInv' /\ DatesStay
  <2>1. \A x \in results' : Stored(x)
    BY <1>4, <1>5, <1>6 DEF TreeInv
  <2>2. DatesStay
    BY <1>4, FilesRest
  <2>3. TreeInv'
    BY <1>4, <2>1, <2>2 DEF TreeInv, Stored, DatesStay
  <2> QED
    BY <2>2, <2>3
<1>8. RunFits(p, a) /\ HashFits(p, a)
  BY <1>2, <1>4, RunAdvances DEF HashFits
<1>9. RunFits(p, h) /\ HashFits(p, h)
  <2>1. /\ DOMAIN h = RunFields /\ h.phase = "stored" /\ h.inputs = i /\ h.step = run[p].step
        /\ h.mode = run[p].mode /\ h.hits = run[p].hits
    BY <1>1, <1>2, <1>4 DEF RunFits, RunFields
  <2> QED
    BY <1>1, <1>4, <2>1 DEF RunFits, RunPhases, HashFits
<1>10. RunFits(p, r)' /\ HashFits(p, r)'
  <2>1. RunFits(p, r) /\ HashFits(p, r)
    BY <1>3, <1>8, <1>9
  <2> QED
    BY <1>4, <2>1 DEF RunFits, HitRecords, HashFits, Dated
<1>11. writes \in Nat /\ writes' = writes /\ earned \subseteq earned' /\ earned' \subseteq DOMAIN Reads
  BY <1>4, KernelAssumption DEF TreeInv, Holdings, RunsInv
<1>12. RunsInv'
  BY <1>3, <1>4, <1>10, <1>11, HitsRest, RunMoves
<1>13. HashesInv'
  BY <1>3, <1>4, <1>7, <1>10, <1>11, HashesMove
<1> QED
  BY <1>7, <1>12, <1>13 DEF CacheInv

LEMMA MetadataIsStored ==
  ASSUME CacheInv, NEW p \in Pipelines, Cache!StoreMetadata(p)
  PROVE  CacheInv'
<1>1. PICK c, i : c = Cache!Command(p) /\ i = run[p].inputs
  OBVIOUS
<1>2. PICK m : m = [command |-> c, site |-> SiteOf[p], metadata |-> i.metadata, hash |-> i.hash,
                    whole |-> i.metadata = i.was]
  OBVIOUS
<1>3. PICK r : r = Cache!Advanced(run[p], p)
  OBVIOUS
<1>4. /\ TreeInv /\ RunsInv /\ HashesInv /\ RunFits(p, run[p]) /\ HashFits(p, run[p])
      /\ run[p].phase = "stored" /\ metas' = Cache!Set(metas, m, "metadata")
      /\ run' = [run EXCEPT ![p] = r] /\ UNCHANGED <<content, stamp, writes, results, hitsFile, earned>>
  BY <1>1, <1>2, <1>3 DEF CacheInv, RunsInv, HashesInv, Cache!StoreMetadata
<1>5. Dated(m)
  <2>1. c \in DOMAIN Reads /\ c = Steps[p][run[p].step]
    BY <1>1, <1>4, CommandIsOne DEF Cache!Command
  <2>2. Dated(Snapshot(c, i)) /\ DOMAIN i.metadata = DOMAIN i.hash
    BY <1>1, <1>4, <2>1 DEF HashFits
  <2>3. PICK T \in SUBSET Reads[c] : i.was \in [T -> 1 .. writes] /\ i.hash \in [T -> Holdings]
    BY <2>2 DEF Dated, Snapshot
  <2>4. \A f \in T : i.was[f] = stamp[f] => i.hash[f] = content[f]
    BY <2>2, <2>3 DEF Dated, Snapshot
  <2>5. PICK U \in SUBSET DOMAIN i.hash : i.metadata \in [U -> 1 .. writes]
    BY <1>1, <1>4 DEF HashFits
  <2>6. i.metadata \in [T -> 1 .. writes]
    BY <2>2, <2>3, <2>5
  <2>7. /\ m.command = c /\ m.metadata = i.metadata /\ m.hash = i.hash
        /\ m.whole => i.metadata = i.was
    BY <1>2
  <2>8. \E S \in SUBSET Reads[m.command] : m.metadata \in [S -> 1 .. writes] /\ m.hash \in [S -> Holdings]
    BY <2>3, <2>6, <2>7
  <2>9. m.whole => \A f \in DOMAIN m.metadata : m.metadata[f] = stamp[f] => m.hash[f] = content[f]
    BY <2>3, <2>4, <2>7
  <2> QED
    BY <2>1, <2>7, <2>8, <2>9 DEF Dated
<1>6. metas' \subseteq metas \cup {m}
  BY <1>4 DEF Cache!Set
<1>7. TreeInv' /\ DatesStay
  <2>1. \A x \in metas' : Dated(x)
    BY <1>4, <1>5, <1>6 DEF TreeInv
  <2>2. DatesStay
    BY <1>4, FilesRest
  <2>3. TreeInv'
    BY <1>4, <2>1, <2>2 DEF TreeInv, Stored, Dated
  <2> QED
    BY <2>2, <2>3
<1>8. RunFits(p, r)' /\ HashFits(p, r)'
  <2>1. RunFits(p, r) /\ r.phase \in {"step", "persist"}
    BY <1>3, <1>4, RunAdvances
  <2> QED
    BY <1>4, <2>1 DEF RunFits, HitRecords, HashFits
<1>9. writes \in Nat /\ writes' = writes /\ earned \subseteq earned' /\ earned' \subseteq DOMAIN Reads
  BY <1>4, KernelAssumption DEF TreeInv, Holdings, RunsInv
<1>10. RunsInv'
  BY <1>4, <1>8, <1>9, HitsRest, RunMoves
<1>11. HashesInv'
  BY <1>4, <1>7, <1>8, <1>9, HashesMove
<1> QED
  BY <1>7, <1>10, <1>11 DEF CacheInv

LEMMA CacheStep == CacheInv /\ Cache!Next => CacheInv'
<1> SUFFICES ASSUME CacheInv, Cache!Next PROVE CacheInv'
  OBVIOUS
<1>1. /\ TreeInv /\ RunsInv /\ HashesInv /\ MaxWrites \in Nat /\ writes \in Nat /\ DOMAIN run = Pipelines
      /\ \A p \in Pipelines : RunFits(p, run[p])
  BY KernelAssumption DEF CacheInv, TreeInv, RunsInv, Holdings
<1>2. ASSUME UNCHANGED <<hitsFile, run, earned>>, DatesStay
      PROVE  RunsInv' /\ HashesInv'
  <2>1. RunsInv'
    BY <1>1, <1>2 DEF RunsInv, RunFits, HitRecords
  <2>2. ASSUME NEW p \in Pipelines PROVE HashFits(p, run[p])'
    <3>1. PICK r : r = run[p]
      OBVIOUS
    <3>2. HashFits(p, r)'
      BY <1>1, <1>2, <3>1, HashStays DEF HashesInv
    <3> QED
      BY <1>2, <3>1, <3>2 DEF HashFits
  <2> QED
    BY <2>1, <2>2 DEF HashesInv
<1>3. ASSUME NEW f \in Inputs, Cache!Edit(f) PROVE CacheInv'
  <2>1. /\ writes < MaxWrites /\ writes' = writes + 1 /\ content' = [content EXCEPT ![f] = writes + 1]
        /\ stamp' = [stamp EXCEPT ![f] = writes + 1] /\ UNCHANGED <<results, metas, hitsFile, run, earned>>
    BY <1>3 DEF Cache!Edit
  <2>2. content \in [Inputs -> Holdings] /\ stamp \in [Inputs -> 0 .. writes]
    BY <1>1 DEF TreeInv
  <2>3. /\ content' = [g \in Inputs |-> IF g \in {f} THEN writes + 1 ELSE content[g]]
        /\ stamp' = [g \in Inputs |-> IF g \in {f} THEN writes + 1 ELSE stamp[g]]
    BY <2>1, <2>2
  <2>4. writes + 1 \in Holdings /\ writes + 1 # 0 /\ {f} \in SUBSET Inputs
    BY <1>1, <2>1 DEF Holdings
  <2>5. /\ writes' \in Holdings /\ content' \in [Inputs -> Holdings] /\ stamp' \in [Inputs -> 0 .. writes']
        /\ \A g \in Inputs : stamp'[g] = 0 <=> content'[g] = 0
        /\ DatesStay
    BY <1>1, <2>1, <2>3, <2>4, TreeWritten
  <2>6. TreeInv'
    BY <1>1, <2>1, <2>5 DEF TreeInv, Stored, DatesStay
  <2> QED
    BY <1>2, <2>1, <2>5, <2>6 DEF CacheInv
<1>4. ASSUME NEW f \in Inputs, Cache!Remove(f) PROVE CacheInv'
  <2>1. /\ content' = [content EXCEPT ![f] = 0] /\ stamp' = [stamp EXCEPT ![f] = 0]
        /\ UNCHANGED <<writes, results, metas, hitsFile, run, earned>>
    BY <1>4 DEF Cache!Remove
  <2>2. /\ content' \in [Inputs -> Holdings] /\ stamp' \in [Inputs -> 0 .. writes']
        /\ \A g \in Inputs : stamp'[g] = 0 <=> content'[g] = 0
    BY <1>1, <2>1 DEF TreeInv, Holdings
  <2>3. ASSUME NEW m, Dated(m) PROVE Dated(m)'
    <3>1. Dated(m)
      BY <2>3
    <3>2. PICK T \in SUBSET Reads[m.command] : m.metadata \in [T -> 1 .. writes] /\ m.hash \in [T -> Holdings]
      BY <3>1 DEF Dated
    <3>3. T \subseteq Inputs /\ DOMAIN m.metadata = T
      BY <3>1, <3>2, KernelAssumption DEF Dated
    <3>4. ASSUME m.whole, NEW g \in T, m.metadata[g] = stamp'[g] PROVE m.hash[g] = content'[g]
      <4>1. m.metadata[g] \in Nat /\ m.metadata[g] # 0
        BY <1>1, <3>2
      <4>2. stamp'[g] = stamp[g] /\ content'[g] = content[g]
        BY <1>1, <2>1, <3>3, <3>4, <4>1 DEF TreeInv
      <4> QED
        BY <3>1, <3>3, <3>4, <4>2 DEF Dated
    <3> QED
      BY <2>1, <3>1, <3>2, <3>3, <3>4 DEF Dated
  <2>4. TreeInv'
    BY <1>1, <2>1, <2>2, <2>3 DEF TreeInv, Stored
  <2>5. DatesStay
    BY <1>1, <2>1, <2>3 DEF DatesStay
  <2> QED
    BY <1>2, <2>1, <2>4, <2>5 DEF CacheInv
<1>5. UNCHANGED <<content, stamp, writes, results, metas>> => TreeInv' /\ DatesStay
  BY <1>1, TreeRests
<1>6. earned \subseteq DOMAIN Reads /\ hitsFile \in [Pipelines -> HitRecords]
  BY <1>1 DEF RunsInv
<1>7. ASSUME NEW p \in Pipelines, NEW mode \in Modes[p], Cache!BuildWorkspaceTreeIndex(p, mode)
      PROVE  CacheInv'
  <2>1. PICK r : r = [Cache!NoRun EXCEPT !.phase = "indexed", !.mode = mode, !.index = stamp]
    OBVIOUS
  <2>2. /\ run' = [run EXCEPT ![p] = r] /\ UNCHANGED <<content, stamp, writes, results, metas, earned>>
        /\ hitsFile' = IF mode = "force" THEN [q \in Pipelines |-> Cache!NoHits] ELSE hitsFile
    BY <1>7, <2>1 DEF Cache!BuildWorkspaceTreeIndex
  <2>3. RunFits(p, r)'
    BY <2>1, KernelAssumption DEF RunFits, RunFields, RunPhases, Cache!NoRun
  <2>4. HitRecords' = HitRecords /\ Cache!NoHits \in HitRecords
    BY <2>2 DEF HitRecords, Cache!NoHits
  <2>5. hitsFile' \in [Pipelines -> HitRecords']
    BY <1>6, <2>2, <2>4
  <2>6. RunsInv'
    BY <1>1, <1>6, <2>2, <2>3, <2>5, RunMoves
  <2>7. HashFits(p, r)'
    BY <2>1 DEF HashFits, Cache!NoRun
  <2>8. HashesInv'
    BY <1>1, <1>5, <2>2, <2>7, HashesMove
  <2> QED
    BY <1>5, <2>2, <2>6, <2>8 DEF CacheInv
<1>8. ASSUME NEW p \in Pipelines, NEW r, RunFits(p, r), HashFits(p, r), run' = [run EXCEPT ![p] = r],
             UNCHANGED <<content, stamp, writes, results, metas, hitsFile, earned>>
      PROVE  CacheInv'
  <2>1. RunFits(p, r)'
    BY <1>8 DEF RunFits, HitRecords
  <2>2. RunsInv'
    BY <1>1, <1>6, <1>8, <2>1, HitsRest, RunMoves
  <2>3. HashFits(p, r)'
    BY <1>8 DEF HashFits, Dated
  <2>4. HashesInv'
    BY <1>1, <1>5, <1>8, <2>3, HashesMove
  <2> QED
    BY <1>5, <1>8, <2>2, <2>4 DEF CacheInv
<1>9. \A p \in Pipelines : RunFits(p, Cache!NoRun) /\ HashFits(p, Cache!NoRun)
  BY DEF RunFits, RunFields, RunPhases, HashFits, Cache!NoRun
<1>10. ASSUME NEW p \in Pipelines, Cache!LoadImportedCacheHits(p) PROVE CacheInv'
  <2>1. PICK hits : hits = UNION {hitsFile[q].commands : q \in {q \in Pipelines \ {p} : hitsFile[q].age = "fresh"}}
    OBVIOUS
  <2>2. PICK r : r = [run[p] EXCEPT !.phase = "step", !.step = 1, !.hits = hits]
    OBVIOUS
  <2>3. /\ run' = [run EXCEPT ![p] = r]
        /\ UNCHANGED <<content, stamp, writes, results, metas, hitsFile, earned>>
    BY <1>1, <1>10, <2>1, <2>2 DEF Cache!LoadImportedCacheHits, RunFits, RunFields
  <2>4. hits \subseteq earned
    BY <1>6, <2>1 DEF HitRecords
  <2>5. 1 \in 1 .. Len(Steps[p])
    <3>1. Steps[p] \in Seq(DOMAIN Reads) \ {<<>>}
      BY KernelAssumption
    <3> QED
      BY <3>1
  <2>6. RunFits(p, r)
    BY <1>1, <2>2, <2>4, <2>5 DEF RunFits, RunFields, RunPhases
  <2>7. HashFits(p, r)
    BY <1>1, <2>2 DEF HashFits, RunFits, RunFields
  <2> QED
    BY <1>8, <2>3, <2>6, <2>7
<1>11. ASSUME NEW p \in Pipelines, Cache!RefuseStep(p) PROVE CacheInv'
  BY <1>8, <1>9, <1>11 DEF Cache!RefuseStep
<1>12. ASSUME NEW p \in Pipelines, Cache!SkipStep(p) PROVE CacheInv'
  <2>1. PICK r : r = Cache!Advanced(run[p], p)
    OBVIOUS
  <2>2. /\ run[p].phase = "step" /\ run' = [run EXCEPT ![p] = r]
        /\ UNCHANGED <<content, stamp, writes, results, metas, hitsFile, earned>>
    BY <1>12, <2>1 DEF Cache!SkipStep
  <2>3. RunFits(p, r) /\ HashFits(p, r)
    BY <1>1, <2>1, <2>2, RunAdvances DEF HashFits
  <2> QED
    BY <1>8, <2>2, <2>3
<1>13. ASSUME NEW p \in Pipelines, Cache!CachedStep(p) PROVE CacheInv'
  <2>1. PICK a, c, counts :
          /\ a = Cache!Advanced(run[p], p) /\ c = Cache!Command(p)
          /\ counts = IF SiteOf[p] = "none" THEN {c} ELSE {}
    OBVIOUS
  <2>2. PICK r : r = [a EXCEPT !.hits = run[p].hits \cup counts]
    OBVIOUS
  <2>3. /\ run[p].phase = "step" /\ run' = [run EXCEPT ![p] = r] /\ earned' = earned \cup counts
        /\ UNCHANGED <<content, stamp, writes, results, metas, hitsFile>>
    BY <1>13, <2>1, <2>2 DEF Cache!CachedStep
  <2>4. RunFits(p, a) /\ a.phase \in {"step", "persist"}
    BY <1>1, <2>1, <2>3, RunAdvances
  <2>5. c \in DOMAIN Reads
    BY <1>1, <2>1, <2>3, CommandIsOne
  <2>6. earned \subseteq earned' /\ earned' \subseteq DOMAIN Reads
    BY <1>6, <2>1, <2>3, <2>5
  <2>7. RunFits(p, r)'
    <3>1. /\ DOMAIN r = RunFields /\ r.phase = a.phase /\ r.mode = a.mode /\ r.step = a.step
          /\ r.hits = run[p].hits \cup counts
      BY <2>2, <2>4 DEF RunFits, RunFields
    <3>2. r.hits \subseteq earned'
      BY <1>1, <2>3, <3>1 DEF RunFits
    <3> QED
      BY <2>4, <3>1, <3>2 DEF RunFits
  <2>8. hitsFile' \in [Pipelines -> HitRecords']
    BY <1>1, <2>3, <2>6, HitsRest
  <2>9. RunsInv'
    BY <1>1, <2>3, <2>6, <2>7, <2>8, RunMoves
  <2>10. HashFits(p, r)'
    BY <2>2, <2>4 DEF HashFits, RunFits, RunFields
  <2>11. HashesInv'
    BY <1>1, <1>5, <2>3, <2>10, HashesMove
  <2> QED
    BY <1>5, <2>3, <2>9, <2>11 DEF CacheInv
<1>14. ASSUME NEW p \in Pipelines, Cache!StartStep(p) PROVE CacheInv'
  <2>1. PICK c : c = Cache!Command(p)
    OBVIOUS
  <2>2. PICK r : r = [run[p] EXCEPT !.phase = "running", !.seen = Cache!Present(c)]
    OBVIOUS
  <2>3. /\ run[p].phase = "step" /\ run' = [run EXCEPT ![p] = r]
        /\ UNCHANGED <<content, stamp, writes, results, metas, hitsFile, earned>>
    BY <1>1, <1>14, <2>1, <2>2 DEF Cache!StartStep, RunFits, RunFields
  <2>4. c \in DOMAIN Reads /\ Reads[c] \subseteq Inputs /\ c = Steps[p][run[p].step]
    BY <1>1, <2>1, <2>3, CommandIsOne DEF Cache!Command
  <2>5. Cache!Present(c) \in [Reads[c] -> Holdings]
    BY <1>1, <2>4 DEF TreeInv, Cache!Present
  <2>6. RunFits(p, r) /\ r.phase = "running"
    BY <1>1, <2>2, <2>3, <2>4, <2>5 DEF RunFits, RunFields, RunPhases
  <2>7. HashFits(p, r)
    BY <2>6 DEF HashFits
  <2> QED
    BY <1>8, <2>3, <2>6, <2>7
<1>15. ASSUME NEW p \in Pipelines, Cache!FailStep(p) PROVE CacheInv'
  <2>1. PICK r : r = Cache!Ended(run[p])
    OBVIOUS
  <2>2. /\ run[p].phase = "running" /\ run' = [run EXCEPT ![p] = r]
        /\ UNCHANGED <<content, stamp, writes, results, metas, hitsFile, earned>>
    BY <1>15, <2>1 DEF Cache!FailStep
  <2>3. RunFits(p, r) /\ HashFits(p, r)
    BY <1>1, <2>1, <2>2, RunAdvances DEF HashFits
  <2> QED
    BY <1>8, <2>2, <2>3
<1>16. ASSUME NEW p \in Pipelines, Cache!ReadHitsFile(p) PROVE CacheInv'
  <2>1. PICK file : file = [hitsFile EXCEPT ![p] = Cache!NoHits]
    OBVIOUS
  <2>2. PICK r : r = [run[p] EXCEPT !.phase = "write", !.file = file]
    OBVIOUS
  <2>3. /\ run' = [run EXCEPT ![p] = r]
        /\ UNCHANGED <<content, stamp, writes, results, metas, hitsFile, earned>>
    BY <1>1, <1>16, <2>1, <2>2 DEF Cache!ReadHitsFile, RunFits, RunFields
  <2>4. Cache!NoHits \in HitRecords
    BY DEF HitRecords, Cache!NoHits
  <2>5. file \in [Pipelines -> HitRecords]
    BY <1>6, <2>1, <2>4
  <2>6. RunFits(p, r) /\ r.phase = "write"
    BY <1>1, <2>2, <2>5 DEF RunFits, RunFields, RunPhases
  <2>7. HashFits(p, r)
    BY <2>6 DEF HashFits
  <2> QED
    BY <1>8, <2>3, <2>6, <2>7
<1>17. ASSUME NEW p \in Pipelines, Cache!PersistCacheHits(p) PROVE CacheInv'
  <2>1. PICK file, h : file = run[p].file /\ h = [commands |-> run[p].hits, age |-> "fresh"]
    OBVIOUS
  <2>2. /\ run[p].phase = "write" /\ hitsFile' = [file EXCEPT ![p] = h]
        /\ run' = [run EXCEPT ![p] = Cache!NoRun]
        /\ UNCHANGED <<content, stamp, writes, results, metas, earned>>
    BY <1>17, <2>1 DEF Cache!PersistCacheHits
  <2>3. file \in [Pipelines -> HitRecords] /\ h \in HitRecords
    BY <1>1, <2>1, <2>2 DEF RunFits, HitRecords
  <2>4. hitsFile' \in [Pipelines -> HitRecords]
    BY <2>2, <2>3
  <2>5. hitsFile' \in [Pipelines -> HitRecords']
    BY <2>2, <2>4 DEF HitRecords
  <2>6. RunFits(p, Cache!NoRun)'
    BY DEF RunFits, RunFields, RunPhases, Cache!NoRun
  <2>7. RunsInv'
    BY <1>1, <1>6, <2>2, <2>5, <2>6, RunMoves
  <2>8. HashFits(p, Cache!NoRun)'
    BY DEF HashFits, Cache!NoRun
  <2>9. HashesInv'
    BY <1>1, <1>5, <2>2, <2>8, HashesMove
  <2> QED
    BY <1>5, <2>2, <2>7, <2>9 DEF CacheInv
<1>18. ASSUME NEW p \in Pipelines, Cache!Age(p) PROVE CacheInv'
  <2>1. hitsFile' = [hitsFile EXCEPT ![p].age = "stale"]
        /\ UNCHANGED <<content, stamp, writes, results, metas, run, earned>>
    BY <1>18 DEF Cache!Age
  <2>2. PICK h : h = [hitsFile[p] EXCEPT !.age = "stale"]
    OBVIOUS
  <2>3. h \in HitRecords
    BY <1>6, <2>2 DEF HitRecords
  <2>4. hitsFile' \in [Pipelines -> HitRecords]
    BY <1>6, <2>1, <2>2, <2>3
  <2>5. RunsInv'
    BY <1>1, <2>1, <2>4 DEF RunsInv, RunFits, HitRecords
  <2>6. HashesInv'
    <3>1. ASSUME NEW q \in Pipelines PROVE HashFits(q, run[q])'
      <4>1. PICK r : r = run[q]
        OBVIOUS
      <4>2. HashFits(q, r)'
        <5>1. HashFits(q, r)
          BY <1>1, <4>1 DEF HashesInv
        <5>2. DatesStay
          BY <1>5, <2>1
        <5> QED
          BY <5>1, <5>2, HashStays
      <4> QED
        BY <2>1, <4>1, <4>2 DEF HashFits
    <3> QED
      BY <3>1 DEF HashesInv
  <2> QED
    BY <1>5, <2>1, <2>5, <2>6 DEF CacheInv
<1>19. CASE Cache!ClearCache
  <2>1. results' = {} /\ metas' = {} /\ UNCHANGED <<content, stamp, writes, hitsFile, run, earned>>
    BY <1>19 DEF Cache!ClearCache
  <2>2. TreeInv'
    BY <1>1, <2>1 DEF TreeInv
  <2>3. DatesStay
    BY <1>1, <2>1 DEF Dated, DatesStay
  <2> QED
    BY <1>2, <2>1, <2>2, <2>3 DEF CacheInv
<1>20. ASSUME NEW p \in Pipelines, Cache!FinishStep(p) PROVE CacheInv'
  BY <1>20, StepFinishes
<1>21. ASSUME NEW p \in Pipelines, NEW f \in Inputs, Cache!FingerprintFile(p, f) \/ Cache!StatFile(p, f)
       PROVE  CacheInv'
  BY <1>8, <1>21, FileIsRead, FileIsDated
<1>22. ASSUME NEW p \in Pipelines, Cache!StoreResult(p) \/ Cache!StoreMetadata(p) PROVE CacheInv'
  BY <1>22, ResultIsStored, MetadataIsStored
<1> QED
  BY <1>3, <1>4, <1>7, <1>10, <1>11, <1>12, <1>13, <1>14, <1>15, <1>16, <1>17, <1>18, <1>19, <1>20,
     <1>21, <1>22 DEF Cache!Next

(* What the cache answers: the report was stored under the contents the     *)
(* files have now, whichever of the two ways led to it.                     *)
LEMMA AnswerIsPresent ==
  ASSUME TreeInv, NEW p \in Pipelines, NEW c \in DOMAIN Reads,
         \A f \in Reads[c] : stamp[f] = run[p].index[f],
         \A m \in Cache!Get(metas, c, SiteOf[p]) : m.metadata = Cache!IndexMetadata(c, p) => m.whole,
         NEW e \in Cache!CacheRead(c, p), Cache!Exact(e)
  PROVE  e.seen = Cache!Present(c)
<1>1. PICK index : index = run[p].index
  OBVIOUS
<1>2. \A f \in Reads[c] : f \in Inputs /\ stamp[f] = index[f] /\ (index[f] = 0 <=> content[f] = 0)
  BY <1>1, KernelAssumption DEF TreeInv
<1>3. PICK T : T = {f \in Reads[c] : content[f] # 0}
  OBVIOUS
<1>4. \/ e \in Cache!CachedResult(c, p, Cache!MtimeFastPath(c, p))
      \/ e \in Cache!CachedResult(c, p, {Cache!InputsHash(c, index)})
  BY <1>1 DEF Cache!CacheRead
<1>5. Cache!InputsHash(c, index) = [f \in T |-> content[f]]
  <2>1. {f \in Reads[c] : index[f] # 0 /\ content[f] # 0} = T
    BY <1>2, <1>3
  <2> QED
    BY <2>1 DEF Cache!InputsHash
<1>6. ASSUME NEW h \in Cache!MtimeFastPath(c, p) PROVE h = [f \in T |-> content[f]]
  <2>1. T = {f \in Reads[c] : index[f] # 0}
    BY <1>2, <1>3
  <2>2. PICK m \in metas :
          h = m.hash /\ m.command = c /\ m.whole /\ m.metadata = [f \in T |-> index[f]]
    <3>1. Cache!IndexMetadata(c, p) = [f \in T |-> index[f]]
      BY <1>1, <2>1 DEF Cache!IndexMetadata
    <3>2. PICK m \in Cache!Get(metas, c, SiteOf[p]) :
            h = m.hash /\ m.metadata = Cache!IndexMetadata(c, p)
      BY <1>6 DEF Cache!MtimeFastPath
    <3> QED
      BY <3>1, <3>2 DEF Cache!Get
  <2>3. Dated(m)
    BY DEF TreeInv
  <2>4. PICK U \in SUBSET Reads[m.command] : m.metadata \in [U -> 1 .. writes] /\ m.hash \in [U -> Holdings]
    BY <2>3 DEF Dated
  <2>5. DOMAIN m.metadata = T /\ U = T
    BY <2>2, <2>4
  <2>6. \A f \in T : m.metadata[f] = stamp[f]
    BY <1>2, <1>3, <2>2
  <2>7. \A f \in T : m.hash[f] = content[f]
    BY <2>2, <2>3, <2>5, <2>6 DEF Dated
  <2> QED
    BY <2>2, <2>4, <2>5, <2>7
<1>7. e \in results /\ e.command = c /\ e.hash = [f \in T |-> content[f]]
  BY <1>4, <1>5, <1>6 DEF Cache!CachedResult, Cache!Get
<1>8. e.seen \in [Reads[c] -> Holdings]
  BY <1>7 DEF TreeInv, Stored
<1>9. e.hash = [f \in {f \in Reads[c] : e.seen[f] # 0} |-> e.seen[f]]
  BY <1>7 DEF Cache!Exact
<1>10. {f \in Reads[c] : e.seen[f] # 0} = T
  BY <1>7, <1>9
<1>11. ASSUME NEW f \in Reads[c] PROVE e.seen[f] = content[f]
  <2>1. CASE f \in T
    <3>1. e.hash[f] = e.seen[f]
      BY <1>9, <1>10, <2>1
    <3>2. e.hash[f] = content[f]
      BY <1>7, <2>1
    <3> QED
      BY <3>1, <3>2
  <2>2. CASE f \notin T
    <3>1. e.seen[f] = 0
      BY <1>10, <2>2
    <3>2. content[f] = 0
      BY <1>3, <2>2
    <3> QED
      BY <3>1, <3>2
  <2> QED
    BY <2>1, <2>2
<1> QED
  BY <1>8, <1>11 DEF Cache!Present

LEMMA CacheSafe == CacheInv => Cache!TypeOK /\ Cache!AnswersThePresent /\ Cache!HitsAreEarned
<1> SUFFICES ASSUME CacheInv
             PROVE  Cache!TypeOK /\ Cache!AnswersThePresent /\ Cache!HitsAreEarned
  OBVIOUS
<1>1. TreeInv /\ RunsInv /\ \A p \in Pipelines : RunFits(p, run[p])
  BY DEF CacheInv, RunsInv
<1>2. \A p \in Pipelines : hitsFile[p].commands \subseteq earned /\ hitsFile[p].age \in {"fresh", "stale"}
  BY <1>1 DEF RunsInv, HitRecords
<1>3. Cache!TypeOK
  <2>1. content \in [Inputs -> 0 .. MaxWrites] /\ writes \in 0 .. MaxWrites
    BY <1>1 DEF TreeInv, Holdings
  <2>2. stamp \in [Inputs -> 0 .. MaxWrites]
    BY <1>1, KernelAssumption DEF TreeInv, Holdings
  <2>3. earned \subseteq DOMAIN Reads
    BY <1>1 DEF RunsInv
  <2> QED
    BY <1>1, <1>2, <2>1, <2>2, <2>3 DEF RunFits, RunPhases, Cache!TypeOK, Cache!Commands
<1>4. Cache!AnswersThePresent
  <2>1. ASSUME NEW p \in Pipelines, run[p].phase = "step",
               \A f \in Reads[Cache!Command(p)] : stamp[f] = run[p].index[f],
               \A m \in Cache!Get(metas, Cache!Command(p), SiteOf[p]) :
                 m.metadata = Cache!IndexMetadata(Cache!Command(p), p) => m.whole,
               NEW e \in Cache!CacheRead(Cache!Command(p), p), Cache!Exact(e)
        PROVE  e.seen = Cache!Present(Cache!Command(p))
    <3>1. Cache!Command(p) \in DOMAIN Reads
      BY <1>1, <2>1, CommandIsOne
    <3> QED
      BY <1>1, <2>1, <3>1, AnswerIsPresent
  <2> QED
    BY <2>1 DEF Cache!AnswersThePresent
<1>5. Cache!HitsAreEarned
  BY <1>1, <1>2 DEF RunFits, Cache!HitsAreEarned
<1> QED
  BY <1>3, <1>4, <1>5

-----------------------------------------------------------------------------
(* A command. While a call waits for an answer the body it started last is  *)
(* running, so nothing has been reported of that body; whatever is reported *)
(* as done can write no more.                                               *)
SiteTargets == {"none"} \cup DOMAIN OwnOf
BodyRecords ==
  [adapter : {"readonly", "recording", "real"}, site : SiteTargets,
   state : {"running", "ended"}, intents : SUBSET Files]
Reports == [ok : BOOLEAN, timeout : BOOLEAN, files : SUBSET Files, body : Nat]
CallRecords ==
  [phase : {"idle", "next", "race"}, name : DOMAIN Declares \cup {"none"}, todo : Seq(SiteTargets),
   reports : Seq(Reports), all : BOOLEAN, dry : BOOLEAN, bounded : BOOLEAN]
ExecTypes ==
  /\ call \in CallRecords /\ bodies \in Seq(BodyRecords) /\ disk \in [Files -> SUBSET Nat]
  /\ calls \in 0 .. MaxCalls
Racing ==
  call.phase = "race" =>
    Len(bodies) # 0 /\ bodies[Len(bodies)].state = "running" /\ call.todo # <<>>
Truthful(r) ==
  /\ r.body <= Len(bodies)
  /\ r.ok => r.body # 0 /\ bodies[r.body].state = "ended" /\ r.files = bodies[r.body].intents
  /\ ~ r.ok => r.files = {}
  /\ r.body # 0 /\ bodies[r.body].state = "running" => r.timeout
DiskInv ==
  \A f \in Files : \A i \in disk[f] : i \in 1 .. Len(bodies) /\ bodies[i].adapter = "real"
ExecInv ==
  /\ ExecTypes /\ Racing /\ DiskInv
  /\ \A k \in 1 .. Len(call.reports) : Truthful(call.reports[k])

LEMMA ExecInit == Exec!Init => ExecInv
<1> SUFFICES ASSUME Exec!Init PROVE ExecInv
  OBVIOUS
<1>1. /\ call = [phase |-> "idle", name |-> "none", todo |-> <<>>, reports |-> <<>>, all |-> FALSE,
                 dry |-> FALSE, bounded |-> FALSE]
      /\ bodies = <<>> /\ calls = 0 /\ disk = [f \in Files |-> {}]
  BY DEF Exec!Init, Exec!NoCall, Exec!None
<1>2. <<>> \in Seq(SiteTargets) /\ <<>> \in Seq(Reports) /\ <<>> \in Seq(BodyRecords)
  OBVIOUS
<1>3. call \in CallRecords
  BY <1>1, <1>2 DEF CallRecords
<1>4. ExecTypes
  BY <1>1, <1>2, <1>3, KernelAssumption DEF ExecTypes
<1> QED
  BY <1>1, <1>4 DEF ExecInv, Racing, DiskInv

\* The sites a call goes to.
LEMMA TargetsAre ==
  ASSUME NEW name, NEW all \in BOOLEAN, NEW place \in {"none", Sites[Len(Sites)]}
  PROVE  Exec!Target(name, all, place) \in Seq(SiteTargets)
<1>1. Sites \in Seq(DOMAIN OwnOf) /\ Len(Sites) >= 1
  BY KernelAssumption
<1>2. Sites \in Seq(SiteTargets) /\ Sites[Len(Sites)] \in SiteTargets
  BY <1>1 DEF SiteTargets
<1>3. SubSeq(Sites, 1, 1) \in Seq(SiteTargets)
  BY <1>1, <1>2
<1>4. <<"none">> \in Seq(SiteTargets) /\ <<place>> \in Seq(SiteTargets)
  BY <1>2 DEF SiteTargets
<1> QED
  BY <1>2, <1>3, <1>4 DEF Exec!Target, Exec!EnsureTargetSites, Exec!None

\* A call that has nothing to report, and bodies as they were.
LEMMA CallBegins ==
  ASSUME ExecInv, call' \in CallRecords, call'.reports = <<>>, call'.phase # "race",
         UNCHANGED <<bodies, disk>>, calls' \in 0 .. MaxCalls
  PROVE  ExecInv'
<1>1. ExecTypes' /\ DiskInv'
  BY DEF ExecInv, ExecTypes, DiskInv
<1> QED
  BY <1>1 DEF ExecInv, Racing

\* The first site of what is left to do is one, and so are the others.
LEMMA CallAnswered ==
  ASSUME ExecInv, call.todo # <<>>, NEW r \in Reports,
         call' = [call EXCEPT !.phase = "next", !.todo = Tail(@), !.reports = Append(@, r)]
  PROVE  /\ call' \in CallRecords /\ call'.phase = "next"
         /\ call'.reports = Append(call.reports, r)
<1>1. call \in CallRecords /\ call.todo \in Seq(SiteTargets) /\ call.reports \in Seq(Reports)
  BY DEF ExecInv, ExecTypes, CallRecords
<1>2. Tail(call.todo) \in Seq(SiteTargets) /\ Append(call.reports, r) \in Seq(Reports)
  BY <1>1
<1> QED
  BY <1>1, <1>2 DEF CallRecords

\* Bodies and their answers, after a body changed or one was added.
LEMMA ReportsStay ==
  ASSUME ExecInv, Len(bodies') \in Nat, Len(bodies) <= Len(bodies'),
         NEW k \in 1 .. Len(call.reports),
         \A j \in 1 .. Len(bodies) :
           /\ bodies[j].state = "ended" => bodies'[j] = bodies[j]
           /\ bodies'[j].state = "running" => bodies[j].state = "running",
         NEW r, r = call.reports[k]
  PROVE  /\ r.body <= Len(bodies')
         /\ r.ok => r.body # 0 /\ bodies'[r.body].state = "ended" /\ r.files = bodies'[r.body].intents
         /\ ~ r.ok => r.files = {}
         /\ r.body # 0 /\ bodies'[r.body].state = "running" => r.timeout
<1>1. /\ Len(bodies) \in Nat /\ Truthful(r) /\ r \in Reports
  BY DEF ExecInv, ExecTypes, CallRecords
<1>2. r.body \in Nat
  BY <1>1 DEF Reports
<1>3. r.body # 0 => r.body \in 1 .. Len(bodies)
  BY <1>1, <1>2 DEF Truthful
<1> QED
  BY <1>1, <1>2, <1>3 DEF Truthful

\* An answer that tells what its body did by then, and bodies that went on.
LEMMA AnswerGiven ==
  ASSUME ExecInv, call.todo # <<>>, NEW r \in Reports,
         call' = [call EXCEPT !.phase = "next", !.todo = Tail(@), !.reports = Append(@, r)],
         bodies' \in Seq(BodyRecords), Len(bodies) <= Len(bodies'), UNCHANGED <<disk, calls>>,
         \A j \in 1 .. Len(bodies) :
           /\ bodies[j].state = "ended" => bodies'[j] = bodies[j]
           /\ bodies'[j].state = "running" => bodies[j].state = "running",
         DiskInv', Truthful(r)'
  PROVE  ExecInv'
<1>1. /\ call.reports \in Seq(Reports) /\ Len(bodies') \in Nat
  BY DEF ExecInv, ExecTypes, CallRecords
<1>2. call' \in CallRecords /\ call'.phase = "next" /\ call'.reports = Append(call.reports, r)
  BY CallAnswered
<1>3. ExecTypes' /\ Racing'
  BY <1>2 DEF ExecInv, ExecTypes, Racing
<1>4. \A k \in 1 .. Len(call'.reports) :
        call'.reports[k] = r \/ (k \in 1 .. Len(call.reports) /\ call'.reports[k] = call.reports[k])
  BY <1>1, <1>2
<1>5. ASSUME NEW k \in 1 .. Len(call'.reports) PROVE Truthful(call.reports[k])'
  <2>1. CASE call'.reports[k] = r
    BY <2>1 DEF Truthful
  <2>2. CASE k \in 1 .. Len(call.reports) /\ call'.reports[k] = call.reports[k]
    BY <1>1, <2>2, ReportsStay DEF Truthful
  <2> QED
    BY <1>4, <2>1, <2>2
<1> QED
  BY <1>3, <1>5 DEF ExecInv

LEMMA ExecStep == ExecInv /\ Exec!Next => ExecInv'
<1> SUFFICES ASSUME ExecInv, Exec!Next PROVE ExecInv'
  OBVIOUS
<1>1. /\ call \in CallRecords /\ bodies \in Seq(BodyRecords) /\ Len(bodies) \in Nat
      /\ \A i \in 1 .. Len(bodies) : bodies[i] \in BodyRecords
      /\ call.reports \in Seq(Reports) /\ Len(call.reports) \in Nat /\ call.todo \in Seq(SiteTargets)
      /\ calls \in Nat /\ calls <= MaxCalls /\ MaxCalls \in Nat /\ disk \in [Files -> SUBSET Nat]
  BY KernelAssumption DEF ExecInv, ExecTypes, CallRecords
<1>2. /\ <<>> \in Seq(SiteTargets) /\ <<>> \in Seq(Reports)
  OBVIOUS
<1>3. Exec!NoCall \in CallRecords /\ Exec!NoCall.reports = <<>> /\ Exec!NoCall.phase = "idle"
  BY <1>2 DEF Exec!NoCall, Exec!None, CallRecords
<1>4. ASSUME NEW name \in DOMAIN Declares, NEW all \in BOOLEAN, NEW dry \in BOOLEAN, NEW bounded \in BOOLEAN,
             NEW target \in {"none", Sites[Len(Sites)]},
             Exec!ExecuteKernelCommand(name, all, target, dry, bounded)
      PROVE  ExecInv'
  <2>1. PICK todo \in Seq(SiteTargets) : todo = Exec!Target(name, all, target)
    BY TargetsAre
  <2>2. /\ call' = [Exec!NoCall EXCEPT !.phase = "next", !.name = name, !.todo = todo,
                                       !.all = all, !.dry = dry, !.bounded = bounded]
        /\ UNCHANGED <<bodies, disk>> /\ calls < MaxCalls /\ calls' = calls + 1
    BY <1>4, <2>1 DEF Exec!ExecuteKernelCommand
  <2>3. call' \in CallRecords /\ call'.reports = <<>> /\ call'.phase = "next"
    BY <1>3, <2>1, <2>2 DEF CallRecords
  <2>4. calls' \in 0 .. MaxCalls
    BY <1>1, <2>2
  <2> QED
    BY <2>2, <2>3, <2>4, CallBegins
<1>5. ASSUME NEW name \in DOMAIN Declares, NEW all \in BOOLEAN, Exec!RefuseCall(name, all)
      PROVE  ExecInv'
  <2>1. UNCHANGED <<call, bodies, disk>> /\ calls < MaxCalls /\ calls' = calls + 1
    BY <1>5 DEF Exec!RefuseCall
  <2>2. calls' \in 0 .. MaxCalls
    BY <1>1, <2>1
  <2>3. ExecTypes' /\ Racing' /\ DiskInv' /\ \A r : Truthful(r)' <=> Truthful(r)
    BY <2>1, <2>2 DEF ExecInv, ExecTypes, Racing, DiskInv, Truthful
  <2> QED
    BY <2>1, <2>3 DEF ExecInv
<1>6. CASE Exec!FlagErrors
  <2>1. PICK r : r = [ok |-> FALSE, timeout |-> FALSE, files |-> {}, body |-> 0]
    OBVIOUS
  <2>2. /\ call.phase = "next" /\ call.todo # <<>> /\ UNCHANGED <<bodies, disk, calls>>
        /\ call' = [call EXCEPT !.todo = Tail(@), !.reports = Append(@, r)]
    BY <1>6, <2>1 DEF Exec!FlagErrors
  <2>3. r \in Reports /\ Truthful(r)
    BY <1>1, <2>1 DEF Reports, Truthful
  <2>4. call' = [call EXCEPT !.phase = "next", !.todo = Tail(@), !.reports = Append(@, r)]
    BY <1>1, <2>2 DEF CallRecords
  <2>5. Truthful(r)' /\ DiskInv'
    BY <2>2, <2>3 DEF ExecInv, DiskInv, Truthful
  <2>6. /\ bodies' \in Seq(BodyRecords) /\ Len(bodies) <= Len(bodies')
        /\ \A j \in 1 .. Len(bodies) :
             /\ bodies[j].state = "ended" => bodies'[j] = bodies[j]
             /\ bodies'[j].state = "running" => bodies[j].state = "running"
    BY <1>1, <2>2
  <2> QED
    BY <2>2, <2>3, <2>4, <2>5, <2>6, AnswerGiven
<1>7. CASE Exec!StartBody
  <2>1. PICK b : b = [adapter |-> Exec!Adapter(call.name, call.dry), site |-> Head(call.todo),
                      state |-> "running", intents |-> {}]
    OBVIOUS
  <2>2. /\ call.phase = "next" /\ call.todo # <<>> /\ UNCHANGED <<disk, calls>>
        /\ bodies' = Append(bodies, b) /\ call' = [call EXCEPT !.phase = "race"]
    BY <1>7, <2>1 DEF Exec!StartBody
  <2>3. b \in BodyRecords /\ b.state = "running"
    <3>1. Head(call.todo) \in SiteTargets
      BY <1>1, <2>2
    <3>2. Exec!Adapter(call.name, call.dry) \in {"readonly", "recording", "real"}
      BY DEF Exec!Adapter
    <3> QED
      BY <2>1, <3>1, <3>2 DEF BodyRecords
  <2>4. /\ bodies' \in Seq(BodyRecords) /\ Len(bodies') = Len(bodies) + 1
        /\ bodies'[Len(bodies) + 1] = b /\ \A i \in 1 .. Len(bodies) : bodies'[i] = bodies[i]
    BY <1>1, <2>2, <2>3
  <2>5. call' \in CallRecords /\ call'.reports = call.reports /\ call'.phase = "race"
    BY <1>1, <2>2 DEF CallRecords
  <2>6. ExecTypes' /\ Racing'
    BY <1>1, <2>2, <2>3, <2>4, <2>5 DEF ExecInv, ExecTypes, Racing
  <2>7. DiskInv'
    BY <1>1, <2>2, <2>4 DEF ExecInv, DiskInv
  <2>8. Len(bodies') \in Nat /\ Len(bodies) <= Len(bodies')
    BY <1>1, <2>4
  <2>9. \A k \in 1 .. Len(call'.reports) : Truthful(call.reports[k])'
    BY <2>4, <2>5, <2>8, ReportsStay DEF Truthful
  <2> QED
    BY <2>6, <2>7, <2>9 DEF ExecInv
<1>8. CASE Exec!Throw
  BY <1>1, <1>3, <1>8, CallBegins DEF Exec!Throw
<1>9. CASE Exec!Return
  BY <1>1, <1>3, <1>9, CallBegins DEF Exec!Return
<1>10. CASE Exec!TimeOut
  <2>1. PICK r : r = [ok |-> FALSE, timeout |-> TRUE, files |-> {}, body |-> Len(bodies)]
    OBVIOUS
  <2>2. /\ UNCHANGED <<bodies, disk, calls>> /\ call.phase = "race"
        /\ call' = [call EXCEPT !.phase = "next", !.todo = Tail(@), !.reports = Append(@, r)]
    BY <1>10, <2>1 DEF Exec!TimeOut, Exec!Answered, Exec!Answer
  <2>3. r \in Reports /\ Truthful(r)
    BY <1>1, <2>1 DEF Reports, Truthful
  <2>4. Truthful(r)' /\ DiskInv' /\ call.todo # <<>>
    BY <2>2, <2>3 DEF ExecInv, DiskInv, Racing, Truthful
  <2>5. /\ bodies' \in Seq(BodyRecords) /\ Len(bodies) <= Len(bodies')
        /\ \A j \in 1 .. Len(bodies) :
             /\ bodies[j].state = "ended" => bodies'[j] = bodies[j]
             /\ bodies'[j].state = "running" => bodies[j].state = "running"
    BY <1>1, <2>2
  <2> QED
    BY <2>2, <2>3, <2>4, <2>5, AnswerGiven
<1>11. ASSUME NEW i \in DOMAIN bodies, NEW f \in Files, Exec!Write(i, f) PROVE ExecInv'
  <2>1. i \in 1 .. Len(bodies) /\ bodies[i] \in BodyRecords
    BY <1>1
  <2>2. /\ bodies[i].state = "running" /\ bodies[i].adapter # "readonly"
        /\ bodies' = [bodies EXCEPT ![i].intents = @ \cup {f}] /\ UNCHANGED <<call, calls>>
        /\ disk' = IF bodies[i].adapter = "real" THEN [disk EXCEPT ![f] = @ \cup {i}] ELSE disk
    BY <1>11 DEF Exec!Write
  <2>3. PICK b : b = [bodies[i] EXCEPT !.intents = @ \cup {f}]
    OBVIOUS
  <2>4. b \in BodyRecords /\ b.state = bodies[i].state /\ b.adapter = bodies[i].adapter
    BY <2>1, <2>3 DEF BodyRecords
  <2>5. /\ bodies' \in Seq(BodyRecords) /\ Len(bodies') = Len(bodies)
        /\ bodies'[i] = b /\ \A j \in 1 .. Len(bodies) : j # i => bodies'[j] = bodies[j]
    BY <1>1, <2>1, <2>2, <2>3, <2>4
  <2>6. disk' \in [Files -> SUBSET Nat]
    BY <1>1, <2>1, <2>2
  <2>7. ExecTypes' /\ Racing'
    BY <1>1, <2>2, <2>4, <2>5, <2>6 DEF ExecInv, ExecTypes, Racing
  <2>8. \A g \in Files : \A j \in disk'[g] : j \in disk[g] \/ (j = i /\ bodies[i].adapter = "real")
    BY <1>1, <2>2
  <2>9. DiskInv'
    BY <2>1, <2>4, <2>5, <2>8 DEF ExecInv, DiskInv
  <2>10. Len(bodies') \in Nat /\ Len(bodies) <= Len(bodies')
    BY <1>1, <2>5
  <2>11. \A j \in 1 .. Len(bodies) :
           /\ bodies[j].state = "ended" => bodies'[j] = bodies[j]
           /\ bodies'[j].state = "running" => bodies[j].state = "running"
    BY <2>2, <2>4, <2>5
  <2>12. \A k \in 1 .. Len(call'.reports) : Truthful(call.reports[k])'
    BY <2>2, <2>10, <2>11, ReportsStay DEF Truthful
  <2> QED
    BY <2>7, <2>9, <2>12 DEF ExecInv
<1>12. ASSUME NEW i \in DOMAIN bodies, NEW ok \in BOOLEAN, Exec!EndBody(i, ok) PROVE ExecInv'
  <2>1. i \in 1 .. Len(bodies) /\ bodies[i] \in BodyRecords
    BY <1>1
  <2>2. /\ bodies[i].state = "running" /\ bodies' = [bodies EXCEPT ![i].state = "ended"]
        /\ UNCHANGED <<disk, calls>>
        /\ call' = IF Exec!Awaited(i) THEN Exec!Answered(Exec!Answer(ok, FALSE)) ELSE call
    BY <1>12 DEF Exec!EndBody
  <2>3. PICK b : b = [bodies[i] EXCEPT !.state = "ended"]
    OBVIOUS
  <2>4. /\ b \in BodyRecords /\ b.state = "ended" /\ b.adapter = bodies[i].adapter
        /\ b.intents = bodies[i].intents
    BY <2>1, <2>3 DEF BodyRecords
  <2>5. /\ bodies' \in Seq(BodyRecords) /\ Len(bodies') = Len(bodies)
        /\ bodies'[i] = b /\ \A j \in 1 .. Len(bodies) : j # i => bodies'[j] = bodies[j]
    BY <1>1, <2>1, <2>2, <2>3, <2>4
  <2>6. DiskInv'
    BY <2>2, <2>4, <2>5 DEF ExecInv, DiskInv
  <2>7. Len(bodies') \in Nat /\ Len(bodies) <= Len(bodies')
    BY <1>1, <2>5
  <2>8. \A j \in 1 .. Len(bodies) :
           /\ bodies[j].state = "ended" => bodies'[j] = bodies[j]
           /\ bodies'[j].state = "running" => bodies[j].state = "running"
    BY <2>2, <2>4, <2>5
  <2>9. CASE Exec!Awaited(i)
    <3>1. call.phase = "race" /\ i = Len(bodies)
      BY <2>9 DEF Exec!Awaited
    <3>2. PICK r : r = [ok |-> ok, timeout |-> FALSE, files |-> IF ok THEN bodies[i].intents ELSE {},
                        body |-> i]
      OBVIOUS
    <3>3. call' = [call EXCEPT !.phase = "next", !.todo = Tail(@), !.reports = Append(@, r)]
      BY <2>2, <2>9, <3>1, <3>2 DEF Exec!Answered, Exec!Answer
    <3>4. r \in Reports
      BY <1>1, <2>1, <3>2 DEF Reports, BodyRecords
    <3>5. Truthful(r)'
      BY <2>1, <2>4, <2>5, <3>2, <3>4 DEF Truthful
    <3>6. call.todo # <<>>
      BY <3>1 DEF ExecInv, Racing
    <3> QED
      BY <2>2, <2>5, <2>6, <2>7, <2>8, <3>3, <3>4, <3>5, <3>6, AnswerGiven
  <2>10. CASE ~ Exec!Awaited(i)
    <3>1. call' = call /\ (call.phase = "race" => i # Len(bodies))
      BY <2>2, <2>10 DEF Exec!Awaited
    <3>2. ExecTypes'
      BY <2>2, <2>5, <3>1 DEF ExecInv, ExecTypes
    <3>4. Racing'
      <4>1. call.phase = "race" => Len(bodies) # i /\ Len(bodies) \in 1 .. Len(bodies)
        BY <1>1, <3>1 DEF ExecInv, Racing
      <4>2. call.phase = "race" => bodies'[Len(bodies)] = bodies[Len(bodies)]
        BY <2>5, <4>1
      <4> QED
        BY <2>5, <3>1, <4>2 DEF ExecInv, Racing
    <3>3. \A k \in 1 .. Len(call'.reports) : Truthful(call.reports[k])'
      BY <2>7, <2>8, <3>1, ReportsStay DEF Truthful
    <3> QED
      BY <2>6, <3>2, <3>3, <3>4 DEF ExecInv
  <2> QED
    BY <2>9, <2>10
<1> QED
  BY <1>4, <1>5, <1>6, <1>7, <1>8, <1>9, <1>10, <1>11, <1>12 DEF Exec!Next, Exec!Names, Exec!None

LEMMA ExecSafe == ExecInv => Exec!TypeOK /\ Exec!ReportsMatchTheBodies /\ Exec!OnlyRealRunsWrite
<1> SUFFICES ASSUME ExecInv
             PROVE  Exec!TypeOK /\ Exec!ReportsMatchTheBodies /\ Exec!OnlyRealRunsWrite
  OBVIOUS
<1>1. /\ call \in CallRecords /\ bodies \in Seq(BodyRecords) /\ Len(bodies) \in Nat
      /\ DOMAIN bodies = 1 .. Len(bodies) /\ \A i \in 1 .. Len(bodies) : bodies[i] \in BodyRecords
      /\ DOMAIN call.reports = 1 .. Len(call.reports)
      /\ \A k \in 1 .. Len(call.reports) : call.reports[k] \in Reports
  BY DEF ExecInv, ExecTypes, CallRecords
<1>2. Exec!TypeOK
  BY <1>1 DEF ExecInv, ExecTypes, DiskInv, CallRecords, BodyRecords, Exec!TypeOK
<1>3. Exec!ReportsMatchTheBodies
  BY <1>1 DEF ExecInv, Truthful, Exec!ReportsMatchTheBodies
<1>4. \A k \in 1 .. Len(call.reports) :
        ~ call.reports[k].timeout /\ call.reports[k].body # 0
          => call.reports[k].body \in 1 .. Len(bodies) /\ bodies[call.reports[k].body].state = "ended"
  BY <1>1 DEF ExecInv, Truthful, BodyRecords, Reports
<1>5. Exec!OnlyRealRunsWrite
  BY <1>1, <1>4 DEF ExecInv, DiskInv, Exec!OnlyRealRunsWrite
<1> QED
  BY <1>2, <1>3, <1>5

-----------------------------------------------------------------------------
(* An argument vector. Until the parse gets to the flag that was added at   *)
(* the end, nothing has taken its name and nothing stands before it that    *)
(* would swallow it; what would is an error.                                *)
Words == {"true", "x", "s"} \cup {t.name : t \in Tokens}
Passed == Tokens \cup {Argv!Site("flag"), [is |-> "value", name |-> "s"]}
Rules == {"KERNEL-ARG-01", "KERNEL-FLAG-01", "KERNEL-FLAG-02", "KERNEL-FLAG-03"}
WasInjected ==
  /\ Len(argv) >= 2 /\ argv[Len(argv) - 1] = Argv!Site("flag")
  /\ argv[Len(argv)] = [is |-> "value", name |-> "s"]
  /\ \A i \in 1 .. (Len(argv) - 2) : ~ (argv[i].is \in {"flag", "inline"} /\ argv[i].name = "site")
NoneTook(F) == \A n \in DOMAIN Schema \ {"site"} : \A i \in DOMAIN F[n] : F[n][i] # "site"
ArgvTypes ==
  /\ strict \in BOOLEAN /\ passthrough \in BOOLEAN /\ argv \in Seq(Passed)
  /\ read \in Nat /\ read <= Len(argv) + 1
  /\ flags \in [DOMAIN Schema -> Seq(Words)] /\ diags \in Seq(Rules)
ArgvInv ==
  /\ ArgvTypes
  /\ WasInjected /\ diags = <<>> =>
       /\ \/ read <= Len(argv) - 2 /\ flags["site"] = <<>>
          \/ read >= Len(argv) /\ flags["site"] = <<"s">>
       /\ NoneTook(flags)

LEMMA ArgvCount == \A S : Argv!Cardinality(S) = Cardinality(S)
  BY DEF Argv!Cardinality, Cardinality

LEMMA InjectedIs ==
  ASSUME NEW args \in Seq(Passed), NEW t, t = Argv!Injected(args)
  PROVE  /\ t \in Seq(Passed)
         /\ Len(t) = Len(args) + 2 =>
              /\ t[Len(args) + 1] = Argv!Site("flag")
              /\ t[Len(args) + 2] = [is |-> "value", name |-> "s"]
              /\ \A i \in 1 .. Len(args) : t[i] = args[i]
              /\ \A i \in 1 .. Len(args) : ~ (args[i].is \in {"flag", "inline"} /\ args[i].name = "site")
         /\ Len(t) = Len(args) \/ Len(t) = Len(args) + 2
<1>1. PICK added : added = <<Argv!Site("flag"), [is |-> "value", name |-> "s"]>>
  OBVIOUS
<1>2. /\ added \in Seq(Passed) /\ Len(added) = 2
      /\ added[1] = Argv!Site("flag") /\ added[2] = [is |-> "value", name |-> "s"]
  BY <1>1 DEF Passed
<1>3. CASE \E i \in DOMAIN args : args[i].is \in {"flag", "inline"} /\ args[i].name = "site"
  <2>1. t = args
    BY <1>3 DEF Argv!Injected
  <2> QED
    BY <2>1
<1>4. CASE ~ (\E i \in DOMAIN args : args[i].is \in {"flag", "inline"} /\ args[i].name = "site")
  <2>1. t = args \o added
    BY <1>1, <1>4 DEF Argv!Injected
  <2>2. /\ t \in Seq(Passed) /\ Len(t) = Len(args) + 2
        /\ \A i \in 1 .. Len(args) : t[i] = args[i]
        /\ t[Len(args) + 1] = added[1] /\ t[Len(args) + 2] = added[2]
    <3>1. Len(args) \in Nat /\ added \in Seq(Passed) /\ Len(added) = 2
      BY <1>2
    <3>2. /\ args \o added \in Seq(Passed) /\ Len(args \o added) = Len(args) + Len(added)
          /\ \A i \in 1 .. (Len(args) + Len(added)) :
               (args \o added)[i] = IF i <= Len(args) THEN args[i] ELSE added[i - Len(args)]
      BY <3>1, ConcatProperties
    <3>3. /\ t \in Seq(Passed) /\ Len(t) = Len(args) + 2
          /\ \A i \in 1 .. (Len(args) + 2) : t[i] = IF i <= Len(args) THEN args[i] ELSE added[i - Len(args)]
      BY <2>1, <3>1, <3>2
    <3> QED
      BY <3>1, <3>3
  <2> QED
    BY <1>2, <1>4, <2>2
<1> QED
  BY <1>3, <1>4

LEMMA InjectedAtTheEnd ==
  ASSUME ArgvTypes, Argv!Injected(SubSeq(argv, 1, Len(argv) - 2)) = argv
  PROVE  WasInjected
<1>1. PICK n, b : n = Len(argv) /\ b = SubSeq(argv, 1, n - 2)
  OBVIOUS
<1>2. n \in Nat /\ argv \in Seq(Passed)
  BY <1>1 DEF ArgvTypes
<1>3. /\ b \in Seq(Passed) /\ (n >= 2 => Len(b) = n - 2) /\ (n < 2 => Len(b) = 0)
      /\ \A i \in 1 .. (n - 2) : b[i] = argv[i]
  BY <1>1, <1>2
<1>4. Len(argv) = Len(b) \/ Len(argv) = Len(b) + 2
  BY <1>1, <1>3, InjectedIs
<1>5. (n >= 2 /\ Len(argv) = Len(b) + 2) \/ n = 0
  BY <1>1, <1>2, <1>3, <1>4
<1>6. ASSUME n = 0 PROVE FALSE
  <2>1. ~ (\E i \in DOMAIN b : b[i].is \in {"flag", "inline"} /\ b[i].name = "site")
    BY <1>3, <1>6
  <2>2. argv = b \o <<Argv!Site("flag"), [is |-> "value", name |-> "s"]>>
    BY <1>1, <2>1 DEF Argv!Injected
  <2>3. <<Argv!Site("flag"), [is |-> "value", name |-> "s"]>> \in Seq(Passed)
    BY DEF Passed
  <2>4. Len(argv) = Len(b) + 2
    BY <1>3, <2>2, <2>3
  <2> QED
    BY <1>1, <1>3, <1>6, <2>4
<1>7. n >= 2 /\ Len(argv) = Len(b) + 2 /\ Len(b) = n - 2
  BY <1>3, <1>5, <1>6
<1>8. /\ argv[Len(b) + 1] = Argv!Site("flag") /\ argv[Len(b) + 2] = [is |-> "value", name |-> "s"]
      /\ \A i \in 1 .. Len(b) : argv[i] = b[i]
      /\ \A i \in 1 .. Len(b) : ~ (b[i].is \in {"flag", "inline"} /\ b[i].name = "site")
  BY <1>1, <1>3, <1>7, InjectedIs
<1>9. Len(b) + 1 = n - 1 /\ Len(b) + 2 = n
  BY <1>2, <1>7
<1> QED
  BY <1>1, <1>7, <1>8, <1>9 DEF WasInjected

LEMMA ArgvInit == Argv!Init => ArgvInv
<1> SUFFICES ASSUME Argv!Init PROVE ArgvInv
  OBVIOUS
<1>1. PICK args \in Argv!SeqOf(Tokens, MaxTokens) : argv = Argv!Injected(args)
  BY DEF Argv!Init
<1>2. args \in Seq(Tokens)
  BY DEF Argv!SeqOf
<1>3. args \in Seq(Passed)
  BY <1>2 DEF Passed
<1>4. argv \in Seq(Passed)
  BY <1>1, <1>3, InjectedIs
<1>5. /\ strict \in BOOLEAN /\ passthrough = FALSE /\ read = 0 /\ diags = <<>>
      /\ flags = [n \in DOMAIN Schema |-> <<>>]
  BY DEF Argv!Init, Argv!NoFlags
<1>6. ArgvTypes
  <2>1. <<>> \in Seq(Words) /\ <<>> \in Seq(Rules) /\ Len(argv) \in Nat
    BY <1>4
  <2>2. flags \in [DOMAIN Schema -> Seq(Words)]
    BY <1>5, <2>1
  <2>3. 0 <= Len(argv) + 1
    BY <2>1
  <2> QED
    BY <1>4, <1>5, <2>1, <2>2, <2>3 DEF ArgvTypes
<1>7. WasInjected => read <= Len(argv) - 2
  BY <1>4, <1>5 DEF WasInjected
<1>8. flags["site"] = <<>> /\ NoneTook(flags)
  BY <1>5, KernelAssumption DEF NoneTook
<1> QED
  BY <1>6, <1>7, <1>8 DEF ArgvInv

(* What a value does to the flags.                                          *)
LEMMA ValuesAdded ==
  ASSUME NEW F \in [DOMAIN Schema -> Seq(Words)], NEW n \in DOMAIN Schema, NEW v \in Words,
         NEW G, G = Argv!AddFlagValue(F, n, v)
  PROVE  /\ G \in [DOMAIN Schema -> Seq(Words)]
         /\ \A m \in DOMAIN Schema \ {n} : G[m] = F[m]
         /\ F[n] = <<>> => G[n] = <<v>>
         /\ NoneTook(F) /\ v # "site" => NoneTook(G)
<1>1. CASE F[n] = <<>> \/ F[n] = <<"true">>
  <2>1. G = [F EXCEPT ![n] = <<v>>]
    BY <1>1 DEF Argv!AddFlagValue
  <2>2. <<v>> \in Seq(Words) /\ DOMAIN <<v>> = {1} /\ <<v>>[1] = v
    OBVIOUS
  <2>3. G \in [DOMAIN Schema -> Seq(Words)] /\ G[n] = <<v>> /\ \A m \in DOMAIN Schema \ {n} : G[m] = F[m]
    BY <2>1, <2>2
  <2>4. ASSUME NoneTook(F), v # "site", NEW m \in DOMAIN Schema \ {"site"}, NEW i \in DOMAIN G[m]
        PROVE  G[m][i] # "site"
    <3>1. CASE m = n
      BY <2>2, <2>3, <2>4, <3>1
    <3>2. CASE m # n
      BY <2>3, <2>4, <3>2 DEF NoneTook
    <3> QED
      BY <3>1, <3>2
  <2> QED
    BY <2>3, <2>4 DEF NoneTook
<1>2. CASE ~ (F[n] = <<>> \/ F[n] = <<"true">>) /\ v = "true"
  BY <1>2 DEF Argv!AddFlagValue
<1>3. CASE ~ (F[n] = <<>> \/ F[n] = <<"true">>) /\ v # "true"
  <2>1. PICK s : s = Append(F[n], v)
    OBVIOUS
  <2>2. G = [F EXCEPT ![n] = s]
    BY <1>3, <2>1 DEF Argv!AddFlagValue
  <2>3. F[n] \in Seq(Words)
    OBVIOUS
  <2>4. s \in Seq(Words) /\ \A i \in DOMAIN s : s[i] = v \/ (i \in DOMAIN F[n] /\ s[i] = F[n][i])
    BY <2>1, <2>3
  <2>5. G \in [DOMAIN Schema -> Seq(Words)] /\ G[n] = s /\ \A m \in DOMAIN Schema \ {n} : G[m] = F[m]
    BY <2>2, <2>4
  <2>6. ASSUME NoneTook(F), v # "site", NEW m \in DOMAIN Schema \ {"site"}, NEW i \in DOMAIN G[m]
        PROVE  G[m][i] # "site"
    <3>1. CASE m = n
      BY <2>4, <2>5, <2>6, <3>1 DEF NoneTook
    <3>2. CASE m # n
      BY <2>5, <2>6, <3>2 DEF NoneTook
    <3> QED
      BY <3>1, <3>2
  <2> QED
    BY <1>3, <2>5, <2>6 DEF NoneTook
<1> QED
  BY <1>1, <1>2, <1>3

\* A step that complains needs nothing else.
LEMMA Complains ==
  ASSUME ArgvInv, NEW rule \in Rules, diags' = Append(diags, rule), read < Len(argv),
         read' = read + 1, UNCHANGED <<strict, argv, flags, passthrough>>
  PROVE  ArgvInv'
<1>1. diags' \in Seq(Rules) /\ diags' # <<>>
  BY DEF ArgvInv, ArgvTypes
<1>2. ArgvTypes'
  BY <1>1 DEF ArgvInv, ArgvTypes
<1> QED
  BY <1>1, <1>2 DEF ArgvInv

\* A step that records a value of a flag other than the injected one.
LEMMA Records ==
  ASSUME ArgvInv, NEW name, NEW value \in Words, value # "site", flags' = Argv!Record(name, value),
         NEW k \in {1, 2}, read' = read + k, read + k <= Len(argv), UNCHANGED <<strict, argv, diags, passthrough>>,
         WasInjected /\ diags = <<>> /\ read <= Len(argv) - 2 =>
           \/ name # "site" /\ read + k <= Len(argv) - 2
           \/ name = "site" /\ value = "s" /\ read + k = Len(argv),
         read < Len(argv)
  PROVE  ArgvInv'
<1>1. /\ flags' \in [DOMAIN Schema -> Seq(Words)]
      /\ \A m \in DOMAIN Schema \ {name} : flags'[m] = flags[m]
      /\ name = "site" /\ flags["site"] = <<>> => flags'["site"] = <<value>>
      /\ NoneTook(flags) => NoneTook(flags')
  <2>1. CASE name \in DOMAIN Schema
    BY <2>1, ValuesAdded DEF Argv!Record, ArgvInv, ArgvTypes
  <2>2. CASE name \notin DOMAIN Schema
    BY <2>2, KernelAssumption DEF Argv!Record, ArgvInv, ArgvTypes
  <2> QED
    BY <2>1, <2>2
<1>2. read \in Nat /\ Len(argv) \in Nat
  BY DEF ArgvInv, ArgvTypes
<1>3. ArgvTypes'
  BY <1>1, <1>2 DEF ArgvInv, ArgvTypes
<1>4. ASSUME WasInjected, diags = <<>>
      PROVE  /\ \/ read' <= Len(argv) - 2 /\ flags'["site"] = <<>>
                \/ read' >= Len(argv) /\ flags'["site"] = <<"s">>
             /\ NoneTook(flags')
  <2>1. read <= Len(argv) - 2 /\ flags["site"] = <<>> /\ NoneTook(flags)
    BY <1>2, <1>4 DEF ArgvInv
  <2>2. CASE name # "site" /\ read + k <= Len(argv) - 2
    BY <1>1, <2>1, <2>2, KernelAssumption
  <2>3. CASE name = "site" /\ value = "s" /\ read + k = Len(argv)
    BY <1>1, <1>2, <2>1, <2>3
  <2> QED
    BY <1>4, <2>1, <2>2, <2>3
<1> QED
  BY <1>3, <1>4 DEF ArgvInv, WasInjected

LEMMA ArgvStep == ArgvInv /\ Argv!Next => ArgvInv'
<1> SUFFICES ASSUME ArgvInv, Argv!Next PROVE ArgvInv'
  OBVIOUS
<1>1. /\ read \in Nat /\ Len(argv) \in Nat /\ argv \in Seq(Passed)
      /\ \A i \in 1 .. Len(argv) : argv[i] \in Passed
  BY DEF ArgvInv, ArgvTypes
<1>2. \A t \in Passed : t.name \in Words \cup {"site"} /\ (t.is = "value" => t.name \in Words /\ t.name # "site")
  BY KernelAssumption DEF Passed, Words, Argv!Site
<1>3. read < Len(argv) => Argv!Entry = argv[read + 1] /\ Argv!Entry \in Passed
  BY <1>1 DEF Argv!Entry
<1>4. ASSUME WasInjected, read <= Len(argv) - 2, read < Len(argv)
      PROVE  \/ read + 1 <= Len(argv) - 2
                /\ ~ (Argv!Entry.is \in {"flag", "inline"} /\ Argv!Entry.name = "site")
             \/ read = Len(argv) - 2 /\ Argv!Entry = Argv!Site("flag")
  <2>1. CASE read = Len(argv) - 2
    <3>1. read + 1 = Len(argv) - 1
      BY <1>1, <2>1
    <3> QED
      BY <1>3, <1>4, <2>1, <3>1 DEF WasInjected
  <2>2. CASE read < Len(argv) - 2
    <3>1. read + 1 \in 1 .. (Len(argv) - 2)
      BY <1>1, <2>2
    <3> QED
      BY <1>1, <1>3, <1>4, <3>1 DEF WasInjected
  <2> QED
    BY <1>1, <1>4, <2>1, <2>2
<1>5. Argv!Site("flag").is = "flag" /\ Argv!Site("flag").name = "site"
  BY DEF Argv!Site
<1>6. ~ Argv!IsSwitch("site")
  BY KernelAssumption DEF Argv!IsSwitch
<1>7. {"true", "x", "s"} \subseteq Words \ {"site"}
  BY DEF Words
<1>16. {"KERNEL-ARG-01", "KERNEL-FLAG-01", "KERNEL-FLAG-02"} \subseteq Rules
  BY DEF Rules
<1>8. CASE Argv!Positional
  BY <1>8, <1>16, Complains DEF Argv!Positional, Argv!Diagnose
<1>9. CASE Argv!UnknownFlag
  BY <1>9, <1>16, Complains DEF Argv!UnknownFlag, Argv!Diagnose
<1>10. CASE Argv!Separator
  <2>1. /\ read < Len(argv) /\ Argv!Entry.is = "end" /\ read' = read + 1 /\ passthrough' = TRUE
        /\ UNCHANGED <<strict, argv, flags, diags>>
    BY <1>10 DEF Argv!Separator
  <2>2. ArgvTypes'
    BY <2>1 DEF ArgvInv, ArgvTypes
  <2>3. WasInjected /\ read <= Len(argv) - 2 => read' <= Len(argv) - 2
    BY <1>4, <1>5, <2>1
  <2>4. ~ (read >= Len(argv))
    BY <1>1, <2>1
  <2> QED
    BY <2>1, <2>2, <2>3, <2>4 DEF ArgvInv, WasInjected
<1>11. CASE Argv!InlineValue
  <2>1. /\ read < Len(argv) /\ Argv!Entry.is = "inline" /\ read' = read + 1
        /\ UNCHANGED <<strict, argv, diags, passthrough>>
    BY <1>11 DEF Argv!InlineValue
  <2>2. PICK value \in {"true", "x"} : flags' = Argv!Record(Argv!Entry.name, value)
    BY <1>11 DEF Argv!InlineValue
  <2>3. WasInjected /\ read <= Len(argv) - 2 => Argv!Entry.name # "site" /\ read + 1 <= Len(argv) - 2
    BY <1>4, <1>5, <2>1
  <2>4. read + 1 <= Len(argv)
    BY <1>1, <2>1
  <2> QED
    BY <1>7, <2>1, <2>2, <2>3, <2>4, Records
<1>12. CASE Argv!Switch
  <2>1. /\ read < Len(argv) /\ Argv!Entry.is = "flag" /\ Argv!IsSwitch(Argv!Entry.name) /\ read' = read + 1
        /\ flags' = Argv!Record(Argv!Entry.name, "true") /\ UNCHANGED <<strict, argv, diags, passthrough>>
    BY <1>12 DEF Argv!Switch
  <2>2. WasInjected /\ read <= Len(argv) - 2 => Argv!Entry.name # "site" /\ read + 1 <= Len(argv) - 2
    BY <1>4, <1>5, <1>6, <2>1
  <2>3. read + 1 <= Len(argv)
    BY <1>1, <2>1
  <2> QED
    BY <1>7, <2>1, <2>2, <2>3, Records
<1>13. CASE Argv!FlagWithValue
  <2>1. /\ read < Len(argv) /\ Argv!Entry.is = "flag" /\ read' = read + 2
        /\ flags' = Argv!Record(Argv!Entry.name, argv[read + 2].name)
        /\ read + 2 <= Len(argv) /\ argv[read + 2].is = "value"
        /\ UNCHANGED <<strict, argv, diags, passthrough>>
    BY <1>13 DEF Argv!FlagWithValue, Argv!NextIsValue
  <2>2. read + 2 \in 1 .. Len(argv)
    BY <1>1, <2>1
  <2>3. argv[read + 2].name \in Words /\ argv[read + 2].name # "site"
    BY <1>1, <1>2, <2>1, <2>2
  <2>4. ASSUME WasInjected, read <= Len(argv) - 2
        PROVE  \/ Argv!Entry.name # "site" /\ read + 2 <= Len(argv) - 2
               \/ Argv!Entry.name = "site" /\ argv[read + 2].name = "s" /\ read + 2 = Len(argv)
    <3>1. CASE read = Len(argv) - 2 /\ Argv!Entry = Argv!Site("flag")
      <4>1. read + 2 = Len(argv)
        BY <1>1, <3>1
      <4> QED
        BY <1>5, <2>4, <3>1, <4>1 DEF WasInjected
    <3>2. CASE read + 1 <= Len(argv) - 2 /\ Argv!Entry.name # "site"
      <4>1. read + 2 # Len(argv) - 1
        BY <1>5, <2>1, <2>4 DEF WasInjected
      <4> QED
        BY <1>1, <3>2, <4>1
    <3> QED
      BY <1>4, <2>1, <2>4, <3>1, <3>2
  <2> QED
    BY <2>1, <2>3, <2>4, Records
<1>14. CASE Argv!FlagWithoutValue
  <2>1. CASE strict
    BY <1>14, <1>16, <2>1, Complains DEF Argv!FlagWithoutValue, Argv!Diagnose
  <2>2. CASE ~ strict
    <3>1. /\ read < Len(argv) /\ Argv!Entry.is = "flag" /\ read' = read + 1
          /\ ~ (read + 2 <= Len(argv) /\ argv[read + 2].is = "value")
          /\ flags' = Argv!Record(Argv!Entry.name, "true") /\ UNCHANGED <<strict, argv, diags, passthrough>>
      BY <1>14, <2>2 DEF Argv!FlagWithoutValue, Argv!NextIsValue
    <3>2. ASSUME WasInjected, read = Len(argv) - 2 PROVE FALSE
      <4>1. read + 2 = Len(argv)
        BY <1>1, <3>2
      <4> QED
        BY <1>1, <3>1, <3>2, <4>1 DEF WasInjected
    <3>3. WasInjected /\ read <= Len(argv) - 2 => Argv!Entry.name # "site" /\ read + 1 <= Len(argv) - 2
      BY <1>4, <3>1, <3>2
    <3>4. read + 1 <= Len(argv)
      BY <1>1, <3>1
    <3> QED
      BY <1>7, <3>1, <3>3, <3>4, Records
  <2> QED
    BY <2>1, <2>2
<1>15. CASE Argv!Resolve
  <2>1. PICK missing : missing = [i \in 1 .. Argv!Cardinality(Argv!Missing) |-> "KERNEL-FLAG-03"]
    OBVIOUS
  <2>2. /\ read = Len(argv) /\ read' = read + 1 /\ diags' = diags \o missing
        /\ UNCHANGED <<strict, argv, flags, passthrough>>
    BY <1>15, <2>1 DEF Argv!Resolve
  <2>3. Cardinality(Argv!Missing) \in Nat
    <3>1. IsFiniteSet(DOMAIN Schema) /\ Argv!Missing \subseteq DOMAIN Schema
      BY KernelAssumption DEF Argv!Missing
    <3> QED
      BY <3>1, FS_Subset, FS_CardinalityType
  <2>4. missing \in Seq(Rules)
    <3>1. PICK k : k = Cardinality(Argv!Missing) /\ k \in Nat
      BY <2>3
    <3>2. missing = [i \in 1 .. k |-> "KERNEL-FLAG-03"]
      BY <2>1, <3>1, ArgvCount
    <3>3. missing \in [1 .. k -> Rules]
      BY <3>2 DEF Rules
    <3> QED
      BY <3>1, <3>3
  <2>5. diags \in Seq(Rules)
    BY DEF ArgvInv, ArgvTypes
  <2>6. diags' \in Seq(Rules) /\ (diags' = <<>> => diags = <<>>)
    BY <2>2, <2>4, <2>5
  <2>7. ArgvTypes'
    BY <1>1, <2>2, <2>6 DEF ArgvInv, ArgvTypes
  <2>8. ~ (read <= Len(argv) - 2) /\ read' >= Len(argv)
    BY <1>1, <2>2
  <2> QED
    BY <2>2, <2>6, <2>7, <2>8 DEF ArgvInv, WasInjected
<1> QED
  BY <1>8, <1>9, <1>10, <1>11, <1>12, <1>13, <1>14, <1>15 DEF Argv!Next

LEMMA ArgvSafe == ArgvInv => Argv!TypeOK /\ Argv!InjectionIsInert
<1> SUFFICES ASSUME ArgvInv PROVE Argv!TypeOK /\ Argv!InjectionIsInert
  OBVIOUS
<1>1. Len(argv) \in Nat /\ read \in Nat
  BY DEF ArgvInv, ArgvTypes
<1>2. Argv!TypeOK
  BY <1>1 DEF ArgvInv, ArgvTypes, Argv!TypeOK
<1>3. ASSUME read >= Len(argv), diags = <<>>, WasInjected
      PROVE  flags["site"] = <<"s">> /\ NoneTook(flags)
  BY <1>1, <1>3 DEF ArgvInv
<1>4. Argv!InjectionIsInert
  BY <1>3, InjectedAtTheEnd DEF Argv!InjectionIsInert, ArgvInv, NoneTook
<1> QED
  BY <1>2, <1>4

-----------------------------------------------------------------------------
(* A behaviour is about one component, and the others' steps leave it.      *)
PartInv ==
  /\ part = "cache" => CacheInv
  /\ part = "command" => ExecInv
  /\ part = "argv" => ArgvInv
  /\ part = "gitmesh" => MeshInv
  /\ part = "swim" => SwimInv
  /\ part = "dht" => DhtInv
  /\ part = "deploy" => DeployInv
  /\ part = "store" => StoreInv
  /\ part = "gates" => GatesInv

LEMMA PartInit == Init => PartInv
BY CacheInit, ExecInit, ArgvInit, MeshInit, SwimInit, DhtInit, DeployInit, StoreInit, GatesInit
  DEF Init, PartInv

LEMMA PartStep == PartInv /\ [Next]_vars => PartInv'
<1> SUFFICES ASSUME PartInv, [Next]_vars PROVE PartInv'
  OBVIOUS
<1>1. part' = part
  BY DEF Next, vars
<1>2. ASSUME part = "gitmesh" PROVE MeshInv'
  <2>1. CASE Mesh!Next
    BY <1>2, <2>1, MeshStep DEF PartInv
  <2>2. CASE UNCHANGED gitmeshVars
    <3>1. UNCHANGED <<head, remote, tracking, lock, sync, broken, had, received, last, verify, counted>>
          /\ MeshInv
      BY <1>2, <2>2 DEF PartInv, gitmeshVars
    <3>2. \A p \in Syncs : MayMerge(p)'
      BY <3>1 DEF MeshInv, MayMerge, Mesh!Ancestors
    <3>3. Mesh!HeadKeepsHistory' /\ Mesh!NothingEscapesVerification'
      BY <3>1 DEF MeshInv, Mesh!HeadKeepsHistory, Mesh!NothingEscapesVerification, Mesh!Ancestors
    <3> QED
      BY <3>1, <3>2, <3>3 DEF MeshInv, LockHeld
  <2> QED
    BY <1>2, <2>1, <2>2 DEF Next, vars
<1>3. ASSUME part = "deploy" PROVE DeployInv'
  <2>1. CASE Deploy!Next
    BY <1>3, <2>1, DeployStep DEF PartInv
  <2>2. CASE UNCHANGED deployVars
    <3>1. UNCHANGED <<dirs, current, previous, worker, gc, switched, overlapped>> /\ DeployInv
      BY <1>3, <2>2 DEF PartInv, deployVars
    <3>2. DirsInv' /\ \A h : Stands(h)' <=> Stands(h)
      BY <3>1 DEF DeployInv, DeployTypes, DirsInv, Stands
    <3> QED
      BY <3>1, <3>2 DEF DeployInv, DeployTypes, LinksInv, WayInv, Switching
  <2> QED
    BY <1>3, <2>1, <2>2 DEF Next, vars
<1>4. ASSUME part = "store" PROVE StoreInv'
  <2>1. CASE Store!Next
    BY <1>4, <2>1, StoreStep DEF PartInv
  <2>2. CASE UNCHANGED storeVars
    BY <1>4, <2>2 DEF PartInv, storeVars, StoreInv, StoreTypes, OneManifest, StillFound, UnderWay
  <2> QED
    BY <1>4, <2>1, <2>2 DEF Next, vars
<1>5. ASSUME part = "gates" PROVE GatesInv'
  <2>1. CASE Gates!Next
    BY <1>5, <2>1, GatesStep DEF PartInv
  <2>2. CASE UNCHANGED gatesVars
    BY <1>5, <2>2 DEF PartInv, gatesVars, GatesInv, BrokerInv, GateInv
  <2> QED
    BY <1>5, <2>1, <2>2 DEF Next, vars
<1>6. ASSUME part = "swim" PROVE SwimInv'
  <2>1. CASE Swim!Next
    BY <1>6, <2>1, SwimStep DEF PartInv
  <2>2. CASE UNCHANGED swimVars
    BY <1>6, <2>2 DEF PartInv, swimVars, SwimInv, SwimTypes, OwnComplete, OwnOrder
  <2> QED
    BY <1>6, <2>1, <2>2 DEF Next, vars
<1>7. ASSUME part = "dht" PROVE DhtInv'
  <2>1. CASE Table!Next
    BY <1>7, <2>1, DhtStep DEF PartInv
  <2>2. CASE UNCHANGED dhtVars
    BY <1>7, <2>2 DEF PartInv, dhtVars, DhtInv, DhtTypes, Kept, Cached, PlacedWell
  <2> QED
    BY <1>7, <2>1, <2>2 DEF Next, vars
<1>8. ASSUME part = "cache" PROVE CacheInv'
  <2>1. CASE Cache!Next
    BY <1>8, <2>1, CacheStep DEF PartInv
  <2>2. CASE UNCHANGED cacheVars
    <3>1. UNCHANGED <<content, stamp, writes, results, metas, hitsFile, run, earned>> /\ CacheInv
      BY <1>8, <2>2 DEF PartInv, cacheVars
    <3>2. TreeInv'
      BY <3>1, TreeRests DEF CacheInv
    <3>3. RunsInv'
      BY <3>1 DEF CacheInv, RunsInv, RunFits, HitRecords
    <3>4. HashesInv'
      BY <3>1 DEF CacheInv, HashesInv, HashFits, Dated
    <3> QED
      BY <3>2, <3>3, <3>4 DEF CacheInv
  <2> QED
    BY <1>8, <2>1, <2>2 DEF Next, vars
<1>9. ASSUME part = "command" PROVE ExecInv'
  <2>1. CASE Exec!Next
    BY <1>9, <2>1, ExecStep DEF PartInv
  <2>2. CASE UNCHANGED commandVars
    BY <1>9, <2>2 DEF PartInv, commandVars, ExecInv, ExecTypes, Racing, Truthful, DiskInv
  <2> QED
    BY <1>9, <2>1, <2>2 DEF Next, vars
<1>10. ASSUME part = "argv" PROVE ArgvInv'
  <2>1. CASE Argv!Next
    BY <1>10, <2>1, ArgvStep DEF PartInv
  <2>2. CASE UNCHANGED argvVars
    BY <1>10, <2>2 DEF PartInv, argvVars, ArgvInv, ArgvTypes, WasInjected
  <2> QED
    BY <1>10, <2>1, <2>2 DEF Next, vars
<1> QED
  BY <1>1, <1>2, <1>3, <1>4, <1>5, <1>6, <1>7, <1>8, <1>9, <1>10 DEF PartInv

(* While the files a command reads are as its run has indexed them, every   *)
(* exact report the cache answers with was made from what they hold now,    *)
(* unless the metadata it knows them by was stored by a step that read a    *)
(* file before it was written and its metadata after; and                   *)
(* only what the cache answered counts as a hit; a report tells what the    *)
(* body wrote, and no adapter of a dry run or a reading command reaches the *)
(* disk; the site that is injected into an argument vector is its value and *)
(* no other flag's (kernel/cache/, kernel/runtime/), for any pipelines,     *)
(* commands, sites, schemas and argument vectors.                           *)
THEOREM RunsDoAnswerThePresent == Spec => []RunsAnswerThePresent
<1>1. PartInv => RunsAnswerThePresent
  BY CacheSafe, ExecSafe, ArgvSafe DEF PartInv, RunsAnswerThePresent
<1> QED
  BY PartInit, PartStep, <1>1, PTL DEF Spec

(* Whatever is pushed, force-pushed and committed while syncs run, overlap  *)
(* and crash: no commit HEAD has been at is lost, a sync that verifies      *)
(* signatures (by default none does) brings in only commits with a good one,*)
(* two syncs are at work together only after a lock was taken over, and     *)
(* everything behind the last verified commit has been counted by some check*)
(* (kernel/gitmesh/), for any commits and their parents, timestamps and     *)
(* signatures, any remotes and any processes.                               *)
THEOREM MeshHistoryIsKept == Spec => []MeshKeepsHistory
<1>1. PartInv => MeshKeepsHistory
  BY MeshSafe DEF PartInv, MeshKeepsHistory
<1> QED
  BY PartInit, PartStep, <1>1, PTL DEF Spec

(* Clones that read the same entries, each with the key of its operator as  *)
(* soon as it has one, see the same members, whatever clocks,               *)
(* torn appends and merges did, and a merge in either direction gives the   *)
(* same entries; a cached lookup serves an entry of this operator that was  *)
(* published; nobody is placed on a workshop without a free slot, and with  *)
(* least-loaded never on one with fewer than another heard of (swim/, dht/),*)
(* for any workshops and keys, any times, any length of a log and any slots.*)
THEOREM PeersDoAgree == Spec => []PeersAgree
<1>1. PartInv => PeersAgree
  BY SwimSafe, DhtSafe DEF PartInv, PeersAgree
<1> QED
  BY PartInit, PartStep, <1>1, PTL DEF Spec

(* As long as no collection of old artifacts overlapped a switch, the links *)
(* of a host name artifacts that are there with a manifest, through crashes *)
(* of builds and swaps; after a switch its artifact can be gone back to;    *)
(* and what is found for a release is what it stored last, whichever puts   *)
(* of other releases overlap (deploy/, artifact-store/), for any artifacts, *)
(* releases and trees and any number of artifacts retained.                 *)
THEOREM ArtifactsDoStand == Spec => []ArtifactsStand
<1>1. PartInv => ArtifactsStand
  BY DeploySafe, StoreSafe DEF PartInv, ArtifactsStand
<1> QED
  BY PartInit, PartStep, <1>1, PTL DEF Spec

(* The broker's count is the requests in flight and stays within its limit, *)
(* every request is logged once when it is answered, and in any stretch as  *)
(* long as a window a channel lets through at most twice the rate of a      *)
(* window, wherever the stretch begins (isolation/, agent-gate/), for any   *)
(* requests, any limit, any window and any rate.                            *)
THEOREM BudgetsAreHeld == Spec => []BudgetsHold
<1>1. PartInv => BudgetsHold
  BY GatesSafe DEF PartInv, BudgetsHold
<1> QED
  BY PartInit, PartStep, <1>1, PTL DEF Spec
=============================================================================
