-------------------------- MODULE SystemRepository --------------------------
(***************************************************************************)
(* The git side of one Sternsystem: the cache clone every command works in *)
(* (../systems-cache/<id>), the bare repository it pushes to (mirrors[1]), *)
(* the external mirrors, and the ledger (bordbuch/events.ndjson) that lives*)
(* in the clone.  A repository is a value and every git command an operator*)
(* on it, so that a command of the werkstatt is a composition of them.     *)
(*                                                                         *)
(* A commit is its number in `objects`; its tree is the ledger, the        *)
(* currentMission of system-state.yaml and the set of operator edits the   *)
(* content carries.  `file` and `current` are the working tree.            *)
(***************************************************************************)
EXTENDS Naturals, Sequences, FiniteSets, SequencesExt, FiniteSetsExt

None == 0

(* One line of events.ndjson.  `prev` stands for id and previousHash: both *)
(* are computed from the entries the writer read before it wrote.          *)
Entry(kind, mission, prev) == [kind |-> kind, mission |-> mission, prev |-> prev]

Opening == {"mission-open"}
Terminal == {"mission-close", "mission-abort"}

OfMission(ledger, kinds, m) ==
  {i \in DOMAIN ledger : ledger[i].mission = m /\ ledger[i].kind \in kinds}

-----------------------------------------------------------------------------
(* The ledger's rules: validateBordbuch and bordbuch.repair.               *)

(* The mission of entry i is open when the entry is reached.               *)
OpenBefore(ledger, i) ==
  \E j \in OfMission(ledger, Opening, ledger[i].mission) :
    j < i /\ \A k \in OfMission(ledger, Terminal, ledger[i].mission) : ~(j < k /\ k < i)

Orphans(ledger) ==
  {i \in DOMAIN ledger : ledger[i].kind \in Terminal /\ ~OpenBefore(ledger, i)}

Unmatched(ledger) ==
  {ledger[i].mission : i \in {j \in DOMAIN ledger :
     /\ ledger[j].kind \in Opening
     /\ ~\E k \in OfMission(ledger, Terminal, ledger[j].mission) : j < k}}

Violations(ledger, current) ==
  {rule \in {"hash-chain-gap", "duplicate-mission-id", "orphan-mission-close",
             "unmatched-mission-open"} :
     \/ rule = "hash-chain-gap" /\ \E i \in DOMAIN ledger : ledger[i].prev # i - 1
     \/ rule = "duplicate-mission-id"
        /\ \E i, j \in DOMAIN ledger :
             /\ i # j /\ ledger[i].mission = ledger[j].mission
             /\ {ledger[i].kind, ledger[j].kind} \subseteq Opening
     \/ rule = "orphan-mission-close" /\ Orphans(ledger) # {}
     \/ rule = "unmatched-mission-open" /\ Unmatched(ledger) \ {current} # {}}

(* bordbuch.repair: a mission-open before every orphan, everything rehashed *)
Repaired(ledger) ==
  LET inserted == FoldLeftDomain(
        LAMBDA acc, i : acc \o (IF i \in Orphans(ledger)
                                  THEN <<Entry("mission-open", ledger[i].mission, 0)>>
                                  ELSE <<>>) \o <<ledger[i]>>,
        <<>>, ledger)
  IN  [i \in DOMAIN inserted |-> [inserted[i] EXCEPT !.prev = i - 1]]

-----------------------------------------------------------------------------
(* Commits.                                                                *)

Ancestors(r, c) == r.objects[c].older \cup {c}
HeadTree(r) == r.objects[r.head]
Dirty(r) == r.file # HeadTree(r).ledger \/ r.current # HeadTree(r).current
NewCommit(r) == Len(r.objects) + 1

(* Record a tree as a new commit with these parents and move HEAD to it.   *)
CommitTree(r, tree, parents) ==
  [r EXCEPT !.objects = Append(@, [tree EXCEPT !.parent = r.head,
                                               !.older = UNION {Ancestors(r, p) : p \in parents}]),
            !.head = NewCommit(r)]

CommitLedger(r) == CommitTree(r, [HeadTree(r) EXCEPT !.ledger = r.file], {r.head})

CommitAll(r) ==
  IF Dirty(r)
    THEN CommitTree(r, [HeadTree(r) EXCEPT !.ledger = r.file, !.current = r.current], {r.head})
    ELSE r

(* git reset --hard: the working tree follows.  A rebase that stopped on a *)
(* conflict stays unfinished: the branch cannot be pulled or pushed.       *)
Checkout(r, c) ==
  [r EXCEPT !.head = c, !.file = r.objects[c].ledger, !.current = r.objects[c].current,
            !.rebase = IF @ = "none" THEN "none" ELSE "detached"]

Readable(r) == r.rebase # "conflict"

\* Fault: a push that is not a fast-forward is forced.
ForcePush(r) == [r EXCEPT !.origin = r.head]

Push(r) ==
  IF r.rebase = "none" /\ r.origin \in Ancestors(r, r.head) THEN [r EXCEPT !.origin = r.head] ELSE r

(* The last push went through; a rebase that stopped has not pushed.       *)
Published(r) == r.rebase = "none" /\ r.origin = r.head

-----------------------------------------------------------------------------
(* Merging.                                                                *)

MergeBase(r, a, b) == r.objects[Max(Ancestors(r, a) \cap Ancestors(r, b))]
ThreeWay(base, ours, theirs) == IF ours = base THEN theirs ELSE ours
Clash(base, ours, theirs) == ours # base /\ theirs # base /\ ours # theirs

(* git pull --rebase origin <branch>.  The commits of the clone are replayed *)
(* on the bare head, as one commit here; a file changed on both sides stops  *)
(* the rebase with conflict markers in the working tree.                     *)
PullRebase(r) ==
  LET base == MergeBase(r, r.head, r.origin)
      up   == r.objects[r.origin]
      mine == HeadTree(r)
      merged == [up EXCEPT !.ledger = ThreeWay(base.ledger, mine.ledger, up.ledger),
                           !.current = ThreeWay(base.current, mine.current, up.current),
                           !.edits = mine.edits \cup up.edits]
  IN  IF Dirty(r) \/ r.rebase # "none" \/ r.origin \in Ancestors(r, r.head) THEN r
      ELSE IF r.head \in Ancestors(r, r.origin) THEN Checkout(r, r.origin)
      ELSE IF \/ Clash(base.ledger, mine.ledger, up.ledger)
              \/ Clash(base.current, mine.current, up.current)
        THEN [Checkout(r, r.origin) EXCEPT !.rebase = "conflict"]
      ELSE LET onto == CommitTree(Checkout(r, r.origin), merged, {r.origin})
           IN  Checkout(onto, onto.head)

(* git pull --rebase && git push, both of which must succeed.              *)
PullAndPush(r) == IF Dirty(r) THEN r ELSE Push(PullRebase(r))

(* git merge --no-ff of a workpiece: its history down to commit `at`, and   *)
(* the operator commits on top of it.  Files only the clone owns keep the   *)
(* clone's version.                                                         *)
UpToDate(r, at, edits) == at \in Ancestors(r, r.head) /\ edits \subseteq HeadTree(r).edits
MergeWorkpiece(r, at, edits) ==
  LET base   == MergeBase(r, r.head, at)
      theirs == r.objects[at]
      merged == [ledger |-> ThreeWay(base.ledger, HeadTree(r).ledger, theirs.ledger),
                 current |-> ThreeWay(base.current, HeadTree(r).current, theirs.current),
                 edits |-> HeadTree(r).edits \cup edits, parent |-> r.head, older |-> {}]
      m == CommitTree(r, merged, {r.head, at})
  IN  IF UpToDate(r, at, edits) THEN r ELSE Checkout(m, m.head)

-----------------------------------------------------------------------------
(* A freshly registered system: one commit, published everywhere.          *)
FreshRepository ==
  [objects |-> <<[ledger |-> <<>>, current |-> None, edits |-> {}, parent |-> 0, older |-> {}]>>,
   head |-> 1, file |-> <<>>, current |-> None, rebase |-> "none",
   origin |-> 1, external |-> 1, mirror |-> 1]

\* Fault: the commit stays in the clone.
WriteStateUnpushed(r, current, reachable) ==
  IF Readable(r) /\ HeadTree(r).current # current
    THEN CommitTree([r EXCEPT !.current = current], [HeadTree(r) EXCEPT !.current = current],
                    {r.head})
    ELSE [r EXCEPT !.current = current]

(* system-state.yaml is written, committed and pushed; nothing to commit   *)
(* and a refused push are ignored.                                         *)
WriteState(r, current, reachable) ==
  LET written == [r EXCEPT !.current = current]
      commit  == IF Readable(r) /\ HeadTree(r).current # current
                   THEN CommitTree(written, [HeadTree(r) EXCEPT !.current = current], {r.head})
                   ELSE written
  IN  IF reachable THEN Push(commit) ELSE commit
=============================================================================
