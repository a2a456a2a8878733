----------------------------- MODULE MCNachweis -----------------------------
(***************************************************************************)
(* Instances of Nachweis for TLC.                                          *)
(***************************************************************************)
EXTENDS Nachweis, TLC

CONSTANTS p1, p2, a, b

Displays == [s \in Slugs |-> {"document"}]
\* Record a is authored, record b does not exist, no command has run.
Fresh ==
  [entity |-> [s \in Slugs |-> IF s = a THEN Authored ELSE Absent],
   consent |-> [s \in Slugs |-> [x \in Aspects |-> "not_requested"]],
   ledger |-> [s \in Slugs \cup {Whole} |-> <<>>]]

\* The same after a public derivative of a, its consent, its signature and its
\* timestamp.
Ready ==
  LET e == [Authored EXCEPT !.items["public"] = 1] IN
  [entity |-> [Fresh.entity EXCEPT ![a] = e],
   consent |-> [Fresh.consent EXCEPT ![a] = [x \in Aspects |-> "granted"]],
   ledger |-> [Fresh.ledger EXCEPT ![a] =
     <<Entry("record", "derived"), Entry("consent", "updated"),
       [Entry("signed", "signed") EXCEPT !.payload = Payload(e)],
       [Entry("timestamped", "timestamped") EXCEPT !.payload = Payload(e)]>>]]

Sites == {Fresh, Ready}
FullApproval == {[level |-> "N3", legal |-> TRUE]}
AnyApproval == {[level |-> "N3", legal |-> TRUE], [level |-> "N3", legal |-> FALSE]}

\* "granted" is what the gate asks for, the other is one it does not know.
AnyStatus == {"granted", "revoked"}

EveryCommand == Names \ {"none"}

Symmetry == Permutations(Procs)

=============================================================================
