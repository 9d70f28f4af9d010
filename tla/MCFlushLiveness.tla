---------------------------- MODULE MCFlushLiveness ----------------------------
(* The two flushes of a repository, which share no state: a behaviour is one of *)
(* the lease manager with one artifact, or of the observation ledger with two   *)
(* threads that flush.                                                          *)
EXTENDS ArtifactLeases, ObservationLedger, TLC

CONSTANTS o1, a1, p1, s1, v1, v2, r1, f1, f2

OneOwner == {o1}
OneArtifact == {a1}
OneProducer == {p1}
OneScope == {s1}
TwoVectors == {v1, v2}
OneRecorder == {r1}
TwoFlushers == {f1, f2}
NoneOversized == {}
MCSize == [v \in Vectors |-> IF v = v2 THEN 2 ELSE 1]

VARIABLE part

FlushInit == part \in {"leases", "ledger"} /\ Init /\ LedgerInit
FlushNext ==
    /\ UNCHANGED part
    /\ \/ part = "leases" /\ Next /\ UNCHANGED ledgerVars
       \/ part = "ledger" /\ LedgerNext /\ UNCHANGED vars
FlushSpec ==
    /\ FlushInit /\ [][FlushNext]_<<part, vars, ledgerVars>>
    /\ part = "leases" => Fairness
    /\ part = "ledger" => LedgerFairness

\* Every flush of either kind, and the close of the ledger, end.
FlushesEnd == FlushEnds /\ LedgerFlushEnds /\ CloseEnds
=============================================================================
