---------------------------- MODULE MCEvidence ----------------------------
(* For TLC, each in behaviours of its own: EvidenceFlow, ReleaseFlow (whose  *)
(* packs hold evidence bundles), AnchorChecks and CertificationChecks.  The  *)
(* authority's certificate is issued by an intermediate it sends along.      *)
EXTENDS EvidenceFlow, ReleaseFlow, AnchorChecks, CertificationChecks

VARIABLE part
mcVars == <<flowVars, releaseVars, probe, trial, part>>

MCTsaInter == Cert("one", "root", "none")
MCTsaCert == [Cert("signer", "one", "none") EXCEPT !.to = 99, !.ca = FALSE]
MCTsaPool == <<MCTsaCert, [MCTsaInter EXCEPT !.to = 99]>>
MCTsaRoots == <<[Cert("root", "root", "none") EXCEPT !.to = 99]>>

HopSymmetry == Permutations(Hops)
Still == FlowInit /\ ahead = 0
MCInit ==
    \/ part = "evidence" /\ FlowInit /\ ReleaseInit /\ probe = NoProbe /\ trial = NoTrial
    \/ part = "release" /\ Still /\ ReleaseInit /\ probe = NoProbe /\ trial = NoTrial
    \/ part = "anchors" /\ Still /\ ReleaseInit /\ ProbeInit /\ trial = NoTrial
    \/ part = "decision" /\ Still /\ ReleaseInit /\ probe = NoProbe /\ TrialInit
MCNext ==
    \/ part = "evidence" /\ FlowNext /\ UNCHANGED <<releaseVars, probe, trial, part>>
    \/ part = "release" /\ ReleaseNext /\ UNCHANGED <<flowVars, probe, trial, part>>
    \/ part = "anchors" /\ NextDay /\ UNCHANGED <<flowVars, releaseVars, trial, part>>
MCSpec == MCInit /\ [][MCNext]_mcVars
===============================================================================
