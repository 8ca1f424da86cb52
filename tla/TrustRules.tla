----------------------------- MODULE TrustRules -----------------------------
(***************************************************************************)
(* The pure rules of a finding's trust chain (app/trust.py): which blockers*)
(* a chain carries, its assurance, whether it is eligible for production,  *)
(* and why a consequential action is refused.                              *)
(* Digests, texts and identifiers are reduced to what the rules ask of     *)
(* them: is the source's SHA-256 verified, is an excerpt located and does  *)
(* its hash fit, has the authority a version and a source URL.             *)
(***************************************************************************)
EXTENDS FiniteSets

CONSTANTS Actors, NoActor    \* NoActor: None or the empty string

ASSUME ActorAssumption == NoActor \notin Actors

AuthenticityStatus == {"unverified", "original_as_received", "verified_issuer"}
HumanStatus == {"pending", "approved", "rejected"}

Source == [verified : BOOLEAN, authenticity : AuthenticityStatus]
Authority == [complete : BOOLEAN, status : {"authoritative", "case_specific"}]
Evidence == [located : BOOLEAN, hashFits : BOOLEAN]
Human == [status : HumanStatus, actor : Actors \cup {NoActor}, dated : BOOLEAN]

When(condition, blocker) == IF condition THEN {blocker} ELSE {}

SourceBlockers(source) ==
  When(~source.verified, "integrity_not_verified")
  \cup When(source.authenticity = "unverified", "source_authenticity_unverified")

EvidenceBlockersUnhashed(evidence) ==        \* mutant: excerpts are not hashed again
  When(evidence = {}, "exact_evidence_required")
  \cup When(\E item \in evidence : ~item.located, "exact_locator_required")
EvidenceBlockers(evidence) ==
  When(evidence = {}, "exact_evidence_required")
  \cup When(\E item \in evidence : ~item.located, "exact_locator_required")
  \cup When(\E item \in evidence : ~item.hashFits, "evidence_hash_mismatch")

AuthorityBlockers(authority) ==
  When(~authority.complete, "authority_version_or_source_missing")

HumanBlockers(human) ==
  When(human.status = "pending", "human_decision_pending")
  \cup When(human.status = "rejected", "human_decision_rejected")
  \cup When(human.status = "approved" /\ (human.actor = NoActor \/ ~human.dated),
            "approval_identity_required")

Blockers(source, authority, evidence, human) ==
  SourceBlockers(source) \cup EvidenceBlockers(evidence)
  \cup AuthorityBlockers(authority) \cup HumanBlockers(human)

NotStructural == {"source_authenticity_unverified", "human_decision_pending",
                  "human_decision_rejected"}

AssuranceAsReceived(source, authority, blockers) ==  \* mutant: the status is not mapped
  IF blockers \ NotStructural # {} THEN "insufficient" ELSE source.authenticity
Assurance(source, authority, blockers) ==
  CASE blockers \ NotStructural # {} -> "insufficient"
    [] blockers \ NotStructural = {} /\ source.authenticity = "original_as_received"
         -> "traceable"
    [] blockers \ NotStructural = {} /\ source.authenticity = "verified_issuer"
       /\ authority.status = "authoritative" -> "verified"
    [] OTHER -> "insufficient"

\* build_finding_trust_chain
Chain(source, authority, evidence, human) ==
  LET blockers == Blockers(source, authority, evidence, human)
      assurance == Assurance(source, authority, blockers)
  IN [source |-> source, authority |-> authority, evidence |-> evidence, human |-> human,
      assurance |-> assurance, blockers |-> blockers,
      eligible |-> /\ assurance \in {"traceable", "verified"}
                   /\ human.status = "approved"
                   /\ blockers = {}]

\* with_human_decision: the chain is built anew from its own parts.
WithDecisionKept(chain, human) ==            \* mutant: the old blockers stay
  LET next == Chain(chain.source, chain.authority, chain.evidence, human)
  IN [next EXCEPT !.blockers = next.blockers \cup (chain.blockers \ {"human_decision_pending"})]
WithDecision(chain, human) ==
  Chain(chain.source, chain.authority, chain.evidence, human)

\* validate_for_consequential_action
Reasons(chain, approvedBy) ==
  chain.blockers
  \cup When(~chain.eligible, "finding_not_production_eligible")
  \cup When(chain.human.status # "approved", "human_approval_not_recorded")
  \cup When(chain.human.actor # approvedBy, "human_approval_mismatch")
=============================================================================
