----------------------------- MODULE TrustChain -----------------------------
(***************************************************************************)
(* A trust chain through the decisions reviewers take on it: built once    *)
(* with whatever the source, the authority and the evidence are worth, and *)
(* rebuilt from itself by every decision (app/trust.py).  decide_finding   *)
(* applies each decision to the chain as created; that the functions bear  *)
(* more than one is a statement about them alone.                          *)
(***************************************************************************)
EXTENDS TrustRules

VARIABLES chain,
          built    \* what the first chain was built from, and the last decision

vars == <<chain, built>>

Init ==
  \E source \in Source, authority \in Authority, evidence \in SUBSET Evidence,
     human \in Human :
    /\ built = [source |-> source, authority |-> authority, evidence |-> evidence,
                human |-> human]
    /\ chain = Chain(source, authority, evidence, human)

Decide(human) ==
  /\ chain' = WithDecision(chain, human)
  /\ built' = [built EXCEPT !.human = human]

Next == \E human \in Human : Decide(human)

Spec == Init /\ [][Next]_vars

-----------------------------------------------------------------------------
(* Properties *)

TypeOK ==
  /\ built \in [source : Source, authority : Authority, evidence : SUBSET Evidence,
                human : Human]
  /\ chain.assurance \in {"insufficient", "traceable", "verified"}
  /\ chain.eligible \in BOOLEAN

\* The rule the blockers, the assurance level and the eligibility flag add up to.
MayAct(approvedBy) ==
  /\ built.source.verified
  /\ \/ built.source.authenticity = "original_as_received"
     \/ /\ built.source.authenticity = "verified_issuer"
        /\ built.authority.status = "authoritative"
  /\ built.authority.complete
  /\ built.evidence # {}
  /\ \A item \in built.evidence : item.located /\ item.hashFits
  /\ built.human.status = "approved" /\ built.human.dated
  /\ built.human.actor # NoActor
  /\ built.human.actor = approvedBy

(* validate_for_consequential_action finds nothing to object to exactly when the rule    *)
(* holds for the caller: the three encodings of it (blockers, assurance, the eligible    *)
(* flag) never disagree, after any decisions in any order.                               *)
ActsExactlyWhenAllowed ==
  \A approvedBy \in Actors \cup {NoActor} :
    Reasons(chain, approvedBy) = {} <=> MayAct(approvedBy)

(* A decision replaces the one before it without a trace: however many approvals and     *)
(* rejections a chain went through, it is the chain the last one alone would have given. *)
DecisionsLeaveNoResidue ==
  chain = Chain(built.source, built.authority, built.evidence, built.human)
=============================================================================
