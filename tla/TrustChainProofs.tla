-------------------------- MODULE TrustChainProofs --------------------------
(***************************************************************************)
(* TrustChain for any set of reviewers: a chain is always the one its last *)
(* decision alone would give, hence a consequential action is refused      *)
(* exactly when the stated rule does not hold.                             *)
(***************************************************************************)
EXTENDS TrustChain, TLAPS

Inputs == [source : Source, authority : Authority, evidence : SUBSET Evidence, human : Human]
BuiltInv == built \in Inputs /\ DecisionsLeaveNoResidue

LEMMA ChainKeepsParts ==
  ASSUME NEW source, NEW authority, NEW evidence, NEW human
  PROVE  LET c == Chain(source, authority, evidence, human)
         IN /\ c.source = source /\ c.authority = authority
            /\ c.evidence = evidence /\ c.human = human
  BY DEF Chain

LEMMA InitBuilt == Init => BuiltInv
  BY DEF Init, BuiltInv, Inputs, DecisionsLeaveNoResidue

LEMMA NextBuilt == BuiltInv /\ [Next]_vars => BuiltInv'
<1> SUFFICES ASSUME BuiltInv, [Next]_vars PROVE BuiltInv'
  OBVIOUS
<1>1. CASE UNCHANGED vars
  BY <1>1 DEF BuiltInv, DecisionsLeaveNoResidue, vars
<1>2. ASSUME NEW human \in Human, Decide(human) PROVE BuiltInv'
  <2>1. /\ built' \in Inputs /\ built'.human = human
        /\ built'.source = built.source /\ built'.authority = built.authority
        /\ built'.evidence = built.evidence
    BY <1>2 DEF BuiltInv, Inputs, Decide
  <2>2. chain' = Chain(built.source, built.authority, built.evidence, human)
    BY <1>2, ChainKeepsParts DEF BuiltInv, DecisionsLeaveNoResidue, Decide, WithDecision
  <2> QED BY <2>1, <2>2 DEF BuiltInv, DecisionsLeaveNoResidue
<1> QED BY <1>1, <1>2 DEF Next

(* No decision leaves a trace of the ones before it (with_human_decision). *)
THEOREM NoResidue == Spec => []DecisionsLeaveNoResidue
<1>1. BuiltInv => DecisionsLeaveNoResidue
  BY DEF BuiltInv
<1> QED BY <1>1, InitBuilt, NextBuilt, PTL DEF Spec

-----------------------------------------------------------------------------
LEMMA NothingBlocks ==
  ASSUME NEW source \in Source, NEW authority \in Authority,
         NEW evidence \in SUBSET Evidence, NEW human \in Human
  PROVE  Blockers(source, authority, evidence, human) = {} <=>
           /\ source.verified /\ source.authenticity # "unverified"
           /\ evidence # {} /\ \A item \in evidence : item.located /\ item.hashFits
           /\ authority.complete
           /\ human.status = "approved" /\ human.actor # NoActor /\ human.dated
<1>1. SourceBlockers(source) = {} <=>
        source.verified /\ source.authenticity # "unverified"
  BY DEF SourceBlockers, When, Source
<1>2. EvidenceBlockers(evidence) = {} <=>
        evidence # {} /\ \A item \in evidence : item.located /\ item.hashFits
  BY DEF EvidenceBlockers, When, Evidence
<1>3. AuthorityBlockers(authority) = {} <=> authority.complete
  BY DEF AuthorityBlockers, When, Authority
<1>4. HumanBlockers(human) = {} <=>
        human.status = "approved" /\ human.actor # NoActor /\ human.dated
  BY DEF HumanBlockers, When, Human, HumanStatus
<1> QED BY <1>1, <1>2, <1>3, <1>4 DEF Blockers

(* The heart of trust.py: with nothing to block it, a chain is eligible unless the       *)
(* issuer was verified but the authority speaks for the case only.                       *)
LEMMA EligibleMeans ==
  ASSUME NEW source \in Source, NEW authority \in Authority,
         NEW evidence \in SUBSET Evidence, NEW human \in Human
  PROVE  Chain(source, authority, evidence, human).eligible <=>
           /\ Blockers(source, authority, evidence, human) = {}
           /\ \/ source.authenticity = "original_as_received"
              \/ source.authenticity = "verified_issuer" /\ authority.status = "authoritative"
<1> DEFINE blockers == Blockers(source, authority, evidence, human)
<1>1. ASSUME blockers = {}
      PROVE  human.status = "approved" /\ source.authenticity # "unverified"
  BY <1>1, NothingBlocks
<1>2. ASSUME blockers = {}
      PROVE  Assurance(source, authority, blockers) \in {"traceable", "verified"} <=>
               \/ source.authenticity = "original_as_received"
               \/ source.authenticity = "verified_issuer" /\ authority.status = "authoritative"
  BY <1>2 DEF Assurance
<1>3. Chain(source, authority, evidence, human).eligible <=>
        /\ Assurance(source, authority, blockers) \in {"traceable", "verified"}
        /\ human.status = "approved"
        /\ blockers = {}
  BY DEF Chain
<1> QED BY <1>1, <1>2, <1>3

(* validate_for_consequential_action lets pass exactly the chains the rule allows.       *)
THEOREM ActsExactly == Spec => []ActsExactlyWhenAllowed
<1>1. BuiltInv => ActsExactlyWhenAllowed
  <2> SUFFICES ASSUME BuiltInv, NEW approvedBy \in Actors \cup {NoActor}
               PROVE  Reasons(chain, approvedBy) = {} <=> MayAct(approvedBy)
    BY DEF ActsExactlyWhenAllowed
  <2>1. /\ built.source \in Source /\ built.authority \in Authority
        /\ built.evidence \in SUBSET Evidence /\ built.human \in Human
    BY DEF BuiltInv, Inputs
  <2>2. /\ chain = Chain(built.source, built.authority, built.evidence, built.human)
        /\ chain.human = built.human
        /\ chain.blockers = Blockers(built.source, built.authority, built.evidence, built.human)
    BY DEF BuiltInv, DecisionsLeaveNoResidue, Chain
  <2>3. Reasons(chain, approvedBy) = {} <=>
          /\ chain.blockers = {} /\ chain.eligible
          /\ built.human.status = "approved" /\ built.human.actor = approvedBy
    BY <2>2 DEF Reasons, When
  <2>4. chain.eligible <=>
          /\ chain.blockers = {}
          /\ \/ built.source.authenticity = "original_as_received"
             \/ built.source.authenticity = "verified_issuer"
                /\ built.authority.status = "authoritative"
    BY <2>1, <2>2, EligibleMeans
  <2>5. chain.blockers = {} <=>
          /\ built.source.verified /\ built.source.authenticity # "unverified"
          /\ built.evidence # {} /\ \A item \in built.evidence : item.located /\ item.hashFits
          /\ built.authority.complete
          /\ built.human.status = "approved" /\ built.human.actor # NoActor
          /\ built.human.dated
    BY <2>1, <2>2, NothingBlocks
  <2> QED BY <2>3, <2>4, <2>5 DEF MayAct
<1> QED BY <1>1, InitBuilt, NextBuilt, PTL DEF Spec

-----------------------------------------------------------------------------
LEMMA ChainTyped ==
  ASSUME NEW source, NEW authority, NEW evidence, NEW human
  PROVE  LET c == Chain(source, authority, evidence, human)
         IN /\ c.assurance \in {"insufficient", "traceable", "verified"}
            /\ c.eligible \in BOOLEAN
<1> DEFINE blockers == Blockers(source, authority, evidence, human)
           assurance == Assurance(source, authority, blockers)
<1>1. assurance \in {"insufficient", "traceable", "verified"}
  <2> HIDE DEF blockers
  <2> QED BY DEF Assurance
<1>2. /\ Chain(source, authority, evidence, human).assurance = assurance
      /\ Chain(source, authority, evidence, human).eligible =
           (/\ assurance \in {"traceable", "verified"}
            /\ human.status = "approved"
            /\ blockers = {})
  BY DEF Chain
<1> QED BY <1>1, <1>2

(* A chain's assurance is one of the three levels of the contract, after any decisions. *)
THEOREM ChainTypeCorrect == Spec => []TypeOK
<1>1. BuiltInv => TypeOK
  BY ChainTyped DEF BuiltInv, DecisionsLeaveNoResidue, Inputs, TypeOK
<1> QED BY <1>1, InitBuilt, NextBuilt, PTL DEF Spec
=============================================================================
