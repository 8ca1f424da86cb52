------------------------ MODULE FindingLedgerProofs ------------------------
(***************************************************************************)
(* FindingLedger for any number of processes, reviewers, rules and         *)
(* decisions.  The inductive invariant says, beyond the types: the order   *)
(* of the decisions has a last one; ids are drawn once; a decision in      *)
(* preparation is younger than the ones its reviewer saw and no older than *)
(* the finding; the source, once changed, never becomes intact again.      *)
(***************************************************************************)
EXTENDS FindingLedger, TLAPS

Reviewing == {"stamp", "append"}
Creating == {"verify", "save"}

HasLatest ==
  decisions # {} => \E d \in decisions : \A e \in decisions \ {d} : Before(e, d)

LEMMA LatestIsLast ==
  ASSUME HasLatest, decisions # {}
  PROVE  /\ LatestOf(decisions) \in decisions
         /\ \A e \in decisions \ {LatestOf(decisions)} : Before(e, LatestOf(decisions))
  BY DEF HasLatest, LatestOf

LEMMA CurrentTyped ==
  ASSUME TypeOK, HasLatest
  PROVE  Current \in Human
<1>1. CASE decisions = {}
  BY <1>1 DEF Current, Pending, Human, HumanStatus
<1>2. CASE decisions # {}
  <2>1. LatestOf(decisions) \in Decision
    BY <1>2, LatestIsLast DEF TypeOK
  <2> QED BY <1>2, <2>1 DEF Current, HumanOf, Decision, Reviews, Human, HumanStatus
<1> QED BY <1>1, <1>2

LEMMA RuleTyped ==
  ASSUME TypeOK, NEW p \in Servers
  PROVE  RuleOf(p) \in Entries \cup {NoEntry}
  BY DEF TypeOK, RuleOf

LEMMA InitTypeOK == Init => TypeOK
  BY LedgerAssumption
  DEF Init, TypeOK, Moments, NoDraft, Draft, Unseen, Pending, Human, HumanStatus, Reviews

Places == {"idle", "verify", "save", "view", "stamp", "append", "decisions",
           "upload", "blob", "rule", "sweepUploads", "deleteUploads"}

(* TypeOK in parts, so that an action proves anew only what it touches. *)
ClockOK == now \in Moments
DocumentOK ==
  /\ upload \in [stored : BOOLEAN, created : Moments]
  /\ blob \in {"original", "altered", "gone"} /\ (upload.stored <=> blob # "gone")
RulesOK ==
  /\ rulesFile \in Entries \cup {NoEntry}
  /\ cache \in [Servers -> Entries \cup {NoEntry, Unloaded}]
FindingOK ==
  finding \in [status : {"unborn", "drafted", "stored", "gone"}, created : {0} \cup Moments,
               entry : Entries \cup {NoEntry}]
DecisionsOK ==
  /\ decisions \subseteq Decision /\ ids \subseteq DecisionIds
  /\ \A d, e \in decisions : d.id = e.id => d = e
  /\ lastAppended \in Reviews \cup {"none"}
DraftsOK ==
  /\ draft \in [Servers -> Draft]
  /\ \A p \in Servers : /\ pc[p] = "stamp" => draft[p].status # "none" /\ draft[p].actor \in Actors
                        /\ pc[p] = "append" => draft[p] \in Decision
SeenOK == seen \in [Servers -> [human : Human, source : BOOLEAN, was : BOOLEAN]]

TypeOKParts ==
  /\ ClockOK /\ DocumentOK /\ RulesOK /\ FindingOK /\ DecisionsOK
  /\ pc \in [Servers -> Places] /\ DraftsOK /\ SeenOK

LEMMA TypeParts == (TypeOK <=> TypeOKParts) /\ (TypeOK' <=> TypeOKParts')
  BY DEF TypeOK, TypeOKParts, ClockOK, DocumentOK, RulesOK, FindingOK, DecisionsOK, DraftsOK,
         SeenOK, Places

LEMMA Moved ==
  ASSUME TypeOK, NEW p \in Servers, NEW place \in Places \ Reviewing,
         Goto(p, place), UNCHANGED draft
  PROVE  pc' \in [Servers -> Places] /\ DraftsOK'
<1>1. pc' \in [Servers -> Places] /\ \A q \in Servers : pc'[q] \in Reviewing => pc'[q] = pc[q]
  BY TypeParts DEF TypeOKParts, Goto
<1>2. DraftsOK
  BY TypeParts DEF TypeOKParts
<1> QED BY <1>1, <1>2 DEF DraftsOK, Reviewing

LEMMA RulesLoaded ==
  ASSUME TypeOK, NEW p \in Servers, LoadRules(p)
  PROVE  RulesOK'
  BY RuleTyped, TypeParts DEF TypeOKParts, RulesOK, LoadRules

LEMMA ClockTicks ==
  ASSUME TypeOK, now < MaxTime, now' = now + 1
  PROVE  ClockOK'
  BY LedgerAssumption, TypeParts DEF TypeOKParts, ClockOK, Moments

LEMMA FewerDecisions ==
  ASSUME TypeOK, decisions' \subseteq decisions, UNCHANGED <<ids, lastAppended>>
  PROVE  DecisionsOK'
  BY TypeParts DEF TypeOKParts, DecisionsOK

LEMMA StatusSet ==
  ASSUME TypeOK, NEW status \in {"unborn", "drafted", "stored", "gone"},
         finding' = [finding EXCEPT !.status = status]
  PROVE  FindingOK'
  BY TypeParts DEF TypeOKParts, FindingOK

LEMMA UploadGone ==
  ASSUME TypeOK, RemoveUpload
  PROVE  DocumentOK'
  BY TypeParts DEF TypeOKParts, DocumentOK, RemoveUpload

\* What is left alone keeps its type.
LEMMA Unchanged ==
  ASSUME TypeOK
  PROVE  /\ UNCHANGED now => ClockOK'
         /\ UNCHANGED document => DocumentOK'
         /\ UNCHANGED rules => RulesOK'
         /\ UNCHANGED finding => FindingOK'
         /\ UNCHANGED <<decisions, ids, lastAppended>> => DecisionsOK'
         /\ UNCHANGED <<pc, draft>> => pc' \in [Servers -> Places] /\ DraftsOK'
         /\ UNCHANGED seen => SeenOK'
  BY TypeParts DEF TypeOKParts, ClockOK, DocumentOK, document, RulesOK, rules, FindingOK, DecisionsOK,
                   DraftsOK, SeenOK

LEMMA CreateTyped ==
  ASSUME TypeOK, NEW p \in Servers, CreateStart(p) \/ CreateVerify(p) \/ CreateSave(p)
  PROVE  TypeOK'
<1>1. CASE CreateStart(p)
  <2>1. FindingOK'
    BY <1>1, StatusSet DEF CreateStart
  <2>2. pc' \in [Servers -> Places] /\ DraftsOK'
    BY <1>1, Moved DEF CreateStart, Places, Reviewing
  <2> QED BY <1>1, <2>1, <2>2, Unchanged, TypeParts DEF TypeOKParts, CreateStart
<1>2. CASE CreateVerify(p)
  <2>1. FindingOK'
    <3>1. CASE finding' = [finding EXCEPT !.status = "unborn"]
      BY <3>1, StatusSet
    <3>2. CASE finding' = [status |-> "drafted", created |-> now, entry |-> RuleOf(p)]
      BY <3>2, RuleTyped, TypeParts DEF TypeOKParts, FindingOK, ClockOK
    <3> QED BY <1>2, <3>1, <3>2 DEF CreateVerify
  <2>2. RulesOK'
    BY <1>2, RulesLoaded, Unchanged DEF CreateVerify
  <2>3. pc' \in [Servers -> Places] /\ DraftsOK'
    BY <1>2, Moved DEF CreateVerify, Places, Reviewing
  <2> QED BY <1>2, <2>1, <2>2, <2>3, Unchanged, TypeParts DEF TypeOKParts, CreateVerify
<1>3. CASE CreateSave(p)
  <2>1. FindingOK'
    BY <1>3, StatusSet DEF CreateSave
  <2>2. pc' \in [Servers -> Places] /\ DraftsOK'
    BY <1>3, Moved DEF CreateSave, Places, Reviewing
  <2> QED BY <1>3, <2>1, <2>2, Unchanged, TypeParts DEF TypeOKParts, CreateSave
<1> QED BY <1>1, <1>2, <1>3

LEMMA ReadTyped ==
  ASSUME TypeOK, NEW p \in Servers, NEW status \in Reviews, NEW actor \in Actors,
         DecideRead(p, status, actor)
  PROVE  TypeOK'
<1> DEFINE d == [NoDraft EXCEPT !.status = status, !.actor = actor,
                                !.after = {e.id : e \in decisions}]
<1>1. {e.id : e \in decisions} \subseteq DecisionIds
  BY DEF TypeOK, Decision
<1>2. d \in Draft /\ d.status = status /\ d.actor = actor
  BY <1>1 DEF NoDraft, Draft
<1>3. draft' = [draft EXCEPT ![p] = d] /\ pc' = [pc EXCEPT ![p] = "stamp"]
  BY DEF DecideRead, Goto
<1>4. pc' \in [Servers -> Places] /\ DraftsOK'
  <2> HIDE DEF d
  <2> QED BY <1>2, <1>3, TypeParts DEF TypeOKParts, DraftsOK, Places, Reviews
<1> QED BY <1>4, Unchanged, TypeParts DEF TypeOKParts, DecideRead

LEMMA StampTyped ==
  ASSUME TypeOK, NEW p \in Servers, NEW id \in DecisionIds, DecideStamp(p, id)
  PROVE  TypeOK' /\ draft'[p].id = id /\ draft'[p].at = now /\ draft'[p].after = draft[p].after
<1> DEFINE d == [draft[p] EXCEPT !.id = id, !.at = now]
<1>1. pc[p] = "stamp" /\ draft[p] \in Draft
      /\ draft[p].status # "none" /\ draft[p].actor \in Actors
  BY TypeParts DEF TypeOKParts, DecideStamp, DraftsOK
<1>2. d \in Draft /\ d \in Decision
      /\ d.id = id /\ d.at = now /\ d.after = draft[p].after
  BY <1>1, TypeParts DEF TypeOKParts, Draft, Decision, ClockOK
<1>3. draft' = [draft EXCEPT ![p] = d] /\ pc' = [pc EXCEPT ![p] = "append"]
  BY DEF DecideStamp, Goto
<1>4. pc' \in [Servers -> Places] /\ DraftsOK' /\ draft'[p] = d
  <2> HIDE DEF d
  <2> QED BY <1>2, <1>3, TypeParts DEF TypeOKParts, DraftsOK, Places
<1>5. DecisionsOK'
  BY TypeParts DEF TypeOKParts, DecisionsOK, DecideStamp
<1> QED BY <1>2, <1>4, <1>5, Unchanged, TypeParts DEF TypeOKParts, DecideStamp

LEMMA AppendTyped ==
  ASSUME TypeOK, NEW p \in Servers, DecideAppend(p),
         \A d \in decisions : d.id # draft[p].id
  PROVE  TypeOK'
<1>1. draft[p] \in Decision
  BY DEF TypeOK, DecideAppend
<1>2. DecisionsOK'
  BY <1>1, TypeParts DEF TypeOKParts, DecisionsOK, DecideAppend, Decision
<1>3. NoDraft \in Draft
  BY DEF NoDraft, Draft
<1>4. pc' \in [Servers -> Places] /\ DraftsOK'
  BY <1>3, TypeParts DEF TypeOKParts, DraftsOK, DecideAppend, Goto, Places
<1>5. ClockOK'
  BY ClockTicks DEF DecideAppend
<1> QED BY <1>2, <1>4, <1>5, Unchanged, TypeParts DEF TypeOKParts, DecideAppend

LEMMA GateTyped ==
  ASSUME TypeOK, HasLatest, NEW p \in Servers,
         \/ GateFinding(p) \/ GateDecisions(p) \/ GateUpload(p) \/ GateBlob(p) \/ GateAnswer(p)
  PROVE  TypeOK'
<1>1. CASE GateFinding(p)
  <2>1. pc' \in [Servers -> Places] /\ DraftsOK'
    BY <1>1, Moved DEF GateFinding, Places, Reviewing
  <2> QED BY <1>1, <2>1, Unchanged, TypeParts DEF TypeOKParts, GateFinding
<1>2. CASE GateDecisions(p)
  <2>1. SeenOK'
    BY <1>2, CurrentTyped, TypeParts
    DEF TypeOKParts, GateDecisions, SeenOK, StandingApproval, SourceIntact, DocumentOK
  <2>2. pc' \in [Servers -> Places] /\ DraftsOK'
    BY <1>2, Moved DEF GateDecisions, Places, Reviewing
  <2> QED BY <1>2, <2>1, <2>2, Unchanged, TypeParts DEF TypeOKParts, GateDecisions
<1>3. CASE GateUpload(p)
  <2>1. pc' \in [Servers -> Places] /\ DraftsOK'
    BY <1>3, Moved DEF GateUpload, Places, Reviewing
  <2> QED BY <1>3, <2>1, Unchanged, TypeParts DEF TypeOKParts, GateUpload
<1>4. CASE GateBlob(p)
  <2>1. SeenOK'
    BY <1>4, TypeParts DEF TypeOKParts, GateBlob, SeenOK, HashFits
  <2>2. pc' \in [Servers -> Places] /\ DraftsOK'
    BY <1>4, Moved DEF GateBlob, Places, Reviewing
  <2> QED BY <1>4, <2>1, <2>2, Unchanged, TypeParts DEF TypeOKParts, GateBlob
<1>5. CASE GateAnswer(p)
  <2>1. SeenOK'
    BY <1>5, TypeParts DEF TypeOKParts, GateAnswer, SeenOK, Unseen, Pending, Human, HumanStatus
  <2>2. pc' \in [Servers -> Places] /\ DraftsOK'
    BY <1>5, Moved DEF GateAnswer, Places, Reviewing
  <2> QED BY <1>5, <2>1, <2>2, RulesLoaded, Unchanged, TypeParts DEF TypeOKParts, GateAnswer
<1> QED BY <1>1, <1>2, <1>3, <1>4, <1>5

LEMMA EraseTyped ==
  ASSUME TypeOK, NEW p \in Servers,
         SweepFindings(p) \/ SweepUploads(p) \/ DeleteFindings(p) \/ DeleteUploads(p)
  PROVE  TypeOK'
<1>1. CASE SweepFindings(p)
  <2>1. decisions' \subseteq decisions /\ UNCHANGED <<ids, lastAppended>>
    BY <1>1 DEF SweepFindings
  <2>2. FindingOK'
    BY <1>1, StatusSet, Unchanged DEF SweepFindings
  <2>3. pc' \in [Servers -> Places] /\ DraftsOK'
    BY <1>1, Moved DEF SweepFindings, Places, Reviewing
  <2> QED BY <1>1, <2>1, <2>2, <2>3, FewerDecisions, Unchanged, TypeParts DEF TypeOKParts, SweepFindings
<1>2. CASE SweepUploads(p)
  <2>1. DocumentOK'
    BY <1>2, UploadGone, Unchanged DEF SweepUploads
  <2>2. pc' \in [Servers -> Places] /\ DraftsOK'
    BY <1>2, Moved DEF SweepUploads, Places, Reviewing
  <2> QED BY <1>2, <2>1, <2>2, Unchanged, TypeParts DEF TypeOKParts, SweepUploads
<1>3. CASE DeleteFindings(p)
  <2>1. decisions' \subseteq decisions /\ UNCHANGED <<ids, lastAppended>>
    BY <1>3 DEF DeleteFindings
  <2>2. FindingOK'
    BY <1>3, StatusSet, Unchanged DEF DeleteFindings
  <2>3. pc' \in [Servers -> Places] /\ DraftsOK'
    BY <1>3, Moved DEF DeleteFindings, Places, Reviewing
  <2> QED BY <1>3, <2>1, <2>2, <2>3, FewerDecisions, Unchanged, TypeParts DEF TypeOKParts, DeleteFindings
<1>4. CASE DeleteUploads(p)
  <2>1. pc' \in [Servers -> Places] /\ DraftsOK'
    BY <1>4, Moved DEF DeleteUploads, Places, Reviewing
  <2> QED BY <1>4, <2>1, UploadGone, Unchanged, TypeParts DEF TypeOKParts, DeleteUploads
<1> QED BY <1>1, <1>2, <1>3, <1>4

LEMMA WorldTyped ==
  ASSUME TypeOK,
         \/ Tick \/ Tamper
         \/ \E entry \in Entries \cup {NoEntry} : ChangeRules(entry)
         \/ \E p \in Servers : Restart(p)
  PROVE  TypeOK'
<1>1. CASE Tick
  BY <1>1, ClockTicks, Unchanged, TypeParts DEF TypeOKParts, Tick
<1>2. CASE Tamper
  <2>1. DocumentOK'
    BY <1>2, TypeParts DEF TypeOKParts, Tamper, DocumentOK
  <2> QED BY <1>2, <2>1, Unchanged, TypeParts DEF TypeOKParts, Tamper
<1>3. ASSUME NEW entry \in Entries \cup {NoEntry}, ChangeRules(entry) PROVE TypeOK'
  <2>1. RulesOK'
    BY <1>3, TypeParts DEF TypeOKParts, ChangeRules, RulesOK
  <2> QED BY <1>3, <2>1, Unchanged, TypeParts DEF TypeOKParts, ChangeRules
<1>4. ASSUME NEW p \in Servers, Restart(p) PROVE TypeOK'
  <2>1. RulesOK'
    BY <1>4, TypeParts DEF TypeOKParts, Restart, RulesOK
  <2>2. FindingOK'
    BY <1>4, StatusSet, Unchanged DEF Restart
  <2>3. NoDraft \in Draft /\ Unseen \in [human : Human, source : BOOLEAN, was : BOOLEAN]
    BY DEF NoDraft, Draft, Unseen, Pending, Human, HumanStatus
  <2>4. pc' \in [Servers -> Places] /\ DraftsOK' /\ SeenOK'
    BY <1>4, <2>3, TypeParts DEF TypeOKParts, Restart, DraftsOK, SeenOK, Goto, Places
  <2> QED BY <1>4, <2>1, <2>2, <2>4, Unchanged, TypeParts DEF TypeOKParts, Restart
<1> QED BY <1>1, <1>2, <1>3, <1>4

-----------------------------------------------------------------------------
(* The reviews *)

IdsDrawnOnce ==
  /\ \A d \in decisions : d.id \notin ids
  /\ \A p \in Servers : pc[p] = "append" =>
       draft[p].id \notin ids /\ \A d \in decisions : d.id # draft[p].id
  /\ \A p, q \in Servers : pc[p] = "append" /\ pc[q] = "append" /\ p # q =>
       draft[p].id # draft[q].id

\* What a reviewer saw was committed: neither undrawn nor still to be appended.
SeenCommitted ==
  /\ \A d \in decisions : d.after \cap ids = {}
  /\ \A q \in Servers : pc[q] \in Reviewing => draft[q].after \cap ids = {}
  /\ \A p \in Servers, d \in decisions : pc[p] = "append" => draft[p].id \notin d.after
  /\ \A p, q \in Servers : pc[p] = "append" /\ pc[q] \in Reviewing =>
       draft[p].id \notin draft[q].after

TimesInOrder ==
  /\ \A d \in decisions : d.at < now
  /\ \A p \in Servers : pc[p] = "append" => draft[p].at <= now
  /\ \A p \in Servers, d \in decisions :
       pc[p] = "append" /\ d.id \in draft[p].after => d.at < draft[p].at
  /\ \A d, e \in decisions : d.id \in e.after => d.at < e.at

ReviewInv == TypeOK /\ HasLatest /\ IdsDrawnOnce /\ SeenCommitted /\ TimesInOrder

\* A step that neither takes up, dates nor records a review.
Calm ==
  /\ ids' = ids /\ decisions' \subseteq decisions /\ now <= now'
  /\ \A q \in Servers : pc'[q] \in Reviewing => pc'[q] = pc[q] /\ draft'[q] = draft[q]

LEMMA CalmKeepsOrder ==
  ASSUME ReviewInv, TypeOK', Calm
  PROVE  IdsDrawnOnce' /\ SeenCommitted' /\ TimesInOrder'
<1>1. \A q \in Servers : pc'[q] = "append" => pc[q] = "append" /\ draft'[q] = draft[q]
  BY DEF Calm, Reviewing
<1>2. IdsDrawnOnce'
  BY <1>1 DEF ReviewInv, Calm, IdsDrawnOnce
<1>3. SeenCommitted'
  BY <1>1 DEF ReviewInv, Calm, SeenCommitted
<1>4. /\ now \in Nat /\ now' \in Nat /\ \A d \in decisions : d.at \in Nat
      /\ \A q \in Servers : pc[q] = "append" => draft[q].at \in Nat
  BY DEF ReviewInv, TypeOK, Moments, Decision
<1>5. TimesInOrder'
  BY <1>1, <1>4 DEF ReviewInv, Calm, TimesInOrder
<1> QED BY <1>2, <1>3, <1>5

LEMMA ReadKeepsOrder ==
  ASSUME ReviewInv, NEW p \in Servers, NEW status \in Reviews, NEW actor \in Actors,
         DecideRead(p, status, actor)
  PROVE  IdsDrawnOnce' /\ SeenCommitted' /\ TimesInOrder'
<1>1. \A q \in Servers : /\ pc'[q] = "append" => q # p /\ pc[q] = "append"
                         /\ q # p => pc'[q] = pc[q] /\ draft'[q] = draft[q]
  BY DEF ReviewInv, TypeOK, DecideRead, Goto
<1>2. draft'[p].after = {d.id : d \in decisions}
  BY DEF ReviewInv, TypeOK, DecideRead, NoDraft
<1>3. UNCHANGED <<ids, decisions, now>>
  BY DEF DecideRead
<1>4. IdsDrawnOnce'
  BY <1>1, <1>3 DEF ReviewInv, IdsDrawnOnce
<1>5. SeenCommitted'
  BY <1>1, <1>2, <1>3 DEF ReviewInv, SeenCommitted, IdsDrawnOnce
<1>6. TimesInOrder'
  BY <1>1, <1>3 DEF ReviewInv, TimesInOrder
<1> QED BY <1>4, <1>5, <1>6

LEMMA StampKeepsOrder ==
  ASSUME ReviewInv, NEW p \in Servers, NEW id \in DecisionIds, DecideStamp(p, id)
  PROVE  IdsDrawnOnce' /\ SeenCommitted' /\ TimesInOrder'
<1>1. /\ draft'[p].id = id /\ draft'[p].at = now /\ draft'[p].after = draft[p].after
  BY StampTyped DEF ReviewInv
<1>2. /\ pc[p] = "stamp" /\ id \in ids /\ ids' = ids \ {id} /\ UNCHANGED <<decisions, now>>
      /\ \A q \in Servers : q # p => pc'[q] = pc[q] /\ draft'[q] = draft[q]
  BY DEF ReviewInv, TypeOK, DecideStamp, Goto
<1>3. now \in Nat
  BY DEF ReviewInv, TypeOK, Moments
<1>4. IdsDrawnOnce'
  BY <1>1, <1>2 DEF ReviewInv, IdsDrawnOnce
<1>5. SeenCommitted'
  BY <1>1, <1>2 DEF ReviewInv, SeenCommitted, Reviewing
<1>6. TimesInOrder'
  BY <1>1, <1>2, <1>3 DEF ReviewInv, TimesInOrder
<1> QED BY <1>4, <1>5, <1>6

LEMMA AppendKeepsOrder ==
  ASSUME ReviewInv, NEW p \in Servers, DecideAppend(p)
  PROVE  IdsDrawnOnce' /\ SeenCommitted' /\ TimesInOrder'
<1>1. /\ pc[p] = "append" /\ pc'[p] \notin Reviewing /\ UNCHANGED ids
      /\ decisions' = decisions \cup {draft[p]} /\ now' = now + 1
      /\ \A q \in Servers : q # p => pc'[q] = pc[q] /\ draft'[q] = draft[q]
  BY DEF ReviewInv, TypeOK, DecideAppend, Goto, Reviewing
<1>2. /\ now \in Nat /\ \A d \in decisions : d.at \in Nat
      /\ \A q \in Servers : pc[q] = "append" => draft[q].at \in Nat
  BY DEF ReviewInv, TypeOK, Moments, Decision
<1>3. IdsDrawnOnce'
  BY <1>1 DEF ReviewInv, IdsDrawnOnce, Reviewing
<1>4. SeenCommitted'
  BY <1>1 DEF ReviewInv, SeenCommitted, Reviewing
<1>5. TimesInOrder'
  <2>1. \A d \in decisions' : d.at < now'
    BY <1>1, <1>2 DEF ReviewInv, TimesInOrder
  <2>2. \A q \in Servers : pc'[q] = "append" => draft'[q].at <= now'
    BY <1>1, <1>2 DEF ReviewInv, TimesInOrder, Reviewing
  <2>3. \A q \in Servers, d \in decisions' :
          pc'[q] = "append" /\ d.id \in draft'[q].after => d.at < draft'[q].at
    BY <1>1 DEF ReviewInv, TimesInOrder, SeenCommitted, Reviewing
  <2>4. \A d, e \in decisions' : d.id \in e.after => d.at < e.at
    BY <1>1 DEF ReviewInv, TimesInOrder, SeenCommitted, Reviewing
  <2> QED BY <2>1, <2>2, <2>3, <2>4 DEF TimesInOrder
<1> QED BY <1>3, <1>4, <1>5

\* Before is a strict order on decisions with different ids.
LEMMA BeforeOrders ==
  ASSUME NEW d \in Decision, NEW e \in Decision, NEW f \in Decision
  PROVE  /\ Before(d, e) /\ Before(e, f) => Before(d, f)
         /\ d.id # e.id => Before(d, e) \/ Before(e, d)
         /\ Before(d, e) => d.at <= e.at
<1>1. d.at \in Nat /\ e.at \in Nat /\ f.at \in Nat
  BY DEF Decision, Moments
<1>2. DecisionIds \subseteq Nat
  BY LedgerAssumption
<1>3. d.id \in Nat /\ e.id \in Nat /\ f.id \in Nat
  BY <1>2 DEF Decision
<1> QED BY <1>1, <1>3 DEF Before

LEMMA AppendKeepsLatest ==
  ASSUME ReviewInv, NEW p \in Servers, DecideAppend(p)
  PROVE  HasLatest'
<1>1. /\ draft[p] \in Decision /\ decisions \subseteq Decision
      /\ \A d \in decisions : d.id # draft[p].id
      /\ decisions' = decisions \cup {draft[p]}
  BY DEF ReviewInv, TypeOK, IdsDrawnOnce, DecideAppend
<1>2. CASE decisions = {}
  BY <1>1, <1>2 DEF HasLatest
<1>3. CASE decisions # {}
  <2>1. PICK d \in decisions : \A e \in decisions \ {d} : Before(e, d)
    BY <1>3 DEF ReviewInv, HasLatest
  <2>2. CASE Before(draft[p], d)
    <3>1. \A e \in decisions' \ {d} : Before(e, d)
      BY <1>1, <2>1, <2>2
    <3> QED BY <1>1, <3>1 DEF HasLatest
  <2>3. CASE Before(d, draft[p])
    <3>1. \A e \in decisions' \ {draft[p]} : Before(e, draft[p])
      BY <1>1, <2>1, <2>3, BeforeOrders
    <3> QED BY <1>1, <3>1 DEF HasLatest
  <2> QED BY <1>1, <2>2, <2>3, BeforeOrders
<1> QED BY <1>2, <1>3

\* A sweep takes the latest decision only with all the others.
LEMMA SweepKeepsLatest ==
  ASSUME ReviewInv, NEW p \in Servers, SweepFindings(p)
  PROVE  HasLatest'
<1>1. SUFFICES ASSUME decisions' # {} PROVE HasLatest'
  BY DEF HasLatest
<1>2. decisions' = {d \in decisions : ~Expired(d.at)}
  BY <1>1 DEF SweepFindings, DecisionExpired
<1>3. PICK d \in decisions : \A e \in decisions \ {d} : Before(e, d)
  BY <1>1, <1>2 DEF ReviewInv, HasLatest
<1>4. PICK f \in decisions : ~Expired(f.at)
  BY <1>1, <1>2
<1>5. d \in Decision /\ f \in Decision
  BY <1>3, <1>4 DEF ReviewInv, TypeOK
<1>6. f.at <= d.at
  BY <1>3, <1>4, <1>5, BeforeOrders DEF Decision, Moments
<1>7. ~Expired(d.at)
  <2>1. d.at \in Nat /\ f.at \in Nat /\ now \in Nat /\ Retention \in Nat
    BY <1>5, LedgerAssumption DEF Decision, Moments, ReviewInv, TypeOK
  <2> QED BY <1>4, <1>6, <2>1 DEF Expired
<1> QED BY <1>2, <1>3, <1>7 DEF HasLatest

LEMMA InitReviewInv == Init => ReviewInv
  BY InitTypeOK DEF Init, ReviewInv, HasLatest, IdsDrawnOnce, SeenCommitted, TimesInOrder, Reviewing

LEMMA NextReviewInv == ReviewInv /\ [Next]_vars => ReviewInv'
<1> SUFFICES ASSUME ReviewInv, [Next]_vars PROVE ReviewInv'
  OBVIOUS
<1>0. TypeOK /\ HasLatest /\ now \in Nat
  BY DEF ReviewInv, TypeOK, Moments
<1>1. ASSUME TypeOK', Calm, UNCHANGED decisions PROVE ReviewInv'
  BY <1>0, <1>1, CalmKeepsOrder DEF ReviewInv, HasLatest
<1>2. ASSUME NEW p \in Servers, CreateStart(p) \/ CreateVerify(p) \/ CreateSave(p)
      PROVE ReviewInv'
  <2>1. Calm /\ UNCHANGED decisions
    BY <1>0, <1>2 DEF Calm, TypeOK, CreateStart, CreateVerify, CreateSave, Goto, Reviewing
  <2> QED BY <1>0, <1>1, <1>2, <2>1, CreateTyped
<1>3. ASSUME NEW p \in Servers, NEW status \in Reviews, NEW actor \in Actors,
             DecideRead(p, status, actor)
      PROVE ReviewInv'
  <2>1. HasLatest'
    BY <1>0, <1>3 DEF HasLatest, DecideRead
  <2> QED BY <1>0, <1>3, <2>1, ReadTyped, ReadKeepsOrder DEF ReviewInv
<1>4. ASSUME NEW p \in Servers, NEW id \in DecisionIds, DecideStamp(p, id) PROVE ReviewInv'
  <2>1. HasLatest'
    BY <1>0, <1>4 DEF HasLatest, DecideStamp
  <2> QED BY <1>0, <1>4, <2>1, StampTyped, StampKeepsOrder DEF ReviewInv
<1>5. ASSUME NEW p \in Servers, DecideAppend(p) PROVE ReviewInv'
  <2>1. TypeOK'
    BY <1>0, <1>5, AppendTyped DEF ReviewInv, IdsDrawnOnce, DecideAppend
  <2> QED BY <1>5, <2>1, AppendKeepsOrder, AppendKeepsLatest DEF ReviewInv
<1>6. ASSUME NEW p \in Servers,
             \/ GateFinding(p) \/ GateDecisions(p) \/ GateUpload(p) \/ GateBlob(p)
             \/ GateAnswer(p)
      PROVE ReviewInv'
  <2>1. Calm /\ UNCHANGED decisions
    BY <1>0, <1>6 DEF Calm, TypeOK, GateFinding, GateDecisions, GateUpload, GateBlob, GateAnswer,
                      Goto, Reviewing
  <2> QED BY <1>0, <1>1, <1>6, <2>1, GateTyped
<1>7. ASSUME NEW p \in Servers, SweepFindings(p) \/ DeleteFindings(p) PROVE ReviewInv'
  <2>1. Calm
    BY <1>0, <1>7 DEF Calm, TypeOK, SweepFindings, DeleteFindings, Goto, Reviewing
  <2>2. HasLatest'
    BY <1>7, SweepKeepsLatest DEF DeleteFindings, HasLatest
  <2> QED BY <1>0, <1>7, <2>1, <2>2, EraseTyped, CalmKeepsOrder DEF ReviewInv
<1>8. ASSUME NEW p \in Servers, SweepUploads(p) \/ DeleteUploads(p) PROVE ReviewInv'
  <2>1. Calm /\ UNCHANGED decisions
    BY <1>0, <1>8 DEF Calm, TypeOK, SweepUploads, DeleteUploads, Goto, Reviewing
  <2> QED BY <1>0, <1>1, <1>8, <2>1, EraseTyped
<1>9. ASSUME \/ Tick \/ Tamper
             \/ \E entry \in Entries \cup {NoEntry} : ChangeRules(entry)
             \/ \E p \in Servers : Restart(p)
      PROVE ReviewInv'
  <2>1. Calm /\ UNCHANGED decisions
    BY <1>0, <1>9 DEF Calm, TypeOK, Tick, Tamper, ChangeRules, Restart, Goto, Reviewing
  <2> QED BY <1>0, <1>1, <1>9, <2>1, WorldTyped
<1>10. CASE UNCHANGED vars
  <2>1. Calm /\ UNCHANGED decisions
    BY <1>0, <1>10 DEF Calm, vars
  <2>2. TypeOK'
    BY <1>0, <1>10, Unchanged, TypeParts DEF TypeOKParts, vars, document, rules
  <2> QED BY <1>1, <2>1, <2>2
<1> QED BY <1>2, <1>3, <1>4, <1>5, <1>6, <1>7, <1>8, <1>9, <1>10 DEF Next

(* Every variable keeps its type, and the gate always reads a decision: the order of the *)
(* decisions has a last one whatever retention took.                                     *)
THEOREM TypeCorrect == Spec => []TypeOK
<1>1. ReviewInv => TypeOK
  BY DEF ReviewInv
<1> QED BY <1>1, InitReviewInv, NextReviewInv, PTL DEF Spec

(* A reviewer overrules what was there when the review began, never the reverse, however *)
(* requests interleave between reading, dating and appending (decide_finding).           *)
THEOREM LaterReviewWins == Spec => []LaterReviewPrevails
<1>1. ReviewInv => LaterReviewPrevails
  BY DEF ReviewInv, TimesInOrder, LaterReviewPrevails, Before
<1> QED BY <1>1, InitReviewInv, NextReviewInv, PTL DEF Spec

-----------------------------------------------------------------------------
(* The history *)

Old(moment) == finding.created <= moment    \* not before the finding

HistoryInv ==
  /\ Old(now)
  /\ \A d \in decisions : Old(d.at)
  /\ \A p \in Servers : pc[p] = "append" => Old(draft[p].at)
  /\ finding.status \in {"unborn", "drafted"} =>
       decisions = {} /\ \A p \in Servers : pc[p] \notin Reviewing
  /\ \A p \in Servers : pc[p] \in Creating =>
       finding.status = "drafted" /\ \A q \in Servers \ {p} : pc[q] \notin Creating

LEMMA InitHistoryInv == Init => HistoryInv
  BY DEF Init, HistoryInv, Old, Reviewing, Creating

\* A step that leaves the creation time alone and prepares no new decision.
LEMMA PlainKeepsHistory ==
  ASSUME ReviewInv, ReviewInv', HistoryInv, Calm, finding'.created = finding.created,
         finding'.status \in {"unborn", "drafted"} => finding.status \in {"unborn", "drafted"},
         \A q \in Servers : pc'[q] \in Creating => pc[q] \in Creating /\ finding'.status = "drafted"
  PROVE  HistoryInv'
<1>1. /\ now \in Nat /\ now' \in Nat /\ finding.created \in Nat
      /\ \A d \in decisions : d.at \in Nat
  BY DEF ReviewInv, TypeOK, Moments, Decision
<1>2. Old(now)' /\ \A d \in decisions' : Old(d.at)'
  BY <1>1 DEF HistoryInv, Calm, Old
<1>3. \A q \in Servers : pc'[q] \in Reviewing => pc'[q] = pc[q] /\ draft'[q] = draft[q]
  BY DEF Calm
<1>4. \A q \in Servers : pc'[q] = "append" => Old(draft[q].at)' /\ draft'[q] = draft[q]
  BY <1>3 DEF HistoryInv, Old, Reviewing
<1>5. finding'.status \in {"unborn", "drafted"} =>
        decisions' = {} /\ \A q \in Servers : pc'[q] \notin Reviewing
  BY <1>3 DEF HistoryInv, Calm
<1> QED BY <1>2, <1>4, <1>5 DEF HistoryInv, Old, Creating

LEMMA NextHistoryInv ==
  ASSUME ReviewInv, ReviewInv', HistoryInv, [Next]_vars
  PROVE  HistoryInv'
<1>0. TypeOK /\ now \in Nat /\ finding.created \in Nat /\ \A d \in decisions : d.at \in Nat
  BY DEF ReviewInv, TypeOK, Moments, Decision
<1>1. ASSUME NEW p \in Servers, CreateStart(p) PROVE HistoryInv'
  <2>1. /\ finding.status = "unborn"
        /\ finding'.status = "drafted" /\ finding'.created = finding.created
        /\ \A q \in Servers : pc'[q] = IF q = p THEN "verify" ELSE pc[q]
    BY <1>0, <1>1 DEF TypeOK, CreateStart, Goto
  <2> QED BY <1>1, <2>1 DEF CreateStart, HistoryInv, Old, Reviewing, Creating
<1>2. ASSUME NEW p \in Servers, CreateVerify(p) PROVE HistoryInv'
  <2>1. /\ pc[p] = "verify" /\ UNCHANGED <<now, decisions, draft>>
        /\ \E place \in {"save", "idle"} :
             /\ \A q \in Servers : pc'[q] = IF q = p THEN place ELSE pc[q]
             /\ finding'.status = IF place = "save" THEN "drafted" ELSE "unborn"
        /\ finding'.created \in {finding.created, now}
    BY <1>0, <1>2 DEF TypeOK, CreateVerify, Goto
  <2>2. decisions = {} /\ \A q \in Servers : pc[q] \notin Reviewing
    BY <2>1 DEF HistoryInv, Creating
  <2>3. Old(now)'
    BY <1>0, <2>1 DEF HistoryInv, Old
  <2> QED BY <2>1, <2>2, <2>3 DEF HistoryInv, Reviewing, Creating
<1>3. ASSUME NEW p \in Servers, CreateSave(p) PROVE HistoryInv'
  <2>1. /\ pc[p] = "save" /\ finding'.status = "stored" /\ finding'.created = finding.created
        /\ \A q \in Servers : pc'[q] = IF q = p THEN "view" ELSE pc[q]
    BY <1>0, <1>3 DEF TypeOK, CreateSave, Goto
  <2> QED BY <1>3, <2>1 DEF CreateSave, HistoryInv, Old, Reviewing, Creating
<1>4. ASSUME NEW p \in Servers, NEW status \in Reviews, NEW actor \in Actors,
             DecideRead(p, status, actor)
      PROVE HistoryInv'
  <2>1. \A q \in Servers : /\ q # p => pc'[q] = pc[q] /\ draft'[q] = draft[q]
                           /\ q = p => pc'[q] = "stamp"
    BY <1>0, <1>4 DEF TypeOK, DecideRead, Goto
  <2> QED BY <1>4, <2>1 DEF DecideRead, HistoryInv, Old, Reviewing, Creating
<1>5. ASSUME NEW p \in Servers, NEW id \in DecisionIds, DecideStamp(p, id) PROVE HistoryInv'
  <2>1. draft'[p].at = now
    BY <1>0, <1>5, StampTyped
  <2>2. /\ pc[p] = "stamp"
        /\ \A q \in Servers : /\ q # p => pc'[q] = pc[q] /\ draft'[q] = draft[q]
                              /\ q = p => pc'[q] = "append"
    BY <1>0, <1>5 DEF TypeOK, DecideStamp, Goto
  <2> QED BY <1>5, <2>1, <2>2 DEF DecideStamp, HistoryInv, Old, Reviewing, Creating
<1>6. ASSUME NEW p \in Servers, DecideAppend(p) PROVE HistoryInv'
  <2>1. /\ pc[p] = "append" /\ pc'[p] = "view" /\ UNCHANGED finding
        /\ decisions' = decisions \cup {draft[p]}
        /\ \A q \in Servers : q # p => pc'[q] = pc[q] /\ draft'[q] = draft[q]
    BY <1>0, <1>6 DEF TypeOK, DecideAppend, Goto
  <2>2. Old(now)'
    BY <1>0, <1>6 DEF HistoryInv, Old, DecideAppend
  <2> QED BY <2>1, <2>2 DEF HistoryInv, Old, Reviewing, Creating
<1>7. ASSUME NEW p \in Servers,
             \/ GateFinding(p) \/ GateDecisions(p) \/ GateUpload(p) \/ GateBlob(p)
             \/ GateAnswer(p) \/ SweepUploads(p) \/ DeleteUploads(p)
      PROVE HistoryInv'
  <2>1. /\ Calm /\ UNCHANGED finding
        /\ \A q \in Servers : pc'[q] \in Creating => pc'[q] = pc[q]
    BY <1>0, <1>7 DEF TypeOK, Calm, GateFinding, GateDecisions, GateUpload, GateBlob, GateAnswer,
                      SweepUploads, DeleteUploads, Goto, Reviewing, Creating
  <2> QED BY <2>1, PlainKeepsHistory DEF HistoryInv
<1>8. ASSUME NEW p \in Servers, SweepFindings(p) \/ DeleteFindings(p) PROVE HistoryInv'
  <2>1. /\ Calm /\ \A q \in Servers : pc'[q] \in Creating => pc'[q] = pc[q]
    BY <1>0, <1>8 DEF TypeOK, Calm, SweepFindings, DeleteFindings, Goto, Reviewing, Creating
  <2>2. /\ finding'.created = finding.created
        /\ \/ finding'.status = finding.status
           \/ finding.status = "stored" /\ finding'.status = "gone"
    <3>1. \/ finding' = finding
          \/ finding.status = "stored" /\ finding' = [finding EXCEPT !.status = "gone"]
      BY <1>8 DEF SweepFindings, DeleteFindings
    <3>2. finding \in [status : {"unborn", "drafted", "stored", "gone"},
                      created : {0} \cup Moments, entry : Entries \cup {NoEntry}]
      BY <1>0 DEF TypeOK
    <3> QED BY <3>1, <3>2
  <2>3. \A q \in Servers : pc'[q] \in Creating =>
          pc[q] \in Creating /\ finding.status = "drafted"
    BY <2>1 DEF HistoryInv
  <2>4. finding'.status \in {"unborn", "drafted"} => finding.status \in {"unborn", "drafted"}
    BY <2>2
  <2>5. \A q \in Servers : pc'[q] \in Creating =>
          pc[q] \in Creating /\ finding'.status = "drafted"
    BY <2>2, <2>3
  <2> QED BY <2>1, <2>2, <2>4, <2>5, PlainKeepsHistory
<1>9. CASE \/ Tick \/ Tamper \/ UNCHANGED vars
           \/ \E entry \in Entries \cup {NoEntry} : ChangeRules(entry)
  <2>1. Calm /\ UNCHANGED <<finding, pc>>
    BY <1>0, <1>9 DEF Calm, Tick, Tamper, ChangeRules, vars
  <2> QED BY <2>1, PlainKeepsHistory DEF HistoryInv
<1>10. ASSUME NEW p \in Servers, Restart(p) PROVE HistoryInv'
  <2>1. /\ Calm
        /\ \A q \in Servers : pc'[q] \in Creating => q # p /\ pc'[q] = pc[q]
    BY <1>0, <1>10 DEF TypeOK, Calm, Restart, Goto, Reviewing, Creating
  <2>2. /\ finding'.created = finding.created
        /\ finding'.status = IF pc[p] \in Creating THEN "unborn" ELSE finding.status
    BY <1>0, <1>10 DEF TypeOK, Restart, Creating
  <2> QED BY <2>1, <2>2, PlainKeepsHistory DEF HistoryInv
<1> QED BY <1>1, <1>2, <1>3, <1>4, <1>5, <1>6, <1>7, <1>8, <1>9, <1>10 DEF Next

(* No step takes a decision from a finding it keeps: a decision is never older than its  *)
(* finding, so retention_sweep's two conditions agree.                                   *)
THEOREM HistoryComplete == Spec => HistoryKept
<1>1. ASSUME ReviewInv, HistoryInv, [Next]_vars
      PROVE  [finding.status = "stored" /\ finding'.status = "stored" =>
                decisions \subseteq decisions']_vars
  <2>1. ASSUME NEW p \in Servers, SweepFindings(p), finding'.status = "stored"
        PROVE  decisions \subseteq decisions'
    <3>1. ~Expired(finding.created) /\ decisions' = {d \in decisions : ~Expired(d.at)}
      BY <1>1, <2>1 DEF SweepFindings, DecisionExpired, ReviewInv, TypeOK
    <3>2. /\ now \in Nat /\ finding.created \in Nat /\ Retention \in Nat
          /\ \A d \in decisions : d.at \in Nat
      BY <1>1, LedgerAssumption DEF ReviewInv, TypeOK, Moments, Decision
    <3> QED BY <1>1, <3>1, <3>2 DEF HistoryInv, Old, Expired
  <2>2. ASSUME NEW p \in Servers, DeleteFindings(p), finding'.status = "stored"
        PROVE  FALSE
    BY <1>1, <2>2 DEF DeleteFindings, ReviewInv, TypeOK
  <2>3. CASE decisions \subseteq decisions'
    BY <2>3
  <2>4. \/ decisions \subseteq decisions'
        \/ \E p \in Servers : SweepFindings(p) \/ DeleteFindings(p)
    BY <1>1 DEF Next, vars, CreateStart, CreateVerify, CreateSave, DecideRead, DecideStamp,
                DecideAppend, GateFinding, GateDecisions, GateUpload, GateBlob, GateAnswer,
                SweepUploads, DeleteUploads, Restart, Tick, Tamper, ChangeRules
  <2> QED BY <2>1, <2>2, <2>4
<1> QED
  BY <1>1, InitReviewInv, NextReviewInv, InitHistoryInv, NextHistoryInv, PTL
  DEF Spec, HistoryKept

-----------------------------------------------------------------------------
(* The gate *)

GateInv ==
  \A p \in Servers :
    /\ pc[p] \in {"upload", "blob"} =>
         /\ ~seen[p].source
         /\ seen[p].human.status = "approved" /\ SourceIntact => seen[p].was
    /\ pc[p] = "rule" /\ seen[p].source /\ seen[p].human.status = "approved" => seen[p].was

\* The order of trust.py's rules: whatever else holds, only an approval passes.
LEMMA OnlyApprovedPasses ==
  ASSUME NEW p \in Servers, Allowed(p)
  PROVE  seen[p].human.status = "approved" /\ seen[p].source
<1>1. Chain([verified |-> TRUE, authenticity |-> "original_as_received"],
            [complete |-> TRUE, status |-> "authoritative"],
            {[located |-> TRUE, hashFits |-> TRUE]}, seen[p].human).human = seen[p].human
  BY DEF Chain
<1>2. When(seen[p].human.status # "approved", "human_approval_not_recorded") = {}
  BY <1>1 DEF Allowed, Reasons, ChainOf
<1> QED BY <1>2 DEF When, Allowed

LEMMA CurrentStands ==
  ASSUME TypeOK, HasLatest, Current.status = "approved"
  PROVE  StandingApproval
<1>1. decisions # {}
  BY DEF Current, Pending
<1>2. LatestOf(decisions).status = "approved"
  BY <1>1 DEF Current, HumanOf
<1> QED BY <1>1, <1>2, LatestIsLast DEF StandingApproval

\* An intact source was intact before: no step restores a deleted or altered upload.
LEMMA NeverIntactAgain == [Next]_vars /\ SourceIntact' => SourceIntact
  BY DEF Next, vars, document, SourceIntact, CreateStart, CreateVerify, CreateSave, DecideRead,
         DecideStamp, DecideAppend, GateFinding, GateDecisions, GateUpload, GateBlob, GateAnswer,
         SweepFindings, SweepUploads, DeleteFindings, DeleteUploads, RemoveUpload, Restart, Tick,
         Tamper, ChangeRules

LEMMA NextGateInv ==
  ASSUME ReviewInv, GateInv, [Next]_vars
  PROVE  GateInv'
<1> DEFINE Reading == {"upload", "blob", "rule"}
<1>0. TypeOK /\ HasLatest
  BY DEF ReviewInv
<1>1. ASSUME NEW p \in Servers, GateDecisions(p) PROVE GateInv'
  <2>1. /\ pc'[p] = "upload"
        /\ seen'[p] = [human |-> Current, source |-> FALSE, was |-> StandingApproval /\ SourceIntact]
        /\ \A q \in Servers : q # p => pc'[q] = pc[q] /\ seen'[q] = seen[q]
        /\ UNCHANGED SourceIntact
    BY <1>0, <1>1 DEF TypeOK, GateDecisions, Goto, SourceIntact, document
  <2>2. /\ ~seen'[p].source /\ seen'[p].human = Current
        /\ seen'[p].was = (StandingApproval /\ SourceIntact)
    BY <2>1
  <2> QED BY <1>0, <2>1, <2>2, CurrentStands DEF GateInv
<1>2. ASSUME NEW p \in Servers, GateUpload(p) PROVE GateInv'
  <2>1. /\ pc[p] = "upload" /\ UNCHANGED <<seen, SourceIntact>>
        /\ \A q \in Servers : q # p => pc'[q] = pc[q]
    BY <1>0, <1>2 DEF TypeOK, GateUpload, Goto, SourceIntact, document
  <2> QED BY <2>1 DEF GateInv
<1>3. ASSUME NEW p \in Servers, GateBlob(p) PROVE GateInv'
  <2>1. /\ pc[p] = "blob" /\ pc'[p] = "rule" /\ UNCHANGED SourceIntact
        /\ seen'[p].human = seen[p].human /\ seen'[p].was = seen[p].was
        /\ seen'[p].source = HashFits
        /\ \A q \in Servers : q # p => pc'[q] = pc[q] /\ seen'[q] = seen[q]
    BY <1>0, <1>3 DEF TypeOK, GateBlob, Goto, SourceIntact, document
  <2>2. HashFits => SourceIntact
    BY <1>0 DEF TypeOK, HashFits, SourceIntact
  <2> QED BY <2>1, <2>2 DEF GateInv
<1>4. ASSUME \A q \in Servers : pc'[q] \in Reading => pc'[q] = pc[q] /\ seen'[q] = seen[q]
      PROVE  GateInv'
  BY <1>4, NeverIntactAgain DEF GateInv
<1>5. ASSUME NEW p \in Servers,
             \/ CreateStart(p) \/ CreateVerify(p) \/ CreateSave(p)
             \/ \E status \in Reviews, actor \in Actors : DecideRead(p, status, actor)
             \/ \E id \in DecisionIds : DecideStamp(p, id)
             \/ DecideAppend(p) \/ GateFinding(p) \/ GateAnswer(p)
             \/ SweepFindings(p) \/ SweepUploads(p) \/ DeleteFindings(p) \/ DeleteUploads(p)
             \/ Restart(p)
      PROVE  GateInv'
  <2>1. \A q \in Servers : pc'[q] \in Reading => pc'[q] = pc[q] /\ seen'[q] = seen[q]
    BY <1>0, <1>5 DEF TypeOK, CreateStart, CreateVerify, CreateSave, DecideRead, DecideStamp,
                      DecideAppend, GateFinding, GateAnswer, SweepFindings, SweepUploads,
                      DeleteFindings, DeleteUploads, Restart, Goto
  <2> QED BY <1>4, <2>1
<1>6. CASE \/ Tick \/ Tamper \/ UNCHANGED vars
           \/ \E entry \in Entries \cup {NoEntry} : ChangeRules(entry)
  BY <1>4, <1>6 DEF Tick, Tamper, ChangeRules, vars
<1> HIDE DEF Reading
<1> QED BY <1>1, <1>2, <1>3, <1>5, <1>6 DEF Next

(* An "allow" of production_gate was true of one instant, whatever commits between its   *)
(* five reads: the approval stood and the source was intact when it read the decisions.  *)
THEOREM AllowSound == Spec => []AllowWasTrueAtOnce
<1>1. Init => GateInv
  BY DEF Init, GateInv
<1>2. GateInv => AllowWasTrueAtOnce
  BY OnlyApprovedPasses DEF GateInv, AllowWasTrueAtOnce, Answering
<1> QED BY <1>1, <1>2, InitReviewInv, NextReviewInv, NextGateInv, PTL DEF Spec

-----------------------------------------------------------------------------
(* Where reviews are taken one after the other, a later rejection shuts the gate *)

OneAtATime == \A p, q \in Servers : p = q

\* Decisions are appended in the order of their times.
InTurn ==
  /\ \A p \in Servers, d \in decisions : pc[p] = "append" => d.at < draft[p].at
  /\ lastAppended = "rejected" /\ decisions # {} =>
       \E d \in decisions : /\ d.status = "rejected"
                            /\ \A e \in decisions \ {d} : e.at < d.at

LEMMA CalmKeepsTurn ==
  ASSUME ReviewInv, InTurn, Calm, UNCHANGED lastAppended,
         \/ decisions' \in {decisions, {}}
         \/ decisions' = {d \in decisions : ~Expired(d.at)}
  PROVE  InTurn'
<1>1. \A p \in Servers, d \in decisions' : pc'[p] = "append" => d.at < draft'[p].at
  BY DEF Calm, InTurn, Reviewing
<1>2. ASSUME lastAppended = "rejected", NEW f \in decisions'
      PROVE  \E d \in decisions' : /\ d.status = "rejected"
                                   /\ \A e \in decisions' \ {d} : e.at < d.at
  <2>1. PICK d \in decisions : d.status = "rejected" /\ \A e \in decisions \ {d} : e.at < d.at
    BY <1>2 DEF InTurn, Calm
  <2>2. CASE decisions' = decisions
    BY <2>1, <2>2
  <2>3. CASE decisions' = {e \in decisions : ~Expired(e.at)}
    <3>1. /\ f \in decisions /\ d.at \in Nat /\ f.at \in Nat /\ now \in Nat /\ Retention \in Nat
          /\ ~Expired(f.at)
      BY <1>2, <2>3, LedgerAssumption DEF Decision, Moments, ReviewInv, TypeOK
    <3>2. f.at <= d.at
      BY <2>1, <3>1
    <3>3. d \in decisions'
      BY <2>3, <3>1, <3>2 DEF Expired
    <3> QED
      BY <2>1, <2>3, <3>3
  <2> QED
    BY <1>2, <2>2, <2>3
<1> QED
  BY <1>1, <1>2 DEF InTurn

LEMMA NextInTurn ==
  ASSUME OneAtATime, ReviewInv, InTurn, [Next]_vars
  PROVE  InTurn'
<1>0. TypeOK
  BY DEF ReviewInv
<1>1. ASSUME NEW p \in Servers, NEW id \in DecisionIds, DecideStamp(p, id) PROVE InTurn'
  <2>1. /\ draft'[p].at = now /\ UNCHANGED <<decisions, lastAppended>>
        /\ \A q \in Servers : q = p
    BY <1>0, <1>1 DEF TypeOK, Draft, DecideStamp, OneAtATime
  <2>2. \A d \in decisions : d.at < now
    BY DEF ReviewInv, TimesInOrder
  <2> QED
    BY <2>1, <2>2 DEF InTurn
<1>2. ASSUME NEW p \in Servers, DecideAppend(p) PROVE InTurn'
  <2>1. /\ pc[p] = "append" /\ decisions' = decisions \cup {draft[p]}
        /\ lastAppended' = draft[p].status /\ pc'[p] = "view"
        /\ \A q \in Servers : q = p
    BY <1>0, <1>2 DEF TypeOK, DecideAppend, Goto, OneAtATime
  <2>2. \A e \in decisions' \ {draft[p]} : e.at < draft[p].at
    BY <2>1 DEF InTurn
  <2> QED
    BY <2>1, <2>2 DEF InTurn
<1>3. ASSUME NEW p \in Servers, NEW status \in Reviews, NEW actor \in Actors,
             DecideRead(p, status, actor)
      PROVE  InTurn'
  <2>1. /\ UNCHANGED <<decisions, lastAppended>>
        /\ \A q \in Servers : pc'[q] # "append"
    BY <1>0, <1>3 DEF TypeOK, DecideRead, Goto, OneAtATime
  <2> QED
    BY <2>1 DEF InTurn
<1>4. ASSUME NEW p \in Servers, SweepFindings(p) \/ DeleteFindings(p) PROVE InTurn'
  <2>1. Calm /\ UNCHANGED lastAppended
    BY <1>0, <1>4 DEF Calm, TypeOK, Moments, SweepFindings, DeleteFindings, Goto, Reviewing
  <2>2. decisions' = {} \/ decisions' = {d \in decisions : ~Expired(d.at)}
    BY <1>4 DEF SweepFindings, DeleteFindings, DecisionExpired
  <2> QED
    BY <2>1, <2>2, CalmKeepsTurn
<1>5. ASSUME NEW p \in Servers,
             \/ CreateStart(p) \/ CreateVerify(p) \/ CreateSave(p)
             \/ GateFinding(p) \/ GateDecisions(p) \/ GateUpload(p) \/ GateBlob(p)
             \/ GateAnswer(p) \/ SweepUploads(p) \/ DeleteUploads(p) \/ Restart(p)
      PROVE  InTurn'
  <2>1. Calm /\ UNCHANGED <<decisions, lastAppended>>
    BY <1>0, <1>5 DEF Calm, TypeOK, Moments, CreateStart, CreateVerify, CreateSave, GateFinding,
                      GateDecisions, GateUpload, GateBlob, GateAnswer, SweepUploads,
                      DeleteUploads, Restart, Goto, Reviewing
  <2> QED
    BY <2>1, CalmKeepsTurn
<1>6. CASE \/ Tick \/ Tamper \/ UNCHANGED vars
           \/ \E entry \in Entries \cup {NoEntry} : ChangeRules(entry)
  <2>1. Calm /\ UNCHANGED <<decisions, lastAppended>>
    BY <1>0, <1>6 DEF Calm, TypeOK, Moments, Tick, Tamper, ChangeRules, vars
  <2> QED
    BY <2>1, CalmKeepsTurn
<1> QED
  BY <1>1, <1>2, <1>3, <1>4, <1>5, <1>6 DEF Next

LEMMA InTurnShuts == ReviewInv /\ InTurn => RejectionShuts
<1> SUFFICES ASSUME ReviewInv, InTurn, lastAppended = "rejected", StandingApproval
             PROVE  FALSE
  BY DEF RejectionShuts, Open
<1>1. PICK a \in decisions : a.status = "approved" /\ \A e \in decisions \ {a} : Before(e, a)
  BY DEF StandingApproval
<1>2. PICK d \in decisions : d.status = "rejected" /\ \A e \in decisions \ {d} : e.at < d.at
  BY <1>1 DEF InTurn
<1>3. a.at < d.at /\ (d.at < a.at \/ d.at = a.at)
  BY <1>1, <1>2 DEF Before
<1>4. a.at \in Nat /\ d.at \in Nat
  BY DEF ReviewInv, TypeOK, Decision, Moments
<1> QED
  BY <1>3, <1>4

(* A rejection that was appended last and leaves the gate open takes two reviews at once.   *)
(* Where one request is served at a time, "append a later rejection" does shut the gate,    *)
(* whatever is swept, deleted, altered or restarted.                                        *)
THEOREM OnlyOverlapsOutliveRejection ==
  ASSUME OneAtATime
  PROVE  Spec => []RejectionShuts
<1>1. Init => InTurn
  BY DEF Init, InTurn
<1>2. ReviewInv /\ InTurn /\ [Next]_vars => InTurn'
  BY NextInTurn
<1> QED
  BY <1>1, <1>2, InTurnShuts, InitReviewInv, NextReviewInv, PTL DEF Spec
=============================================================================
