--------------------------- MODULE FindingLedger ---------------------------
(***************************************************************************)
(* One finding, the decisions on it, the document it rests on, and the     *)
(* production gate (app/findings.py over app/production_postgres_store.py).*)
(* The statements of the store name the finding, so findings share nothing *)
(* but the document, the clock and the rules.  Every read or write below   *)
(* is a transaction of its own: requests interleave between any two.       *)
(* What a process keeps in memory is its copy of the rules, loaded once.   *)
(***************************************************************************)
EXTENDS TrustRules, Naturals

CONSTANTS
  Servers,          \* server processes, each busy with one request at a time
  Entries,          \* what rules.json may say of the cited authority (title, version, URL)
  NoEntry,          \* it names the authority no longer, or twice
  Unloaded,         \* a process that has not read rules.json yet
  Retention,        \* PRUEFPILOT_RETENTION_DAYS, in ticks
  MaxTime,          \* bound: the clock
  DecisionIds       \* bound: random decision ids, in the order ORDER BY sorts them

ASSUME LedgerAssumption ==
  /\ Retention \in Nat \ {0} /\ MaxTime \in Nat \ {0} /\ DecisionIds \subseteq Nat
  /\ NoEntry \notin Entries /\ Unloaded \notin Entries \cup {NoEntry}

VARIABLES
  now,              \* the clock; a decision takes at least a tick to commit
  upload, blob,     \* the upload's row and the bytes in document_blobs
  rulesFile, cache, \* data/rules.json, and each process's lru_cache of it
  finding, decisions,
  ids,              \* decision ids not drawn yet
  lastAppended,     \* status of the decision whose INSERT committed last
  pc, draft, seen   \* of each process: where it is, the decision it prepares,
                    \* what its gate evaluation has read

document == <<upload, blob>>
rules == <<rulesFile, cache>>
vars == <<now, upload, blob, rulesFile, cache, finding, decisions, ids, lastAppended,
          pc, draft, seen>>

Moments == 1..MaxTime
Reviews == {"approved", "rejected"}
Decision == [id : DecisionIds, status : Reviews, actor : Actors, at : Moments,
             after : SUBSET DecisionIds]    \* after: the decisions its reviewer could see
Draft == [id : DecisionIds \cup {0}, status : Reviews \cup {"none"},
          actor : Actors \cup {NoActor}, at : Moments \cup {0}, after : SUBSET DecisionIds]
NoDraft == [id |-> 0, status |-> "none", actor |-> NoActor, at |-> 0, after |-> {}]
Pending == [status |-> "pending", actor |-> NoActor, dated |-> FALSE]
Unseen == [human |-> Pending, source |-> FALSE, was |-> FALSE]

Goto(p, place) == pc' = [pc EXCEPT ![p] = place]

Init ==
  /\ now = 1
  /\ upload = [stored |-> TRUE, created |-> 1] /\ blob = "original"
  /\ rulesFile \in Entries /\ cache = [p \in Servers |-> Unloaded]
  /\ finding = [status |-> "unborn", created |-> 0, entry |-> NoEntry]
  /\ decisions = {} /\ ids = DecisionIds /\ lastAppended = "none"
  /\ pc = [p \in Servers |-> "idle"]
  /\ draft = [p \in Servers |-> NoDraft]
  /\ seen = [p \in Servers |-> Unseen]

-----------------------------------------------------------------------------
(* _rule over load_rules: the first use in a process fills its cache *)

RuleOf(p) == IF cache[p] = Unloaded THEN rulesFile ELSE cache[p]
LoadRules(p) == cache' = [cache EXCEPT ![p] = RuleOf(p)] /\ UNCHANGED rulesFile

-----------------------------------------------------------------------------
(* create_finding: read the upload, read and hash the blob, save; then the view *)

CreateStart(p) ==
  /\ pc[p] = "idle"
  /\ finding.status = "unborn"
  /\ upload.stored
  /\ finding' = [finding EXCEPT !.status = "drafted"]
  /\ Goto(p, "verify")
  /\ UNCHANGED <<now, document, rules, decisions, ids, lastAppended, draft, seen>>

CreateVerify(p) ==
  /\ pc[p] = "verify"
  /\ \/ /\ blob = "original" /\ RuleOf(p) # NoEntry
        /\ finding' = [status |-> "drafted", created |-> now, entry |-> RuleOf(p)]
        /\ LoadRules(p)
        /\ Goto(p, "save")
     \/ /\ blob = "original" /\ RuleOf(p) = NoEntry
        /\ finding' = [finding EXCEPT !.status = "unborn"]
        /\ LoadRules(p)
        /\ Goto(p, "idle")
     \/ /\ blob # "original"
        /\ finding' = [finding EXCEPT !.status = "unborn"]
        /\ Goto(p, "idle")
        /\ UNCHANGED rules
  /\ UNCHANGED <<now, document, decisions, ids, lastAppended, draft, seen>>

CreateSave(p) ==
  /\ pc[p] = "save"
  /\ finding' = [finding EXCEPT !.status = "stored"]
  /\ Goto(p, "view")
  /\ UNCHANGED <<now, document, rules, decisions, ids, lastAppended, draft, seen>>

-----------------------------------------------------------------------------
(* decide_finding: read the finding, take the time, append; then the view *)

DecideRead(p, status, actor) ==
  /\ pc[p] = "idle"
  /\ finding.status = "stored"
  /\ draft' = [draft EXCEPT ![p] = [NoDraft EXCEPT !.status = status, !.actor = actor,
                                                   !.after = {d.id : d \in decisions}]]
  /\ Goto(p, "stamp")
  /\ UNCHANGED <<now, document, rules, finding, decisions, ids, lastAppended, seen>>

DecideStamp(p, id) ==
  /\ pc[p] = "stamp"
  /\ id \in ids /\ ids' = ids \ {id}
  /\ draft' = [draft EXCEPT ![p] = [draft[p] EXCEPT !.id = id, !.at = now]]
  /\ Goto(p, "append")
  /\ UNCHANGED <<now, document, rules, finding, decisions, lastAppended, seen>>

\* The INSERT has no foreign key: the finding may be gone by now.
DecideAppend(p) ==
  /\ pc[p] = "append"
  /\ now < MaxTime /\ now' = now + 1
  /\ decisions' = decisions \cup {draft[p]}
  /\ lastAppended' = draft[p].status
  /\ draft' = [draft EXCEPT ![p] = NoDraft]
  /\ Goto(p, "view")
  /\ UNCHANGED <<document, rules, finding, ids, seen>>

-----------------------------------------------------------------------------
(* production_gate, also the last part of the two operations above *)

BeforeById(d, e) == d.id < e.id              \* mutant: ORDER BY decision_id
Before(d, e) == d.at < e.at \/ (d.at = e.at /\ d.id < e.id)

ApprovalOf(S) ==                             \* mutant: an approval outlives a rejection
  LET approvals == {d \in S : d.status = "approved"}
      T == IF approvals = {} THEN S ELSE approvals
  IN CHOOSE d \in T : \A e \in T \ {d} : Before(e, d)
LatestOf(S) == CHOOSE d \in S : \A e \in S \ {d} : Before(e, d)

HumanOf(d) == [status |-> d.status, actor |-> d.actor, dated |-> TRUE]
Current == IF decisions = {} THEN Pending ELSE HumanOf(LatestOf(decisions))

\* What ingest_pdf and create_finding put into every chain; only the human part varies.
ChainOf(human) ==
  Chain([verified |-> TRUE, authenticity |-> "original_as_received"],
        [complete |-> TRUE, status |-> "authoritative"],
        {[located |-> TRUE, hashFits |-> TRUE]}, human)

StandingApproval ==
  \E d \in decisions : d.status = "approved" /\ \A e \in decisions \ {d} : Before(e, d)
SourceIntact == upload.stored /\ blob = "original"

GateFinding(p) ==
  /\ pc[p] \in {"idle", "view"}
  /\ Goto(p, IF finding.status = "stored" THEN "decisions" ELSE "idle")
  /\ UNCHANGED <<now, document, rules, finding, decisions, ids, lastAppended, draft, seen>>

GateDecisions(p) ==
  /\ pc[p] = "decisions"
  /\ seen' = [seen EXCEPT ![p] = [human |-> Current, source |-> FALSE,
                                  was |-> StandingApproval /\ SourceIntact]]
  /\ Goto(p, "upload")
  /\ UNCHANGED <<now, document, rules, finding, decisions, ids, lastAppended, draft>>

GateUpload(p) ==
  /\ pc[p] = "upload"
  /\ Goto(p, IF upload.stored THEN "blob" ELSE "rule")
  /\ UNCHANGED <<now, document, rules, finding, decisions, ids, lastAppended, draft, seen>>

HashFitsUnread == blob # "gone"              \* mutant: the bytes are not hashed again
HashFits == blob = "original"

GateBlob(p) ==
  /\ pc[p] = "blob"
  /\ seen' = [seen EXCEPT ![p] = [seen[p] EXCEPT !.source = HashFits]]
  /\ Goto(p, "rule")
  /\ UNCHANGED <<now, document, rules, finding, decisions, ids, lastAppended, draft>>

Allowed(p) ==
  /\ Reasons(ChainOf(seen[p].human), seen[p].human.actor) = {}
  /\ seen[p].source
  /\ RuleOf(p) = finding.entry

\* The caller is told Allowed(p); nothing in the system reads the answer again.
Answering(p) == pc[p] = "rule"
GateAnswer(p) ==
  /\ Answering(p)
  /\ seen' = [seen EXCEPT ![p] = Unseen]
  /\ LoadRules(p)
  /\ Goto(p, "idle")
  /\ UNCHANGED <<now, document, finding, decisions, ids, lastAppended, draft>>

-----------------------------------------------------------------------------
(* retention_sweep and delete_tenant: two transactions each *)

Expired(t) == t + Retention < now

DecisionExpiredAtCutoff(t) == t + Retention <= now   \* mutant: <= where the finding has <
DecisionExpired(t) == Expired(t)

SweepFindings(p) ==
  LET old == finding.status = "stored" /\ Expired(finding.created)
  IN /\ pc[p] = "idle"
     /\ decisions' = {d \in decisions : ~DecisionExpired(d.at) /\ ~old}
     /\ finding' = IF old THEN [finding EXCEPT !.status = "gone"] ELSE finding
     /\ Goto(p, "sweepUploads")
     /\ UNCHANGED <<now, document, rules, ids, lastAppended, draft, seen>>

RemoveRowOnly ==                             \* mutant: no ON DELETE CASCADE to the bytes
  upload' = [upload EXCEPT !.stored = FALSE] /\ UNCHANGED blob
RemoveUpload == upload' = [upload EXCEPT !.stored = FALSE] /\ blob' = "gone"

\* The base class takes the time again for its own cutoff.
SweepUploads(p) ==
  /\ pc[p] = "sweepUploads"
  /\ IF upload.stored /\ Expired(upload.created) THEN RemoveUpload ELSE UNCHANGED document
  /\ Goto(p, "idle")
  /\ UNCHANGED <<now, rules, finding, decisions, ids, lastAppended, draft, seen>>

DeleteFindings(p) ==
  /\ pc[p] = "idle"
  /\ decisions' = {}
  /\ finding' = IF finding.status = "stored" THEN [finding EXCEPT !.status = "gone"]
                ELSE finding
  /\ Goto(p, "deleteUploads")
  /\ UNCHANGED <<now, document, rules, ids, lastAppended, draft, seen>>

DeleteUploads(p) ==
  /\ pc[p] = "deleteUploads"
  /\ RemoveUpload
  /\ Goto(p, "idle")
  /\ UNCHANGED <<now, rules, finding, decisions, ids, lastAppended, draft, seen>>

-----------------------------------------------------------------------------
(* The world *)

Tick ==
  /\ now < MaxTime /\ now' = now + 1
  /\ UNCHANGED <<document, rules, finding, decisions, ids, lastAppended, pc, draft, seen>>

\* The stored bytes change behind the application's back.
Tamper ==
  /\ blob = "original" /\ blob' = "altered"
  /\ UNCHANGED <<now, upload, rules, finding, decisions, ids, lastAppended, pc, draft, seen>>

ChangeRules(entry) ==
  /\ rulesFile' = entry
  /\ UNCHANGED <<now, document, cache, finding, decisions, ids, lastAppended, pc, draft, seen>>

\* A process dies or is redeployed: its request is lost, its cache is empty again.
Restart(p) ==
  /\ cache' = [cache EXCEPT ![p] = Unloaded]
  /\ finding' = IF pc[p] \in {"verify", "save"} THEN [finding EXCEPT !.status = "unborn"]
                ELSE finding
  /\ draft' = [draft EXCEPT ![p] = NoDraft]
  /\ seen' = [seen EXCEPT ![p] = Unseen]
  /\ Goto(p, "idle")
  /\ UNCHANGED <<now, document, rulesFile, decisions, ids, lastAppended>>

-----------------------------------------------------------------------------
Next ==
  \/ \E p \in Servers :
       \/ CreateStart(p) \/ CreateVerify(p) \/ CreateSave(p)
       \/ \E status \in Reviews, actor \in Actors : DecideRead(p, status, actor)
       \/ \E id \in DecisionIds : DecideStamp(p, id)
       \/ DecideAppend(p)
       \/ GateFinding(p) \/ GateDecisions(p) \/ GateUpload(p) \/ GateBlob(p) \/ GateAnswer(p)
       \/ SweepFindings(p) \/ SweepUploads(p) \/ DeleteFindings(p) \/ DeleteUploads(p)
       \/ Restart(p)
  \/ Tick \/ Tamper
  \/ \E entry \in Entries \cup {NoEntry} : ChangeRules(entry)

Spec == Init /\ [][Next]_vars

-----------------------------------------------------------------------------
(* Properties *)

TypeOK ==
  /\ now \in Moments
  /\ upload \in [stored : BOOLEAN, created : Moments]
  /\ blob \in {"original", "altered", "gone"} /\ (upload.stored <=> blob # "gone")
  /\ rulesFile \in Entries \cup {NoEntry}
  /\ cache \in [Servers -> Entries \cup {NoEntry, Unloaded}]
  /\ finding \in [status : {"unborn", "drafted", "stored", "gone"}, created : {0} \cup Moments,
                  entry : Entries \cup {NoEntry}]
  /\ decisions \subseteq Decision /\ ids \subseteq DecisionIds
  /\ \A d, e \in decisions : d.id = e.id => d = e
  /\ lastAppended \in Reviews \cup {"none"}
  /\ pc \in [Servers -> {"idle", "verify", "save", "view", "stamp", "append", "decisions",
                        "upload", "blob", "rule", "sweepUploads", "deleteUploads"}]
  /\ draft \in [Servers -> Draft]
  /\ \A p \in Servers : /\ pc[p] = "stamp" => draft[p].status # "none" /\ draft[p].actor \in Actors
                        /\ pc[p] = "append" => draft[p] \in Decision
  /\ seen \in [Servers -> [human : Human, source : BOOLEAN, was : BOOLEAN]]

(* production_gate reads the finding, its decisions, the upload, the bytes and the rules *)
(* one after the other.  Whatever commits in between, an "allow" is true of one instant: *)
(* when it read the decisions, the standing one was an approval and the source intact.   *)
(* It speaks of these two only: the finding, read before, may be deleted by then, and an *)
(* approval that was still on its way be appended after the deletion.                    *)
AllowWasTrueAtOnce ==
  \A p \in Servers : Answering(p) /\ Allowed(p) => seen[p].was

(* A kept finding keeps its whole history: retention goes by the decision's age and by   *)
(* the finding's, in one transaction, and never takes the one and leaves the other.      *)
HistoryKept ==
  [][finding.status = "stored" /\ finding'.status = "stored" => decisions \subseteq decisions']_vars

\* The stored state is one the gate lets pass.
Open == finding.status = "stored" /\ StandingApproval /\ SourceIntact

(* The order the gate reads the decisions in respects what the reviewers knew: one whose *)
(* decision was there when another started to decide is overruled, never the reverse.    *)
LaterReviewPrevails ==
  \A d, e \in decisions : d.id \in e.after => Before(d, e)

(* proof/EXTERNAL_GOLDEN_PATH_1.md: "append a later rejection", "the production gate     *)
(* must fail closed".  decided_at is taken before the row is appended.                   *)
RejectionShuts == lastAppended = "rejected" => ~Open

(* proof/EXTERNAL_GOLDEN_PATH_1.md: "change the authority version", "the production gate *)
(* must fail closed".  The process compares with the rules it loaded first.              *)
AuthorityChangeShuts ==
  \A p \in Servers : Answering(p) /\ Allowed(p) => rulesFile = finding.entry
=============================================================================
