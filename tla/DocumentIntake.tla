--------------------------- MODULE DocumentIntake ---------------------------
(***************************************************************************)
(* From the bytes of a PDF to a finding that may be acted on: what an      *)
(* upload extracts and pins to a page (app/document_ai.py, the upload      *)
(* handler of app/main.py), which evidence a finding takes from it, and    *)
(* how the production gate looks the evidence up again (app/findings.py).  *)
(* A page is the sequence of its words.  "1", "500" and "1500" stand for   *)
(* numbers of at most two, of three and of more digits, "date" for a date  *)
(* whose digits contain none of them.  A field other than the amount rests *)
(* on one word of the text (a date, an invoice number, "Unterschrift"), as *)
(* the date does here.                                                     *)
(***************************************************************************)
EXTENDS TrustRules, Naturals, SequencesExt

CONSTANTS
  PageLimit,        \* pages whose text is read, 50 in the code
  Files             \* the files a client may send

Words == {"1", "500", "1500", "EUR", "date"}
Threats == {"prompt_injection", "embedded_script", "suspicious_link"}
Defects == {"type", "size", "header", "reader"}
NoPage == 0         \* None
Nothing == <<>>     \* no excerpt: the field was not extracted
Fields == {"amount", "date"}

ASSUME IntakeAssumption ==
  /\ PageLimit \in Nat \ {0}
  /\ \A file \in Files :
       /\ file.pages \in Seq(Seq(Words))
       /\ file.defects \in SUBSET Defects /\ file.threats \in SUBSET Threats
       /\ file.best \in Nat /\ file.second \in 0..file.best   \* keywords of the two best types

VARIABLES
  file,             \* the bytes sent and, once stored, the blob
  upload,           \* NoUpload, or what ingest_pdf returned
  finding           \* NoFinding, or the finding, its chain as created and as last decided

intakeVars == <<file, upload, finding>>

NoUpload == [status |-> "none"]
NoFinding == [field |-> "none"]

-----------------------------------------------------------------------------
(* ingest_pdf *)

\* extract_pdf_text: the pages are joined before anything is looked for in them.
ParsedToTheEnd(f) == f.pages                 \* mutant: break after the last page, not at 50
Parsed(f) ==
  IF Len(f.pages) <= PageLimit THEN f.pages ELSE SubSeq(f.pages, 1, PageLimit)
JoinedText(f) == FlattenSeq(Parsed(f))

\* classify_document, in hundredths
Confidence(f) ==
  LET score == 58 + 9 * f.best + 4 * (f.best - f.second)
  IN IF f.best = 0 THEN 35 ELSE IF score < 99 THEN score ELSE 99

\* scan_security: the actions of its findings
ScanLinkFirst(f) ==                          \* mutant: a link is reported, then nothing else
  IF f.threats = {} THEN {"allow"}
  ELSE IF "suspicious_link" \in f.threats THEN {"manual_review"} ELSE {"quarantine"}
ScanActions(f) ==
  IF f.threats \ {"suspicious_link"} # {} THEN {"quarantine"}
  ELSE IF f.threats # {} THEN {"manual_review"} ELSE {"allow"}

\* AMOUNT_RE: up to three digits, groups of three, EUR.  The leftmost match, or nothing.
IsAmount(text, first, last) ==
  /\ text[first] \in {"1", "500"}
  /\ \A i \in (first + 1)..last : text[i] = "500"
  /\ text[last + 1] = "EUR"
Amounts(text) == {span \in (DOMAIN text) \X (DOMAIN text) :
                    /\ span[1] <= span[2] /\ span[2] < Len(text)
                    /\ IsAmount(text, span[1], span[2])}
Dates(text) == {span \in (DOMAIN text) \X (DOMAIN text) :
                  span[1] = span[2] /\ text[span[1]] = "date"}
Matches(field, text) == IF field = "amount" THEN Amounts(text) ELSE Dates(text)
FirstMatch(field, text) ==
  CHOOSE span \in Matches(field, text) : \A other \in Matches(field, text) : span[1] <= other[1]

\* extract_fields
Excerpt(field, text) ==
  IF Matches(field, text) = {} THEN Nothing
  ELSE LET span == FirstMatch(field, text) IN SubSeq(text, span[1], span[2])

\* `needle in page`, on characters: a number is also found inside a longer one.
Within(word, longer) == word = longer \/ (longer = "1500" /\ word \in {"1", "500"})
Closes(word, longer) == word = longer \/ (longer = "1500" /\ word = "500")
Reads(page, excerpt) ==
  \E at \in 0..Len(page) :
    /\ at + Len(excerpt) <= Len(page)
    /\ \A i \in 2..Len(excerpt) : page[at + i] = excerpt[i]
    /\ IF Len(excerpt) = 1 THEN Within(excerpt[1], page[at + 1])
                           ELSE Closes(excerpt[1], page[at + 1])

\* _locate_evidence: the first page, counted from 1.
PagesWith(pages, excerpt) ==
  {n \in DOMAIN pages : excerpt # Nothing /\ Reads(pages[n], excerpt)}
LocateLast(pages, excerpt) ==                \* mutant: the search goes on after a hit
  IF PagesWith(pages, excerpt) = {} THEN NoPage
  ELSE CHOOSE n \in PagesWith(pages, excerpt) : \A m \in PagesWith(pages, excerpt) : m <= n
LocateEvidence(pages, excerpt) ==
  IF PagesWith(pages, excerpt) = {} THEN NoPage
  ELSE CHOOSE n \in PagesWith(pages, excerpt) : \A m \in PagesWith(pages, excerpt) : n <= m

UploadStatus(f) ==
  IF "quarantine" \in ScanActions(f) THEN "quarantined"
  ELSE IF Confidence(f) < 70 \/ "manual_review" \in ScanActions(f) THEN "manual_review"
  ELSE "ready"

Ingest(f) ==
  LET text == JoinedText(f)
  IN [status |-> UploadStatus(f),
      fields |-> [field \in Fields |->
                    [excerpt |-> Excerpt(field, text),
                     page |-> LocateEvidence(Parsed(f), Excerpt(field, text))]],
      source |-> [verified |-> TRUE, authenticity |-> "original_as_received"]]

IntakeInit == file \in Files /\ upload = NoUpload /\ finding = NoFinding

\* upload_document stores nothing of a file it answers 415, 413 or 422.
UploadDocument ==
  /\ upload = NoUpload
  /\ file.defects = {}
  /\ upload' = Ingest(file)
  /\ UNCHANGED <<file, finding>>

-----------------------------------------------------------------------------
(* create_finding and decide_finding, on one case and its one document *)

\* An upload whose value the extraction missed has no such field; one without a page
\* is refused as exact_page_required.
CreateFinding(field, authority) ==
  /\ upload # NoUpload /\ finding = NoFinding
  /\ upload.status # "quarantined"
  /\ upload.fields[field].excerpt # Nothing
  /\ upload.fields[field].page # NoPage
  /\ LET base == Chain(upload.source, authority, {[located |-> TRUE, hashFits |-> TRUE]},
                      [status |-> "pending", actor |-> NoActor, dated |-> FALSE])
     IN finding' = [field |-> field, excerpt |-> upload.fields[field].excerpt,
                    page |-> upload.fields[field].page, base |-> base, chain |-> base]
  /\ UNCHANGED <<file, upload>>

DecideFinding(status, actor) ==
  /\ finding # NoFinding
  /\ finding' = [finding EXCEPT !.chain =
                   WithDecision(finding.base, [status |-> status, actor |-> actor, dated |-> TRUE])]
  /\ UNCHANGED <<file, upload>>

IntakeNext ==
  \/ UploadDocument
  \/ \E field \in Fields, complete \in BOOLEAN :
       CreateFinding(field, [complete |-> complete, status |-> "authoritative"])
  \/ \E status \in {"approved", "rejected"}, actor \in Actors : DecideFinding(status, actor)

IntakeSpec == IntakeInit /\ [][IntakeNext]_intakeVars

-----------------------------------------------------------------------------
(* production_gate, as far as the document, the chain and the decision go *)

\* _verify_evidence_at_source: the blob is parsed anew and the cited page searched.
VerifyFromZero(f, page, excerpt) ==          \* mutant: page_texts[page], not [page - 1]
  IF page \notin 1..Len(Parsed(f)) THEN {"evidence_page_out_of_range"}
  ELSE When(page = Len(Parsed(f)) \/ ~Reads(Parsed(f)[page + 1], excerpt),
            "evidence_not_found_at_locator")
VerifyEvidenceAtSource(f, page, excerpt) ==
  IF page \notin 1..Len(Parsed(f)) THEN {"evidence_page_out_of_range"}
  ELSE When(excerpt = Nothing \/ ~Reads(Parsed(f)[page], excerpt),
            "evidence_not_found_at_locator")

GateReasons ==
  Reasons(finding.chain, finding.chain.human.actor)
  \cup VerifyEvidenceAtSource(file, finding.page, finding.excerpt)

-----------------------------------------------------------------------------
(* Properties *)

IntakeTypeOK ==
  /\ file \in Files
  /\ upload # NoUpload =>
       /\ upload.status \in {"quarantined", "manual_review", "ready"}
       /\ upload.source \in Source
       /\ \A field \in Fields :
            /\ upload.fields[field].excerpt \in Seq(Words)
            /\ upload.fields[field].page \in 0..PageLimit
  /\ finding # NoFinding => finding.field \in Fields /\ finding.chain.human \in Human

(* What an upload pins to a page, the gate finds again on that page: locating and        *)
(* verifying are written apart and agree on every document that was not altered since.   *)
PinnedIsFoundAgain ==
  upload # NoUpload =>
    \A field \in Fields :
      LET pinned == upload.fields[field]
      IN pinned.page # NoPage => VerifyEvidenceAtSource(file, pinned.page, pinned.excerpt) = {}

\* The page that word n of the joined text stands on.
PageOfWord(n) ==
  CHOOSE p \in 1..Len(Parsed(file)) :
    /\ n <= Len(FlattenSeq(SubSeq(Parsed(file), 1, p)))
    /\ n > Len(FlattenSeq(SubSeq(Parsed(file), 1, p - 1)))

(* The pinned page against the page the value was read from.  A value that stands on one *)
(* page is pinned to it, or to an earlier page with the same characters, and never left  *)
(* without a page.  A value that runs over a page break stands on no page: it is left    *)
(* without one, or pinned to some page, earlier or later, that happens to contain its    *)
(* characters in one piece.                                                              *)
PinnedWhereExtracted ==
  upload # NoUpload =>
    \A field \in Fields :
      upload.fields[field].excerpt # Nothing =>
        LET page == upload.fields[field].page
            span == FirstMatch(field, JoinedText(file))
            begins == PageOfWord(span[1])
            ends == PageOfWord(span[2])
        IN IF begins = ends THEN page \in 1..begins
           ELSE \/ page = NoPage
                \/ /\ page \in DOMAIN Parsed(file)
                   /\ Reads(Parsed(file)[page], upload.fields[field].excerpt)

(* Of a finding made from an upload the gate asks no more than a complete authority and  *)
(* an approval: whatever intake lets through is traceable, and quarantined text is never *)
(* among it.                                                                             *)
OnlyTheDecisionIsLeft ==
  finding # NoFinding =>
    /\ file.threats \subseteq {"suspicious_link"}
    /\ GateReasons = {} <=> /\ finding.chain.authority.complete
                            /\ finding.chain.human.status = "approved"
=============================================================================
