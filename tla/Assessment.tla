------------------------------ MODULE Assessment ------------------------------
(***************************************************************************)
(* The pure rules an assessment follows: which deadline is authoritative   *)
(* (deadline/), which failed calls are repeated (interfaces/, triage/),    *)
(* what of the documents and the knowledge base is sent (verdict/), which  *)
(* answers of the model become a verdict and what is shown of it.          *)
(*                                                                         *)
(* Instants are minutes.  Texts are identities; a chunk of a document is   *)
(* the quotes it contains.                                                 *)
(***************************************************************************)
EXTENDS Integers, FiniteSets, Sequences, SequencesExt, FiniteSetsExt

CONSTANTS
  Nil,       \* no instant, no text, no result
  Instants,   \* points in time, in minutes
  Names,      \* wordings of the requirements
  Quotes,     \* wordings of the evidence
  Headings,   \* headings of the knowledge base
  MaxItems    \* sections of the knowledge base a request carries at most

ASSUME AssessmentConstants ==
  /\ Instants \subseteq Nat /\ Nil \notin Instants
  /\ MaxItems \in Nat

-----------------------------------------------------------------------------
(* Deadlines: DeadlineResolutionService, extract_deadline_from_text *)

Tolerance == 15  \* CONFLICT_TOLERANCE_SECONDS
Absent == [status |-> "ABSENT", source |-> "none", at |-> Nil]
Resolved(source, at) == [status |-> "RESOLVED", source |-> source, at |-> at]
Unresolved == [status |-> "UNRESOLVED", source |-> "unresolved", at |-> Nil]
Conflicting == [status |-> "CONFLICTING", source |-> "conflicting", at |-> Nil]

\* a page's deadline; raw is its text when no timestamp could be made of it
FromListing(page, source) == IF page.at # Nil THEN Resolved(source, page.at)
                             ELSE IF page.raw THEN Unresolved ELSE Absent

\* a segment is the dates of the 250 characters after a label; zoned ones name a
\* known time zone.  A timestamp must follow the label, a date in words need not
IsoDate(segment) == segment[1].iso /\ segment[1].zoned
\* the position of its first date in words, 0 when it has none
InWords(segment) == SelectInSeq(segment, LAMBDA d : ~d.iso)
Extracted(segment) ==
  IF IsoDate(segment) THEN Resolved("document", segment[1].at)
  ELSE LET n == InWords(segment) IN
       IF n # 0 /\ segment[n].zoned THEN Resolved("document", segment[n].at) ELSE Unresolved
\* the first label that is followed by anything decides; labels in their order
FromText(segments) == LET n == SelectInSeq(segments, LAMBDA s : s # <<>>) IN
                      IF n = 0 THEN Absent ELSE Extracted(segments[n])
\* the first document with a deadline
FromDocuments(docs) == LET n == SelectInSeq(docs, LAMBDA d : FromText(d).status = "RESOLVED") IN
                       IF n = 0 THEN Unresolved ELSE FromText(docs[n])

Apart(a, b) == a > b + Tolerance \/ b > a + Tolerance
\* mutant: conflicting pages are settled by the listing
ResolveListing(listing, detail, docs) ==
  LET a == FromListing(listing, "listing_page")
      b == IF detail = Nil THEN Absent ELSE FromListing(detail, "detail_page")
  IN  IF a.status = "RESOLVED" THEN a ELSE IF b.status = "RESOLVED" THEN b
      ELSE FromDocuments(docs)
\* resolve; its one caller hands over no documents
Resolve(listing, detail, docs) ==
  LET a == FromListing(listing, "listing_page")
      b == IF detail = Nil THEN Absent ELSE FromListing(detail, "detail_page")
  IN  IF a.status = "RESOLVED" /\ b.status = "RESOLVED" /\ Apart(a.at, b.at) THEN Conflicting
      ELSE IF a.status = "RESOLVED" THEN a ELSE IF b.status = "RESOLVED" THEN b
      ELSE FromDocuments(docs)

\* apply_deadline_resolution: the row, and what generate makes of the row
Stored(result) == [source |-> result.source,
                   at |-> IF result.status = "RESOLVED" THEN result.at ELSE Nil]
Context(row) == [status |-> IF row.source = "conflicting" THEN "CONFLICTING"
                            ELSE IF row.source = "unresolved" \/ row.at = Nil THEN "UNRESOLVED"
                            ELSE "RESOLVED",
                 at |-> row.at]

-----------------------------------------------------------------------------
(* Failed calls: _status_error_code, _transport_error_class, the two policies *)

HttpStatuses == {400, 401, 413, 422, 429, 500, 503}
Raised == {"timeout_before_http_response", "ai_call_timeout", "provider_unreachable",
           "invalid_provider_response"}
\* the code of an HTTP error; tokens stands for an identifier that names a token limit
StatusCode(status, tokens) ==
  IF status \in {401, 403} THEN "provider_authentication_failed"
  ELSE IF status = 429 THEN "rate_limit"
  ELSE IF status = 413 \/ tokens THEN "provider_payload_too_large"
  ELSE IF status >= 500 THEN "provider_server_error"
  ELSE "provider_request_rejected"
Codes == {StatusCode(s, b) : s \in HttpStatuses, b \in BOOLEAN} \cup Raised
TransientErrors == {"ai_call_timeout", "timeout", "rate_limit", "http_429", "http_5xx",
                    "provider_unreachable", "timeout_before_http_response"}
DeterministicErrors == {"provider_payload_too_large", "provider_request_rejected",
  "provider_authentication_failed", "invalid_provider_response",
  "provider_context_window_exceeded"}
TransportClass(code) == IF code = "provider_server_error" THEN "http_5xx" ELSE code

\* _invoke_with_policy after a failed call, tries being the earlier ones
VerdictPolicy(code, tries) ==
  IF code = "provider_payload_too_large" THEN "give_up"
  ELSE IF code \notin DeterministicErrors /\ TransportClass(code) \in TransientErrors /\ tries < 2
       THEN "again" ELSE "next"
\* _evaluate_model after a failed call
TriagePolicy(code, retries, tries) ==
  IF code \notin {"ai_call_timeout", "provider_unreachable", "timeout_before_http_response"}
  THEN "give_up" ELSE IF tries < retries THEN "again" ELSE "next"

-----------------------------------------------------------------------------
(* What is sent: _split_document_content, _reduce_documents_for_budget, *)
(* retrieve_relevant_evidence *)

\* mutant: the text goes on at the separator it was cut at
PieceEndBefore(start, length, most, breaks) ==
  LET end == IF start + most < length THEN start + most ELSE length
      near == {b \in breaks : start + most \div 2 <= b /\ b < end}
  IN  IF end < length /\ near # {} THEN Max(near) ELSE end
\* the end of the piece that starts at start; breaks are the positions of
\* separators, counted from 0, in a text of the given length
PieceEnd(start, length, most, breaks) ==
  LET end == IF start + most < length THEN start + most ELSE length
      near == {b \in breaks : start + most \div 2 <= b /\ b < end /\ b > start}
  IN  IF end < length /\ near # {} THEN Max(near) + 1 ELSE end
\* the ends of all pieces, the length being the last
Pieces(length, most, breaks) ==
  LET from[start \in 0..length] ==
        IF start = length THEN {}
        ELSE LET end == PieceEnd(start, length, most, breaks) IN
             {end} \cup IF end > start THEN from[end] ELSE {}
  IN  from[0]

\* candidates in the order of their rank: whatever still fits is taken, up to a limit
Fitting(ranked, allowance, limit) ==
  FoldLeft(LAMBDA kept, c :
             IF kept.size + c.size <= allowance /\ Cardinality(kept.chosen) < limit
             THEN [size |-> kept.size + c.size, chosen |-> kept.chosen \cup {c}] ELSE kept,
           [size |-> 0, chosen |-> {}], ranked).chosen
Score(c) == c.score + (IF c.quoted THEN 100000 ELSE 0)
\* the chunks that are kept: by score for their size, then by position
Reduced(chunks, allowance) ==
  LET Better(c, d) == LET a == Score(c) * d.size  b == Score(d) * c.size IN
                      a > b \/ (a = b /\ c.position < d.position)
  IN  Fitting(SetToSortSeq(chunks, Better), allowance, Cardinality(chunks))
\* sections of the knowledge base that share words with the requirements; the
\* text before the first heading is a section without one
Retrieved(sections, most) ==
  LET Closer(c, d) == c.overlap > d.overlap \/ (c.overlap = d.overlap /\ c.position < d.position)
  IN  Fitting(SetToSortSeq({c \in sections : c.overlap > 0}, Closer), most, MaxItems)

\* the heading a section is sent with, and the headings that may be cited
Heading(section) == IF section.heading = Nil THEN "Knowledge base" ELSE section.heading
Citable(sections) == {section.heading : section \in sections} \ {Nil}

\* a document of a request; notice is set for the published notice
NoticeOnly(docs) == LET citable == {d \in docs : d.content # {}} IN
                    citable # {} /\ \A d \in citable : d.notice
\* what a reduction keeps of a document; its identity fields do not name the notice
Cut(docs, kept) == {[d EXCEPT !.notice = FALSE, !.content = @ \cap kept] : d \in docs}

-----------------------------------------------------------------------------
(* Extracted requirements: _validate_requirement_sources *)

\* evidence is [doc, locations, quote]: several locations are given at once.  A
\* chunk is [doc, location, exact, loose]: the quotes it contains, and those that
\* are found when spaces and quotation marks are made equal, or across chunks
Supports(chunk, ref) == /\ chunk.doc = ref.doc /\ chunk.location \in ref.locations
                        /\ ref.quote \in chunk.exact \cup chunk.loose
\* material is a sequence of [name, refs], refs not empty
SourcesValid(material, chunks) ==
  /\ material # <<>>
  /\ \A i, j \in DOMAIN material : i # j => material[i].name # material[j].name
  /\ \A i \in DOMAIN material : \A ref \in material[i].refs :
       \E chunk \in chunks : Supports(chunk, ref)

-----------------------------------------------------------------------------
(* Answers: _normalize_verdict_json, _apply_authoritative_overrides *)

Synonyms == [verified |-> "met", partial |-> "partially_met",
             partially_verified |-> "partially_met", failed |-> "not_met"]
Status(s) == IF s \in DOMAIN Synonyms THEN Synonyms[s] ELSE s
NoEvidence == "no evidence on file"
Boilerplate == {"none", "placeholder"}
Names_(material) == {material[i].name : i \in DOMAIN material}
\* the requirement an assessment is taken for: by its words, else by its position
\* when there are as many assessments as requirements
Bound(answer, material, i) ==
  IF answer.assessments[i].name \in Names_(material) THEN answer.assessments[i].name
  ELSE IF Len(answer.assessments) = Len(material) THEN material[i].name
  ELSE answer.assessments[i].name

Derived(assessments, gaps) ==
  LET statuses == {assessments[i].status : i \in DOMAIN assessments} IN
  IF "not_met" \in statuses THEN "DO NOT APPLY"
  ELSE IF statuses \subseteq {"met"} /\ gaps = {} THEN "APPLY" ELSE "APPLY WITH CONDITIONS"

\* an assessment: invented citations dropped, support and words made good.  A gap
\* is filled in whatever the status is
Repaired(answer, material, headings, i) ==
  LET a == answer.assessments[i]
      cites == a.cites \cap headings
      status == Status(a.status)
  IN  [a EXCEPT !.name = Bound(answer, material, i), !.cites = cites,
                !.status = IF cites = {} /\ status = "met" THEN "unverified" ELSE status,
                !.gap = IF @ \in Boilerplate THEN NoEvidence ELSE @,
                !.words = IF @ \in Boilerplate THEN NoEvidence ELSE @]

Penalty == 25  \* NOTICE_ONLY_CONFIDENCE_PENALTY, in hundredths as confidences are
NoticeLimitation == "no downloadable source files"
\* _notice_only_overrides
Discounted(answer, noticeOnly) ==
  IF ~noticeOnly THEN answer
  ELSE [answer EXCEPT !.confidence = IF @ > Penalty THEN @ - Penalty ELSE 0,
                      !.limitations = @ \cup {NoticeLimitation}]

Overridden(answer, material, headings, context, noticeOnly) ==
  LET repaired == [i \in DOMAIN answer.assessments |-> Repaired(answer, material, headings, i)]
      gaps == IF answer.gaps \subseteq Boilerplate /\ answer.gaps # {}
              THEN {NoEvidence} ELSE answer.gaps
  IN  [Discounted(answer, noticeOnly) EXCEPT
         !.listed = Names_(material), !.deadline = context, !.assessments = repaired,
         !.gaps = gaps, !.verdict = Derived(repaired, gaps)]

-----------------------------------------------------------------------------
(* Which payload is a verdict: _validate_semantics *)

\* mutant: evidence is looked for in the documents of the request only
TraceableInRequest(ref, chunks, material) ==
  \E c \in chunks : c.doc = ref.doc /\ ref.locations = {c.location} /\ ref.quote \in c.exact
\* evidence is in the documents of the request, or the extraction established it
Traceable(ref, chunks, material) ==
  \/ \E c \in chunks : c.doc = ref.doc /\ ref.locations = {c.location} /\ ref.quote \in c.exact
  \/ \E i \in DOMAIN material : ref \in material[i].refs

\* mutant: a negative assessment needs no company evidence
AssessmentValidOneSided(a, chunks, material, headings) ==
  /\ a.status \in {"met", "not_met", "partially_met", "unverified"}
  /\ \A ref \in a.refs : Traceable(ref, chunks, material)
  /\ a.cites \subseteq headings
  /\ a.status \in {"met", "partially_met"} => a.cites # {}
  /\ a.refs # {}
AssessmentValid(a, chunks, material, headings) ==
  /\ a.status \in {"met", "not_met", "partially_met", "unverified"}
  /\ \A ref \in a.refs : Traceable(ref, chunks, material)
  /\ a.cites \subseteq headings
  /\ a.status # "unverified" => a.cites # {}
  /\ a.status = "unverified" => a.gap # "none"
  \* the established evidence makes sources exist
  /\ a.refs # {}
  /\ a.status = "unverified" /\ a.cites = {} => {a.gap, a.words} = {NoEvidence}

\* each requirement is assessed once, with all of its evidence
Covers(assessments, material) ==
  /\ Names_(assessments) = Names_(material)
  /\ \A i, j \in DOMAIN assessments : i # j => assessments[i].name # assessments[j].name
  /\ \A i \in DOMAIN material : \A j \in DOMAIN assessments :
       assessments[j].name = material[i].name => material[i].refs \subseteq assessments[j].refs

Valid(payload, chunks, material, headings, context, incomplete, urgent) ==
  /\ payload.incomplete = incomplete
  /\ payload.deadline = context
  /\ payload.assessments # <<>>
  /\ \A i \in DOMAIN payload.assessments :
       AssessmentValid(payload.assessments[i], chunks, material, headings)
  /\ payload.listed = Names_(material)
  /\ Covers(payload.assessments, material)
  /\ payload.verdict = Derived(payload.assessments, payload.gaps)
  /\ incomplete => payload.limitations # {}
  /\ context.status # "RESOLVED" => payload.deadline.at = Nil
  /\ payload.urgent = urgent

\* format_verdict: what a notification says of a verdict
Shown(payload, noticeOnly) ==
  [gaps |-> {payload.assessments[i].gap : i \in DOMAIN payload.assessments} \ {"none"},
   caveat |-> IF noticeOnly THEN "notice" ELSE IF payload.incomplete THEN "incomplete" ELSE "none"]

-----------------------------------------------------------------------------
(* Questions, one of which a behaviour is about *)

VARIABLE given

Pages == [at : Instants \cup {Nil}, raw : BOOLEAN]
Dates == [iso : BOOLEAN, zoned : BOOLEAN, at : Instants]
UpToOne == {<<>>} \cup {<<d>> : d \in Dates}
\* documents with one label and up to two dates, or two labels with one each
Documents == {<<segment>> : segment \in UpToOne \cup (Dates \X Dates)} \cup (UpToOne \X UpToOne)

\* the published document of a tender: one chunk for each quote
Chunk(q) == [doc |-> 1, location |-> q, exact |-> {q}, loose |-> {}, score |-> 0,
             size |-> 1, quoted |-> TRUE, position |-> q]
Chunks == {Chunk(q) : q \in Quotes}
Reference(q) == [doc |-> 1, locations |-> {q}, quote |-> q]
\* requirements that were established, each with one piece of evidence
Materials == {m \in UNION {[1..n -> [name : Names, refs : {{Reference(q)} : q \in Quotes}]] :
                             n \in 1..2} : SourcesValid(m, Chunks)}
Answered == [name : Names, status : {"met", "verified", "failed", "unverified"},
             cites : {{}, {"invented"}} \cup {{h} : h \in Headings},
             refs : {{Reference(q)} : q \in Quotes} \cup {{}}, gap : {"none"}, words : {"none"}]
NoDeadline == [status |-> "UNRESOLVED", at |-> Nil]
Draft(assessments, gaps) ==
  [assessments |-> assessments, gaps |-> gaps, incomplete |-> FALSE, urgent |-> FALSE,
   deadline |-> NoDeadline, listed |-> {}, verdict |-> "APPLY", limitations |-> {},
   confidence |-> 90]

Asked ==
  \/ \E listing \in Pages, detail \in Pages \cup {Nil}, document \in Documents :
       given = [about |-> "deadline", listing |-> listing, detail |-> detail,
                document |-> document]
  \/ \E length \in 1..5, most \in 1..4, breaks \in SUBSET (0..4) :
       given = [about |-> "pieces", length |-> length, most |-> most, breaks |-> breaks]
  \/ \E material \in Materials, gaps \in {{}, {"gap"}} :
       \E assessments \in UNION {[1..n -> Answered] : n \in 1..Len(material)} :
         given = [about |-> "verdict", material |-> material, draft |-> Draft(assessments, gaps)]
  \/ \E material \in Materials, allowance \in 0..Cardinality(Quotes), noticeOnly \in BOOLEAN :
       given = [about |-> "reduction", material |-> material, allowance |-> allowance,
                noticeOnly |-> noticeOnly]
  \/ \E sections \in SUBSET [heading : Headings \cup {Nil}, overlap : {1}, size : {1},
                             position : {1}] :
       given = [about |-> "citation", sections |-> sections]
  \/ \E code \in Codes : given = [about |-> "call", code |-> code]
\* a behaviour is about one question
Answering == Asked /\ [][UNCHANGED given]_given

-----------------------------------------------------------------------------
(* Properties *)

\* The deadline a verdict is given is an instant some page or document of the
\* tender stated with a time zone, no page contradicts it by more than the
\* tolerance, and without one there is no instant at all (resolve, through
\* apply_deadline_resolution and _deadline_context).
DeadlineNeverInvented ==
  given.about = "deadline" =>
    LET result == Resolve(given.listing, given.detail, <<given.document>>)
        context == Context(Stored(result))
        pages == ({given.listing.at} \cup (IF given.detail = Nil THEN {} ELSE {given.detail.at}))
                 \ {Nil}
        zoned(segment) == {d.at : d \in {e \in ToSet(segment) : e.zoned}}
    IN  /\ context.status = result.status
        /\ context.status = "RESOLVED" =>
             /\ context.at \in pages \cup UNION {zoned(x) : x \in ToSet(given.document)}
             /\ \A at \in pages : ~Apart(context.at, at)
        /\ context.status # "RESOLVED" => context.at = Nil

\* The pieces a document is mapped in are the document: they follow each other
\* to its end, none is longer than allowed, and one that ends before that ends
\* at a separator (_split_document_content).
PiecesAreTheDocument ==
  given.about = "pieces" =>
    LET ends == Pieces(given.length, given.most, given.breaks) IN
    /\ given.length \in ends
    /\ \A end \in ends : LET start == Max({e \in ends \cup {0} : e < end}) IN
         /\ end - start <= given.most
         /\ end = given.length \/ end - start = given.most \/ end - 1 \in given.breaks

\* A recorded verdict is grounded: nobody is told to apply unless every
\* requirement has company evidence and no gap is left, nor advised against it
\* without company evidence about a requirement, and each requirement is judged
\* with its own evidence (_apply_authoritative_overrides, _validate_semantics).
VerdictIsGrounded ==
  given.about = "verdict" =>
    LET payload == Overridden(given.draft, given.material, Headings, NoDeadline, FALSE)
        all == ToSet(payload.assessments)
    IN  Valid(payload, Chunks, given.material, Headings, NoDeadline, FALSE, FALSE) =>
          /\ \A m \in ToSet(given.material) : \E a \in all : a.name = m.name /\ m.refs \subseteq a.refs
          /\ payload.verdict = "APPLY" => payload.gaps = {} /\ \A a \in all : a.cites # {}
          /\ payload.verdict = "DO NOT APPLY" =>
               \E a \in all : a.status = "not_met" /\ a.cites # {} /\ a.refs # {}

\* A verdict that repeats the evidence established for each requirement, and
\* calls them unverified, is accepted whatever part of the documents was cut to
\* fit the window (_reduce_documents_for_budget against _validate_semantics).
EstablishedEvidenceIsAccepted ==
  given.about = "reduction" =>
    LET kept == Reduced(Chunks, given.allowance)
        faithful == [i \in DOMAIN given.material |->
                       [name |-> given.material[i].name, status |-> "unverified", cites |-> {},
                        refs |-> given.material[i].refs, gap |-> "none", words |-> "none"]]
        payload == Overridden(Draft(faithful, {}), given.material, Headings, NoDeadline,
                              given.noticeOnly)
    IN  Valid(payload, kept, given.material, Headings, NoDeadline, FALSE, FALSE)

-----------------------------------------------------------------------------
(* Promises the code does not keep today (README, known disagreements) *)

\* deadline/service.py:13: a disagreement within the tolerance favours the detail
\* page.  resolve returns what the listing said.
DetailPrevails ==
  given.about = "deadline" /\ given.detail # Nil =>
    LET result == Resolve(given.listing, given.detail, <<given.document>>) IN
    result.status = "RESOLVED" /\ given.detail.at # Nil => result.at = given.detail.at

\* A verdict to apply is shown without gaps (rule 8 of the prompt); the
\* overrides fill in the words for missing evidence whatever the status is.
MetHasNoGap ==
  given.about = "verdict" =>
    LET payload == Overridden(given.draft, given.material, Headings, NoDeadline, FALSE) IN
    payload.verdict = "APPLY" => Shown(payload, FALSE).gaps = {}

\* A citation of a heading the request showed is kept (_apply_authoritative_overrides:
\* a compliant citation is never discarded); the heading given to the text before
\* the first one cannot be cited.
CompliantCitationIsKept ==
  given.about = "citation" =>
    {Heading(section) : section \in Retrieved(given.sections, 2)} \subseteq Citable(given.sections)

\* The instruction for an assessment from the notice alone survives a reduction
\* of the documents (generate: the flag drives the prompt's instruction); the
\* identity fields a reduction keeps do not contain it.
NoticeInstructionSurvives ==
  given.about = "reduction" =>
    LET docs == {[content |-> Chunks, notice |-> given.noticeOnly]}
        kept == Reduced(Chunks, given.allowance)
    IN  NoticeOnly(docs) /\ kept # {} => NoticeOnly(Cut(docs, kept))

\* Triage tries again what the verdict engine tries again (interfaces/llm.py:
\* failures of one classification are handled in one way).
TriageRetriesTransient ==
  given.about = "call" /\ VerdictPolicy(given.code, 0) = "again"
    => TriagePolicy(given.code, 1, 0) = "again"
=============================================================================
