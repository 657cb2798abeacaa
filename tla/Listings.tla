------------------------------- MODULE Listings -------------------------------
(***************************************************************************)
(* Discovery: the connectors of sources/ crawl the list of a site, page by *)
(* page, through the polite client of sources/polite.py.  The HTML lists   *)
(* (waho.py; filtered_html.py walks one chain of pages per facet,          *)
(* search_form.py reaches the first page through a form), the JSON API     *)
(* (json_api.py) and the feed (feed.py) share the crawl below and differ   *)
(* in how they find the next page and what ends the list.                  *)
(*                                                                         *)
(* The site is not held still while it is crawled: tenders are published   *)
(* at its top and withdrawn, and a request may fail.  A crawl that fails   *)
(* returns nothing.                                                        *)
(***************************************************************************)
EXTENDS Integers, FiniteSets, Sequences, SequencesExt, FiniteSetsExt

CONSTANTS
  Listed,      \* tenders the site may list
  Unreadable,  \* an entry without title, link or identity
  Lists,       \* the lists a behaviour may start with
  Sources,     \* the configured sources
  PageCap,     \* entries the site puts on a page at most
  MaxPages,    \* max_pages of the source or its policy; max_items of a feed
  MaxRetries,  \* CrawlPolicy.max_retries
  Closing,     \* how each tender states its closing date
  Links,       \* the links of each tender's detail page
  Mishaps      \* bound: changes of the site and failed requests

Families == {"html", "form", "json", "feed"}
\* next: the page says where the next one is; page and offset: the connector counts
Pagings == {"next", "page", "offset"}
\* stamp: a machine-readable date, zoned or not; wording: a date in words, zoned
\* or not; countdown: days or hours left; remark: "closing soon"
ClosingTexts == {"stamp_zoned", "stamp_bare", "wording_zoned", "wording_bare",
                 "countdown", "remark", "nothing"}
\* size: the page size the source asks for, 0 when it declares none; total: the
\* payload says how long the list is; lenient: an empty list is no error (a filter
\* or allow_empty_listing); secured: it needs a credential or a POST; templated: the
\* detail page of a tender can be named by its identity; facets: the filters, one
\* chain of pages each
Source == [family : Families, paging : Pagings, size : Nat, total : BOOLEAN,
           lenient : BOOLEAN, secured : BOOLEAN, templated : BOOLEAN,
           facets : Seq(SUBSET Listed)]
\* excluded: a pattern of the source, rel=next or a href that is not ASCII; file:
\* the path ends like a document or holds a marker; block: in an attachment section
Link == [excluded : BOOLEAN, file : BOOLEAN, block : BOOLEAN]

ASSUME ListingsConstants ==
  /\ Unreadable \notin Listed /\ Lists \subseteq Seq(Listed \cup {Unreadable})
  /\ Sources \subseteq Source
  /\ \A s \in Sources : s.facets # <<>> /\ (s.family # "json" => s.paging = "next")
  /\ {PageCap, MaxPages} \subseteq Nat \ {0} /\ {MaxRetries, Mishaps} \subseteq Nat
  /\ Closing \in [Listed -> ClosingTexts] /\ Links \in [Listed -> SUBSET Link]

VARIABLES
  source,  \* the source that is crawled
  site,    \* its list, the newest entry first
  crawl,   \* the crawl that goes on, or the last one
  known,   \* the tenders that finished crawls have returned
  detail,  \* the detail page read after the crawl
  luck     \* changes and failures that may still happen

lvars == <<source, site, crawl, known, detail, luck>>

\* not stated: no deadline, the text is kept; guessed: a zone nobody stated
Deadlines == {"none", "unstated", "estimated", "stated", "guessed"}
Listing == [tender : Listed, deadline : Deadlines]
\* off: an inactive source; stayed: tenders listed since the crawl began, and
\* published, withdrawn, transient and refused what has happened since
Crawl == [stage : {"off", "idle", "form", "request", "done", "failed"}, facet : Nat, at : Nat,
          visited : SUBSET Nat, seen : SUBSET Listed, pages : Nat, entries : Nat,
          found : SUBSET Listing, tries : Nat, stayed : SUBSET Listed,
          published : Nat, withdrawn : Nat, transient : Nat, refused : BOOLEAN]
Detail == [outcome : {"unread", "read", "failed"}, offers : SUBSET Link]
NoDetail == [outcome |-> "unread", offers |-> {}]

-----------------------------------------------------------------------------
(* What the site serves and what the connector reads *)

Html == source.family \in {"html", "form"}
\* the list the chain of pages of facet f shows
View(f) ==
  LET upto[n \in 0..Len(site)] ==
        IF n = 0 THEN <<>>
        ELSE IF site[n] = Unreadable \/ site[n] \in source.facets[f]
             THEN Append(upto[n - 1], site[n]) ELSE upto[n - 1]
  IN  upto[Len(site)]
\* a site may serve fewer entries than it is asked for
PageSize == IF source.family = "feed" THEN Len(site)
            ELSE IF source.size = 0 THEN PageCap ELSE Min({source.size, PageCap})
First == IF source.paging = "offset" THEN 0 ELSE 1
\* the number of entries before the page at position p
Before(p) == IF source.paging = "offset" THEN p ELSE (p - 1) * PageSize
\* what the connector takes of it: feed.py keeps the first max_items entries
Served(f, p) ==
  LET end == IF source.family = "feed" THEN MaxPages ELSE Before(p) + PageSize
  IN  SubSeq(View(f), Before(p) + 1, Min({end, Len(View(f))}))
Readable(entries) == {e \in Range(entries) : e # Unreadable}

\* _parse_absolute_deadline, then _parse_relative_deadline: a machine-readable date
\* that names no known zone is taken for UTC, a date in words is not
HtmlDeadline(text) == CASE text \in {"stamp_zoned", "wording_zoned"} -> "stated"
                        [] text = "stamp_bare" -> "guessed"
                        [] text = "countdown" -> "estimated"
                        [] text = "nothing" -> "none"
                        [] OTHER -> "unstated"
\* json_api._deadline: an offset or an epoch number, or no deadline
JsonDeadline(text) == CASE text = "stamp_zoned" -> "stated"
                        [] text = "nothing" -> "none"
                        [] OTHER -> "unstated"
\* _extract_row
HtmlListing(t) == [tender |-> t, deadline |-> HtmlDeadline(Closing[t])]
\* _item_to_listing
JsonListing(t) == [tender |-> t, deadline |-> JsonDeadline(Closing[t])]
\* _entry_to_listing: a feed has no deadline patterns unless it is given some
FeedListing(t) == [tender |-> t, deadline |-> "none"]
AsListing(t) == CASE Html -> HtmlListing(t) [] source.family = "json" -> JsonListing(t)
                  [] OTHER -> FeedListing(t)

\* _next_page_url, or the cursor of the payload: the page that is advertised
Advertised(p) == IF Before(p) + PageSize < Len(View(crawl.facet)) THEN p + 1 ELSE 0
\* _next_url: the page size that was declared, or what the page held, is the step
Stepped(p, served) == LET step == IF source.size > 0 THEN source.size ELSE Len(served)
                      IN  IF step = 0 THEN 0 ELSE p + step
\* the page after the one at p, 0 when there is none
NextPage(p, served) == CASE source.paging = "next" -> Advertised(p)
                         [] source.paging = "page" -> p + 1
                         [] source.paging = "offset" -> Stepped(p, served)

\* _why_finished: the declared total is reached, or the page is short
Finished(entries, served) ==
  /\ source.family = "json"
  /\ \/ source.total /\ entries >= Len(View(crawl.facet))
     \/ source.size > 0 /\ Len(served) < source.size

\* _parse_page: rows, and none of them can be read
HtmlMisparsed(served) == Html /\ served # <<>> /\ Readable(served) = {}
\* FeedAdapter.list_new_tenders: entries, and none of them can be read
FeedMisparsed(served) == source.family = "feed" /\ served # <<>> /\ Readable(served) = {}
\* the connector raises, at the latest on an empty first page
Misparsed(served) == \/ HtmlMisparsed(served) \/ FeedMisparsed(served)
                     \/ served = <<>> /\ crawl.pages = 0 /\ ~source.lenient

-----------------------------------------------------------------------------
NoCrawl == [stage |-> "idle", facet |-> 1, at |-> 0, visited |-> {}, seen |-> {}, pages |-> 0,
            entries |-> 0, found |-> {}, tries |-> 0, stayed |-> {}, published |-> 0,
            withdrawn |-> 0, transient |-> 0, refused |-> FALSE]

CrawlInit ==
  /\ source \in Sources
  /\ site \in Lists
  /\ crawl = NoCrawl
  /\ known = {}
  /\ detail = NoDetail
  /\ luck = Mishaps

Working == crawl.stage \in {"form", "request"}
\* the chain of pages of facet f starts
Chain(c, f) == [c EXCEPT !.facet = f, !.at = First, !.visited = {}, !.seen = {},
                         !.pages = 0, !.entries = 0, !.tries = 0]

\* list_new_tenders; every due run of the source crawls it again
StartCrawl ==
  /\ crawl.stage \in {"idle", "done", "failed"}
  /\ crawl' = Chain([NoCrawl EXCEPT !.stage = IF source.family = "form" THEN "form" ELSE "request",
                                    !.stayed = Range(site) \cap Listed], 1)
  /\ detail' = NoDetail
  /\ UNCHANGED <<source, site, known, luck>>

\* HttpFormDriver.run: the form page is read, its values go into the submission
FormRead ==
  /\ crawl.stage = "form"
  /\ crawl' = [crawl EXCEPT !.stage = "request", !.tries = 0]
  /\ UNCHANGED <<source, site, known, detail, luck>>

\* a chain of pages has ended: the next facet, or the result
NextChain(c) == IF c.facet < Len(source.facets) THEN Chain(c, c.facet + 1)
                ELSE [c EXCEPT !.stage = "done"]

\* mutant: the last page the cap allows is not read
EndsEarly(c, next, fresh, served) ==
  next = 0 \/ next \in c.visited \/ c.pages + 1 >= MaxPages \/ (c.pages > 1 /\ fresh = {})
\* mutant: the crawl ends at the first entry it has seen before
EndsAtRepeat(c, next, fresh, served) ==
  next = 0 \/ next \in c.visited \/ c.pages >= MaxPages \/ fresh # Readable(served)
\* the chain ends at the end of the list, at a page it has read, at the cap, or
\* at a page that brought nothing new
Ends(c, next, fresh, served) ==
  next = 0 \/ next \in c.visited \/ c.pages >= MaxPages \/ (c.pages > 1 /\ fresh = {})

\* a page was read: what is new on it is kept
AfterPage(served) ==
  LET fresh == Readable(served) \ crawl.seen
      entries == crawl.entries + Len(served)
      next == IF Finished(entries, served) THEN 0 ELSE NextPage(crawl.at, served)
      read == [crawl EXCEPT !.visited = @ \cup {crawl.at}, !.pages = @ + 1, !.entries = entries,
                            !.seen = @ \cup fresh, !.tries = 0,
                            !.found = @ \cup {AsListing(t) : t \in fresh}]
  IN  IF Ends(read, next, fresh, served) THEN NextChain(read) ELSE [read EXCEPT !.at = next]

\* _crawl, _page_through, FeedAdapter.list_new_tenders: one page.  What a crawl
\* found counts only when it ends.
PageRead ==
  /\ crawl.stage = "request" /\ ~source.secured
  /\ LET served == Served(crawl.facet, crawl.at) IN
     crawl' = IF Misparsed(served) THEN [crawl EXCEPT !.stage = "failed"] ELSE AfterPage(served)
  /\ known' = IF crawl'.stage = "done" THEN known \cup {l.tender : l \in crawl'.found} ELSE known
  /\ UNCHANGED <<source, site, detail, luck>>

\* worker/main.py and admin/main.py give the registry a GET-only fetcher, so _send
\* drops the method, the headers and the credential
Unauthorised ==
  /\ crawl.stage = "request" /\ source.secured
  /\ crawl' = [crawl EXCEPT !.stage = "failed", !.refused = TRUE]
  /\ UNCHANGED <<source, site, known, detail, luck>>

\* _parse_attachments: the links of the page that are documents
Offers(t) == {l \in Links[t] : ~l.excluded /\ (l.file \/ l.block)}
\* _detail_url: the link of this crawl's listing, or the template
Reachable(t) == source.templated \/ \E l \in crawl.found : l.tender = t
\* get_detail and get_attachments of a tender the pipeline takes up, one of this
\* crawl or one it recovers
ReadDetail(t) ==
  /\ crawl.stage = "done" /\ t \in known /\ detail = NoDetail
  /\ detail' = IF Reachable(t) THEN [outcome |-> "read", offers |-> Offers(t)]
               ELSE [outcome |-> "failed", offers |-> {}]
  /\ UNCHANGED <<source, site, crawl, known, luck>>

Misfortune == luck > 0 /\ luck' = luck - 1

\* mutant: the request is given up one retry early
UnansweredEarly ==
  /\ Working /\ Misfortune
  /\ LET c == [crawl EXCEPT !.transient = @ + 1] IN
     crawl' = IF crawl.tries + 1 >= MaxRetries THEN [c EXCEPT !.stage = "failed"]
              ELSE [c EXCEPT !.tries = @ + 1]
  /\ UNCHANGED <<source, site, known, detail>>
\* PoliteHttpClient: a transport error or a retryable status, and the backoff
Unanswered ==
  /\ Working /\ Misfortune
  /\ LET c == [crawl EXCEPT !.transient = @ + 1] IN
     crawl' = IF crawl.tries >= MaxRetries THEN [c EXCEPT !.stage = "failed"]
              ELSE [c EXCEPT !.tries = @ + 1]
  /\ UNCHANGED <<source, site, known, detail>>

\* robots.txt forbids the page, its status is an error or its body is no list
Refused ==
  /\ Working /\ Misfortune
  /\ crawl' = [crawl EXCEPT !.stage = "failed", !.refused = TRUE]
  /\ UNCHANGED <<source, site, known, detail>>

-----------------------------------------------------------------------------
(* The site *)

Publish(t) ==
  /\ t \notin Range(site) /\ Misfortune
  /\ site' = <<t>> \o site
  /\ crawl' = [crawl EXCEPT !.published = @ + 1]
  /\ UNCHANGED <<source, known, detail>>

Withdraw(k) ==
  /\ site[k] # Unreadable /\ Misfortune
  /\ site' = RemoveAt(site, k)
  /\ crawl' = [crawl EXCEPT !.withdrawn = @ + 1, !.stayed = @ \ {site[k]}]
  /\ UNCHANGED <<source, known, detail>>

CrawlStep == StartCrawl \/ FormRead \/ PageRead \/ Unauthorised
CrawlNext ==
  \/ CrawlStep \/ Unanswered \/ Refused
  \/ \E t \in Listed : Publish(t) \/ ReadDetail(t)
  \/ \E k \in DOMAIN site : Withdraw(k)

CrawlFairness == WF_lvars(CrawlStep)
CrawlSpec == CrawlInit /\ [][CrawlNext]_lvars /\ CrawlFairness

-----------------------------------------------------------------------------
(* Properties *)

Unreadables == Cardinality({k \in DOMAIN site : site[k] = Unreadable})
\* the chain of some facet reaches tender t within the cap
WithinReach(t) ==
  \E f \in DOMAIN source.facets, p \in 1..(IF source.family = "feed" THEN 1 ELSE MaxPages) :
    t \in Range(Served(f, IF source.paging = "offset" THEN (p - 1) * PageSize ELSE p))
\* the site serves shorter pages than it is asked for: every page looks like the last
Shortchanged == source.size > PageCap

\* A crawl that succeeds returns every tender that stayed on the list within its
\* reach, unless an entry was withdrawn under it or the entries published under it
\* (and the unreadable ones) fill a page: the stop at a page without news and the
\* counting of pages and offsets lose nothing by themselves (_crawl, _page_through).
SkipNeedsChange ==
  crawl.stage = "done" =>
    \A t \in crawl.stayed : WithinReach(t) =>
      \/ \E l \in crawl.found : l.tender = t
      \/ crawl.withdrawn > 0 \/ crawl.published + Unreadables >= PageSize \/ Shortchanged

\* A crawl is lost only to a refusal, to more failures than the polite client
\* retries, to an entry that cannot be read, or because the list it reads is empty
\* at that moment.
TransientsAreRidden ==
  [][crawl.stage # "failed" /\ crawl'.stage = "failed" =>
       crawl'.refused \/ crawl'.transient > MaxRetries \/ Unreadables > 0
       \/ View(crawl.facet) = <<>>]_lvars

\* a page without a readable entry makes the HTML connectors and the feed raise, and
\* ends the crawl of a JSON list; a source that needs a credential is never read
Hampered == Shortchanged \/ Unreadables > 0 \/ source.secured

\* What one crawl misses a later one returns: the list is crawled again from its
\* top, and once it holds still every tender within reach is known.
MissedIsFoundLater == <>[](\A t \in Listed : WithinReach(t) => t \in known \/ Hampered)

-----------------------------------------------------------------------------
(* Promises the code does not keep *)

\* docs/05 5.2: the list is followed until no new items are found.  A site that
\* caps the page size, one malformed row alone on a page or a credential the
\* production fetcher cannot carry hides the rest.
ListedIsKnown == <>[](\A t \in Listed : WithinReach(t) => t \in known)

\* docs/05 5.2: a zone is never assumed; _parse_absolute_deadline and
\* parse_timestamp assume UTC.
DeadlineIsStated == \A l \in crawl.found : l.deadline # "guessed"

\* A tender the recovery takes up again can be read.  A feed or JSON source without
\* a template only knows the links of the tenders on its present list.
KnownIsReadable == detail.outcome # "failed"
=============================================================================
