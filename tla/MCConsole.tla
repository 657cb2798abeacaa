------------------------------ MODULE MCConsole ------------------------------
(* Instances for TLC: of Console, with three requests, two sources and two   *)
(* developers, and of Listings, the crawl of one source.  A behaviour plays  *)
(* a scene of the console or crawls a list.                                  *)
EXTENDS Console, Listings, TLC

CONSTANTS r1, r2, t1, t2, t3, t4, t5, bad

Scene(kinds, sent) == [kinds |-> kinds, sent |-> sent]
\* two requests where the scheduler loop runs
ConsoleScenes ==
  {Scene({"source", "tender", "loop"}, {r1, r2}), Scene({"source", "toggle", "loop"}, {r1, r2}),
   Scene({"source", "switch"}, Requests), Scene({"triage", "switch"}, Requests),
   Scene({"remove", "retire", "revive"}, Requests), Scene({"mail", "retire", "switch"}, Requests),
   Scene({"upload"}, Requests), Scene({}, {})}

All == {t1, t2, t3, t4, t5}
ListsOf == {<<t1, t2, t3, t4>>, <<t1, t2, bad>>, <<t1>>}
Src(family, paging, size, total, facets) ==
  [family |-> family, paging |-> paging, size |-> size, total |-> total,
   lenient |-> Len(facets) > 1, secured |-> FALSE, templated |-> family = "html",
   facets |-> facets]
\* every way a JSON list is paged and ended, and one source of each other connector
SourcesOf ==
  {Src("html", "next", 0, FALSE, <<All>>), Src("html", "next", 0, FALSE, <<{t1, t3, t4}, {t2, t3, t5}>>),
   Src("form", "next", 0, FALSE, <<All>>), Src("feed", "next", 0, FALSE, <<All>>),
   [Src("json", "page", 2, FALSE, <<All>>) EXCEPT !.secured = TRUE]}
  \cup {Src("json", p, size, total, <<All>>) : p \in Pagings, size \in 0..3, total \in BOOLEAN}
ClosingOf == [t \in All |-> CASE t = t1 -> "stamp_bare" [] t = t2 -> "countdown"
                              [] t = t3 -> "wording_zoned" [] OTHER -> "stamp_zoned"]
Anchor(excluded, file, block) == [excluded |-> excluded, file |-> file, block |-> block]
LinksOf == [t \in All |->
  IF t = t1 THEN {Anchor(FALSE, TRUE, FALSE), Anchor(TRUE, TRUE, TRUE), Anchor(FALSE, FALSE, TRUE)}
  ELSE {Anchor(FALSE, FALSE, FALSE)}]

\* no crawl in a scene of the console, nothing of the console in a crawl
NoSite == /\ source = Src("html", "next", 0, FALSE, <<{}>>) /\ site = <<>> /\ known = {}
          /\ crawl = [NoCrawl EXCEPT !.stage = "off"] /\ detail = NoDetail /\ luck = 0
Played == /\ ConsoleInit
          /\ "retire" \notin scene.kinds => OnDuty = Staff
          /\ IF scene.sent = {} THEN CrawlInit ELSE NoSite
SpecAll == /\ Played
           /\ [][\/ scene.sent # {} /\ ConsoleNext /\ UNCHANGED lvars
                 \/ scene.sent = {} /\ CrawlNext /\ UNCHANGED cvars]_<<cvars, lvars>>
           /\ ConsoleFairness /\ CrawlFairness
=============================================================================
