------------------------------- MODULE WebCrawl -------------------------------
(***************************************************************************)
(* Refreshing a web source (refreshWeb in                                  *)
(* packages/knowledge/refresh-source.ts): one crawl after the other of a   *)
(* site that changes meanwhile.  Claims, runs and index jobs are those of  *)
(* SourceRefresh; here a crawl is started, walks the links and             *)
(* deactivates what it has not seen, or dies.                              *)
(*                                                                         *)
(* A page is its links, its content, which is also its validator, and the  *)
(* addresses that its answer gives: where redirects end and the canonical  *)
(* link.  A page that has not changed may be answered with 304.  Contents  *)
(* never come back (for those that do see SourceRefresh).                  *)
(***************************************************************************)
EXTENDS Naturals, Sequences, SequencesExt, FiniteSets

CONSTANTS Pages,          \* URLs on the host of the source
          Root,           \* the URL of the source
          NoPage,         \* the parent of the root
          NoSnapshot,     \* no SourceSnapshot row
          CrawlDepths,    \* values of crawlDepth
          PageLimits,     \* values of maxPages
          LinkLists,      \* what pages may link to, in their order
          Targets,        \* where pages may redirect to; what they may call canonical
          MaxSiteChanges  \* bound: changes of pages

ASSUME CrawlAssumption ==
  /\ Root \in Pages /\ NoPage \notin Pages /\ IsFiniteSet(Pages)
  /\ CrawlDepths \subseteq 0..2 /\ PageLimits \subseteq Nat \ {0}
  /\ LinkLists \subseteq Seq(Pages) /\ Targets \subseteq Pages
  /\ MaxSiteChanges \in Nat

VARIABLES
  maxDepth, maxPages,  \* the configuration of the source
  site,                \* site[p]: how the page answers, its links, content and addresses
  siteChanges,         \* how often pages have changed; the newest content
  page,                \* page[p]: the snapshot with its document
  crawl,               \* the crawl that is under way
  crawlStatus          \* of the newest SourceRefreshRun row

webVars == <<maxDepth, maxPages, site, siteChanges, page, crawl, crawlStatus>>

HttpAnswers == {"OK", "DENIED", "ERROR"}  \* DENIED: HTTP 400 or 403
PageContents == 0..MaxSiteChanges
SiteAnswers == [answer: HttpAnswers, links: LinkLists, content: PageContents,
                finalUrl: Pages, canonicalUrl: Pages]
Snapshots == [links: LinkLists, content: PageContents, parent: Pages \cup {NoPage},
              active: BOOLEAN]
NoCrawl == [on |-> FALSE, previous |-> [p \in Pages |-> NoSnapshot], queue |-> << >>,
            visited |-> {}, seen |-> {}, truncated |-> FALSE, errors |-> FALSE,
            links |-> {}]

WebTypeOK ==
  /\ maxDepth \in CrawlDepths /\ maxPages \in PageLimits
  /\ site \in [Pages -> SiteAnswers]
  /\ siteChanges \in 0..MaxSiteChanges
  /\ \A p \in Pages : page[p] = NoSnapshot \/ page[p] \in Snapshots
  /\ \A p \in Pages : crawl.previous[p] = NoSnapshot \/ crawl.previous[p] \in Snapshots
  /\ crawl.queue \in Seq([url: Pages, depth: 0..2, parent: Pages \cup {NoPage}])
  /\ crawl.seen \subseteq crawl.visited /\ crawl.visited \subseteq Pages
  /\ crawl.links \subseteq Pages \X Pages
  /\ crawlStatus \in {"QUEUED", "PROCESSING", "COMPLETED", "PARTIAL", "FAILED"}
  /\ {crawl.on, crawl.truncated, crawl.errors} \subseteq BOOLEAN

WebInit ==
  /\ maxDepth \in CrawlDepths /\ maxPages \in PageLimits
  /\ \E links \in [Pages -> LinkLists] :
       site = [p \in Pages |-> [answer |-> "OK", links |-> links[p], content |-> 0,
                                finalUrl |-> p, canonicalUrl |-> p]]
  /\ siteChanges = 0
  /\ page = [p \in Pages |-> NoSnapshot]
  /\ crawl = NoCrawl
  /\ crawlStatus = "QUEUED"

-----------------------------------------------------------------------------
\* An author edits, moves or breaks a page.
NextAnswers(p) ==
  {[site[p] EXCEPT !.answer = answer] : answer \in {"DENIED", "ERROR"}}
  \cup [answer: {"OK"}, links: LinkLists, content: {site[p].content, siteChanges + 1},
        finalUrl: Targets \cup {p}, canonicalUrl: Targets \cup {p}]

changePage(p) ==
  /\ siteChanges < MaxSiteChanges
  /\ siteChanges' = siteChanges + 1
  /\ \E answer \in NextAnswers(p) \ {site[p]} : site' = [site EXCEPT ![p] = answer]
  /\ UNCHANGED <<maxDepth, maxPages, page, crawl, crawlStatus>>

startCrawl ==
  /\ ~crawl.on
  /\ crawl' = [NoCrawl EXCEPT !.on = TRUE, !.previous = page,
                              !.queue = <<[url |-> Root, depth |-> 0, parent |-> NoPage]>>]
  /\ crawlStatus' = "PROCESSING"
  /\ UNCHANGED <<maxDepth, maxPages, site, siteChanges, page>>

Item == Head(crawl.queue)
Looping == crawl.on /\ crawl.queue # << >> /\ Cardinality(crawl.seen) < maxPages
Processing == Looping /\ Item.url \notin crawl.visited
processed == Cardinality(crawl.seen) + 1

\* The limit is looked at before the link: it also counts a link to a known page.
\* Mutant: one page more.
AtPageLimitLate(queue) == Len(queue) + processed > maxPages
AtPageLimit(queue) == Len(queue) + processed >= maxPages

Queued(queue) == {queue[i].url : i \in DOMAIN queue}

\* enqueueChildren for one link after the other, until the limit stops it.
enqueueChild(reached, url) ==
  IF reached.truncated THEN reached
  ELSE IF AtPageLimit(reached.queue) THEN [reached EXCEPT !.truncated = TRUE]
  ELSE IF url \in reached.visited \cup Queued(reached.queue) THEN reached
  ELSE [reached EXCEPT !.queue =
          Append(@, [url |-> url, depth |-> Item.depth + 1, parent |-> Item.url])]

enqueueChildren(links, visited) ==
  LET rest == [queue |-> Tail(crawl.queue), visited |-> visited, truncated |-> FALSE]
  IN IF Item.depth >= maxDepth THEN rest ELSE FoldLeft(enqueueChild, rest, links)

\* What one turn of the loop leaves of the crawl, for a page that gave these addresses.
Visit(links, addresses) ==
  LET visited == crawl.visited \cup {Item.url} \cup addresses
      reached == enqueueChildren(links, visited)
  IN crawl' = [crawl EXCEPT !.queue = reached.queue, !.visited = visited,
                            !.seen = @ \cup {Item.url},
                            !.truncated = @ \/ reached.truncated,
                            !.links = @ \cup ({Item.url} \X Range(links))]

\* A page whose address another page gave after it was queued is not read, and not seen.
passVisited ==
  /\ Looping
  /\ Item.url \in crawl.visited
  /\ crawl' = [crawl EXCEPT !.queue = Tail(@)]
  /\ UNCHANGED <<maxDepth, maxPages, site, siteChanges, page, crawlStatus>>

Answer == site[Item.url]
Prior == crawl.previous[Item.url]

\* 200: a new content gives the document a version; one that is already known leaves an
\* inactive document inactive.
fetchPage ==
  /\ Processing
  /\ Answer.answer = "OK"
  /\ page' = [page EXCEPT ![Item.url] =
       [links |-> Answer.links, content |-> Answer.content, parent |-> Item.parent,
        active |-> \/ Prior = NoSnapshot
                   \/ Prior.content # Answer.content
                   \/ page[Item.url].active]]
  /\ Visit(Answer.links, {Answer.finalUrl, Answer.canonicalUrl})
  /\ UNCHANGED <<maxDepth, maxPages, site, siteChanges, crawlStatus>>

KnownChildren == {p \in Pages : /\ crawl.previous[p] # NoSnapshot
                                /\ crawl.previous[p].parent = Item.url}

\* 304: the links of the page are those that were found on it first.  Only the first request
\* is conditional, so that a page that redirects does not answer so.
fetchNotModified ==
  /\ Processing
  /\ Answer.answer = "OK" /\ Answer.finalUrl = Item.url
  /\ Prior # NoSnapshot
  /\ Prior.links = Answer.links /\ Prior.content = Answer.content
  /\ \E links \in SetToSeqs(KnownChildren) : Visit(links, {Answer.finalUrl})
  /\ UNCHANGED <<maxDepth, maxPages, site, siteChanges, page, crawlStatus>>

\* shouldSkipWebCrawlError: a denied page is passed over, any other error is noted.
skipPage ==
  /\ Processing
  /\ Answer.answer # "OK" /\ Item.depth > 0
  /\ crawl' = [crawl EXCEPT !.queue = Tail(@), !.visited = @ \cup {Item.url},
                            !.seen = @ \cup {Item.url},
                            !.errors = @ \/ Answer.answer = "ERROR"]
  /\ UNCHANGED <<maxDepth, maxPages, site, siteChanges, page, crawlStatus>>

\* The root cannot be read: the run fails.
rootFails ==
  /\ Processing
  /\ Answer.answer # "OK" /\ Item.depth = 0
  /\ crawl' = NoCrawl
  /\ crawlStatus' = "FAILED"
  /\ UNCHANGED <<maxDepth, maxPages, site, siteChanges, page>>

\* Mutant: what a page limit kept from being seen counts as gone.
CrawlNeverTruncated == FALSE
CrawlTruncated == crawl.truncated \/ crawl.queue # << >>
Unseen == {p \in Pages : crawl.previous[p] # NoSnapshot /\ p \notin crawl.seen}

finishCrawl ==
  /\ crawl.on /\ ~Looping
  /\ page' = [p \in Pages |-> IF ~CrawlTruncated /\ p \in Unseen
                              THEN [page[p] EXCEPT !.active = FALSE] ELSE page[p]]
  /\ crawlStatus' = IF CrawlTruncated \/ crawl.errors THEN "PARTIAL" ELSE "COMPLETED"
  /\ crawl' = NoCrawl
  /\ UNCHANGED <<maxDepth, maxPages, site, siteChanges>>

\* The process or the database connection dies; a later run starts again.
crawlDies ==
  /\ crawl.on
  /\ crawl' = NoCrawl
  /\ UNCHANGED <<maxDepth, maxPages, site, siteChanges, page, crawlStatus>>

WebNext ==
  \/ \E p \in Pages : changePage(p)
  \/ startCrawl \/ passVisited \/ fetchPage \/ fetchNotModified \/ skipPage \/ rootFails
  \/ finishCrawl \/ crawlDies

WebSpec == WebInit /\ [][WebNext]_webVars

-----------------------------------------------------------------------------
(* Properties. *)

\* The crawl is breadth first: the queue holds pages of one depth, then of the next, each
\* once, none that was read, and never more than the limit leaves room for.
QueueIsBreadthFirst ==
  LET queue == crawl.queue
  IN /\ \A i, j \in DOMAIN queue : i < j =>
          /\ queue[i].url # queue[j].url
          /\ queue[j].depth - queue[i].depth \in {0, 1}
     /\ \A i \in DOMAIN queue : queue[i].depth <= maxDepth /\ queue[i].url \notin crawl.seen
     /\ Len(queue) + Cardinality(crawl.seen) <= maxPages

\* Pages within d links of the root, over the links that this crawl has read.
WithinDepth[d \in 0..2] ==
  IF d = 0 THEN {Root}
  ELSE WithinDepth[d - 1] \cup
         {p \in Pages : \E q \in WithinDepth[d - 1] : <<q, p>> \in crawl.links}

Deactivated(p) == page[p] # NoSnapshot /\ page[p].active /\ ~page'[p].active

HidesOnlyWhatIsGone ==
  \A p \in Pages : Deactivated(p) => p \notin WithinDepth[maxDepth] \/ p \in crawl.visited

CompletedShowsOnlySeen ==
  crawlStatus = "PROCESSING" /\ crawlStatus' = "COMPLETED"
    => \A p \in Pages \ crawl.seen : page[p] = NoSnapshot \/ ~page'[p].active

\* A refresh hides what is gone.  A page is deactivated only if no link that this crawl has
\* read, within the depth of the source, leads to it, or if another page that it has read gave
\* this address as its own (by a redirect or a canonical link): neither the limit nor a page
\* that fails costs a page its document.  The links that the crawl has read are, for a page
\* that answered 304, only those to pages that were found on it first.  And after a successful
\* refresh retrieval sees pages that the crawl has seen only
\* (docs/insightkm-development-plan.md:345).
CrawlHidesWhatIsGone == [][HidesOnlyWhatIsGone /\ CompletedShowsOnlySeen]_webVars
=============================================================================
