------------------------------- MODULE SiteMap -------------------------------
(***************************************************************************)
(* The two callers of a walk.  A crawl (core/internal/crawl/job.go) keeps   *)
(* what is emitted.  The listing of a site's URLs (map.go) takes what its   *)
(* sitemaps declare, then a walk whose emit adds every link it meets and   *)
(* cancels the walk at the first one met with the list full.               *)
(***************************************************************************)
EXTENDS Walk

CONSTANTS Limit, UseSitemap, InSitemaps

ASSUME SiteMapAssumption ==
    /\ Limit \in Nat \ {0}
    /\ UseSitemap \in BOOLEAN
    /\ InSitemaps \subseteq Admitted  \* what sitemapURLs would list without a limit
    /\ Declared \subseteq InSitemaps

VARIABLES
    caller,   \* "crawl", "map", or "filled": a map its sitemaps left no walk
    urls      \* the list of a map

mapVars == <<caller, urls, walkVars>>

Full(list) == Cardinality(list) = Limit

Fits(list) == Cardinality(list) <= Limit

\* What add keeps of some URLs: links inside the scope, a page once, within
\* the limit.
Kept(list, links) ==
    {found \in SUBSET (links \cap Admitted) :
       /\ OneSpelling(found)
       /\ Keys(found) \cap Keys(list) = {}
       /\ Fits(list \cup found)}

New(list, links) == Keys(links \cap Admitted) \ Keys(list)

FirstListed == {Start}

\* The sitemaps are read up to the limit, and what they say added.
FromSitemaps ==
    IF UseSitemap
    THEN \E read1 \in SUBSET InSitemaps :
         \E found \in Kept(FirstListed, read1) :
           /\ Cardinality(read1) <= Limit
           /\ Cardinality(read1) = Limit \/ read1 = InSitemaps
           /\ Full(FirstListed \cup found)
                \/ Keys(found) = New(FirstListed, read1)
           /\ urls = FirstListed \cup found
    ELSE urls = FirstListed

MapInit ==
    /\ WalkInit
    /\ \/ caller = "crawl" /\ urls = {}
       \/ /\ FromSitemaps
          /\ caller = IF UseSitemap /\ Full(urls) THEN "filled" ELSE "map"

\* Every link of the page is looked at, the list filling at the last at most.
ListWhole(links) ==
    /\ \E found \in Kept(urls, links) :
         /\ Keys(found) = New(urls, links)
         /\ links = {} \/ found # {} \/ ~Full(urls)
         /\ urls' = urls \cup found
    /\ UNCHANGED cancelled

\* Mutant: the page is left before the list is full.
ListCutEarly(links) ==
    /\ \E found \in Kept(urls, links) :
         /\ links \ found # {}
         /\ urls' = urls \cup found
    /\ UNCHANGED cancelled

\* Some link is met with the list full: the walk is cancelled.
ListCut(links) ==
    /\ \E found \in Kept(urls, links) :
         /\ Full(urls \cup found)
         /\ links \ found # {}
         /\ urls' = urls \cup found
    /\ cancelled' = TRUE

MapLand(u) ==
    \E links \in PageLinks :
      Land(u, links) /\ (ListWhole(links) \/ ListCut(links))

MapLandFailed(u) == LandFailed(u) /\ UNCHANGED <<cancelled, urls>>

Landing(u) ==
    /\ \/ caller = "map" /\ (MapLand(u) \/ MapLandFailed(u))
       \/ caller = "crawl" /\ Fetched(u) /\ UNCHANGED urls
    /\ UNCHANGED caller

WalkLoop == caller # "filled" /\ Loop /\ UNCHANGED <<caller, urls>>

WalkCancelled == caller # "filled" /\ Cancel /\ UNCHANGED <<caller, urls>>

\* The walk, or the map without one, has returned.
Returned == Finished \/ caller = "filled"

MapNext ==
    \/ WalkLoop \/ WalkCancelled
    \/ \E u \in Url : Landing(u)
    \/ Returned /\ UNCHANGED mapVars

\* The loop runs when it can, and every fetch answers: the fetcher and the
\* renderer work under deadlines of their own.  Nobody need cancel.
MapFairness == WF_mapVars(WalkLoop) /\ \A u \in Url : WF_mapVars(Landing(u))

MapSpec == MapInit /\ [][MapNext]_mapVars /\ MapFairness

-----------------------------------------------------------------------------
(* Properties *)

\* "every page read and every admitted link found on them" (map.go, Map) is
\* listed once, whichever of the pages read at once adds it, unless the list
\* is full, which it is at Limit pages and never past it.
NothingDropped == caller # "crawl" =>
    /\ OneSpelling(urls) /\ Cardinality(urls) <= Limit
    /\ \A e \in emitted :
         Keys({e.url} \cup (e.links \cap Admitted)) \subseteq Keys(urls) \/ Full(urls)

\* A walk that is made ends, whether cancelled or not, whoever asked for it:
\* wg.Wait and the semaphore let every level go.
WalkEnds == caller = "filled" \/ <>(pc = "done")
=============================================================================
