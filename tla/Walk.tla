--------------------------------- MODULE Walk ---------------------------------
(***************************************************************************)
(* The walk of a site (core/internal/crawl/walk.go): level by level, one   *)
(* loop hands the pages of the frontier to goroutines, at most Concurrency *)
(* of them at once, and every page that lands adds its links to the next   *)
(* level under a mutex.  The order of the links on a page and of the pages *)
(* in a level is abstracted: any order.                                    *)
(***************************************************************************)
EXTENDS Naturals, FiniteSets

CONSTANTS
    Url,          \* the URLs as they are spelled
    Canonical,    \* canonical: the key two spellings of one page share
    Start,        \* scope.Start
    Declared,     \* what sitemapURLs lists, nothing unless Seed is "sitemap"
    Admitted,     \* the URLs that scope.Admits
    Allowed,      \* the URLs that robots.txt allows
    PageLinks,    \* the sets of links a page may hold
    MaxDepth, MaxPages,
    Concurrency   \* concurrency

ASSUME WalkAssumption ==
    /\ IsFiniteSet(Url) /\ Start \in Url
    /\ DOMAIN Canonical = Url
    /\ Declared \subseteq Admitted /\ Admitted \subseteq Url
    /\ Cardinality(Declared) <= MaxPages
    /\ Allowed \subseteq Url
    /\ PageLinks \subseteq SUBSET Url
    /\ MaxDepth \in Nat \ {0} /\ MaxPages \in Nat \ {0}
    /\ Concurrency \in Nat \ {0}

VARIABLES
    pc,         \* where the loop is
    depth, read,
    frontier,   \* the pages of this level the loop has not come to
    counted,    \* the page that is counted and waits for the semaphore
    fetching,   \* the pages being read: each holds the semaphore
    next, seen,
    emitted,    \* the results handed to emit
    cancelled   \* ctx.Err() is not nil

coordinator == <<pc, depth, read, frontier, counted>>
shared == <<next, seen, emitted>>
walkVars == <<coordinator, shared, fetching, cancelled>>

Result == [url : Url, depth : Nat, ok : BOOLEAN, links : SUBSET Url]

Keys(urls) == {Canonical[u] : u \in urls}

\* Mutant: only the URL as spelled is looked up.
AnySpelling(found) == TRUE

OneSpelling(found) ==
    \A u, v \in found : Canonical[u] = Canonical[v] => u = v

\* What is added of a list of URLs: of each page that is not known yet, the
\* spelling met first.
Fresh(urls, known) ==
    {found \in SUBSET {u \in urls : Canonical[u] \notin known} :
       /\ OneSpelling(found)
       /\ Keys(found) = Keys(urls) \ known}

-----------------------------------------------------------------------------
WalkInit ==
    /\ \E found \in Fresh(Declared, {Canonical[Start]}) :
         /\ frontier = {Start} \cup found
         /\ seen = {Canonical[Start]} \cup Keys(found)
    /\ pc = "level"
    /\ depth = 0 /\ read = 0
    /\ counted = {} /\ fetching = {} /\ next = {} /\ emitted = {}
    /\ cancelled = FALSE

Room == read < MaxPages

\* The loop comes to page u and takes it, or leaves it out for robots.txt.
Consider(u) ==
    /\ pc = "level" /\ counted = {}
    /\ u \in frontier
    /\ Room /\ ~cancelled
    /\ frontier' = frontier \ {u}
    /\ IF u \in Allowed
       THEN read' = read + 1 /\ counted' = {u}
       ELSE UNCHANGED <<read, counted>>
    /\ UNCHANGED <<pc, depth, shared, fetching, cancelled>>

\* The semaphore has a place: the page's goroutine starts.  A ctx that ended
\* while the loop waited is not looked at again.
Launch(u) ==
    /\ pc = "level"
    /\ u \in counted
    /\ Cardinality(fetching) < Concurrency
    /\ fetching' = fetching \cup {u}
    /\ counted' = {}
    /\ UNCHANGED <<pc, depth, read, frontier, shared, cancelled>>

\* wg.Wait, the level being at its end or the loop broken off.
EndLevel ==
    /\ pc = "level" /\ counted = {}
    /\ frontier = {} \/ ~Room \/ cancelled
    /\ pc' = "wait"
    /\ UNCHANGED <<depth, read, frontier, counted, shared, fetching, cancelled>>

\* Mutant: without wg.Wait.
NextLevelEarly ==
    /\ pc = "wait"
    /\ depth' = depth + 1
    /\ frontier' = next
    /\ next' = {}
    /\ pc' = IF depth + 1 <= MaxDepth /\ next # {} /\ Room
             THEN "level" ELSE "done"
    /\ UNCHANGED <<read, counted, seen, emitted, fetching, cancelled>>

NextLevel ==
    /\ pc = "wait"
    /\ fetching = {}
    /\ depth' = depth + 1
    /\ frontier' = next
    /\ next' = {}
    /\ pc' = IF depth + 1 <= MaxDepth /\ next # {} /\ Room
             THEN "level" ELSE "done"
    /\ UNCHANGED <<read, counted, seen, emitted, fetching, cancelled>>

\* Mutant: the last level but one is not followed either.
FollowsAbove == depth + 1 < MaxDepth

Follows == depth # MaxDepth

\* The links of a page that landed, what is new of them being kept.
Collect(links) ==
    \E found \in Fresh(links \cap Admitted, seen) :
      /\ next' = next \cup found
      /\ seen' = seen \cup Keys(found)

\* Page u is read, or cannot be (its error is emitted), all under the mutex.
\* What emit does of its own is its caller's to say, cancelling included.
Land(u, links) ==
    /\ u \in fetching
    /\ fetching' = fetching \ {u}
    /\ emitted' = emitted \cup
         {[url |-> u, depth |-> depth, ok |-> TRUE, links |-> links]}
    /\ IF Follows THEN Collect(links) ELSE UNCHANGED <<next, seen>>
    /\ UNCHANGED coordinator

LandFailed(u) ==
    /\ u \in fetching
    /\ fetching' = fetching \ {u}
    /\ emitted' = emitted \cup
         {[url |-> u, depth |-> depth, ok |-> FALSE, links |-> {}]}
    /\ UNCHANGED <<coordinator, next, seen>>

\* The caller's ctx ends at any time.
Cancel ==
    /\ pc # "done" /\ ~cancelled
    /\ cancelled' = TRUE
    /\ UNCHANGED <<coordinator, shared, fetching>>

\* The walk has returned.
Finished == pc = "done" /\ UNCHANGED walkVars

Loop == EndLevel \/ NextLevel \/ \E u \in Url : Consider(u) \/ Launch(u)

\* Mutant: a goroutine that finds ctx ended returns without a word.
FetchedUnlessCancelled(u) ==
    /\ ~cancelled
    /\ LandFailed(u) \/ \E links \in PageLinks : Land(u, links)
    /\ UNCHANGED cancelled

Fetched(u) ==
    /\ LandFailed(u) \/ \E links \in PageLinks : Land(u, links)
    /\ UNCHANGED cancelled

-----------------------------------------------------------------------------
(* Properties *)

\* The shape of every variable; at most one page waits for the semaphore.
WalkTypeOK ==
    /\ pc \in {"level", "wait", "done"}
    /\ depth \in Nat /\ read \in Nat
    /\ frontier \subseteq Url /\ next \subseteq Url
    /\ counted \in {{}} \cup {{u} : u \in Url}
    /\ fetching \subseteq Url
    /\ seen \subseteq Keys(Url)
    /\ emitted \subseteq Result
    /\ cancelled \in BOOLEAN

\* read, which bounds the walk and is what it returns ("the number of pages
\* emitted", walk.go, Walk), is the pages emitted and those on their way, and
\* never passes MaxPages, three fetches landing in any order.
CountIsEmitted ==
    /\ read = Cardinality(emitted) + Cardinality(fetching) + Cardinality(counted)
    /\ read <= MaxPages
    /\ Cardinality(fetching) <= Concurrency
    /\ pc = "done" => fetching = {} /\ counted = {}

\* No page is read twice in a walk, under whatever spellings and from however
\* many pages at once it is linked (seen and canonical of walk.go).
ReadOnce ==
    \A d, e \in emitted :
      Canonical[d.url] = Canonical[e.url] => d = e

LinksTo(p, u) == p.ok /\ \E l \in p.links \cap Admitted : Canonical[l] = Canonical[u]

Seeds == Keys({Start} \cup Declared)

\* The walk is breadth-first (walk.go, Walk): a page is emitted at the length
\* of the shortest chain of links that leads to it from the seeds through
\* pages that were read.
BreadthFirst ==
    \A e \in emitted :
      /\ e.depth <= MaxDepth
      /\ e.depth = 0 <=> Canonical[e.url] \in Seeds
      /\ e.depth > 0 => \E p \in emitted : p.depth + 1 = e.depth /\ LinksTo(p, e.url)
      /\ \A p \in emitted : LinksTo(p, e.url) => e.depth <= p.depth + 1

\* A walk that is neither cancelled nor full missed no page it could have
\* followed a link to, unless robots.txt forbids a spelling of it.
NothingMissed ==
    pc = "done" /\ ~cancelled /\ read < MaxPages =>
      \A k \in Seeds \cup
          {Canonical[l] : l \in UNION {p.links \cap Admitted :
                             p \in {q \in emitted : q.ok /\ q.depth < MaxDepth}}} :
        \/ k \in Keys({e.url : e \in emitted})
        \/ \E u \in Url \ Allowed : Canonical[u] = k
=============================================================================
