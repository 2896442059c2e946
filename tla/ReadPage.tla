------------------------------ MODULE ReadPage ------------------------------
(***************************************************************************)
(* Pages of one host read by several readers of a replica at once          *)
(* (httpapi/page.go): a read, and one more through the proxy when the host *)
(* answers a challenge.  What the readers share is the mark on the host,   *)
(* which the fetch library keeps, and the guarded page cache               *)
(* (challenge.go).  Readers of other hosts touch neither.                  *)
(***************************************************************************)
EXTENDS Naturals

CONSTANTS
    Readers, Urls,
    Bars  \* whether the host may turn a visitor away by its status, too

ASSUME BarsAssumption == Bars \in BOOLEAN

VARIABLES
    proxied,    \* whether a proxy is configured
    site,       \* what the host makes of a visitor; it may change its mind
    preferred,  \* the library's mark: this host is read through the proxy
    cache,      \* what is kept of each url
    doing, url, route, got, attempt,  \* each reader's
    refused,    \* whether the host ever turned the direct address away
    met,        \* the routes by which each reader met a challenge
    began,      \* whether the host was marked as it began
    lifted      \* whether the host has been open ever since

told == <<refused, met, began, lifted>>
readVars == <<proxied, site, preferred, cache, doing, url, route, got, attempt, told>>

Sites == {"open", "wary", "closed"}
Routes == {"direct", "proxy"}

\* A wary host challenges a datacenter's address only.
Served(by) ==
    IF site = "open" \/ (site = "wary" /\ by = "proxy") THEN "page" ELSE "challenge"

ReadInit ==
    /\ proxied \in BOOLEAN /\ site \in Sites
    /\ preferred = FALSE /\ refused = FALSE
    /\ cache = [u \in Urls |-> "none"]
    /\ doing = [r \in Readers |-> "idle"]
    /\ url \in [Readers -> Urls]
    /\ route = [r \in Readers |-> "direct"]
    /\ got = [r \in Readers |-> "none"]
    /\ attempt = [r \in Readers |-> 0]
    /\ met = [r \in Readers |-> {}]
    /\ began = [r \in Readers |-> FALSE]
    /\ lifted = [r \in Readers |-> FALSE]

\* A mark counts where there is a proxy.
ProxyPreferred == proxied /\ preferred

\* A mutant: the route is not chosen by the mark.
RouteDirect == "direct"

\* The route of a fetch or of a rendering (Browser.Render) that starts now.
RouteNow == IF ProxyPreferred THEN "proxy" ELSE "direct"

\* A mutant: the cache is not guarded.
SetAnyhow(u, page) == [cache EXCEPT ![u] = page]

\* guardedCache.Set: a challenge is not kept.
Set(u, page) == IF page = "challenge" THEN cache ELSE [cache EXCEPT ![u] = page]

------------------------------------------------------------------------------
(* FetchWithFallback *)

\* The cache is asked first.
Ask(r) ==
    /\ doing[r] = "asking"
    /\ IF cache[url[r]] # "none"
       THEN /\ got' = [got EXCEPT ![r] = cache[url[r]]]
            /\ doing' = [doing EXCEPT ![r] = "judging"]
            /\ UNCHANGED route
       ELSE /\ route' = [route EXCEPT ![r] = RouteNow]
            /\ doing' = [doing EXCEPT ![r] = "fetching"]
            /\ UNCHANGED got
    /\ UNCHANGED <<proxied, site, preferred, cache, url, attempt, told>>

\* The host turns the direct address away by its status: the library marks it and
\* goes on through the proxy.
Refuse(r) ==
    /\ Bars /\ doing[r] = "fetching" /\ route[r] = "direct" /\ proxied /\ site # "open"
    /\ preferred' = TRUE /\ refused' = TRUE
    /\ route' = [route EXCEPT ![r] = "proxy"]
    /\ UNCHANGED <<proxied, site, cache, doing, url, got, attempt, met, began, lifted>>

\* The fetch fails or comes back near-empty, and the page is rendered.
Fallback(r) ==
    /\ doing[r] = "fetching"
    /\ doing' = [doing EXCEPT ![r] = "rendering"]
    /\ route' = [route EXCEPT ![r] = RouteNow]
    /\ UNCHANGED <<proxied, site, preferred, cache, url, got, attempt, told>>

Back(r) ==
    /\ doing[r] \in {"fetching", "rendering"}
    /\ LET page == Served(route[r]) IN
       /\ got' = [got EXCEPT ![r] = page]
       /\ cache' = Set(url[r], page)
       /\ IF page = "challenge"
          THEN /\ met' = [met EXCEPT ![r] = @ \union {route[r]}]
               /\ refused' = (refused \/ route[r] = "direct")
          ELSE UNCHANGED <<met, refused>>
    /\ doing' = [doing EXCEPT ![r] = "judging"]
    /\ UNCHANGED <<proxied, site, preferred, url, route, attempt, began, lifted>>

\* A mutant: a fetch that fails marks the host.
FailMarked(r) ==
    /\ doing[r] \in {"fetching", "rendering"}
    /\ got' = [got EXCEPT ![r] = "error"]
    /\ doing' = [doing EXCEPT ![r] = "answered"]
    /\ preferred' = TRUE
    /\ UNCHANGED <<proxied, site, cache, url, route, attempt, told>>

Fail(r) ==
    /\ doing[r] \in {"fetching", "rendering"}
    /\ got' = [got EXCEPT ![r] = "error"]
    /\ doing' = [doing EXCEPT ![r] = "answered"]
    /\ UNCHANGED <<proxied, site, preferred, cache, url, route, attempt, told>>

------------------------------------------------------------------------------
(* readPage *)

BeginRead(r) ==
    /\ doing[r] \in {"idle", "answered"}
    /\ doing' = [doing EXCEPT ![r] = "asking"]
    /\ \E u \in Urls : url' = [url EXCEPT ![r] = u]
    /\ got' = [got EXCEPT ![r] = "none"]
    /\ attempt' = [attempt EXCEPT ![r] = 1]
    /\ met' = [met EXCEPT ![r] = {}]
    /\ began' = [began EXCEPT ![r] = ProxyPreferred]
    /\ lifted' = [lifted EXCEPT ![r] = site = "open"]
    /\ UNCHANGED <<proxied, site, preferred, cache, route, refused>>

\* A challenge ends the read when it is the second, or when the host is marked.
Judge(r) ==
    /\ doing[r] = "judging"
    /\ doing' = [doing EXCEPT ![r] =
                IF got[r] = "challenge" /\ attempt[r] = 1 /\ ~ ProxyPreferred
                THEN "marking" ELSE "answered"]
    /\ UNCHANGED <<proxied, site, preferred, cache, url, route, got, attempt, told>>

\* PreferProxy, and once more where there is a proxy.
Mark(r) ==
    /\ doing[r] = "marking"
    /\ preferred' = TRUE
    /\ IF proxied
       THEN /\ doing' = [doing EXCEPT ![r] = "asking"]
            /\ attempt' = [attempt EXCEPT ![r] = @ + 1]
       ELSE doing' = [doing EXCEPT ![r] = "answered"] /\ UNCHANGED attempt
    /\ UNCHANGED <<proxied, site, cache, url, route, got, told>>

------------------------------------------------------------------------------
(* The world *)

SiteTurns ==
    /\ site' \in Sites \ {site}
    /\ lifted' = [r \in Readers |-> lifted[r] /\ site' = "open"]
    /\ UNCHANGED <<proxied, preferred, cache, doing, url, route, got, attempt,
                   refused, met, began>>

\* A kept page outlives its time, or the cache does not answer in its own.
CacheExpires(u) ==
    /\ cache[u] # "none"
    /\ cache' = [cache EXCEPT ![u] = "none"]
    /\ UNCHANGED <<proxied, site, preferred, doing, url, route, got, attempt, told>>

Reading(r) == Ask(r) \/ Fallback(r) \/ Back(r) \/ Fail(r) \/ Judge(r) \/ Mark(r)

ReadNext ==
    \/ \E r \in Readers : BeginRead(r) \/ Refuse(r) \/ Reading(r)
    \/ SiteTurns
    \/ \E u \in Urls : CacheExpires(u)

ReadSpec == ReadInit /\ [][ReadNext]_readVars

------------------------------------------------------------------------------
(* Properties *)

ReadTypeOK ==
    /\ proxied \in BOOLEAN /\ site \in Sites
    /\ preferred \in BOOLEAN /\ refused \in BOOLEAN
    /\ cache \in [Urls -> {"none", "page", "challenge"}]
    /\ doing \in [Readers -> {"idle", "asking", "fetching", "rendering", "judging",
                           "marking", "answered"}]
    /\ url \in [Readers -> Urls] /\ route \in [Readers -> Routes]
    /\ got \in [Readers -> {"none", "page", "challenge", "error"}]
    /\ attempt \in [Readers -> 0 .. 2]
    /\ met \in [Readers -> SUBSET Routes]
    /\ began \in [Readers -> BOOLEAN] /\ lifted \in [Readers -> BOOLEAN]

Challenged(r) == doing[r] = "answered" /\ got[r] = "challenge"

\* The proxy is metered: nothing goes through it before the host has turned the
\* direct address away, whatever else failed and whoever else reads.
ProxyIsEarned == \A r \in Readers : route[r] = "proxy" => refused

\* A host marked as a read begins is not asked directly by it, neither by the
\* fetch, nor by the browser the fetch falls back to, nor the second time; and a
\* read that was done once more ends challenged only if it was through the proxy.
MarkedIsProxied ==
    \A r \in Readers :
      /\ began[r] => "direct" \notin met[r]
      /\ Challenged(r) /\ attempt[r] = 2 => "proxy" \in met[r]

\* "the next fetch of that URL must see whether the challenge has lifted": a read
\* of a host that has been open since it began answers no challenge, whatever
\* other readers were served and kept before.
LiftedIsSeen == \A r \in Readers : lifted[r] => ~ Challenged(r)
=============================================================================
