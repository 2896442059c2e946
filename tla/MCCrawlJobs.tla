------------------------------ MODULE MCCrawlJobs ------------------------------
(* One job over a site of two pages.                                          *)
EXTENDS CrawlJobs

CONSTANTS j1, p1, p2

MCPair == [j \in {j1} |-> {p1, p2}]
=============================================================================
