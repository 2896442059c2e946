------------------------------- MODULE MCSiteMap -------------------------------
(* Small sites: a start page, two spellings of one page, a page robots.txt   *)
(* forbids, one the scope does not admit, and others.                        *)
EXTENDS SiteMap

CONSTANTS home, a, aSlash, b, c, d, forbidden, outside

MCUrl == {home, a, aSlash, b, c, d, forbidden, outside}
MCCanonical == [u \in MCUrl |-> IF u = aSlash THEN a ELSE u]
MCAdmitted == MCUrl \ {outside}
MCAllowed == MCUrl \ {forbidden}
MCPageLinks == {{}, {b}, {a, b}, {aSlash, a, home, outside}, {b, c, d, forbidden}}

\* What the sitemaps declare.
MCInSitemaps == MCAdmitted \ {d}
=============================================================================
