------------------------------ MODULE Renderer ------------------------------
(***************************************************************************)
(* One page rendered (render/browser.go, renderOn, over networkidle.go):   *)
(* the tab navigates, waits for its network to go quiet, and is read.  The *)
(* browser's events, the loop that waits and the clock take turns.  Times  *)
(* are ages: how long ago something was, in ticks of the clock.            *)
(***************************************************************************)
EXTENDS Integers

CONSTANTS
    IdleWindow,   \* idleWindow, 500 ms
    SettleGrace,  \* settleGrace, 2 s
    TickGap,      \* how late the loop's ticker may get its turn, 50 ms and some
    Timeout,      \* the caller's timeout
    MaxRequests,  \* bound: requests the page makes
    MaxRedirects  \* bound: redirections among them

ASSUME RendererAssumption ==
    /\ IdleWindow \in Nat /\ SettleGrace \in Nat
    /\ TickGap \in 1 .. (IdleWindow - 1) /\ Timeout \in Nat
    /\ MaxRequests \in Nat /\ MaxRedirects \in Nat

VARIABLES
    phase,       \* the action of renderOn under way, or how it ended
    left,        \* what is left of the timeout
    gone,        \* whether the caller is
    inFlight, lastEvt, started,   \* networkIdle; lastEvt as an age
    quietSince,  \* wait's, as an age, or Unset
    sinceTick,   \* age of the loop's last turn
    waited,      \* age of the wait, for the properties
    open,        \* the browser's: requests sent and not answered
    sent, redirected

netVars == <<inFlight, lastEvt, started, open, sent, redirected>>
waitVars == <<quietSince, sinceTick, waited>>
renderVars == <<phase, left, gone, netVars, waitVars>>

Unset == -1

\* Ages beyond this are not told apart.
Oldest == IdleWindow + SettleGrace + 3 * TickGap
Older(age) == IF age = Unset \/ age = Oldest THEN age ELSE age + 1

RenderInit ==
    /\ phase = "navigating" /\ left = Timeout /\ gone = FALSE
    /\ inFlight = 0 /\ lastEvt = Oldest /\ started = FALSE
    /\ open = 0 /\ sent = 0 /\ redirected = 0
    /\ quietSince = Unset /\ sinceTick = 0 /\ waited = 0

\* The tab's context: its timeout, or the caller's end.
Expired == left = 0 \/ gone

Alive == phase \in {"navigating", "waiting", "reading"}

------------------------------------------------------------------------------
(* networkIdle, called with every event of the tab *)

Request ==
    /\ started' = TRUE
    /\ inFlight' = inFlight + 1
    /\ lastEvt' = 0

\* A mutant: an answer is not traffic.
DoneSilently ==
    /\ inFlight' = IF inFlight > 0 THEN inFlight - 1 ELSE inFlight
    /\ UNCHANGED <<lastEvt, started>>

Done ==
    /\ inFlight' = IF inFlight > 0 THEN inFlight - 1 ELSE inFlight
    /\ lastEvt' = 0
    /\ UNCHANGED started

\* quietFor: how long nothing was in flight; its second answer is `started`.
QuietFor == IF ~ started \/ inFlight > 0 THEN 0 ELSE lastEvt

------------------------------------------------------------------------------
(* The page *)

PageRequests ==
    /\ Alive /\ sent < MaxRequests
    /\ sent' = sent + 1 /\ open' = open + 1
    /\ Request
    /\ UNCHANGED <<phase, left, gone, waitVars, redirected>>

\* EventRequestWillBeSent comes once more for the same request.
PageRedirected ==
    /\ Alive /\ open > 0 /\ redirected < MaxRedirects
    /\ redirected' = redirected + 1
    /\ Request
    /\ UNCHANGED <<phase, left, gone, waitVars, open, sent>>

\* EventLoadingFinished or EventLoadingFailed.
PageAnswered ==
    /\ Alive /\ open > 0
    /\ open' = open - 1
    /\ Done
    /\ UNCHANGED <<phase, left, gone, waitVars, sent, redirected>>

------------------------------------------------------------------------------
(* renderOn *)

\* Navigate returns when the page has loaded, or fails.
Loaded ==
    /\ phase = "navigating"
    /\ \/ phase' = "failed"
       \/ ~ Expired /\ phase' = "waiting"
    /\ sinceTick' = 0
    /\ UNCHANGED <<left, gone, netVars, quietSince, waited>>

\* A mutant: a lull is not ended by what comes after it.
LulledFor == IF QuietFor < IdleWindow THEN quietSince ELSE IF quietSince = Unset THEN 0 ELSE quietSince

\* How long the page has been quiet, as the loop sees it at this turn.
QuietSince ==
    IF ~ started \/ QuietFor < IdleWindow THEN Unset
    ELSE IF quietSince = Unset THEN 0 ELSE quietSince

\* A turn of wait's loop; select may take it when the context has expired, too.
Turn ==
    /\ phase = "waiting" /\ sinceTick > 0
    /\ quietSince' = QuietSince
    /\ phase' = IF quietSince' # Unset /\ quietSince' >= SettleGrace THEN "reading" ELSE phase
    /\ sinceTick' = 0
    /\ UNCHANGED <<left, gone, netVars, waited>>

\* A mutant: the loop looks at the context once the page is quiet.
GiveUpLate ==
    /\ phase = "waiting" /\ Expired /\ QuietFor >= IdleWindow
    /\ phase' = "reading"
    /\ UNCHANGED <<left, gone, netVars, waitVars>>

\* ctx.Done: wait returns nil.
GiveUp ==
    /\ phase = "waiting" /\ Expired
    /\ phase' = "reading"
    /\ UNCHANGED <<left, gone, netVars, waitVars>>

\* Location and OuterHTML ask the browser under the same context: expired, they
\* fail, and with them the run.
ReadOut ==
    /\ phase = "reading"
    /\ phase' = IF Expired THEN "failed" ELSE "rendered"
    /\ UNCHANGED <<left, gone, netVars, waitVars>>

CallerLeaves ==
    /\ Alive /\ ~ gone
    /\ gone' = TRUE
    /\ UNCHANGED <<phase, left, netVars, waitVars>>

\* Time passes, no faster than the loop gets its turns.
Pass ==
    /\ Alive /\ (phase = "waiting" => sinceTick < TickGap)
    /\ left' = IF left > 0 THEN left - 1 ELSE left
    /\ lastEvt' = Older(lastEvt) /\ quietSince' = Older(quietSince)
    /\ IF phase = "waiting"
       THEN sinceTick' = sinceTick + 1 /\ waited' = Older(waited)
       ELSE UNCHANGED <<sinceTick, waited>>
    /\ UNCHANGED <<phase, gone, inFlight, started, open, sent, redirected>>

------------------------------------------------------------------------------
PageSteps == PageRequests \/ PageRedirected \/ PageAnswered
Run == Loaded \/ Turn \/ GiveUp \/ ReadOut

RenderNext == PageSteps \/ Run \/ CallerLeaves \/ Pass

\* The service goes on and time with it; the page owes nothing.  A navigation
\* ends with its context at the latest, and a select with two channels ready does
\* not take the ticker for ever.
RenderSpec ==
    /\ RenderInit /\ [][RenderNext]_renderVars
    /\ WF_renderVars(Run) /\ WF_renderVars(GiveUp) /\ WF_renderVars(Pass)

------------------------------------------------------------------------------
(* Properties *)

RenderTypeOK ==
    /\ phase \in {"navigating", "waiting", "reading", "rendered", "failed"}
    /\ left \in 0 .. Timeout /\ gone \in BOOLEAN /\ started \in BOOLEAN
    /\ inFlight \in 0 .. (MaxRequests + MaxRedirects)
    /\ lastEvt \in 0 .. Oldest /\ quietSince \in Unset .. Oldest
    /\ sinceTick \in 0 .. TickGap /\ waited \in 0 .. Oldest
    /\ open \in 0 .. sent /\ sent \in 0 .. MaxRequests /\ redirected \in 0 .. MaxRedirects

\* "blocks until the network has been quiet for idleWindow and has stayed that
\* way past settleGrace" (networkidle.go): a page is taken for settled only when
\* nothing is under way and nothing was for as long as both, though the loop
\* looks in between only and a request may come and go between two looks.
SettledIsQuiet ==
    [][phase = "waiting" /\ phase' = "reading" /\ ~ Expired =>
         started /\ open = 0 /\ lastEvt >= IdleWindow + SettleGrace]_renderVars

Earlier(age, other) == IF age < other THEN age ELSE other

\* A page that is quiet while it is waited for is soon seen to be: nothing but the
\* window, the grace and a look's delay at each holds the wait up.
QuietSettles ==
    phase = "waiting" /\ started /\ open = 0 =>
      Earlier(lastEvt, waited) <= IdleWindow + SettleGrace + 2 * TickGap

\* That is so of a page none of whose requests were redirected.
StraightQuietSettles == redirected = 0 => QuietSettles

\* Every rendering ends, whatever the page does: a poller or an open request
\* holds it to the deadline at most.
RenderingEnds == <>(phase \in {"rendered", "failed"})
=============================================================================
