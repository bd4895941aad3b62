---------------------------- MODULE MCLiveEvents ----------------------------
(* A small instance of LiveEvents: two requests that concern two tickets.    *)
EXTENDS LiveEvents, TLC

CONSTANTS h1, h2, t1, t2

MCHandlers == {h1, h2}
MCTickets == {t1, t2}
MCAbout == h1 :> t1 @@ h2 :> t2
=============================================================================
