-------------------------------- MODULE Site --------------------------------
(***************************************************************************)
(* A server and a page of it: the page's sockets open while the server     *)
(* takes connections and its hub runs, and close with it.                  *)
(***************************************************************************)
EXTENDS Server, Page

CONSTANT Visited \* the configurations under which a page is opened

ASSUME SiteAssumption == Visited \subseteq Configs

siteVars == <<serverVars, pageVars>>

Reachable == http = "serving" /\ "hub" \in running

SiteInit == ServerInit /\ PageInit

SiteNext ==
  \/ ServerNext /\ UNCHANGED pageVars
  \/ cfg \in Visited /\ PageNext(Reachable) /\ UNCHANGED serverVars
  \/ step = "exited" /\ UNCHANGED siteVars

\* Timers fire, connection attempts are answered and close events delivered.
PageFairness ==
  \A e \in Effect :
    /\ WF_siteVars(TimerFires(e) /\ UNCHANGED serverVars)
    /\ WF_siteVars(((Reachable /\ OnOpen(e)) \/ Closes(e, Reachable)) /\ UNCHANGED serverVars)

SiteSpec ==
  SiteInit /\ [][SiteNext]_siteVars /\ ServerFairness /\ PageFairness

(***************************************************************************)
(* A mounted page ends up connected to a server that stays up, whatever it *)
(* lost before and across restarts (useWebSocket.ts:46 "reconnecting with  *)
(* exponential backoff").                                                  *)
(***************************************************************************)
Reconnects ==
  <>[]Reachable => <>[](mounted => socket[effect] = "open")

=============================================================================
