----------------------------- MODULE SiteProofs -----------------------------
(***************************************************************************)
(* The process ends for the reason its exit code gives, and a page keeps   *)
(* one connection and shows its state: for any configurations, any number  *)
(* of starts, changes of files, mounts and lost connections.               *)
(***************************************************************************)
EXTENDS Site, TLAPS

-----------------------------------------------------------------------------
(* The server                                                              *)

Flags == signalled \in BOOLEAN /\ cancelled \in BOOLEAN /\ failed \in BOOLEAN

ServerTypes ==
  /\ cfg \in Configs
  /\ using \in [Part -> {"nothing", "synthetic", "rtr", "file", "bundled"}]
  /\ step \in {"load", "new", "run", "exited"} \cup Part
  /\ err \in {"none", "canceled", "failure"}
  /\ code \in {0, 1, 2, 130, None}
  /\ Flags

\* What has been built when: nothing twice, and nothing but what was asked for.
Built ==
  /\ \A p \in Part : step = p => using[p] = "nothing" /\ cfg.mode # "demo"
  /\ step \in {"load", "mrt"} => using = Unbuilt
  /\ step = "rel" => using["mrt"] = Source("mrt") /\ using["vrp"] = "nothing"
  /\ step = "vrp" => using["mrt"] = Source("mrt") /\ using["rel"] = Source("rel")
  /\ step \in {"new", "run"} =>
       \A p \in Part : IF cfg.mode = "demo" THEN using[p] = "synthetic" ELSE using[p] = Source(p)

\* Nothing is cancelled but by a signal or by a failure, and then the failure is the
\* first error; the hub returns to nothing else.
Cause ==
  /\ cancelled /\ err # "failure" => signalled
  /\ err = "canceled" => signalled
  /\ failed => err = "failure"
  /\ step = "run" /\ "hub" \notin running => cancelled

ServerInv == ServerTypes /\ Built /\ Cause /\ ExitTellsWhy

LEMMA ServerInvInit == ServerInit => ServerInv
<1> SUFFICES ASSUME ServerInit PROVE ServerInv
  OBVIOUS
<1> USE DEF ServerInit, Part, Unbuilt, None
<1>0. Flags
  BY DEF Flags
<1>1. ServerTypes
  BY <1>0 DEF ServerTypes
<1>2. Built
  BY DEF Built
<1>3. Cause
  BY DEF Cause
<1>4. ExitTellsWhy
  BY DEF ExitTellsWhy
<1> QED
  BY <1>1, <1>2, <1>3, <1>4 DEF ServerInv

LEMMA ServerInvStep == ServerInv /\ [ServerNext]_serverVars => ServerInv'
<1> SUFFICES ASSUME ServerInv, [ServerNext]_serverVars PROVE ServerInv'
  OBVIOUS
<1> USE ServerAssumption
    DEF ServerInv, ServerTypes, Flags, Built, Cause, ExitTellsWhy, Part, Unbuilt, None, Exits, Source
<1>1. CASE Load
  <2>1. CASE step' = "exited"
    BY <1>1, <2>1 DEF Load
  <2>2. CASE step' = "new"
    BY <1>1, <2>2 DEF Load
  <2>3. CASE step' = "mrt"
    BY <1>1, <2>3 DEF Load
  <2> QED
    BY <1>1, <2>1, <2>2, <2>3 DEF Load
<1>2. ASSUME NEW p \in Part, Build(p) PROVE ServerInv'
  <2>1. CASE step' = "exited"
    BY <1>2, <2>1 DEF Build, After
  <2>2. CASE step' # "exited"
    <3>1. step' = After[p] /\ using' = [using EXCEPT ![p] = Source(p)]
      BY <1>2, <2>2 DEF Build
    <3>2. UNCHANGED <<cfg, signalled, cancelled, running, err, code, failed>>
      BY <1>2, <2>2 DEF Build
    <3> QED
      BY <1>2, <3>1, <3>2 DEF Build, After
  <2> QED
    BY <2>1, <2>2
<1>3. CASE Start
  BY <1>3 DEF Start
<1>4. CASE AggReturns
  BY <1>4 DEF AggReturns, Returns
<1>5. ASSUME NEW s \in {"hub", "forward"}, HubOrForwardReturns(s) PROVE ServerInv'
  <2>1. ServerTypes'
    BY <1>5 DEF HubOrForwardReturns, Returns
  <2>2. Built'
    BY <1>5 DEF HubOrForwardReturns, Returns
  <2>3. Cause'
    BY <1>5 DEF HubOrForwardReturns, Returns
  <2>4. ExitTellsWhy'
    BY <1>5 DEF HubOrForwardReturns, Returns
  <2> QED
    BY <2>1, <2>2, <2>3, <2>4
<1>6. CASE PipelineReturns
  <2> PICK e \in {"canceled", "none"} : Returns("pipeline", e)
    BY <1>6 DEF PipelineReturns
  <2>1. cancelled /\ UNCHANGED <<http, failed>>
    BY <1>6 DEF PipelineReturns
  <2>2. CASE e = "none"
    <3>1. ServerTypes'
      BY <2>1, <2>2 DEF Returns
    <3>2. Built' /\ ExitTellsWhy'
      BY <2>1, <2>2 DEF Returns
    <3>3. Cause'
      BY <2>1, <2>2 DEF Returns
    <3> QED
      BY <3>1, <3>2, <3>3
  <2>3. CASE e = "canceled"
    <3>1. ServerTypes'
      BY <2>1, <2>3 DEF Returns
    <3>2. Built' /\ ExitTellsWhy'
      BY <2>1, <2>3 DEF Returns
    <3>3. Cause'
      BY ZenonT(60), <2>1, <2>3 DEF Returns
    <3> QED
      BY <3>1, <3>2, <3>3
  <2> QED
    BY <2>2, <2>3
<1>7. CASE SourceEnds
  BY <1>7 DEF SourceEnds, Returns
<1>8. CASE RtrReturns
  <2>1. ServerTypes'
    BY <1>8 DEF RtrReturns, Returns
  <2>2. Built'
    BY <1>8 DEF RtrReturns, Returns
  <2>3. Cause'
    BY ZenonT(60), <1>8 DEF RtrReturns, Returns
  <2>4. ExitTellsWhy'
    BY <1>8 DEF RtrReturns, Returns
  <2> QED
    BY <2>1, <2>2, <2>3, <2>4
<1>9. ASSUME NEW s \in {"rtr", "http"}, StageFails(s) PROVE ServerInv'
  BY <1>9 DEF StageFails, Returns
<1>10. CASE Listen \/ Shutdown
  BY <1>10 DEF Listen, Shutdown
<1>11. CASE HttpReturns
  BY <1>11 DEF HttpReturns, Returns
<1>12. CASE Exit
  BY <1>12 DEF Exit
<1>13. CASE Signal
  BY <1>13 DEF Signal
<1>14. CASE Restart
  <2>1. ServerTypes'
    BY <1>14 DEF Restart
  <2>2. Built'
    BY <1>14 DEF Restart
  <2>3. Cause'
    BY <1>14 DEF Restart
  <2>4. ExitTellsWhy'
    BY <1>14 DEF Restart
  <2> QED
    BY <2>1, <2>2, <2>3, <2>4
<1>15. ASSUME NEW p \in Part, NEW c \in {"good", "bad", "missing"}, FileChanges(p, c) PROVE ServerInv'
  BY <1>15 DEF FileChanges
<1>16. CASE UNCHANGED serverVars
  BY <1>16 DEF serverVars
<1> QED
  BY SMTT(90), <1>1, <1>2, <1>3, <1>4, <1>5, <1>6, <1>7, <1>8, <1>9, <1>10, <1>11, <1>12, <1>13, <1>14,
     <1>15, <1>16
  DEF ServerNext, Works

-----------------------------------------------------------------------------
(* The page                                                                *)

PageTypes ==
  /\ effect \in 0 .. MaxEffects
  /\ mounted => effect \in Effect
  /\ socket \in [Effect -> {"none", "connecting", "open", "closing"}]
  /\ timer \in [Effect -> BOOLEAN]
  /\ backoff \in [Effect -> 1 .. MaxBackoff]

PageInv == PageTypes /\ SingleConnection /\ StatusIsTrue

LEMMA PageInvInit == PageInit => PageInv
<1> SUFFICES ASSUME PageInit PROVE PageInv
  OBVIOUS
<1> USE PageAssumption DEF PageInit, Effect, Stopped
<1>1. PageTypes
  BY DEF PageTypes
<1>2. SingleConnection
  BY DEF SingleConnection
<1>3. StatusIsTrue
  BY DEF StatusIsTrue
<1> QED
  BY <1>1, <1>2, <1>3 DEF PageInv

LEMMA PageInvStep == PageInv /\ (PageNext(Reachable) \/ UNCHANGED pageVars) => PageInv'
<1> SUFFICES ASSUME PageInv, PageNext(Reachable) \/ UNCHANGED pageVars PROVE PageInv'
  OBVIOUS
<1> USE PageAssumption
    DEF PageInv, PageTypes, SingleConnection, StatusIsTrue, Stopped, Effect
<1>1. CASE Mount
  <2>1. PageTypes'
    BY <1>1 DEF Mount, Connect
  <2>2. SingleConnection'
    BY <1>1 DEF Mount, Connect
  <2>3. StatusIsTrue'
    BY <1>1 DEF Mount, Connect
  <2> QED
    BY <2>1, <2>2, <2>3
<1>2. CASE Unmount
  BY <1>2 DEF Unmount
<1>3. ASSUME NEW e \in Effect, OnOpen(e) PROVE PageInv'
  <2>1. PageTypes'
    BY <1>3 DEF OnOpen
  <2>2. SingleConnection'
    BY SMTT(30), <1>3 DEF OnOpen
  <2>3. StatusIsTrue'
    BY <1>3 DEF OnOpen
  <2> QED
    BY <2>1, <2>2, <2>3
<1>4. ASSUME NEW e \in Effect, OnClose(e) PROVE PageInv'
  <2>1. PageTypes'
    <3>1. socket' \in [Effect -> {"none", "connecting", "open", "closing"}]
      BY <1>4 DEF OnClose
    <3>2. timer' \in [Effect -> BOOLEAN]
      BY <1>4, Zenon DEF OnClose
    <3>3. backoff' \in [Effect -> 1 .. MaxBackoff]
      BY <1>4 DEF OnClose
    <3> QED
      BY <1>4, <3>1, <3>2, <3>3 DEF OnClose
  <2>2. SingleConnection'
    BY <1>4 DEF OnClose
  <2>3. StatusIsTrue'
    BY <1>4 DEF OnClose
  <2> QED
    BY <2>1, <2>2, <2>3
<1>5. ASSUME NEW e \in Effect, TimerFires(e) PROVE PageInv'
  BY <1>5 DEF TimerFires, Connect
<1>6. CASE UNCHANGED pageVars
  BY <1>6 DEF pageVars
<1> QED
  BY <1>1, <1>2, <1>3, <1>4, <1>5, <1>6 DEF PageNext, Closes, Loses

-----------------------------------------------------------------------------
(* Both                                                                    *)

LEMMA SiteInvStep == ServerInv /\ PageInv /\ [SiteNext]_siteVars => ServerInv' /\ PageInv'
<1> SUFFICES ASSUME ServerInv, PageInv, [SiteNext]_siteVars PROVE ServerInv' /\ PageInv'
  OBVIOUS
<1>1. [ServerNext]_serverVars
  BY DEF SiteNext, siteVars
<1>2. PageNext(Reachable) \/ UNCHANGED pageVars
  BY DEF SiteNext, siteVars
<1> QED
  BY <1>1, <1>2, ServerInvStep, PageInvStep

LEMMA SiteInvariant == SiteSpec => [](ServerInv /\ PageInv)
<1>1. SiteInit => ServerInv /\ PageInv
  BY ServerInvInit, PageInvInit DEF SiteInit
<1> QED
  BY <1>1, SiteInvStep, PTL DEF SiteSpec

(***************************************************************************)
(* No failure is reported as a clean stop and no clean stop happens without*)
(* a signal, in whichever order the stages return (server.go: Run;         *)
(* main.go).                                                               *)
(***************************************************************************)
THEOREM ExitAlwaysTellsWhy == SiteSpec => []ExitTellsWhy
<1>1. ServerInv => ExitTellsWhy
  BY DEF ServerInv
<1> QED
  BY <1>1, SiteInvariant, PTL

(***************************************************************************)
(* However often the hook is mounted and however late callbacks come, no   *)
(* connection outlives its effect (useWebSocket.ts: useWebSocket).         *)
(***************************************************************************)
THEOREM AlwaysSingleConnection == SiteSpec => []SingleConnection
<1>1. PageInv => SingleConnection
  BY DEF PageInv
<1> QED
  BY <1>1, SiteInvariant, PTL

(***************************************************************************)
(* The status shown is the socket's unless a stopped effect wrote it last  *)
(* (useWebSocket.ts: useWebSocket).                                        *)
(***************************************************************************)
THEOREM StatusAlwaysTrue == SiteSpec => []StatusIsTrue
<1>1. PageInv => StatusIsTrue
  BY DEF PageInv
<1> QED
  BY <1>1, SiteInvariant, PTL

=============================================================================
