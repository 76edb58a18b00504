-------------------------------- MODULE Page --------------------------------
(***************************************************************************)
(* The page's WebSocket hook (hooks/useWebSocket.ts) through unmounts and  *)
(* re-mounts, as StrictMode or a new url makes them: every effect has a    *)
(* socket, a timer and a backoff of its own, and callbacks of an effect    *)
(* may come after its cleanup.  Times are multiples of BACKOFF_MIN.  What  *)
(* arrives on the socket is in Browser.                                    *)
(***************************************************************************)
EXTENDS Naturals

CONSTANTS
  MaxBackoff, (* BACKOFF_MAX / BACKOFF_MIN                           *)
  MaxEffects, (* bound on the times the hook is mounted              *)
  MaxLosses   (* bound on connections the network loses or refuses   *)

ASSUME PageAssumption == MaxBackoff \in Nat \ {0} /\ MaxEffects \in Nat /\ MaxLosses \in Nat

VARIABLES
  effect,     (* the effects so far; the last one may be mounted         *)
  mounted,
  socket,     (* effect -> its socket: "none", "connecting", "open" or   *)
              (* "closing" (closed here, its close event to come)        *)
  timer,      (* effect -> its reconnect timer is set                    *)
  backoff,    (* effect -> next delay                                    *)
  connection, (* the status the store shows                              *)
  overruled,  (* auxiliary: a stopped effect wrote the status last       *)
  losses      (* auxiliary *)

pageVars == <<effect, mounted, socket, timer, backoff, connection, overruled, losses>>

Effect == 1 .. MaxEffects

PageInit ==
  /\ effect = 0 /\ mounted = FALSE
  /\ socket = [e \in Effect |-> "none"] /\ timer = [e \in Effect |-> FALSE]
  /\ backoff = [e \in Effect |-> 1]
  /\ connection = "connecting" /\ overruled = FALSE /\ losses = 0

Stopped(e) == e # effect \/ ~mounted

\* Mutated Connect: the status is left as it was.
ConnectSilently(e) ==
  /\ socket' = [socket EXCEPT ![e] = "connecting"]
  /\ overruled' = FALSE
  /\ UNCHANGED connection

Connect(e) ==
  /\ socket' = [socket EXCEPT ![e] = "connecting"]
  /\ connection' = "connecting" /\ overruled' = FALSE

Mount ==
  /\ ~mounted /\ effect < MaxEffects
  /\ effect' = effect + 1 /\ mounted' = TRUE
  /\ Connect(effect')
  /\ UNCHANGED <<timer, backoff, losses>>

\* The effect's cleanup.
Unmount ==
  /\ mounted
  /\ mounted' = FALSE
  /\ timer' = [timer EXCEPT ![effect] = FALSE]
  /\ socket' = [socket EXCEPT ![effect] = IF @ = "none" THEN @ ELSE "closing"]
  /\ UNCHANGED <<effect, backoff, connection, overruled, losses>>

OnOpen(e) ==
  /\ socket[e] = "connecting"
  /\ socket' = [socket EXCEPT ![e] = "open"]
  /\ backoff' = [backoff EXCEPT ![e] = 1]
  /\ connection' = "open" /\ overruled' = FALSE
  /\ UNCHANGED <<effect, mounted, timer, losses>>

\* Mutated OnClose: a stopped effect makes its connection again.
OnCloseAlways(e) ==
  /\ socket[e] # "none"
  /\ socket' = [socket EXCEPT ![e] = "none"]
  /\ connection' = "closed" /\ overruled' = Stopped(e)
  /\ timer' = [timer EXCEPT ![e] = TRUE]
  /\ backoff' = [backoff EXCEPT ![e] = IF 2 * @ < MaxBackoff THEN 2 * @ ELSE MaxBackoff]
  /\ UNCHANGED <<effect, mounted>>

\* Mutated OnClose: only a connection that was open is made again.
OnCloseGivingUp(e) ==
  /\ socket[e] # "none"
  /\ socket' = [socket EXCEPT ![e] = "none"]
  /\ connection' = "closed" /\ overruled' = Stopped(e)
  /\ timer' = [timer EXCEPT ![e] = socket[e] = "open"]
  /\ UNCHANGED <<effect, mounted, backoff>>

\* The close event, after an error too: try again later, unless stopped.
OnClose(e) ==
  /\ socket[e] # "none"
  /\ socket' = [socket EXCEPT ![e] = "none"]
  /\ connection' = "closed" /\ overruled' = Stopped(e)
  /\ IF Stopped(e) THEN UNCHANGED <<timer, backoff>>
     ELSE /\ timer' = [timer EXCEPT ![e] = TRUE]
          /\ backoff' = [backoff EXCEPT ![e] = IF 2 * @ < MaxBackoff THEN 2 * @ ELSE MaxBackoff]
  /\ UNCHANGED <<effect, mounted>>

\* Closed by this side, or because there is no server (any more).
Closes(e, reachable) ==
  /\ socket[e] = "closing" \/ ~reachable
  /\ OnClose(e) /\ UNCHANGED losses

Loses(e) ==
  /\ socket[e] \in {"connecting", "open"} /\ losses < MaxLosses
  /\ OnClose(e) /\ losses' = losses + 1

TimerFires(e) ==
  /\ timer[e]
  /\ timer' = [timer EXCEPT ![e] = FALSE]
  /\ Connect(e)
  /\ UNCHANGED <<effect, mounted, backoff, losses>>

PageNext(reachable) ==
  \/ Mount \/ Unmount
  \/ \E e \in Effect : \/ reachable /\ OnOpen(e)
                       \/ Closes(e, reachable) \/ Loses(e) \/ TimerFires(e)

-----------------------------------------------------------------------------

(***************************************************************************)
(* A mounted hook has exactly one of a socket and a pending reconnection,  *)
(* and a stopped one neither, nor ever again: no connection outlives its   *)
(* effect, however late the callbacks come (useWebSocket.ts:46 "maintains  *)
(* a single live connection"); and the delays stay between their bounds.   *)
(***************************************************************************)
SingleConnection ==
  /\ \A e \in Effect :
       /\ Stopped(e) => ~timer[e] /\ socket[e] \in {"none", "closing"}
       /\ ~Stopped(e) => (timer[e] <=> socket[e] = "none")
       /\ backoff[e] \in 1 .. MaxBackoff
  /\ effect <= MaxEffects

(***************************************************************************)
(* The status shown is that of the mounted effect's socket, as long as no  *)
(* stopped effect's close event came after it (useWebSocket.ts:66).        *)
(***************************************************************************)
StatusIsTrue ==
  mounted /\ ~overruled =>
    connection = IF socket[effect] = "none" THEN "closed" ELSE socket[effect]

=============================================================================
