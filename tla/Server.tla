------------------------------- MODULE Server -------------------------------
(***************************************************************************)
(* The process from its flags to its exit code: config.Load, server.New    *)
(* with its files (server/sources.go), and Run's stages under one errgroup *)
(* (server/server.go, cmd/bgpulse/main.go).  The operator, the files and   *)
(* the network are the environment; docker-compose restarts the process.   *)
(* What the stages do is in Pipeline, Hub and Rtr.                         *)
(***************************************************************************)
EXTENDS Naturals

CONSTANTS
  Configs,    (* the configurations tried: [accepted, mode, mrt, rel, vrp,   *)
              (* rtr], the last four TRUE for a flag that is set; accepted is*)
              (* FALSE if Load refuses another flag                          *)
  MaxChanges, (* bound on the changes to files while the process starts      *)
  MaxStarts   (* bound on the starts of the process                          *)

ASSUME ServerAssumption ==
  /\ MaxChanges \in Nat /\ MaxStarts \in Nat
  /\ Configs \subseteq
       [accepted : BOOLEAN, mode : {"demo", "replay"}, mrt : BOOLEAN, rel : BOOLEAN,
        vrp : BOOLEAN, rtr : BOOLEAN]

VARIABLES
  cfg,
  disk,      (* named file -> "good", "bad" (does not load), "missing"    *)
  step,      (* "load", the files in the order they are read, "run", "exited" *)
  using,     (* part -> what it was built from, "nothing" before           *)
  signalled, (* NotifyContext's context is cancelled                       *)
  cancelled, (* the errgroup's context is                                  *)
  running,   (* the stages that have not returned                          *)
  err,       (* the errgroup's first error: "none", "canceled", "failure"  *)
  http,      (* "down", "serving", "shutdown"                              *)
  code,      (* exit code                                                  *)
  failed,    (* auxiliary: a stage failed before any signal                *)
  changes, starts (* auxiliary counters *)

serverVars ==
  <<cfg, disk, step, using, signalled, cancelled, running, err, http, code, failed, changes,
    starts>>

Part == {"mrt", "rel", "vrp"}

Unbuilt == [p \in Part |-> "nothing"]

None == 256 \* no exit code

ServerInit ==
  /\ cfg \in Configs
  /\ disk \in [Part -> {"good", "bad", "missing"}]
  /\ \A p \in Part : ~cfg[p] => disk[p] = "missing"
  /\ step = "load" /\ using = Unbuilt /\ signalled = FALSE /\ cancelled = FALSE
  /\ running = {} /\ err = "none" /\ http = "down" /\ code = None /\ failed = FALSE
  /\ changes = 0 /\ starts = 1

-----------------------------------------------------------------------------
(* Starting                                                                *)

Exits(c) == step' = "exited" /\ code' = c /\ http' = "down" /\ running' = {}

\* A flag that is refused, or an MRT file that is not there, is a usage error.
Load ==
  /\ step = "load"
  /\ IF ~cfg.accepted \/ (cfg.mode = "replay" /\ cfg.mrt /\ disk["mrt"] = "missing")
     THEN Exits(2) /\ UNCHANGED using
     ELSE IF cfg.mode = "demo"
          THEN step' = "new" /\ using' = [p \in Part |-> "synthetic"]
               /\ UNCHANGED <<code, http, running>>
          ELSE step' = "mrt" /\ UNCHANGED <<using, code, http, running>>
  /\ UNCHANGED <<cfg, disk, signalled, cancelled, err, failed, changes, starts>>

\* One part: a live cache before a file, a named file before the bundled one.
Source(p) == IF p = "vrp" /\ cfg.rtr THEN "rtr" ELSE IF cfg[p] THEN "file" ELSE "bundled"

After == [mrt |-> "rel", rel |-> "vrp", vrp |-> "new"]

\* replaySource, relStore and vrpValidator: a named file that fails to load is fatal.
Build(p) ==
  /\ step = p
  /\ IF Source(p) = "file" /\ disk[p] # "good"
     THEN Exits(1) /\ UNCHANGED using
     ELSE /\ using' = [using EXCEPT ![p] = Source(p)]
          /\ step' = After[p]
          /\ UNCHANGED <<running, http, code>>
  /\ UNCHANGED <<cfg, disk, signalled, cancelled, err, failed, changes, starts>>

\* Run: a stage each, under a context that a signal may already have cancelled.
Start ==
  /\ step = "new"
  /\ step' = "run"
  /\ running' = {"agg", "hub", "pipeline", "forward", "http"}
                  \cup (IF using["vrp"] = "rtr" THEN {"rtr"} ELSE {})
  /\ cancelled' = signalled
  /\ UNCHANGED <<cfg, disk, using, signalled, err, http, code, failed, changes, starts>>

-----------------------------------------------------------------------------
(* Running                                                                 *)

\* Stage s returns e to the errgroup, which keeps the first error and cancels.
Returns(s, e) ==
  /\ running' = running \ {s}
  /\ err' = IF err = "none" THEN e ELSE err
  /\ cancelled' = (cancelled \/ e # "none")
  /\ UNCHANGED <<cfg, disk, step, using, signalled, code, changes, starts>>

\* The aggregator also returns once the pipeline has closed its channel.
AggReturns ==
  /\ "agg" \in running /\ (cancelled \/ "pipeline" \notin running)
  /\ Returns("agg", "none") /\ UNCHANGED <<http, failed>>

\* The hub and the forwarder, the broadcast channel being never closed.
HubOrForwardReturns(s) ==
  /\ s \in running /\ cancelled
  /\ Returns(s, "none") /\ UNCHANGED <<http, failed>>

\* Cancelled, it returns the context's error, or nil if the source closed first.
PipelineReturns ==
  /\ "pipeline" \in running /\ cancelled
  /\ \E e \in {"canceled", "none"} : Returns("pipeline", e)
  /\ UNCHANGED <<http, failed>>

\* A replayed file comes to its end; the bundled one loops.
SourceEnds ==
  /\ "pipeline" \in running /\ using["mrt"] = "file"
  /\ Returns("pipeline", "none") /\ UNCHANGED <<http, failed>>

\* Cancellation is masked here, any other end of the client is fatal.
RtrReturns ==
  /\ "rtr" \in running /\ cancelled
  /\ Returns("rtr", "none") /\ UNCHANGED <<http, failed>>

\* A fatal report of the cache, which may just have passed the client's look at its
\* context; a listener that cannot bind or accept, unless it is being shut down.
StageFails(s) ==
  /\ s \in {"rtr", "http"} \cap running
  /\ s = "http" => http # "shutdown"
  /\ Returns(s, "failure")
  /\ http' = IF s = "http" THEN "down" ELSE http
  /\ failed' = (failed \/ ~signalled)

Listen ==
  /\ "http" \in running /\ http = "down"
  /\ http' = "serving"
  /\ UNCHANGED <<cfg, disk, step, using, signalled, cancelled, running, err, code, failed,
                 changes, starts>>

\* Mutated Shutdown: serveHTTP waits for the signal's context, not the errgroup's.
ShutdownOnSignal ==
  /\ step = "run" /\ signalled /\ http # "shutdown"
  /\ http' = "shutdown"
  /\ UNCHANGED <<cfg, disk, step, using, signalled, cancelled, running, err, code, failed,
                 changes, starts>>

\* serveHTTP's goroutine; a server shut down before it listens never does.
Shutdown ==
  /\ step = "run" /\ cancelled /\ http # "shutdown"
  /\ http' = "shutdown"
  /\ UNCHANGED <<cfg, disk, step, using, signalled, cancelled, running, err, code, failed,
                 changes, starts>>

\* ListenAndServe returns as soon as Shutdown has begun.
HttpReturns ==
  /\ "http" \in running /\ http = "shutdown"
  /\ Returns("http", "none") /\ UNCHANGED <<http, failed>>

\* Mutated Exit: every end of a cancelled context counts as a clean stop.
ExitMaskingAll ==
  /\ step = "run" /\ running = {}
  /\ Exits(IF err = "failure" /\ ~cancelled THEN 1 ELSE 0)
  /\ UNCHANGED <<cfg, disk, using, signalled, cancelled, err, failed, changes, starts>>

\* g.Wait returns, Run masks cancellation and main exits.
Exit ==
  /\ step = "run" /\ running = {}
  /\ Exits(IF err = "failure" THEN 1 ELSE 0)
  /\ UNCHANGED <<cfg, disk, using, signalled, cancelled, err, failed, changes, starts>>

-----------------------------------------------------------------------------
(* The environment                                                         *)

\* A signal during Load, before NotifyContext, kills the process.
Signal ==
  /\ step # "exited" /\ ~signalled
  /\ signalled' = TRUE
  /\ cancelled' = (step = "run" \/ cancelled)
  /\ IF step = "load" THEN Exits(130) ELSE UNCHANGED <<step, code, http, running>>
  /\ UNCHANGED <<cfg, disk, using, err, failed, changes, starts>>

FileChanges(p, c) ==
  /\ step \in {"load"} \cup Part /\ changes < MaxChanges /\ cfg[p] /\ disk[p] # c
  /\ disk' = [disk EXCEPT ![p] = c]
  /\ changes' = changes + 1
  /\ UNCHANGED <<cfg, step, using, signalled, cancelled, running, err, http, code, failed,
                 starts>>

\* docker-compose.yml: restart unless-stopped, which Docker carries out.
Restart ==
  /\ step = "exited" /\ starts < MaxStarts
  /\ step' = "load" /\ using' = Unbuilt /\ signalled' = FALSE /\ cancelled' = FALSE
  /\ err' = "none" /\ code' = None /\ failed' = FALSE
  /\ starts' = starts + 1
  /\ UNCHANGED <<cfg, disk, running, http, changes>>

Works ==
  \/ Load \/ (\E p \in Part : Build(p)) \/ Start
  \/ AggReturns \/ (\E s \in {"hub", "forward"} : HubOrForwardReturns(s))
  \/ PipelineReturns \/ RtrReturns \/ Listen \/ Shutdown \/ HttpReturns \/ Exit

ServerNext ==
  \/ Works
  \/ SourceEnds \/ (\E s \in {"rtr", "http"} : StageFails(s))
  \/ Signal \/ Restart
  \/ \E p \in Part, c \in {"good", "bad", "missing"} : FileChanges(p, c)

\* Every goroutine that can go on does, and blocking calls return.
ServerFairness ==
  /\ WF_serverVars(Load \/ (\E p \in Part : Build(p)) \/ Start)
  /\ WF_serverVars(AggReturns) /\ WF_serverVars(PipelineReturns) /\ WF_serverVars(RtrReturns)
  /\ \A s \in {"hub", "forward"} : WF_serverVars(HubOrForwardReturns(s))
  /\ WF_serverVars(Listen) /\ WF_serverVars(Shutdown) /\ WF_serverVars(HttpReturns)
  /\ WF_serverVars(Exit)

-----------------------------------------------------------------------------

(***************************************************************************)
(* The exit code tells why the process ended, whichever stage returned     *)
(* first: a failure is never reported as a clean stop, nor a clean stop    *)
(* without a signal; and what runs was built from what was asked for, a    *)
(* named file never replaced by the bundled data, whatever happened to the *)
(* files meanwhile (server.go: Run "surfaces as a different (first) error";*)
(* sources.go: "Explicitly requested files that fail to load are fatal").  *)
(***************************************************************************)
ExitTellsWhy ==
  /\ code = 0 => signalled /\ ~failed
  /\ code = 1 => err = "failure" \/ \E p \in Part : using[p] = "nothing"
  /\ step = "exited" <=> code # None
  /\ step = "run" =>
       \A p \in Part : IF cfg.mode = "demo" THEN using[p] = "synthetic" ELSE using[p] = Source(p)

\* A cancelled Run returns, whichever stage caused it (server.go: Run, serveHTTP).
StopsWhenCancelled == cancelled ~> step = "exited"

=============================================================================
