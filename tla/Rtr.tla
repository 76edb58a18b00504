-------------------------------- MODULE Rtr --------------------------------
(***************************************************************************)
(* The RTR client (rtr/client.go: Run, session, commit) and the RPKI cache *)
(* it follows, joined by one TCP connection: two FIFO channels that a lost *)
(* connection empties.  The cache is external; it behaves as RFC 8210, to  *)
(* which the client is written, describes it: a session numbers its tables *)
(* with serials, a Reset Query is answered by a whole table, a Serial Query*)
(* by the net difference or, when the cache no longer has it, by a Cache   *)
(* Reset.  An answer is sent PDU by PDU.  PDU coding is left out: a VRP is *)
(* a value.                                                                *)
(***************************************************************************)
EXTENDS Integers, Sequences, FiniteSets, SequencesExt

CONSTANTS
  Vrp,
  WellFormed,     (* the VRPs that the store's builder accepts             *)
  InitialBackoff, MaxBackoff,
  Overlap,        (* TRUE: notifies and read timeouts may come while the   *)
                  (* answer to an earlier query is still on its way        *)
  MaxQueries,     (* bound on the polls in flight, which matters with      *)
                  (* Overlap only                                          *)
  MaxSerial,      (* bound on the tables of one cache session              *)
  MaxRestarts,    (* bound on the cache's restarts                         *)
  MaxFailures     (* bound on failed dials, lost connections and errors    *)

ASSUME RtrAssumption ==
  /\ IsFiniteSet(Vrp) /\ WellFormed \subseteq Vrp /\ Overlap \in BOOLEAN
  /\ InitialBackoff \in Nat \ {0} /\ MaxBackoff \in Nat /\ InitialBackoff <= MaxBackoff
  /\ MaxQueries \in Nat
  /\ MaxSerial \in Nat \ {0} /\ MaxRestarts \in Nat /\ MaxFailures \in Nat

VARIABLES
  cSession, tables, (* cache: its session; serial -> table                 *)
  told,             (* cache: the last serial it notified                  *)
  answer,           (* cache: the PDUs of the answer not sent yet          *)
  toCache, toClient,(* PDUs in flight                                      *)
  run,              (* "dial", "connected", "backoff", "stopped"           *)
  backoff,
  sessionID, serial, hasSerial, current, (* client state across sessions   *)
  fullSync, pending,                     (* locals of one session          *)
  live,             (* the VRPs of the store the classifier reads          *)
  failures, ever    (* auxiliary: failures; every table there has been     *)

cacheVars == <<cSession, tables, told>>
clientVars == <<sessionID, serial, hasSerial, current>>
vars == <<cSession, tables, told, answer, toCache, toClient, run, backoff, sessionID, serial,
          hasSerial, current, fullSync, pending, live, failures, ever>>

Init ==
  /\ cSession = 1 /\ told = 1
  /\ \E t \in SUBSET Vrp : tables = <<t>> /\ ever = {t}
  /\ answer = <<>> /\ toCache = <<>> /\ toClient = <<>>
  /\ run = "dial" /\ backoff = InitialBackoff
  /\ sessionID = 0 /\ serial = 0 /\ hasSerial = FALSE /\ current = {}
  /\ fullSync = TRUE /\ pending = <<>>
  /\ live = {}
  /\ failures = 0

Quiet == toCache = <<>> /\ answer = <<>> /\ toClient = <<>>

ResetQuery == [type |-> "reset"]
SerialQuery == [type |-> "serial", session |-> sessionID, serial |-> serial]

-----------------------------------------------------------------------------
(* The cache                                                               *)

Table == tables[Len(tables)]

CacheUpdates(t) ==
  /\ Len(tables) < MaxSerial /\ t # Table
  /\ tables' = Append(tables, t)
  /\ ever' = ever \cup {t}
  /\ UNCHANGED <<cSession, told, answer, toCache, toClient, run, backoff, clientVars, fullSync,
                 pending, live, failures>>

CacheNotifies ==
  /\ run = "connected" /\ told < Len(tables)
  /\ Overlap \/ Quiet
  /\ told' = Len(tables)
  /\ toClient' = Append(toClient, [type |-> "notify"])
  /\ UNCHANGED <<cSession, tables, answer, toCache, run, backoff, clientVars, fullSync,
                 pending, live, failures, ever>>

Changes(S, announce) ==
  LET vs == SetToSeq(S)
  IN  [k \in DOMAIN vs |-> [type |-> "prefix", vrp |-> vs[k], announce |-> announce]]

Answer(changes) ==
  <<[type |-> "response", session |-> cSession]>> \o changes
    \o <<[type |-> "eod", session |-> cSession, serial |-> Len(tables)]>>

\* What may be answered to q.
Answers(q) ==
  IF q.type = "reset" THEN {Answer(Changes(Table, TRUE))}
  ELSE {<<[type |-> "cacheReset"]>>} \cup
       (IF q.session = cSession /\ q.serial \in DOMAIN tables
        THEN {Answer(Changes(Table \ tables[q.serial], TRUE)
                       \o Changes(tables[q.serial] \ Table, FALSE))}
        ELSE {})

\* The cache takes the next query and settles what it will answer.
CacheAnswers ==
  /\ toCache # <<>> /\ answer = <<>>
  /\ answer' \in Answers(Head(toCache))
  /\ toCache' = Tail(toCache)
  /\ UNCHANGED <<cacheVars, toClient, run, backoff, clientVars, fullSync, pending, live,
                 failures, ever>>

\* One PDU of the answer.
CacheSends ==
  /\ answer # <<>>
  /\ toClient' = Append(toClient, Head(answer))
  /\ answer' = Tail(answer)
  /\ UNCHANGED <<cacheVars, toCache, run, backoff, clientVars, fullSync, pending, live,
                 failures, ever>>

CacheFails(fatal) ==
  /\ toCache # <<>> /\ answer = <<>> /\ failures < MaxFailures
  /\ toClient' = Append(toClient, [type |-> "error", fatal |-> fatal])
  /\ toCache' = Tail(toCache)
  /\ failures' = failures + 1
  /\ UNCHANGED <<cacheVars, answer, run, backoff, clientVars, fullSync, pending, live, ever>>

-----------------------------------------------------------------------------
(* The client: Run                                                         *)

\* session returns: the deferred Close empties the connection.
SessionEnds(next) ==
  /\ run' = next
  /\ toCache' = <<>> /\ answer' = <<>> /\ toClient' = <<>>

\* A new connection starts with a Reset Query.
Dial ==
  /\ run = "dial"
  /\ run' = "connected"
  /\ toCache' = <<ResetQuery>>
  /\ fullSync' = TRUE /\ pending' = <<>>
  /\ UNCHANGED <<cacheVars, answer, toClient, backoff, clientVars, live, failures, ever>>

\* The dial fails, or the connection is lost.
ConnectionFails ==
  /\ run \in {"dial", "connected"} /\ failures < MaxFailures
  /\ failures' = failures + 1
  /\ SessionEnds("backoff")
  /\ UNCHANGED <<cacheVars, backoff, clientVars, fullSync, pending, live, ever>>

\* A restarted cache has a new session, and its connections are gone.
CacheRestarts(t) ==
  /\ cSession <= MaxRestarts
  /\ cSession' = cSession + 1 /\ tables' = <<t>> /\ told' = 1
  /\ ever' = ever \cup {t}
  /\ SessionEnds(IF run = "connected" THEN "backoff" ELSE run)
  /\ UNCHANGED <<backoff, clientVars, fullSync, pending, live, failures>>

\* Mutated Retry: the backoff grows for ever.
RetryUncapped ==
  /\ run = "backoff"
  /\ run' = "dial"
  /\ backoff' = backoff * 2
  /\ UNCHANGED <<cacheVars, answer, toCache, toClient, clientVars, fullSync, pending, live,
                 failures, ever>>

\* The backoff is over; the next one will be longer, even if this session works.
Retry ==
  /\ run = "backoff"
  /\ run' = "dial"
  /\ backoff' = IF backoff < MaxBackoff THEN backoff * 2 ELSE backoff
  /\ UNCHANGED <<cacheVars, answer, toCache, toClient, clientVars, fullSync, pending, live,
                 failures, ever>>

\* The context is cancelled.
Cancel ==
  /\ run # "stopped"
  /\ SessionEnds("stopped")
  /\ UNCHANGED <<cacheVars, backoff, clientVars, fullSync, pending, live, failures, ever>>

-----------------------------------------------------------------------------
(* The client: session                                                     *)

\* The read deadline passes with nothing to read, the rest of an answer maybe still to
\* come: poll, once there is a serial.
Poll ==
  /\ run = "connected" /\ hasSerial
  /\ IF Overlap THEN toClient = <<>> /\ Len(toCache) < MaxQueries ELSE Quiet
  /\ toCache' = Append(toCache, SerialQuery)
  /\ fullSync' = FALSE /\ pending' = <<>>
  /\ UNCHANGED <<cacheVars, answer, toClient, run, backoff, clientVars, live, failures, ever>>

\* ... before the first End of Data the timeout ends the session.
FirstAnswerTimesOut ==
  /\ run = "connected" /\ ~hasSerial /\ toClient = <<>> /\ failures < MaxFailures
  /\ failures' = failures + 1
  /\ SessionEnds("backoff")
  /\ UNCHANGED <<cacheVars, backoff, clientVars, fullSync, pending, live, ever>>

\* The next PDU, if it is of type t.
Reads(t) == run = "connected" /\ toClient # <<>> /\ Head(toClient).type = t

ReadCacheResponse ==
  /\ Reads("response")
  /\ toClient' = Tail(toClient)
  /\ sessionID' = Head(toClient).session
  /\ pending' = <<>>
  /\ UNCHANGED <<cacheVars, answer, toCache, run, backoff, serial, hasSerial, current, fullSync,
                 live, failures, ever>>

\* Mutated ReadPrefix: a change is published as it is read.
ReadPrefixPublishing ==
  /\ Reads("prefix")
  /\ toClient' = Tail(toClient)
  /\ pending' = Append(pending, Head(toClient))
  /\ live' = IF Head(toClient).announce THEN live \cup ({Head(toClient).vrp} \cap WellFormed)
                                        ELSE live \ {Head(toClient).vrp}
  /\ UNCHANGED <<cacheVars, answer, toCache, run, backoff, clientVars, fullSync,
                 failures, ever>>

ReadPrefix ==
  /\ Reads("prefix")
  /\ toClient' = Tail(toClient)
  /\ pending' = Append(pending, Head(toClient))
  /\ UNCHANGED <<cacheVars, answer, toCache, run, backoff, clientVars, fullSync, live,
                 failures, ever>>

\* The set S after changes, in order: the last word on a VRP counts.
After(S, changes) ==
  {v \in Vrp :
     \/ v \in S /\ \A k \in DOMAIN changes : changes[k].vrp # v
     \/ \E k \in DOMAIN changes :
          /\ changes[k].vrp = v /\ changes[k].announce
          /\ \A m \in k + 1 .. Len(changes) : changes[m].vrp # v}

\* Mutated Commit: a full synchronisation is merged into the set there was.
CommitMerging(full, changes) ==
  /\ current' = After(current, changes)
  /\ live' = current' \cap WellFormed

\* The changes on the current set, or on none after a full synchronisation; the
\* store swapped in holds what its builder accepts.
Commit(full, changes) ==
  /\ current' = After(IF full THEN {} ELSE current, changes)
  /\ live' = current' \cap WellFormed

ReadEndOfData ==
  /\ Reads("eod")
  /\ toClient' = Tail(toClient)
  /\ Commit(fullSync, pending)
  /\ sessionID' = Head(toClient).session /\ serial' = Head(toClient).serial
  /\ hasSerial' = TRUE
  /\ fullSync' = FALSE /\ pending' = <<>>
  /\ UNCHANGED <<cacheVars, answer, toCache, run, backoff, failures, ever>>

ReadSerialNotify ==
  /\ Reads("notify")
  /\ toClient' = Tail(toClient)
  /\ toCache' = Append(toCache, SerialQuery)
  /\ fullSync' = FALSE /\ pending' = <<>>
  /\ UNCHANGED <<cacheVars, answer, run, backoff, clientVars, live, failures, ever>>

\* Mutated ReadCacheReset: no new query.
ReadCacheResetSilently ==
  /\ Reads("cacheReset")
  /\ toClient' = Tail(toClient)
  /\ current' = {}
  /\ fullSync' = TRUE /\ pending' = <<>>
  /\ UNCHANGED <<cacheVars, answer, toCache, run, backoff, sessionID, serial, hasSerial, live,
                 failures, ever>>

\* The cache cannot answer incrementally: start over, and keep the live store.
ReadCacheReset ==
  /\ Reads("cacheReset")
  /\ toClient' = Tail(toClient)
  /\ current' = {}
  /\ toCache' = Append(toCache, ResetQuery)
  /\ fullSync' = TRUE /\ pending' = <<>>
  /\ UNCHANGED <<cacheVars, answer, run, backoff, sessionID, serial, hasSerial, live,
                 failures, ever>>

\* An error report ends the session, a fatal one the client.
ReadErrorReport ==
  /\ Reads("error")
  /\ SessionEnds(IF Head(toClient).fatal THEN "stopped" ELSE "backoff")
  /\ UNCHANGED <<cacheVars, backoff, clientVars, fullSync, pending, live, failures, ever>>

-----------------------------------------------------------------------------

Read ==
  \/ ReadCacheResponse \/ ReadPrefix \/ ReadEndOfData \/ ReadSerialNotify
  \/ ReadCacheReset \/ ReadErrorReport

Stopped == run = "stopped" /\ UNCHANGED vars

Next ==
  \/ \E t \in SUBSET Vrp : CacheUpdates(t) \/ CacheRestarts(t)
  \/ CacheNotifies \/ CacheAnswers \/ CacheSends
  \/ \E fatal \in BOOLEAN : CacheFails(fatal)
  \/ Dial \/ ConnectionFails \/ Retry \/ Cancel
  \/ Poll \/ FirstAnswerTimesOut \/ Read
  \/ Stopped

\* The client's goroutine runs and its timers fire; the cache answers.
Fairness ==
  /\ WF_vars(Dial) /\ WF_vars(Retry) /\ WF_vars(Read) /\ WF_vars(Poll)
  /\ WF_vars(CacheAnswers) /\ WF_vars(CacheSends)

Spec == Init /\ [][Next]_vars /\ Fairness

-----------------------------------------------------------------------------

\* Type invariant.
TypeOK ==
  /\ cSession \in 1 .. MaxRestarts + 1
  /\ tables \in Seq(SUBSET Vrp) /\ Len(tables) \in 1 .. MaxSerial
  /\ told \in 1 .. Len(tables)
  /\ \A k \in DOMAIN toCache : toCache[k].type \in {"reset", "serial"}
  /\ \A q \in {answer, toClient} : \A k \in DOMAIN q :
       q[k].type \in {"response", "prefix", "eod", "notify", "cacheReset", "error"}
  /\ run \in {"dial", "connected", "backoff", "stopped"}
  /\ run # "connected" => Quiet
  /\ backoff \in Nat
  /\ sessionID \in 0 .. cSession /\ serial \in 0 .. MaxSerial
  /\ {hasSerial, fullSync} \subseteq BOOLEAN
  /\ current \subseteq Vrp /\ live \subseteq WellFormed
  /\ \A k \in DOMAIN pending : pending[k].vrp \in Vrp
  /\ failures \in 0 .. MaxFailures

(***************************************************************************)
(* However many sessions fail, a retry waits no less than the first one    *)
(* did and less than twice the cap, which the doubling may pass once       *)
(* (client.go: Run).                                                       *)
(***************************************************************************)
BackoffBounded == InitialBackoff <= backoff /\ backoff < 2 * MaxBackoff

(***************************************************************************)
(* The classifier never sees a table that was not the cache's: the store   *)
(* swapped in is one of its tables as a whole, never a half-received       *)
(* answer or a mixture of two, across lost connections, cache restarts and *)
(* cache resets (live.go: "a consistent immutable VRPStore"; client.go:    *)
(* commit).                                                                *)
(***************************************************************************)
LiveWasATable == live = {} \/ live \in {t \cap WellFormed : t \in ever}

(***************************************************************************)
(* With nothing in flight on a connection, the client holds exactly the    *)
(* cache's table of the serial it would ask from next, and that table is   *)
(* live (client.go:27 "keeps an rpki.Live store in sync with it").         *)
(***************************************************************************)
Synced ==
  run = "connected" /\ Quiet =>
    /\ sessionID = cSession /\ hasSerial /\ serial \in DOMAIN tables
    /\ current = tables[serial]
    /\ live = current \cap WellFormed

(***************************************************************************)
(* Unless it is cancelled or meets a fatal error, the client ends up with  *)
(* the cache's last table, even if every notify is lost (client.go: Run    *)
(* "maintains the session until ctx is cancelled").                        *)
(***************************************************************************)
Converges == <>[](run = "stopped" \/ live = Table \cap WellFormed)

=============================================================================
