------------------------------ MODULE RelayProcess ------------------------------
(***************************************************************************)
(* One relay process and its live streams: Runtime.Run of                  *)
(* internal/relay/runtime, the stream handler of internal/relay/httpapi    *)
(* with its JetStream subscription (internal/relay/jetstream/live.go), and *)
(* the registry's in-process side: the watchers of SubscribeInactive and   *)
(* the expiry loop, over the transactions of SessionRegistry.  A stream's  *)
(* Decision.Revoked is the signal of SubscribeInactive.                    *)
(*                                                                         *)
(* Subscriptions come from LiveChanges or from JetStream.                  *)
(***************************************************************************)
EXTENDS SessionRegistry

CONSTANTS
  Stream,      \* requests for a live stream
  SessionOf,   \* SessionOf[x]: the session that stream x was authenticated for
  Expires,     \* Expires[s]: when the session s expires
  Source,      \* a subset of {"live", "jetstream"}
  Revocation,  \* the <<operation, session>> pairs an administrator revokes
  MaxTime,     \* the clock (bound)
  MaxFault     \* commits whose answer is lost (bound)

ASSUME ProcessAssumption ==
  /\ SessionOf \in [Stream -> Session]
  /\ Source \subseteq {"live", "jetstream"}
  /\ Expires \in [Session -> 1..MaxTime]
  /\ MaxFault \in Nat

VARIABLES
  source, now, db,
  watchers,   \* watchers[s]: the streams whose signal is registered for s
  signalled,  \* the streams whose signal is closed
  notify,     \* sessions whose revocation committed and whose notifyInactive is due
  lost,       \* sessions ended by a commit that was not answered
  loop,       \* the expiry loop
  wake,       \* a token in wakeExpiry
  runtime,    \* Runtime.Run
  handler,    \* handler[x]: the request of stream x
  feed,       \* feed[x]: its JetStream subscription
  reader,     \* reader[x]: its goroutine in RelayApplication.Stream
  faults

registryVars == <<source, now, db, watchers, signalled, notify, lost, loop, wake, faults>>
streamVars == <<handler, feed, reader>>
processVars == <<registryVars, runtime, streamVars>>

\* at: where Run is; serve: the goroutine that serves; canceled: the base
\* context of the requests; timeout: Shutdown gave up waiting.
Run == [state: {"constructed", "starting", "ready", "draining", "stopped", "failed"},
        at: {"new", "probe", "select", "shutdown", "await", "close", "close_unserved", "done"},
        serve: {"none", "spawned", "ready", "serving", "returned"},
        parent: BOOLEAN, canceled: BOOLEAN, timeout: BOOLEAN, failed: BOOLEAN, registry: BOOLEAN]

\* setup: how far Subscribe got; closed, active: what finish saw and set under
\* the lock; fin: how far finish got; updates: the channel.
Feed == [setup: {"none", "consuming", "returned"}, consuming: BOOLEAN, closed: BOOLEAN,
         active: BOOLEAN, fin: {"none", "asked", "stopping", "closing", "done"},
         updates: {"open", "closed", "panic"}]

Loop == [at: {"reset", "wait", "notify", "stopped"}, timer: SUBSET Nat, batch: SUBSET Session]

ProcessTypeOK ==
  /\ source \in Source
  /\ now \in 0..MaxTime
  /\ watchers \in [Session -> SUBSET Stream]
  /\ signalled \subseteq Stream /\ notify \subseteq Session /\ lost \subseteq Session
  /\ loop \in Loop /\ wake \in BOOLEAN
  /\ runtime \in Run
  /\ handler \in [Stream -> {"none", "register", "check", "subscribe", "consume", "loop",
                             "returned"}]
  /\ feed \in [Stream -> Feed]
  /\ reader \in [Stream -> {"none", "run", "unsubscribe", "end"}]
  /\ faults \in 0..MaxFault

NewFeed == [setup |-> "none", consuming |-> FALSE, closed |-> FALSE, active |-> FALSE,
            fin |-> "none", updates |-> "open"]

\* The registry is open and holds one session that each bootstrap reserved.
Reservations ==
  [s \in Session |-> {[principal |-> CHOOSE p \in Principal : TRUE, epoch |-> 1,
                       expires |-> Expires[s], state |-> "pending", receipt |-> {},
                       revocation |-> {}]}]

ProcessInit ==
  /\ source \in Source
  /\ now = 0
  /\ db = [NewDatabase(0) EXCEPT !.sessions = Reservations]
  /\ watchers = [s \in Session |-> {}]
  /\ signalled = {} /\ notify = {} /\ lost = {}
  /\ loop = [at |-> "reset", timer |-> {}, batch |-> {}] /\ wake = FALSE
  /\ runtime = [state |-> "constructed", at |-> "new", serve |-> "none", parent |-> FALSE,
                canceled |-> FALSE, timeout |-> FALSE, failed |-> FALSE, registry |-> TRUE]
  /\ handler = [x \in Stream |-> "none"]
  /\ feed = [x \in Stream |-> NewFeed]
  /\ reader = [x \in Stream |-> "none"]
  /\ faults = 0

(***************************************************************************)
(* The registry in the process                                             *)
(***************************************************************************)
\* closeWatchersLocked for the sessions S.
CloseWatchers(S) ==
  /\ signalled' = signalled \cup UNION {watchers[s] : s \in S}
  /\ watchers' = [s \in Session |-> IF s \in S THEN {} ELSE watchers[s]]

\* The sessions that a transaction took out of use.
Ended(tx) == {s \in Session : /\ RowIs(db, s, LAMBDA r : r.state = "active")
                              /\ ~RowIs(tx.db, s, LAMBDA r : r.state = "active")}

\* A transaction of the open registry: answered, or its commit was not.
Answered(tx) == runtime.registry /\ db' = tx.db /\ UNCHANGED <<faults, lost>>

Unanswered(tx) ==
  /\ runtime.registry
  /\ faults < MaxFault /\ faults' = faults + 1
  /\ db' = tx.db
  /\ lost' = lost \cup Ended(tx)

\* Two bounds: sessions end only in behaviours with LiveChanges, and Run itself
\* fails only in those with JetStream.  For a subscription the end of a session
\* is one more reason why the handler returns, as StreamDrops is; for a session
\* a failing listener is one more way to drain, as ParentCanceled is.
SessionsEnd == source = "live"

RunFails == source = "jetstream"

Accepting == runtime.serve = "serving" /\ runtime.at \in {"select", "shutdown"}

\* ActivateBootstrap, for a request to the relay, wakes the scheduler after its
\* commit.
Activate(s) ==
  /\ Accepting
  /\ RowIs(db, s, LAMBDA r : r.state = "pending" /\ r.expires > now)
  /\ Answered(ActivateBootstrap(db, now, s, s))
  /\ wake' = TRUE
  /\ UNCHANGED <<source, now, watchers, signalled, notify, loop, runtime, streamVars>>

\* Revoke: the commit, then notifyInactive.  An exact retry signals nobody.
RevokeSession(s, op) ==
  LET tx == Revoke(db, now, s, op) IN
  /\ SessionsEnd
  /\ \/ /\ tx.res = "ok"
        /\ \/ Answered(tx) /\ notify' = notify \cup {s}
           \/ Unanswered(tx) /\ UNCHANGED notify
     \/ /\ tx.res # "ok" /\ tx.db # db
        /\ Answered(tx) /\ UNCHANGED notify
  /\ UNCHANGED <<source, now, watchers, signalled, loop, wake, runtime, streamVars>>

NotifyRevoked(s) ==
  /\ s \in notify
  /\ notify' = notify \ {s}
  /\ CloseWatchers({s})
  /\ wake' = TRUE
  /\ UNCHANGED <<source, now, db, lost, loop, faults, runtime, streamVars>>

\* expiryLoop: nextExpiryDelay arms the timer for the earliest expiry.
ActiveExpiries == UNION {{r.expires : r \in {q \in db.sessions[s] : q.state = "active"}} : s \in Session}

ResetOnce ==
  /\ loop.at = "reset"
  /\ loop' = [loop EXCEPT !.at = "wait",
                !.timer = IF @ # {} THEN @
                          ELSE {e \in ActiveExpiries : \A f \in ActiveExpiries : e <= f}]
  /\ UNCHANGED <<source, now, db, watchers, signalled, notify, lost, wake, faults, runtime, streamVars>>

Reset ==
  /\ loop.at = "reset"
  /\ loop' = [loop EXCEPT !.at = "wait",
                !.timer = {e \in ActiveExpiries : \A f \in ActiveExpiries : e <= f}]
  /\ UNCHANGED <<source, now, db, watchers, signalled, notify, lost, wake, faults, runtime, streamVars>>

Woken ==
  /\ loop.at = "wait" /\ wake
  /\ wake' = FALSE
  /\ loop' = [loop EXCEPT !.at = "reset"]
  /\ UNCHANGED <<source, now, db, watchers, signalled, notify, lost, faults, runtime, streamVars>>

\* expireDue: one batch; its sessions are notified after the commit.
TimerFires ==
  /\ loop.at = "wait" /\ \E t \in loop.timer : t <= now
  /\ \E S \in SUBSET Session :
       LET tx == ExpireDue(db, now, S) IN
       /\ FirstDue(Observed(db, now), S)
       /\ \/ Answered(tx) /\ loop' = [loop EXCEPT !.at = "notify", !.timer = {}, !.batch = S]
          \/ Unanswered(tx) /\ loop' = [loop EXCEPT !.at = "reset", !.timer = {}]
  /\ UNCHANGED <<source, now, watchers, signalled, notify, wake, runtime, streamVars>>

NotifyExpired ==
  /\ loop.at = "notify"
  /\ \/ /\ loop.batch = {} /\ loop' = [loop EXCEPT !.at = "reset"]
        /\ UNCHANGED <<watchers, signalled>>
     \/ \E s \in loop.batch :
          /\ CloseWatchers({s})
          /\ loop' = [loop EXCEPT !.batch = @ \ {s}]
  /\ UNCHANGED <<source, now, db, notify, lost, wake, faults, runtime, streamVars>>

(***************************************************************************)
(* A stream request                                                        *)
(***************************************************************************)
Goto(x, at) == handler' = [handler EXCEPT ![x] = at]

\* The request's context: the base context, and the handler itself.
Canceled(x) == runtime.canceled \/ handler[x] = "returned"

\* ServeHTTP: the request was authenticated while its session was active.
Arrive(x) ==
  /\ Accepting /\ handler[x] = "none"
  /\ RowIs(db, SessionOf[x], LAMBDA r : r.state = "active")
  /\ Goto(x, "register")
  /\ UNCHANGED <<registryVars, runtime, feed, reader>>

\* SubscribeInactive registers its signal ...
Register(x) ==
  /\ handler[x] = "register"
  /\ watchers' = [watchers EXCEPT ![SessionOf[x]] = @ \cup {x}]
  /\ Goto(x, "check")
  /\ UNCHANGED <<source, now, db, signalled, notify, lost, loop, wake, faults, runtime, feed, reader>>

\* ... and then reads the durable state, whose error takes the signal back.
Check(x) ==
  LET tx == IsActive(db, now, SessionOf[x]) IN
  /\ handler[x] = "check"
  /\ \/ /\ Answered(tx)
        /\ IF tx.res = "ok" THEN UNCHANGED <<watchers, signalled>> ELSE CloseWatchers({SessionOf[x]})
        /\ Goto(x, "subscribe")
     \/ /\ Unanswered(tx) \/ UNCHANGED <<db, lost, faults>>
        /\ watchers' = [watchers EXCEPT ![SessionOf[x]] = @ \ {x}]
        /\ UNCHANGED signalled
        /\ Goto(x, "returned")
  /\ UNCHANGED <<source, now, notify, loop, wake, runtime, feed, reader>>

\* Subscribe: LiveChanges adds a channel; the consumer of live.go delivers as
\* soon as Consume runs.
Subscribe(x) ==
  /\ handler[x] = "subscribe"
  /\ \/ Goto(x, "returned") /\ UNCHANGED feed
        /\ UNCHANGED reader
     \/ /\ source = "live"
        /\ Goto(x, "loop")
        /\ reader' = [reader EXCEPT ![x] = "run"]
        /\ UNCHANGED feed
     \/ /\ source = "jetstream"
        /\ Goto(x, "consume")
        /\ feed' = [feed EXCEPT ![x].setup = "consuming", ![x].consuming = TRUE]
        /\ UNCHANGED reader
  /\ UNCHANGED <<registryVars, runtime>>

ConsumedUnchecked(x) ==
  /\ handler[x] = "consume"
  /\ Goto(x, "loop")
  /\ feed' = [feed EXCEPT ![x].setup = "returned"]
  /\ reader' = [reader EXCEPT ![x] = "run"]
  /\ UNCHANGED <<registryVars, runtime>>

\* Consume returned: finish may have run meanwhile, without the consumption.
Consumed(x) ==
  /\ handler[x] = "consume"
  /\ Goto(x, "loop")
  /\ feed' = [feed EXCEPT ![x].setup = "returned",
                          ![x].consuming = @ /\ ~feed[x].closed]
  /\ reader' = [reader EXCEPT ![x] = "run"]
  /\ UNCHANGED <<registryVars, runtime>>

\* The select of the stream handler, one alternative each.
StreamEnds(x) ==
  \/ Canceled(x)
  \/ x \in signalled
  \/ reader[x] = "end"

Leave(x) ==
  /\ handler[x] = "loop"
  /\ Goto(x, "returned")
  /\ UNCHANGED <<registryVars, runtime, feed, reader>>

StreamLoop(x) == StreamEnds(x) /\ Leave(x)

\* The stream's lifetime ends, or a write fails.
StreamDrops(x) == ~StreamEnds(x) /\ Leave(x)

(***************************************************************************)
(* The subscription's goroutines                                           *)
(***************************************************************************)
Sent(x) == feed' = [feed EXCEPT ![x].updates = IF @ = "open" THEN @ ELSE "panic"]

\* The message callback.  A send on a closed channel would panic; the tokens in
\* an open one are those of RelayTranscript.
Deliver(x) ==
  /\ feed[x].consuming /\ ~feed[x].closed
  /\ Sent(x)
  /\ UNCHANGED <<registryVars, runtime, handler, reader>>

\* The consumer reports an error or a foreign subject: go finish().
ConsumeError(x) ==
  /\ feed[x].consuming /\ feed[x].fin = "none"
  /\ feed' = [feed EXCEPT ![x].fin = "asked"]
  /\ UNCHANGED <<registryVars, runtime, handler, reader>>

\* The goroutine that waits for the context.
ContextDone(x) ==
  /\ feed[x].setup = "returned" /\ Canceled(x) /\ feed[x].fin = "none"
  /\ feed' = [feed EXCEPT ![x].fin = "asked"]
  /\ UNCHANGED <<registryVars, runtime, handler, reader>>

\* finish, once: closed is set under the lock; what it finds there is stopped,
\* and the consumer deleted; then the channel is closed.
Finish(x) ==
  LET f == feed[x] IN
  /\ \/ /\ f.fin = "asked"
        /\ feed' = [feed EXCEPT ![x] = [f EXCEPT !.fin = "stopping", !.closed = TRUE,
                                                 !.active = (f.setup = "returned")]]
     \/ /\ f.fin = "stopping"
        /\ feed' = [feed EXCEPT ![x] = [f EXCEPT !.fin = "closing",
                                                 !.consuming = f.consuming /\ ~f.active]]
     \/ /\ f.fin = "closing"
        /\ feed' = [feed EXCEPT ![x] = [f EXCEPT !.fin = "done", !.updates = "closed"]]
  /\ UNCHANGED <<registryVars, runtime, handler, reader>>

\* RelayApplication.Stream unsubscribes when its context or channel is closed ...
Quit(x) ==
  /\ reader[x] = "run"
  /\ reader' = [reader EXCEPT ![x] = "unsubscribe"]
  /\ feed' = [feed EXCEPT ![x].fin = IF @ = "none" /\ source = "jetstream" THEN "asked" ELSE @]
  /\ UNCHANGED <<registryVars, runtime, handler>>

Read(x) == (feed[x].updates = "closed" \/ Canceled(x)) /\ Quit(x)

\* ... and when a read fails or finds an incomplete boundary.
ReadFails(x) == ~Canceled(x) /\ feed[x].updates # "closed" /\ Quit(x)

Unsubscribe(x) ==
  /\ reader[x] = "unsubscribe" /\ (source = "live" \/ feed[x].fin = "done")
  /\ reader' = [reader EXCEPT ![x] = "end"]
  /\ UNCHANGED <<registryVars, runtime, handler, feed>>

(***************************************************************************)
(* Runtime.Run                                                             *)
(***************************************************************************)
RunFrame == UNCHANGED <<registryVars, streamVars>>

Start ==
  /\ runtime.at = "new"
  /\ runtime' = [runtime EXCEPT !.at = "probe", !.state = "starting"]
  /\ RunFrame

\* The readiness probe; a failure closes the listener and every resource.
Probe ==
  /\ runtime.at = "probe"
  /\ \/ runtime' = [runtime EXCEPT !.at = "select", !.serve = "spawned"]
     \/ runtime' = [runtime EXCEPT !.at = "close_unserved", !.canceled = TRUE, !.failed = TRUE]
  /\ RunFrame

\* The serving goroutine announces readiness whenever it is scheduled; Serve
\* returns at once if Shutdown came first.
ServeStep ==
  /\ \/ /\ runtime.serve = "spawned"
        /\ runtime' = [runtime EXCEPT !.serve = "ready", !.state = "ready"]
     \/ /\ runtime.serve = "ready"
        /\ runtime' = [runtime EXCEPT !.serve =
                         IF runtime.at = "select" THEN "serving" ELSE "returned"]
     \/ /\ runtime.serve = "serving" /\ runtime.at # "select"
        /\ runtime' = [runtime EXCEPT !.serve = "returned"]
  /\ RunFrame

\* The listener fails.
ServeFails ==
  /\ RunFails
  /\ runtime.serve = "serving" /\ runtime.at = "select"
  /\ runtime' = [runtime EXCEPT !.serve = "returned", !.failed = TRUE]
  /\ RunFrame

ParentCanceled ==
  /\ ~runtime.parent
  /\ runtime' = [runtime EXCEPT !.parent = TRUE, !.canceled = TRUE]
  /\ RunFrame

Drain ==
  /\ runtime.at = "select" /\ (runtime.parent \/ runtime.serve = "returned")
  /\ runtime' = [runtime EXCEPT !.at = "shutdown", !.state = "draining", !.canceled = TRUE]
  /\ RunFrame

Busy == {x \in Stream : handler[x] \notin {"none", "returned"}}

\* Shutdown waits for the handlers, or gives up and closes their connections.
Shutdown ==
  /\ runtime.at = "shutdown"
  /\ \/ Busy = {} /\ runtime' = [runtime EXCEPT !.at = "await"]
     \/ /\ RunFails /\ Busy # {}
        /\ runtime' = [runtime EXCEPT !.at = "await", !.timeout = TRUE, !.failed = TRUE]
  /\ RunFrame

DoNotAwait ==
  /\ runtime.at = "await"
  /\ runtime' = [runtime EXCEPT !.at = "close"]
  /\ RunFrame

AwaitTwice ==
  /\ runtime.at = "await" /\ runtime.serve = "returned" /\ runtime.failed = runtime.timeout
  /\ runtime' = [runtime EXCEPT !.at = "close"]
  /\ RunFrame

Await ==
  /\ runtime.at = "await" /\ runtime.serve = "returned"
  /\ runtime' = [runtime EXCEPT !.at = "close"]
  /\ RunFrame

CloseEarly ==
  /\ runtime.at \in {"shutdown", "await", "close", "close_unserved"} /\ runtime.registry
  /\ loop.at \in {"wait", "stopped"}
  /\ loop' = [loop EXCEPT !.at = "stopped", !.timer = {}]
  /\ CloseWatchers(Session)
  /\ runtime' = [runtime EXCEPT !.registry = FALSE]
  /\ UNCHANGED <<source, now, db, notify, lost, wake, faults, streamVars>>

\* Registry.Close, the resource: the loop has stopped, the watchers are closed.
CloseRegistry ==
  /\ runtime.at \in {"close", "close_unserved"} /\ runtime.registry
  /\ loop.at \in {"wait", "stopped"}
  /\ loop' = [loop EXCEPT !.at = "stopped", !.timer = {}]
  /\ CloseWatchers(Session)
  /\ runtime' = [runtime EXCEPT !.registry = FALSE]
  /\ UNCHANGED <<source, now, db, notify, lost, wake, faults, streamVars>>

Finished ==
  /\ runtime.at \in {"close", "close_unserved"} /\ ~runtime.registry
  /\ runtime' = [runtime EXCEPT !.at = "done",
                   !.state = IF runtime.failed THEN "failed" ELSE "stopped"]
  /\ RunFrame

Tick ==
  /\ SessionsEnd
  /\ now < MaxTime
  /\ now' = now + 1
  /\ UNCHANGED <<source, db, watchers, signalled, notify, lost, loop, wake, faults, runtime, streamVars>>

(***************************************************************************)
(* Specification                                                           *)
(***************************************************************************)
LoopStep == Reset \/ Woken \/ TimerFires \/ NotifyExpired

HandlerStep(x) == Register(x) \/ Check(x) \/ Subscribe(x) \/ Consumed(x) \/ StreamLoop(x)

ReaderStep(x) == Read(x) \/ Unsubscribe(x)

RunStep == Probe \/ Drain \/ Shutdown \/ Await \/ CloseRegistry \/ Finished

ProcessNext ==
  \/ \E s \in Session : Activate(s) \/ NotifyRevoked(s)
  \/ \E r \in Revocation : RevokeSession(r[2], r[1])
  \/ LoopStep
  \/ \E x \in Stream : Arrive(x) \/ HandlerStep(x) \/ StreamDrops(x) \/ Deliver(x) \/ ConsumeError(x)
                       \/ ContextDone(x) \/ Finish(x) \/ ReaderStep(x) \/ ReadFails(x)
  \/ Start \/ ServeStep \/ ServeFails \/ ParentCanceled \/ RunStep
  \/ Tick

\* Every goroutine that can run does, one select after the other.  Nothing
\* makes a stream end by its lifetime, a message arrive or the clock move.
ProcessFairness ==
  /\ WF_processVars(LoopStep) /\ WF_processVars(ServeStep) /\ WF_processVars(RunStep)
  /\ \A s \in Session : WF_processVars(NotifyRevoked(s))
  /\ \A x \in Stream : /\ WF_processVars(HandlerStep(x)) /\ WF_processVars(Finish(x))
                       /\ WF_processVars(ContextDone(x)) /\ WF_processVars(ReaderStep(x))

ProcessSpec == ProcessInit /\ [][ProcessNext]_processVars /\ ProcessFairness

(***************************************************************************)
(* Properties                                                              *)
(***************************************************************************)
Inactive(s) == /\ s \notin lost
               /\ ~RowIs(db, s, LAMBDA r : r.state = "pending" \/ (r.state = "active" /\ r.expires > now))

\* A session that was revoked or whose time is up loses its streams, also one
\* that was being opened at that moment, without waiting for the stream's own
\* lifetime: no signal is lost between the commit and the watchers, and the
\* timer never sleeps past an expiry (SubscribeInactive, expiryLoop).  Excepted
\* are sessions ended by a commit whose answer was lost.
InactiveEndsStream ==
  \A x \in Stream : (x \in Busy /\ Inactive(SessionOf[x])) ~> (x \notin Busy \/ SessionOf[x] \in lost)

\* The registry is closed only when no request is being handled, unless
\* Shutdown ran into its timeout (the order of Run's stages).
ResourcesOutliveRequests == ~runtime.registry => Busy = {} \/ runtime.timeout

\* A subscription is released whatever ends it and whenever: nothing is sent on
\* its closed channel, and once finish and Subscribe are through, nothing
\* consumes any more (live.go, finish during Subscribe included).
FeedIsReleased ==
  \A x \in Stream :
    /\ feed[x].updates # "panic"
    /\ feed[x].fin = "done" /\ feed[x].setup = "returned" => ~feed[x].consuming

\* The state Run ends with is final: the goroutine that announces readiness,
\* which may run as late as it likes, has returned before (Run waits for
\* serveErrors).
FinalStateStays == [][runtime.at = "done" => runtime'.state = runtime.state]_processVars

\* Once the parent is canceled or the listener failed, Run comes to its end,
\* whichever of the two its select saw first (bounded shutdown).
RunEnds == (runtime.at # "new" /\ (runtime.parent \/ runtime.failed)) ~> runtime.at = "done"
=============================================================================
