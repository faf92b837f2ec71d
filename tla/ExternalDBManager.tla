-------------------------- MODULE ExternalDBManager -------------------------
(***************************************************************************)
(* pkg/ovndb/external.go and client.go: the manager of the connection to   *)
(* the OVN databases.  Its goroutines are the callers of Connect and       *)
(* Close, the health-check loop, and a goroutine for each attempt to       *)
(* reconnect.  A step is a critical section of the manager's mutex or one  *)
(* call between two of them; the mutex is a variable only for Connect and  *)
(* Close, which hold it while they wait.                                   *)
(***************************************************************************)
EXTENDS Integers, FiniteSets

CONSTANTS
  Callers, Loops, Reconnects,  \* goroutines; bound: those started of each kind
  Free,                        \* nobody holds the mutex
  MaxClients,                  \* bound: clients in existence at a time
  MaxCalls,                    \* bound: calls of Connect and Close
  MaxFailures,                 \* bound: databases away, attempts given up
  Limits                       \* values of MaxReconnectAttempts to look at

ASSUME ManagerAssumption ==
  /\ Free \notin Callers /\ IsFiniteSet(Loops)
  /\ Callers \cap Loops = {} /\ Callers \cap Reconnects = {} /\ Loops \cap Reconnects = {}
  /\ {MaxClients, MaxCalls, MaxFailures} \cup Limits \subseteq Nat

VARIABLES
  limit,      \* config.MaxReconnectAttempts, 0 for no limit
  mu,         \* the caller that holds m.mu while it waits
  client,     \* m.client, 0 for nil
  connected, attempts,
  stopped,    \* stopCh is closed
  done,       \* times healthCheckDone was closed; the second one panics
  proc,       \* goroutine -> program counter and the client it has in hand
  open,       \* client -> the connections it has: none, "nb" or "both"
  db,         \* the databases can be reached
  calls, failures,
  causes      \* history: what may make the bookkeeping go wrong

vars == <<limit, mu, client, connected, attempts, stopped, done, proc, open,
          db, calls, failures, causes>>

manager == <<client, connected, attempts>>
env     == <<db, calls, failures, limit>>

Clients == 1 .. MaxClients
At(pc, c) == [pc |-> pc, c |-> c]
Pc(g) == proc[g].pc
Set(g, pc, c) == proc' = [proc EXCEPT ![g] = At(pc, c)]

Init ==
  /\ limit \in Limits
  /\ mu = Free /\ client = 0 /\ connected = FALSE /\ attempts = 0
  /\ stopped = FALSE /\ done = 0
  /\ proc = [g \in Callers \cup Loops \cup Reconnects |-> At("idle", 0)]
  /\ open = [c \in Clients |-> "none"]
  /\ db = TRUE /\ calls = 0 /\ failures = 0 /\ causes = {}

\* Nobody waits with the mutex in hand, and no channel was closed twice.
Lockable == mu = Free /\ done < 2

\* A new client takes a number nobody refers to; that of one that was lost
\* while it was open is used again only if there is no other.
Unused == {c \in Clients : c # client /\ \A g \in DOMAIN proc : proc[g].c # c}

StartDialing(g) ==
  /\ Unused # {}
  /\ LET closed == {c \in Unused : open[c] = "none"}
     IN  Set(g, "nb", CHOOSE c \in Unused : closed # {} => c \in closed)

\* Goroutines of a kind that have not been started or have ended.
Idle(G) == {g \in G : Pc(g) = "idle"}

Reconnecting == Reconnects \ Idle(Reconnects)

-----------------------------------------------------------------------------
(* Connect, and the dialing that it shares with the reconnect goroutine.   *)

\* Connect holds the mutex until the databases answer or its context ends.
Connect(a) ==
  /\ Lockable /\ Pc(a) = "idle" /\ ~ connected /\ calls < MaxCalls
  /\ calls' = calls + 1
  /\ Idle(Loops) # {}
  /\ mu' = a
  /\ StartDialing(a)
  /\ causes' = IF \E l \in Loops : Pc(l) # "idle" THEN causes \cup {"again"} ELSE causes
  /\ UNCHANGED <<manager, stopped, done, open, db, failures, limit>>

DialNorthbound(g) ==
  /\ done < 2 /\ Pc(g) = "nb" /\ db
  /\ open' = [open EXCEPT ![proc[g].c] = "nb"]
  /\ Set(g, "sb", proc[g].c)
  /\ UNCHANGED <<mu, manager, stopped, done, env, causes>>

\* Client.Connect has both connections.
DialSouthbound(r) ==
  /\ done < 2 /\ Pc(r) = "sb" /\ r \in Reconnects /\ db
  /\ open' = [open EXCEPT ![proc[r].c] = "both"]
  /\ Set(r, "install", proc[r].c)
  /\ UNCHANGED <<mu, manager, stopped, done, env, causes>>

Install(c) == client' = c /\ connected' = TRUE /\ attempts' = 0

\* The client it had, if any, is not closed; a health-check loop is started.
Connected(a) ==
  /\ done < 2 /\ Pc(a) = "sb" /\ a \in Callers /\ db
  /\ open' = [open EXCEPT ![proc[a].c] = "both"]
  /\ Install(proc[a].c)
  /\ mu' = Free
  /\ proc' = [proc EXCEPT ![a] = At("idle", 0),
                          ![CHOOSE l \in Idle(Loops) : TRUE] = At("select", 0)]
  /\ UNCHANGED <<stopped, done, env, causes>>

\* Mutation of GiveUp: the northbound connection is left open.
GiveUpKeepsNorthbound(g) ==
  /\ done < 2 /\ Pc(g) \in {"nb", "sb"} /\ failures < MaxFailures
  /\ failures' = failures + 1
  /\ Set(g, "idle", 0)
  /\ mu' = IF mu = g THEN Free ELSE mu
  /\ UNCHANGED <<manager, stopped, done, open, db, calls, limit, causes>>

\* The context has ended: the northbound connection is closed again.
GiveUp(g) ==
  /\ done < 2 /\ Pc(g) \in {"nb", "sb"} /\ failures < MaxFailures
  /\ failures' = failures + 1
  /\ open' = [open EXCEPT ![proc[g].c] = "none"]
  /\ Set(g, "idle", 0)
  /\ mu' = IF mu = g THEN Free ELSE mu
  /\ UNCHANGED <<manager, stopped, done, db, calls, limit, causes>>

-----------------------------------------------------------------------------
(* healthCheckLoop.                                                        *)

\* select takes either channel when both are ready: a tick may be served
\* after stopCh was closed.
Tick(l) ==
  /\ done < 2 /\ Pc(l) = "select"
  /\ Set(l, "start", 0)
  /\ UNCHANGED <<mu, manager, stopped, done, open, env, causes>>

\* Mutation of StopLoop: the loop ends and does not say so.
StopLoopSilently(l) ==
  /\ done < 2 /\ Pc(l) = "select" /\ stopped
  /\ Set(l, "exited", 0)
  /\ UNCHANGED <<mu, manager, stopped, done, open, env, causes>>

StopLoop(l) ==
  /\ done < 2 /\ Pc(l) = "select" /\ stopped
  /\ Set(l, "exited", 0)
  /\ done' = done + 1
  /\ UNCHANGED <<mu, manager, stopped, open, env, causes>>

\* performHealthCheck works on the client it read, outside of the mutex.
ReadClient(l) ==
  /\ Lockable /\ Pc(l) = "start"
  /\ Set(l, IF client = 0 THEN "failed" ELSE "query", client)
  /\ UNCHANGED <<mu, manager, stopped, done, open, env, causes>>

\* A client that was closed meanwhile fails; so may one without its database.
Query(l) ==
  /\ done < 2 /\ Pc(l) = "query"
  /\ \/ open[proc[l].c] = "both" /\ Set(l, "passed", 0)
     \/ (open[proc[l].c] # "both" \/ ~ db) /\ Set(l, "failed", 0)
  /\ UNCHANGED <<mu, manager, stopped, done, open, env, causes>>

Passed(l) ==
  /\ Lockable /\ Pc(l) = "passed"
  /\ Set(l, "select", 0)
  /\ UNCHANGED <<mu, manager, stopped, done, open, env, causes>>

\* Mutation of MayReconnect: no limit is taken for a limit of no attempts.
MayReconnectLimited == attempts + 1 <= limit

MayReconnect == limit = 0 \/ attempts + 1 <= limit

Lost == connected' = FALSE

\* handleConnectionFailure: each failed check starts one more goroutine.  The
\* attempts are counted up to the first number past the limit.
ConnectionFailure(l) ==
  /\ Lockable /\ Pc(l) = "failed"
  /\ Lost
  /\ attempts' = IF attempts > limit THEN attempts ELSE attempts + 1
  /\ IF MayReconnect
     THEN /\ Idle(Reconnects) # {}
          /\ proc' = [proc EXCEPT ![l] = At("select", 0),
                                  ![CHOOSE r \in Idle(Reconnects) : TRUE] = At("close", 0)]
          /\ causes' = IF Reconnecting # {} THEN causes \cup {"overlap"} ELSE causes
     ELSE Set(l, "select", 0) /\ UNCHANGED causes
  /\ UNCHANGED <<mu, client, stopped, done, open, env>>

-----------------------------------------------------------------------------
(* attemptReconnect.                                                       *)

CloseClient == open' = IF client = 0 THEN open ELSE [open EXCEPT ![client] = "none"]

CloseOld(r) ==
  /\ Lockable /\ Pc(r) = "close"
  /\ CloseClient /\ client' = 0
  /\ StartDialing(r)
  /\ UNCHANGED <<mu, connected, attempts, stopped, done, env, causes>>

\* Neither a client that came in meanwhile nor Close is looked for.
InstallNew(r) ==
  /\ Lockable /\ Pc(r) = "install"
  /\ Install(proc[r].c)
  /\ Set(r, "idle", 0)
  /\ UNCHANGED <<mu, stopped, done, open, env, causes>>

-----------------------------------------------------------------------------
(* Close.                                                                  *)

SignalStop == stopped' = TRUE

StartClose(a) ==
  /\ Lockable /\ Pc(a) = "idle" /\ calls < MaxCalls
  /\ calls' = calls + 1
  /\ mu' = a /\ SignalStop
  /\ Set(a, "closing", 0)
  /\ causes' = IF Reconnecting # {} THEN causes \cup {"late"} ELSE causes
  /\ UNCHANGED <<manager, done, open, db, failures, limit>>

\* Mutation of FinishClose: the client is only forgotten.
FinishWithoutClosing(a) ==
  /\ done = 1 /\ Pc(a) = "closing"
  /\ UNCHANGED open
  /\ client' = 0 /\ connected' = FALSE
  /\ mu' = Free /\ Set(a, "idle", 0)
  /\ UNCHANGED <<attempts, stopped, done, env, causes>>

FinishClose(a) ==
  /\ done = 1 /\ Pc(a) = "closing"
  /\ CloseClient /\ client' = 0 /\ connected' = FALSE
  /\ mu' = Free /\ Set(a, "idle", 0)
  /\ UNCHANGED <<attempts, stopped, done, env, causes>>

-----------------------------------------------------------------------------
Drop ==
  /\ db /\ failures < MaxFailures /\ done < 2
  /\ db' = FALSE /\ failures' = failures + 1
  /\ UNCHANGED <<mu, manager, stopped, done, proc, open, calls, limit, causes>>

ComeBack ==
  /\ ~ db /\ db' = TRUE
  /\ UNCHANGED <<mu, manager, stopped, done, proc, open, calls, failures, limit, causes>>

Dial(g) == DialNorthbound(g) \/ DialSouthbound(g) \/ Connected(g)

Loop(l) == ReadClient(l) \/ Query(l) \/ Passed(l) \/ ConnectionFailure(l)

Reconnect(r) == CloseOld(r) \/ InstallNew(r)

Next ==
  \/ \E a \in Callers : Connect(a) \/ StartClose(a) \/ FinishClose(a)
  \/ \E g \in Callers \cup Reconnects : Dial(g) \/ GiveUp(g)
  \/ \E l \in Loops : Tick(l) \/ StopLoop(l) \/ Loop(l)
  \/ \E r \in Reconnects : Reconnect(r)
  \/ Drop \/ ComeBack

Spec == Init /\ [][Next]_vars

\* Goroutines keep running, the ticker ticks and the databases come back.  Of
\* two ready channels select takes either, and not the same one for ever.
FairSpec ==
  /\ Spec /\ WF_vars(ComeBack)
  /\ \A a \in Callers : WF_vars(FinishClose(a))
  /\ \A g \in Callers \cup Reconnects : WF_vars(Dial(g))
  /\ \A l \in Loops : WF_vars(Tick(l) \/ Loop(l)) /\ SF_vars(StopLoop(l))
  /\ \A r \in Reconnects : WF_vars(Reconnect(r))

-----------------------------------------------------------------------------
(* Properties                                                              *)

Pcs == {"idle", "nb", "sb", "closing", "select", "start", "query", "passed",
        "failed", "exited", "close", "install"}

TypeOK ==
  /\ limit \in Limits /\ mu \in Callers \cup {Free}
  /\ client \in 0 .. MaxClients /\ {connected, stopped, db} \subseteq BOOLEAN
  /\ attempts \in Nat /\ done \in 0 .. Cardinality(Loops)
  /\ proc \in [Callers \cup Loops \cup Reconnects -> [pc : Pcs, c : 0 .. MaxClients]]
  /\ open \in [Clients -> {"none", "nb", "both"}]
  /\ causes \subseteq {"again", "overlap", "late"}

Dialing == {proc[g].c : g \in Callers \cup Reconnects}

\* A connection to the databases belongs to the manager's client or to a
\* goroutine that is making one; nothing stays open that no one will close,
\* unless two reconnects overlap or Connect is called a second time.
NoClientLeaks ==
  causes \cap {"again", "overlap"} = {} =>
    \A c \in Clients : open[c] # "none" => c = client \/ c \in Dialing

\* What IsConnected promises: there is a client to be had, and it was not
\* closed, unless reconnects overlap or Connect is called again.
ConnectedHasClient ==
  connected /\ causes \cap {"again", "overlap"} = {} => client # 0 /\ open[client] = "both"

\* After Close the connections are gone and stay so, unless a reconnect was
\* under way when Close was called.
ClosedStaysClosed ==
  done = 1 /\ mu = Free /\ causes = {} =>
    ~ connected /\ client = 0 /\ \A c \in Clients : open[c] = "none"

\* healthCheckDone is closed twice, a panic, only after a second Connect.
PanicOnlyAfterSecondConnect == done = 2 => "again" \in causes

\* The manager's book-keeping of its connections, in one: nothing leaks, what
\* is called connected is, and nothing is closed twice without a cause.
ClientsSound == TypeOK /\ NoClientLeaks /\ ConnectedHasClient /\ PanicOnlyAfterSecondConnect

\* Close returns, unless there is no loop to wait for, or the loop has a check
\* in hand and needs the mutex that Close holds.
WaitsForMutex(l) == Pc(l) \in {"start", "passed", "failed"}

CloseReturnsUnlessChecking ==
  \A a \in Callers : Pc(a) = "closing" ~>
    \/ Pc(a) # "closing" \/ done = 2
    \/ \E l \in Loops : WaitsForMutex(l)
    \/ \A l \in Loops : Pc(l) = "idle"

\* Once connected, the manager gets its connection back whenever the databases
\* are there again, if it has no limit of attempts and is not closed.
Recovers ==
  limit = 0 /\ (\E l \in Loops : Pc(l) # "idle")
    ~> stopped \/ (db /\ connected /\ client # 0 /\ open[client] = "both")
=============================================================================
