----------------------------- MODULE OVNProofs ------------------------------
(***************************************************************************)
(* Proofs about ExternalDBManager, for any number of goroutines, clients,  *)
(* calls and failures, and about ServiceController, for any Services,      *)
(* endpoints, nodes and switches: the connection to the northbound         *)
(* database and the load balancers in it.                                  *)
(***************************************************************************)
EXTENDS ExternalDBManager, ServiceController, SequenceTheorems, FiniteSetTheorems, TLAPS

-----------------------------------------------------------------------------
(* The inductive invariant of the manager.                                 *)

Dialers == Callers \cup Reconnects
Goroutines == Dialers \cup Loops
Places == [pc : Pcs, c : 0 .. MaxClients]

Types ==
  /\ limit \in Limits /\ mu \in Callers \cup {Free}
  /\ client \in 0 .. MaxClients /\ {connected, stopped, db} \subseteq BOOLEAN
  /\ attempts \in Nat /\ done \in Nat
  /\ proc \in [Goroutines -> Places]
  /\ open \in [Clients -> {"none", "nb", "both"}]
  /\ causes \subseteq {"again", "overlap", "late"}

\* What each kind of goroutine does; a caller that does anything has the mutex.
Programs ==
  /\ \A a \in Callers : Pc(a) \in {"idle", "nb", "sb", "closing"} /\ (Pc(a) # "idle" <=> mu = a)
  /\ \A a \in Callers : Pc(a) \in {"nb", "sb"} => \E l \in Loops : Pc(l) = "idle"
  /\ \A l \in Loops : Pc(l) \in {"idle", "select", "start", "query", "passed", "failed", "exited"}
  /\ \A r \in Reconnects : Pc(r) \in {"idle", "close", "nb", "sb", "install"}

\* A client is dialed by one goroutine at a time, and is not the manager's yet.
Hands ==
  /\ \A g \in Dialers : proc[g].c # 0 <=> Pc(g) \in {"nb", "sb", "install"}
  /\ \A g \in Dialers : proc[g].c # 0 => proc[g].c # client
  /\ \A g, h \in Dialers : g # h /\ proc[g].c # 0 => proc[g].c # proc[h].c

\* The manager's client is connected, and a client in the making as far as the
\* goroutine that makes it has come.
Connections ==
  /\ client # 0 => open[client] = "both"
  /\ \A g \in Dialers : Pc(g) = "sb" => open[proc[g].c] = "nb"
  /\ \A g \in Dialers : Pc(g) = "install" => open[proc[g].c] = "both"

Exited == {l \in Loops : Pc(l) = "exited"}

\* healthCheckDone is closed by each loop that ends, which none does before
\* stopCh was closed; Close has the mutex until one does.
Ends ==
  /\ done = Cardinality(Exited)
  /\ done # 0 => stopped
  /\ stopped /\ done = 0 => \E a \in Callers : Pc(a) = "closing"

\* Nothing goes on before the first Connect has returned.
Fresh ==
  (\A l \in Loops : Pc(l) = "idle") =>
    client = 0 /\ ~ connected /\ \A r \in Reconnects : Pc(r) = "idle"

\* Until Connect is called a second time there is one loop, or none yet.
Once ==
  "again" \notin causes =>
    /\ \A l, k \in Loops : Pc(l) # "idle" /\ Pc(k) # "idle" => l = k
    /\ \A a \in Callers : Pc(a) \in {"nb", "sb"} => \A l \in Loops : Pc(l) = "idle"

Single ==
  "overlap" \notin causes =>
    \A r, q \in Reconnects : Pc(r) # "idle" /\ Pc(q) # "idle" => r = q

\* A reconnect that is the only one has the connection to itself.
Alone ==
  causes \cap {"again", "overlap"} = {} =>
    /\ connected => client # 0
    /\ \A r \in Reconnects : Pc(r) # "idle" => ~ connected /\ (Pc(r) # "close" => client = 0)

\* Close leaves no reconnect to come after it.
Stopping ==
  causes = {} /\ stopped => \A r \in Reconnects : Pc(r) = "idle"

Inv ==
  /\ Types /\ Programs /\ Hands /\ Connections /\ Ends /\ Fresh /\ Once /\ Single
  /\ Alone /\ NoClientLeaks /\ Stopping /\ ClosedStaysClosed
-----------------------------------------------------------------------------
(* Init, and every action.                                                 *)

\* A goroutine moves, and no other one.
Moved(g, pc, c) ==
  /\ proc' \in [Goroutines -> Places] /\ Pc(g)' = pc /\ proc'[g].c = c
  /\ \A h \in Goroutines \ {g} : Pc(h)' = Pc(h) /\ proc'[h].c = proc[h].c

LEMMA Moves ==
  ASSUME Inv, NEW g \in Goroutines, NEW pc \in Pcs, NEW c \in 0 .. MaxClients, Set(g, pc, c)
  PROVE  Moved(g, pc, c)
<1>1. proc \in [Goroutines -> Places] /\ At(pc, c) \in Places
  BY DEF Inv, Types, Places, At
<1>2. proc' = [proc EXCEPT ![g] = At(pc, c)]
  BY DEF Set
<1>3. proc' \in [Goroutines -> Places] /\ proc'[g] = At(pc, c)
  BY <1>1, <1>2
<1>4. \A h \in Goroutines \ {g} : proc'[h] = proc[h]
  BY <1>1, <1>2
<1> QED BY <1>3, <1>4 DEF Moved, Pc, At

\* The kinds of goroutine are apart.
LEMMA Apart ==
  /\ Callers \cap Loops = {} /\ Callers \cap Reconnects = {} /\ Loops \cap Reconnects = {}
  /\ Free \notin Callers /\ MaxClients \in Nat /\ IsFiniteSet(Loops)
BY ManagerAssumption

\* Once healthCheckDone is closed, some loop has ended.
LEMMA EndedLoop ==
  ASSUME Inv, done # 0
  PROVE  stopped /\ \E l \in Loops : Pc(l) = "exited"
<1>1. Exited # {}
  BY FS_EmptySet DEF Inv, Ends
<1> QED BY <1>1 DEF Exited, Inv, Ends

\* A client that is about to be dialed is nobody's.
LEMMA Fetches ==
  ASSUME Inv, NEW g \in Dialers, StartDialing(g)
  PROVE  \E c \in Clients : /\ Moved(g, "nb", c) /\ c # client /\ c # 0
                            /\ \A h \in Goroutines : proc[h].c # c
<1> DEFINE closed == {c \in Unused : open[c] = "none"}
<1> DEFINE d == CHOOSE c \in Unused : closed # {} => c \in closed
<1>1. Set(g, "nb", d) /\ Unused # {}
  BY DEF StartDialing
<1>2. \E c \in Unused : closed # {} => c \in closed
  BY <1>1
<1>3. d \in Unused
  BY <1>2
<1> HIDE DEF d
<1>4. d \in Clients /\ d # client /\ \A h \in Goroutines : proc[h].c # d
  BY <1>3 DEF Unused, Inv, Types, Goroutines, Dialers
<1>5. d # 0 /\ d \in 0 .. MaxClients
  BY <1>4, Apart DEF Clients
<1>6. Moved(g, "nb", d)
  BY <1>1, <1>5, Moves DEF Pcs, Goroutines, Dialers
<1> QED BY <1>4, <1>5, <1>6

\* A goroutine moves and starts another one.
Started(G, g, pc, k, start) ==
  /\ k \in G /\ Pc(k) = "idle" /\ proc' \in [Goroutines -> Places]
  /\ Pc(g)' = pc /\ proc'[g].c = 0 /\ Pc(k)' = start /\ proc'[k].c = 0
  /\ \A h \in Goroutines \ {g, k} : Pc(h)' = Pc(h) /\ proc'[h].c = proc[h].c

LEMMA Starts ==
  ASSUME Inv, NEW G \in {Loops, Reconnects}, NEW g \in Goroutines \ G, Idle(G) # {},
         NEW pc \in Pcs, NEW start \in Pcs,
         proc' = [proc EXCEPT ![g] = At(pc, 0), ![CHOOSE k \in Idle(G) : TRUE] = At(start, 0)]
  PROVE  \E k \in G : Started(G, g, pc, k, start)
<1>1. PICK k \in Idle(G) : k = CHOOSE q \in Idle(G) : TRUE
  OBVIOUS
<1>2. proc' = [proc EXCEPT ![g] = At(pc, 0), ![k] = At(start, 0)]
  BY <1>1
<1>3. k \in G /\ Pc(k) = "idle" /\ k \in Goroutines /\ k # g
  BY <1>1 DEF Idle, Goroutines, Dialers
<1>4. proc \in [Goroutines -> Places] /\ At(pc, 0) \in Places /\ At(start, 0) \in Places
  BY Apart DEF Inv, Types, Places, At
<1>5. proc' \in [Goroutines -> Places] /\ proc'[g] = At(pc, 0) /\ proc'[k] = At(start, 0)
  BY <1>2, <1>3, <1>4
<1>6. \A h \in Goroutines \ {g, k} : proc'[h] = proc[h]
  BY <1>2, <1>3, <1>4
<1>7. /\ proc'[g].pc = pc /\ proc'[g].c = 0 /\ proc'[k].pc = start /\ proc'[k].c = 0
      /\ \A h \in Goroutines \ {g, k} : proc'[h].pc = proc[h].pc /\ proc'[h].c = proc[h].c
  BY <1>5, <1>6 DEF At
<1>8. Started(G, g, pc, k, start)
  BY <1>3, <1>5, <1>7 DEF Started, Pc
<1> QED BY <1>3, <1>8

\* A client's connections have somebody to close them.
Held(k) == k = client \/ \E h \in Dialers : k = proc[h].c

LEMMA LeaksNothing ==
  ASSUME Inv, causes \subseteq causes',
         causes' \cap {"again", "overlap"} = {} =>
           \A k \in Clients : open'[k] # "none" => Held(k)' \/ (open[k] # "none" /\ ~ Held(k))
  PROVE  NoClientLeaks'
<1>1. NoClientLeaks <=>
        (causes \cap {"again", "overlap"} = {} => \A k \in Clients : open[k] # "none" => Held(k))
  BY DEF NoClientLeaks, Dialing, Dialers, Held
<1>2. NoClientLeaks' <=>
        (causes' \cap {"again", "overlap"} = {} => \A k \in Clients : open'[k] # "none" => Held(k)')
  BY DEF NoClientLeaks, Dialing, Dialers, Held
<1> QED BY <1>1, <1>2 DEF Inv

\* The northbound connection is made.
LEMMA DialNorthboundKeeps ==
  ASSUME Inv, NEW g \in Dialers, DialNorthbound(g)
  PROVE  Inv'
<1> USE Apart DEF Inv, Dialers, Goroutines
<1>1. PICK c \in Clients : c = proc[g].c
  BY DEF Types, Hands, DialNorthbound, Places, Clients
<1>2. c # client /\ c # 0 /\ Pc(g) = "nb" /\ done < 2
  BY <1>1 DEF Hands, DialNorthbound, Clients
<1>3. Moved(g, "sb", c)
  BY <1>1, <1>2, Moves DEF DialNorthbound, Pcs, Clients
<1>4. /\ open' = [open EXCEPT ![c] = "nb"]
      /\ UNCHANGED <<mu, client, connected, attempts, stopped, done, limit, db, causes>>
  BY <1>1 DEF DialNorthbound, manager, env
<1>5. Types'
  BY <1>1, <1>2, <1>3, <1>4 DEF Moved, Pc, Types
<1>6. Programs'
  BY <1>1, <1>2, <1>3, <1>4 DEF Moved, Pc, Programs
<1>7. Hands'
  BY <1>1, <1>2, <1>3, <1>4 DEF Moved, Pc, Hands
<1>8. Connections'
  BY <1>1, <1>2, <1>3, <1>4 DEF Moved, Pc, Connections, Hands, Types
<1>9. Ends'
  BY <1>1, <1>2, <1>3, <1>4 DEF Moved, Pc, Ends, Exited, Programs
<1>10. Fresh'
  BY <1>1, <1>2, <1>3, <1>4 DEF Moved, Pc, Fresh
<1>11. Once'
  BY <1>1, <1>2, <1>3, <1>4 DEF Moved, Pc, Once, Programs
<1>12. Single'
  BY <1>1, <1>2, <1>3, <1>4 DEF Moved, Pc, Single
<1>13. Alone'
  BY <1>1, <1>2, <1>3, <1>4 DEF Moved, Pc, Alone, Fresh, Once, Single
<1>14. NoClientLeaks'
  BY <1>1, <1>2, <1>3, <1>4 DEF Moved, Pc, NoClientLeaks, Dialing
<1>15. Stopping'
  BY <1>1, <1>2, <1>3, <1>4 DEF Moved, Pc, Stopping
<1>16. ClosedStaysClosed'
  BY <1>1, <1>2, <1>3, <1>4 DEF Moved, Pc, ClosedStaysClosed, Ends, Programs, Stopping, Once
<1> QED BY <1>5, <1>6, <1>7, <1>8, <1>9, <1>10, <1>11, <1>12, <1>13, <1>14,
           <1>15, <1>16

\* A reconnect has both connections.
LEMMA DialSouthboundKeeps ==
  ASSUME Inv, NEW g \in Reconnects, DialSouthbound(g)
  PROVE  Inv'
<1> USE Apart DEF Inv, Dialers, Goroutines
<1>1. PICK c \in Clients : c = proc[g].c
  BY DEF Types, Hands, DialSouthbound, Places, Clients
<1>2. c # client /\ c # 0 /\ Pc(g) = "sb" /\ done < 2
  BY <1>1 DEF Hands, DialSouthbound, Clients
<1>3. Moved(g, "install", c)
  BY <1>1, <1>2, Moves DEF DialSouthbound, Pcs, Clients
<1>4. /\ open' = [open EXCEPT ![c] = "both"]
      /\ UNCHANGED <<mu, client, connected, attempts, stopped, done, limit, db, causes>>
  BY <1>1 DEF DialSouthbound, manager, env
<1>5. Types'
  BY <1>1, <1>2, <1>3, <1>4 DEF Moved, Pc, Types
<1>6. Programs'
  BY <1>1, <1>2, <1>3, <1>4 DEF Moved, Pc, Programs
<1>7. Hands'
  BY <1>1, <1>2, <1>3, <1>4 DEF Moved, Pc, Hands
<1>8. Connections'
  BY <1>1, <1>2, <1>3, <1>4 DEF Moved, Pc, Connections, Hands, Types
<1>9. Ends'
  BY <1>1, <1>2, <1>3, <1>4 DEF Moved, Pc, Ends, Exited, Programs
<1>10. Fresh'
  BY <1>1, <1>2, <1>3, <1>4 DEF Moved, Pc, Fresh
<1>11. Once'
  BY <1>1, <1>2, <1>3, <1>4 DEF Moved, Pc, Once, Programs
<1>12. Single'
  BY <1>1, <1>2, <1>3, <1>4 DEF Moved, Pc, Single
<1>13. Alone'
  BY <1>1, <1>2, <1>3, <1>4 DEF Moved, Pc, Alone, Fresh, Once, Single
<1>14. NoClientLeaks'
  BY <1>1, <1>2, <1>3, <1>4 DEF Moved, Pc, NoClientLeaks, Dialing
<1>15. Stopping'
  BY <1>1, <1>2, <1>3, <1>4 DEF Moved, Pc, Stopping
<1>16. ClosedStaysClosed'
  BY <1>1, <1>2, <1>3, <1>4 DEF Moved, Pc, ClosedStaysClosed, Ends, Programs, Stopping, Once
<1> QED BY <1>5, <1>6, <1>7, <1>8, <1>9, <1>10, <1>11, <1>12, <1>13, <1>14,
           <1>15, <1>16

\* A dialing goroutine's context ends.
LEMMA GiveUpKeeps ==
  ASSUME Inv, NEW g \in Dialers, GiveUp(g)
  PROVE  Inv'
<1> USE Apart DEF Inv, Dialers, Goroutines
<1>1. PICK c \in Clients : c = proc[g].c
  BY DEF Types, Hands, GiveUp, Places, Clients
<1>2. c # client /\ c # 0 /\ Pc(g) \in {"nb", "sb"} /\ done < 2
  BY <1>1 DEF Hands, GiveUp, Clients
<1>3. Moved(g, "idle", 0)
  BY <1>1, <1>2, Moves DEF GiveUp, Pcs, Clients
<1>4. /\ open' = [open EXCEPT ![c] = "none"] /\ mu' = IF mu = g THEN Free ELSE mu
      /\ UNCHANGED <<client, connected, attempts, stopped, done, limit, db, causes>>
  BY <1>1 DEF GiveUp, manager, env
<1>5. Types'
  BY <1>1, <1>2, <1>3, <1>4 DEF Moved, Pc, Types
<1>6. Programs'
  BY <1>1, <1>2, <1>3, <1>4 DEF Moved, Pc, Programs
<1>7. Hands'
  BY <1>1, <1>2, <1>3, <1>4 DEF Moved, Pc, Hands
<1>8. Connections'
  BY <1>1, <1>2, <1>3, <1>4 DEF Moved, Pc, Connections, Hands, Types
<1>9. Ends'
  BY <1>1, <1>2, <1>3, <1>4 DEF Moved, Pc, Ends, Exited, Programs
<1>10. Fresh'
  BY <1>1, <1>2, <1>3, <1>4 DEF Moved, Pc, Fresh
<1>11. Once'
  BY <1>1, <1>2, <1>3, <1>4 DEF Moved, Pc, Once, Programs
<1>12. Single'
  BY <1>1, <1>2, <1>3, <1>4 DEF Moved, Pc, Single
<1>13. Alone'
  BY <1>1, <1>2, <1>3, <1>4 DEF Moved, Pc, Alone, Fresh, Once, Single
<1>14. NoClientLeaks'
  <2> SUFFICES ASSUME causes \cap {"again", "overlap"} = {}, NEW k \in Clients, open'[k] # "none"
               PROVE  k = client \/ \E h \in Dialers : k = proc'[h].c
    BY <1>4 DEF NoClientLeaks, Dialing
  <2>1. k # c /\ open[k] # "none"
    BY <1>4 DEF Types
  <2>2. k = client \/ \E h \in Dialers : k = proc[h].c
    BY <2>1, <1>4 DEF NoClientLeaks, Dialing
  <2> QED BY <1>1, <1>3, <2>1, <2>2 DEF Moved
<1>15. Stopping'
  BY <1>1, <1>2, <1>3, <1>4 DEF Moved, Pc, Stopping
<1>16. ClosedStaysClosed'
  BY <1>2, <1>3, <1>4, EndedLoop DEF ClosedStaysClosed, Programs, Stopping, Once
<1> QED BY <1>5, <1>6, <1>7, <1>8, <1>9, <1>10, <1>11, <1>12, <1>13, <1>14,
           <1>15, <1>16

\* A health-check loop goes on.
LEMMA LoopMoves ==
  ASSUME Inv, NEW l \in Loops, Pc(l) \notin {"idle", "exited"},
         NEW pc \in {"select", "start", "query", "passed", "failed"}, NEW c \in 0 .. MaxClients,
         Set(l, pc, c), connected' = connected \/ connected' = FALSE, attempts' \in Nat,
         UNCHANGED <<mu, client, stopped, done, limit, db, open, causes>>
  PROVE  Inv'
<1> USE Apart DEF Inv, Dialers, Goroutines
<1>1. Moved(l, pc, c)
  BY Moves DEF Pcs
<1>2. Types'
  BY <1>1 DEF Moved, Pc, Types
<1>3. Programs'
  BY <1>1 DEF Moved, Pc, Programs
<1>4. Hands'
  BY <1>1 DEF Moved, Pc, Hands
<1>5. Connections'
  BY <1>1 DEF Moved, Pc, Connections, Hands, Types
<1>6. Ends'
  BY <1>1 DEF Moved, Pc, Ends, Exited, Programs
<1>7. Fresh'
  BY <1>1 DEF Moved, Pc, Fresh
<1>8. Once'
  BY <1>1 DEF Moved, Pc, Once, Programs
<1>9. Single'
  BY <1>1 DEF Moved, Pc, Single
<1>10. Alone'
  BY <1>1 DEF Moved, Pc, Alone, Fresh, Once, Single
<1>11. NoClientLeaks'
  BY <1>1 DEF Moved, Pc, NoClientLeaks, Dialing
<1>12. Stopping'
  BY <1>1 DEF Moved, Pc, Stopping
<1>13. ClosedStaysClosed'
  BY <1>1 DEF Moved, Pc, ClosedStaysClosed, Ends, Programs, Stopping, Once
<1> QED BY <1>2, <1>3, <1>4, <1>5, <1>6, <1>7, <1>8, <1>9, <1>10, <1>11, <1>12,
           <1>13

\* The databases go away or come back.
LEMMA OutsideKeeps ==
  ASSUME Inv, Drop \/ ComeBack
  PROVE  Inv'
<1> USE Apart DEF Inv, Dialers, Goroutines
<1>1. /\ UNCHANGED <<mu, client, connected, attempts, stopped, done, proc, open, limit, causes>>
      /\ db' \in BOOLEAN
  BY DEF Drop, ComeBack, manager
<1>2. Types'
  BY <1>1 DEF Moved, Pc, Types
<1>3. Programs'
  BY <1>1 DEF Moved, Pc, Programs
<1>4. Hands'
  BY <1>1 DEF Moved, Pc, Hands
<1>5. Connections'
  BY <1>1 DEF Moved, Pc, Connections, Hands, Types
<1>6. Ends'
  BY <1>1 DEF Moved, Pc, Ends, Exited, Programs
<1>7. Fresh'
  BY <1>1 DEF Moved, Pc, Fresh
<1>8. Once'
  BY <1>1 DEF Moved, Pc, Once, Programs
<1>9. Single'
  BY <1>1 DEF Moved, Pc, Single
<1>10. Alone'
  BY <1>1 DEF Moved, Pc, Alone, Fresh, Once, Single
<1>11. NoClientLeaks'
  BY <1>1 DEF Moved, Pc, NoClientLeaks, Dialing
<1>12. Stopping'
  BY <1>1 DEF Moved, Pc, Stopping
<1>13. ClosedStaysClosed'
  BY <1>1 DEF Moved, Pc, ClosedStaysClosed, Ends, Programs, Stopping, Once
<1> QED BY <1>2, <1>3, <1>4, <1>5, <1>6, <1>7, <1>8, <1>9, <1>10, <1>11, <1>12,
           <1>13

\* A loop ends.
LEMMA StopLoopKeeps ==
  ASSUME Inv, NEW l \in Loops, StopLoop(l)
  PROVE  Inv'
<1> USE Apart DEF Inv, Dialers, Goroutines
<1>1. Pc(l) = "select" /\ stopped /\ done < 2 /\ done' = done + 1
  BY DEF StopLoop
<1>2. Moved(l, "exited", 0)
  BY Moves DEF StopLoop, Pcs
<1>3. UNCHANGED <<mu, client, connected, attempts, stopped, open, limit, db, causes>>
  BY DEF StopLoop, manager, env
<1>4. Types'
  BY <1>1, <1>2, <1>3 DEF Moved, Pc, Types
<1>5. Programs'
  BY <1>1, <1>2, <1>3 DEF Moved, Pc, Programs
<1>6. Hands'
  BY <1>1, <1>2, <1>3 DEF Moved, Pc, Hands
<1>7. Connections'
  BY <1>1, <1>2, <1>3 DEF Moved, Pc, Connections, Hands, Types
<1>8. Ends'
  <2>1. Exited' = Exited \cup {l} /\ l \notin Exited
    BY <1>1, <1>2 DEF Moved, Exited, Programs, Pc
  <2>2. IsFiniteSet(Exited)
    BY FS_Subset DEF Exited
  <2>3. Cardinality(Exited') = Cardinality(Exited) + 1
    BY <2>1, <2>2, FS_AddElement
  <2> QED BY <2>3, <1>1, <1>2, <1>3 DEF Ends, Types, Moved, Pc, Programs
<1>9. Fresh'
  BY <1>1, <1>2, <1>3 DEF Moved, Pc, Fresh
<1>10. Once'
  BY <1>1, <1>2, <1>3 DEF Moved, Pc, Once, Programs
<1>11. Single'
  BY <1>1, <1>2, <1>3 DEF Moved, Pc, Single
<1>12. Alone'
  BY <1>1, <1>2, <1>3 DEF Moved, Pc, Alone, Fresh, Once, Single
<1>13. NoClientLeaks'
  BY <1>1, <1>2, <1>3 DEF Moved, Pc, NoClientLeaks, Dialing
<1>14. Stopping'
  BY <1>1, <1>2, <1>3 DEF Moved, Pc, Stopping
<1>15. ClosedStaysClosed'
  BY <1>1, <1>2, <1>3 DEF Moved, Pc, ClosedStaysClosed, Ends, Programs, Stopping, Once, Types
<1> QED BY <1>4, <1>5, <1>6, <1>7, <1>8, <1>9, <1>10, <1>11, <1>12, <1>13,
           <1>14, <1>15

\* Connect starts to dial.
LEMMA ConnectKeeps ==
  ASSUME Inv, NEW a \in Callers, Connect(a)
  PROVE  Inv'
<1> USE Apart DEF Inv, Dialers, Goroutines
<1>1. PICK c \in Clients :
        Moved(a, "nb", c) /\ c # client /\ c # 0 /\ \A h \in Goroutines : proc[h].c # c
  BY Fetches DEF Connect
<1>2. Pc(a) = "idle" /\ mu = Free /\ mu' = a /\ \E l \in Loops : Pc(l) = "idle"
  BY DEF Connect, Lockable, Idle
<1>3. UNCHANGED <<client, connected, attempts, stopped, done, open, limit, db>>
  BY DEF Connect, manager
<1>4. /\ causes \subseteq causes' /\ causes' \subseteq causes \cup {"again"}
      /\ "again" \notin causes' => \A l \in Loops : Pc(l) = "idle"
  BY DEF Connect
<1>5. Types'
  BY <1>1, <1>2, <1>3, <1>4 DEF Moved, Pc, Types
<1>6. Programs'
  BY <1>1, <1>2, <1>3, <1>4 DEF Moved, Pc, Programs
<1>7. Hands'
  BY <1>1, <1>2, <1>3, <1>4 DEF Moved, Pc, Hands
<1>8. Connections'
  BY <1>1, <1>2, <1>3, <1>4 DEF Moved, Pc, Connections, Hands, Types
<1>9. Ends'
  BY <1>1, <1>2, <1>3, <1>4 DEF Moved, Pc, Ends, Exited, Programs
<1>10. Fresh'
  BY <1>1, <1>2, <1>3, <1>4 DEF Moved, Pc, Fresh
<1>11. Once'
  BY <1>1, <1>2, <1>3, <1>4 DEF Moved, Pc, Once, Programs
<1>12. Single'
  BY <1>1, <1>2, <1>3, <1>4 DEF Moved, Pc, Single
<1>13. Alone'
  BY <1>1, <1>2, <1>3, <1>4 DEF Moved, Pc, Alone, Fresh, Once, Single
<1>14. NoClientLeaks'
  <2>1. causes \subseteq causes'
    BY <1>3, <1>4
  <2>2. ASSUME causes' \cap {"again", "overlap"} = {}, NEW k \in Clients, open'[k] # "none", Held(k)
        PROVE  Held(k)'
    BY <1>1, <1>2, <1>3, <1>4, <2>2 DEF Held, Moved, Hands, Pc, Clients
  <2>3. ASSUME NEW k \in Clients, open'[k] # "none", ~ Held(k)
        PROVE  open[k] # "none" \/ Held(k)'
    BY <1>1, <1>2, <1>3, <1>4, <2>3 DEF Held, Moved, Hands, Pc, Types
  <2> QED BY <2>1, <2>2, <2>3, LeaksNothing
<1>15. Stopping'
  BY <1>1, <1>2, <1>3, <1>4 DEF Moved, Pc, Stopping
<1>16. ClosedStaysClosed'
  BY <1>1, <1>2, <1>3, <1>4 DEF Moved, Pc, ClosedStaysClosed, Ends, Programs, Stopping, Once
<1> QED BY <1>5, <1>6, <1>7, <1>8, <1>9, <1>10, <1>11, <1>12, <1>13, <1>14,
           <1>15, <1>16

\* Connect has both connections.
LEMMA ConnectedKeeps ==
  ASSUME Inv, NEW a \in Callers, Connected(a)
  PROVE  Inv'
<1> USE Apart DEF Inv, Dialers, Goroutines
<1>1. PICK c \in Clients : c = proc[a].c
  BY DEF Types, Hands, Connected, Places, Clients
<1>2. Pc(a) = "sb" /\ mu = a /\ mu' = Free /\ c # 0
  BY <1>1 DEF Connected, Programs, Clients
<1>3. /\ open' = [open EXCEPT ![c] = "both"] /\ client' = c /\ connected' = TRUE /\ attempts' = 0
      /\ UNCHANGED <<stopped, done, limit, db, causes>>
  BY <1>1 DEF Connected, Install, env
<1>4. PICK l \in Loops : Started(Loops, a, "idle", l, "select")
  <2>1. Idle(Loops) # {} /\ a \in Goroutines \ Loops
    BY <1>2 DEF Programs, Idle
  <2> QED BY <2>1, Starts DEF Connected, Pcs
<1>5. Types'
  BY <1>1, <1>2, <1>3, <1>4 DEF Started, Pc, Types, Clients
<1>6. Programs'
  BY <1>1, <1>2, <1>3, <1>4 DEF Started, Pc, Programs
<1>7. Hands'
  BY <1>1, <1>2, <1>3, <1>4 DEF Started, Pc, Hands
<1>8. Connections'
  BY <1>1, <1>2, <1>3, <1>4 DEF Started, Pc, Connections, Hands, Types
<1>9. Ends'
  BY <1>1, <1>2, <1>3, <1>4 DEF Started, Pc, Ends, Exited, Programs
<1>10. Fresh'
  BY <1>1, <1>2, <1>3, <1>4 DEF Started, Pc, Fresh
<1>11. Once'
  BY <1>1, <1>2, <1>3, <1>4 DEF Started, Pc, Once, Programs
<1>12. Single'
  BY <1>1, <1>2, <1>3, <1>4 DEF Started, Pc, Single
<1>13. Alone'
  BY <1>1, <1>2, <1>3, <1>4 DEF Started, Pc, Alone, Fresh, Once, Single
<1>14. NoClientLeaks'
  <2>1. causes \subseteq causes'
    BY <1>3, <1>4
  <2>2. ASSUME causes' \cap {"again", "overlap"} = {}, NEW k \in Clients, open'[k] # "none", Held(k)
        PROVE  Held(k)'
    BY <1>1, <1>2, <1>3, <1>4, <2>2 DEF Held, Started, Fresh, Once, Pc
  <2>3. ASSUME NEW k \in Clients, open'[k] # "none", ~ Held(k)
        PROVE  open[k] # "none" \/ Held(k)'
    BY <1>1, <1>2, <1>3, <1>4, <2>3 DEF Held, Started, Fresh, Once, Pc, Types
  <2> QED BY <2>1, <2>2, <2>3, LeaksNothing
<1>15. Stopping'
  BY <1>1, <1>2, <1>3, <1>4 DEF Started, Pc, Stopping
<1>16. ClosedStaysClosed'
  BY <1>1, <1>2, <1>3, <1>4, EndedLoop DEF Started, Pc, ClosedStaysClosed, Once
<1> QED BY <1>5, <1>6, <1>7, <1>8, <1>9, <1>10, <1>11, <1>12, <1>13, <1>14,
           <1>15, <1>16

\* Close takes the mutex.
LEMMA StartCloseKeeps ==
  ASSUME Inv, NEW a \in Callers, StartClose(a)
  PROVE  Inv'
<1> USE Apart DEF Inv, Dialers, Goroutines
<1>1. Moved(a, "closing", 0)
  BY Moves DEF StartClose, Pcs
<1>2. Pc(a) = "idle" /\ mu = Free /\ mu' = a /\ stopped' = TRUE
  BY DEF StartClose, Lockable, SignalStop
<1>3. UNCHANGED <<client, connected, attempts, done, open, limit, db>>
  BY DEF StartClose, manager
<1>4. /\ causes \subseteq causes' /\ causes' \subseteq causes \cup {"late"}
      /\ "late" \notin causes' => \A r \in Reconnects : Pc(r) = "idle"
  BY DEF StartClose, Reconnecting, Idle
<1>5. Types'
  BY <1>1, <1>2, <1>3, <1>4 DEF Moved, Pc, Types
<1>6. Programs'
  BY <1>1, <1>2, <1>3, <1>4 DEF Moved, Pc, Programs
<1>7. Hands'
  BY <1>1, <1>2, <1>3, <1>4 DEF Moved, Pc, Hands
<1>8. Connections'
  BY <1>1, <1>2, <1>3, <1>4 DEF Moved, Pc, Connections, Hands, Types
<1>9. Ends'
  BY <1>1, <1>2, <1>3, <1>4 DEF Moved, Pc, Ends, Exited, Programs
<1>10. Fresh'
  BY <1>1, <1>2, <1>3, <1>4 DEF Moved, Pc, Fresh
<1>11. Once'
  BY <1>1, <1>2, <1>3, <1>4 DEF Moved, Pc, Once, Programs
<1>12. Single'
  BY <1>1, <1>2, <1>3, <1>4 DEF Moved, Pc, Single
<1>13. Alone'
  BY <1>1, <1>2, <1>3, <1>4 DEF Moved, Pc, Alone, Fresh, Once, Single
<1>14. NoClientLeaks'
  <2>1. causes \subseteq causes'
    BY <1>3, <1>4
  <2>2. ASSUME causes' \cap {"again", "overlap"} = {}, NEW k \in Clients, open'[k] # "none", Held(k)
        PROVE  Held(k)'
    BY <1>1, <1>2, <1>3, <1>4, <2>2 DEF Held, Moved, Hands, Pc, Clients
  <2>3. ASSUME NEW k \in Clients, open'[k] # "none", ~ Held(k)
        PROVE  open[k] # "none" \/ Held(k)'
    BY <1>1, <1>2, <1>3, <1>4, <2>3 DEF Held, Moved, Hands, Pc, Types
  <2> QED BY <2>1, <2>2, <2>3, LeaksNothing
<1>15. Stopping'
  BY <1>1, <1>2, <1>3, <1>4 DEF Moved, Pc, Stopping
<1>16. ClosedStaysClosed'
  BY <1>1, <1>2, <1>3, <1>4 DEF Moved, Pc, ClosedStaysClosed, Ends, Programs, Stopping, Once
<1> QED BY <1>5, <1>6, <1>7, <1>8, <1>9, <1>10, <1>11, <1>12, <1>13, <1>14,
           <1>15, <1>16

\* Close closes the client.
LEMMA FinishCloseKeeps ==
  ASSUME Inv, NEW a \in Callers, FinishClose(a)
  PROVE  Inv'
<1> USE Apart DEF Inv, Dialers, Goroutines
<1>1. Moved(a, "idle", 0)
  BY Moves DEF FinishClose, Pcs
<1>2. Pc(a) = "closing" /\ mu = a /\ mu' = Free /\ done = 1 /\ client' = 0 /\ connected' = FALSE
  BY DEF FinishClose, Programs
<1>3. open' = IF client = 0 THEN open ELSE [open EXCEPT ![client] = "none"]
  BY DEF FinishClose, CloseClient
<1>4. UNCHANGED <<attempts, stopped, done, limit, db, causes>>
  BY DEF FinishClose, env
<1>5. Types'
  <2>1. open' \in [Clients -> {"none", "nb", "both"}]
    BY <1>3 DEF Types
  <2>2. {connected', stopped', db'} \subseteq BOOLEAN /\ mu' \in Callers \cup {Free}
    BY <1>2, <1>4 DEF Types
  <2>3. client' \in 0 .. MaxClients
    BY <1>2
  <2> QED BY <1>1, <1>4, <2>1, <2>2, <2>3 DEF Moved, Types
<1>6. Programs'
  BY <1>1, <1>2, <1>3, <1>4 DEF Moved, Pc, Programs
<1>7. Hands'
  BY <1>1, <1>2, <1>3, <1>4 DEF Moved, Pc, Hands
<1>8. Connections'
  BY <1>1, <1>2, <1>3, <1>4 DEF Moved, Pc, Connections, Hands, Types
<1>9. Ends'
  <2>1. Exited' = Exited
    BY <1>1 DEF Moved, Exited
  <2> QED BY <2>1, <1>2, <1>4 DEF Ends
<1>10. Fresh'
  BY <1>1, <1>2, <1>3, <1>4 DEF Moved, Pc, Fresh
<1>11. Once'
  BY <1>1, <1>2, <1>3, <1>4 DEF Moved, Pc, Once, Programs
<1>12. Single'
  BY <1>1, <1>2, <1>3, <1>4 DEF Moved, Pc, Single
<1>13. Alone'
  BY <1>1, <1>2, <1>3, <1>4 DEF Moved, Pc, Alone, Fresh, Once, Single
<1>14. NoClientLeaks'
  <2>1. causes \subseteq causes'
    BY <1>3, <1>4
  <2>2. ASSUME causes' \cap {"again", "overlap"} = {}, NEW k \in Clients, open'[k] # "none", Held(k)
        PROVE  Held(k)'
    BY <1>1, <1>2, <1>3, <1>4, <2>2 DEF Held, Moved, Hands, Pc, Clients, Types
  <2>3. ASSUME NEW k \in Clients, open'[k] # "none", ~ Held(k)
        PROVE  open[k] # "none" \/ Held(k)'
    BY <1>1, <1>2, <1>3, <1>4, <2>3 DEF Held, Moved, Hands, Pc, Types
  <2> QED BY <2>1, <2>2, <2>3, LeaksNothing
<1>15. Stopping'
  BY <1>1, <1>2, <1>3, <1>4 DEF Moved, Pc, Stopping
<1>16. ClosedStaysClosed'
  <2> SUFFICES ASSUME causes = {} PROVE \A c \in Clients : open'[c] = "none"
    BY <1>2, <1>4 DEF ClosedStaysClosed
  <2>1. \A r \in Reconnects : proc[r].c = 0
    BY <1>2, EndedLoop DEF Stopping, Hands
  <2>2. \A b \in Callers : proc[b].c = 0
    BY <1>2 DEF Programs, Hands
  <2>3. \A c \in Clients : open[c] # "none" => c = client
    BY <2>1, <2>2 DEF NoClientLeaks, Dialing, Clients
  <2> QED BY <1>3, <2>3 DEF Types, Clients
<1> QED BY <1>5, <1>6, <1>7, <1>8, <1>9, <1>10, <1>11, <1>12, <1>13, <1>14,
           <1>15, <1>16

\* A reconnect closes the client and starts to dial.
LEMMA CloseOldKeeps ==
  ASSUME Inv, NEW r \in Reconnects, CloseOld(r)
  PROVE  Inv'
<1> USE Apart DEF Inv, Dialers, Goroutines
<1>1. PICK c \in Clients :
        Moved(r, "nb", c) /\ c # client /\ c # 0 /\ \A h \in Goroutines : proc[h].c # c
  BY Fetches DEF CloseOld
<1>2. Pc(r) = "close" /\ mu = Free /\ client' = 0
  BY DEF CloseOld, Lockable
<1>3. open' = IF client = 0 THEN open ELSE [open EXCEPT ![client] = "none"]
  BY DEF CloseOld, CloseClient
<1>4. UNCHANGED <<mu, connected, attempts, stopped, done, limit, db, causes>>
  BY DEF CloseOld, env
<1>5. Types'
  BY <1>1, <1>2, <1>3, <1>4 DEF Moved, Pc, Types, Clients
<1>6. Programs'
  BY <1>1, <1>2, <1>3, <1>4 DEF Moved, Pc, Programs
<1>7. Hands'
  BY <1>1, <1>2, <1>3, <1>4 DEF Moved, Pc, Hands
<1>8. Connections'
  BY <1>1, <1>2, <1>3, <1>4 DEF Moved, Pc, Connections, Hands, Types
<1>9. Ends'
  BY <1>1, <1>2, <1>3, <1>4 DEF Moved, Pc, Ends, Exited, Programs
<1>10. Fresh'
  BY <1>1, <1>2, <1>3, <1>4 DEF Moved, Pc, Fresh
<1>11. Once'
  BY <1>1, <1>2, <1>3, <1>4 DEF Moved, Pc, Once, Programs
<1>12. Single'
  BY <1>1, <1>2, <1>3, <1>4 DEF Moved, Pc, Single
<1>13. Alone'
  BY <1>1, <1>2, <1>3, <1>4 DEF Moved, Pc, Alone, Fresh, Once, Single
<1>14. NoClientLeaks'
  <2>1. causes \subseteq causes'
    BY <1>3, <1>4
  <2>2. ASSUME causes' \cap {"again", "overlap"} = {}, NEW k \in Clients, open'[k] # "none", Held(k)
        PROVE  Held(k)'
    BY <1>1, <1>2, <1>3, <1>4, <2>2 DEF Held, Moved, Hands, Pc, Clients, Types
  <2>3. ASSUME NEW k \in Clients, open'[k] # "none", ~ Held(k)
        PROVE  open[k] # "none" \/ Held(k)'
    BY <1>1, <1>2, <1>3, <1>4, <2>3 DEF Held, Moved, Hands, Pc, Types
  <2> QED BY <2>1, <2>2, <2>3, LeaksNothing
<1>15. Stopping'
  BY <1>1, <1>2, <1>3, <1>4 DEF Moved, Pc, Stopping
<1>16. ClosedStaysClosed'
  BY <1>1, <1>2, <1>3, <1>4 DEF Moved, Pc, ClosedStaysClosed, Ends, Programs, Stopping, Once
<1> QED BY <1>5, <1>6, <1>7, <1>8, <1>9, <1>10, <1>11, <1>12, <1>13, <1>14,
           <1>15, <1>16

\* A reconnect puts its client in place.
LEMMA InstallNewKeeps ==
  ASSUME Inv, NEW r \in Reconnects, InstallNew(r)
  PROVE  Inv'
<1> USE Apart DEF Inv, Dialers, Goroutines
<1>1. PICK c \in Clients : c = proc[r].c
  BY DEF Types, Hands, InstallNew, Places, Clients
<1>2. c # client /\ c # 0 /\ Pc(r) = "install" /\ mu = Free
  BY <1>1 DEF Hands, InstallNew, Clients, Lockable
<1>3. Moved(r, "idle", 0)
  BY Moves DEF InstallNew, Pcs
<1>4. /\ client' = c /\ connected' = TRUE /\ attempts' = 0
      /\ UNCHANGED <<mu, open, stopped, done, limit, db, causes>>
  BY <1>1 DEF InstallNew, Install, env
<1>5. Types'
  BY <1>1, <1>2, <1>3, <1>4 DEF Moved, Pc, Types, Clients
<1>6. Programs'
  BY <1>1, <1>2, <1>3, <1>4 DEF Moved, Pc, Programs
<1>7. Hands'
  BY <1>1, <1>2, <1>3, <1>4 DEF Moved, Pc, Hands
<1>8. Connections'
  BY <1>1, <1>2, <1>3, <1>4 DEF Moved, Pc, Connections, Hands, Types
<1>9. Ends'
  BY <1>1, <1>2, <1>3, <1>4 DEF Moved, Pc, Ends, Exited, Programs
<1>10. Fresh'
  BY <1>1, <1>2, <1>3, <1>4 DEF Moved, Pc, Fresh
<1>11. Once'
  BY <1>1, <1>2, <1>3, <1>4 DEF Moved, Pc, Once, Programs
<1>12. Single'
  BY <1>1, <1>2, <1>3, <1>4 DEF Moved, Pc, Single
<1>13. Alone'
  BY <1>1, <1>2, <1>3, <1>4 DEF Moved, Pc, Alone, Fresh, Once, Single
<1>14. NoClientLeaks'
  <2>1. causes \subseteq causes'
    BY <1>3, <1>4
  <2>2. ASSUME causes' \cap {"again", "overlap"} = {}, NEW k \in Clients, open'[k] # "none", Held(k)
        PROVE  Held(k)'
    BY <1>1, <1>2, <1>3, <1>4, <2>2 DEF Held, Moved, Alone, Pc
  <2>3. ASSUME NEW k \in Clients, open'[k] # "none", ~ Held(k)
        PROVE  open[k] # "none" \/ Held(k)'
    BY <1>1, <1>2, <1>3, <1>4, <2>3 DEF Held, Moved, Alone, Pc, Types
  <2> QED BY <2>1, <2>2, <2>3, LeaksNothing
<1>15. Stopping'
  BY <1>1, <1>2, <1>3, <1>4 DEF Moved, Pc, Stopping
<1>16. ClosedStaysClosed'
  BY <1>1, <1>2, <1>3, <1>4 DEF Moved, Pc, ClosedStaysClosed, Ends, Programs, Stopping, Once
<1> QED BY <1>5, <1>6, <1>7, <1>8, <1>9, <1>10, <1>11, <1>12, <1>13, <1>14,
           <1>15, <1>16

\* A failed check starts a reconnect.
LEMMA ReconnectStarts ==
  ASSUME Inv, NEW l \in Loops, ConnectionFailure(l), MayReconnect
  PROVE  Inv'
<1> USE Apart DEF Inv, Dialers, Goroutines
<1>1. Pc(l) = "failed" /\ mu = Free /\ connected' = FALSE
      /\ UNCHANGED <<mu, client, stopped, done, open, limit, db>>
  BY DEF ConnectionFailure, Lockable, Lost, env
<1>2. attempts' \in Nat
  BY DEF ConnectionFailure, Types
<1>3. PICK r \in Reconnects : Started(Reconnects, l, "select", r, "close")
  BY <1>1, Starts DEF ConnectionFailure, Pcs
<1>4. /\ causes \subseteq causes' /\ causes' \subseteq causes \cup {"overlap"}
      /\ "overlap" \notin causes' => \A q \in Reconnects : Pc(q) = "idle"
  BY DEF ConnectionFailure, Reconnecting, Idle
<1>5. Types'
  BY <1>1, <1>2, <1>3, <1>4 DEF Started, Pc, Types
<1>6. Programs'
  BY <1>1, <1>2, <1>3, <1>4 DEF Started, Pc, Programs
<1>7. Hands'
  BY <1>1, <1>2, <1>3, <1>4 DEF Started, Pc, Hands
<1>8. Connections'
  BY <1>1, <1>2, <1>3, <1>4 DEF Started, Pc, Connections, Hands, Types
<1>9. Ends'
  BY <1>1, <1>2, <1>3, <1>4 DEF Started, Pc, Ends, Exited, Programs
<1>10. Fresh'
  BY <1>1, <1>2, <1>3, <1>4 DEF Started, Pc, Fresh
<1>11. Once'
  BY <1>1, <1>2, <1>3, <1>4 DEF Started, Pc, Once, Programs
<1>12. Single'
  BY <1>1, <1>2, <1>3, <1>4 DEF Started, Pc, Single
<1>13. Alone'
  BY <1>1, <1>2, <1>3, <1>4 DEF Started, Pc, Alone, Fresh, Once, Single
<1>14. NoClientLeaks'
  <2>1. causes \subseteq causes'
    BY <1>3, <1>4
  <2>2. ASSUME causes' \cap {"again", "overlap"} = {}, NEW k \in Clients, open'[k] # "none", Held(k)
        PROVE  Held(k)'
    BY <1>1, <1>2, <1>3, <1>4, <2>2 DEF Held, Started, Hands, Pc, Clients
  <2>3. ASSUME NEW k \in Clients, open'[k] # "none", ~ Held(k)
        PROVE  open[k] # "none" \/ Held(k)'
    BY <1>1, <1>2, <1>3, <1>4, <2>3 DEF Held, Started, Hands, Pc, Types
  <2> QED BY <2>1, <2>2, <2>3, LeaksNothing
<1>15. Stopping'
  BY <1>1, <1>2, <1>4, EndedLoop DEF Stopping, Ends, Once, Programs
<1>16. ClosedStaysClosed'
  BY <1>1, <1>2, <1>3, <1>4 DEF Started, Pc, ClosedStaysClosed, Ends, Programs, Stopping, Once
<1> QED BY <1>5, <1>6, <1>7, <1>8, <1>9, <1>10, <1>11, <1>12, <1>13, <1>14,
           <1>15, <1>16

\* A step of a loop's.
LEMMA LoopKeeps ==
  ASSUME Inv, NEW l \in Loops, Tick(l) \/ StopLoop(l) \/ Loop(l)
  PROVE  Inv'
<1>1. l \in Goroutines /\ 0 \in 0 .. MaxClients /\ client \in 0 .. MaxClients /\ attempts \in Nat
  BY Apart DEF Goroutines, Inv, Types
<1>2. CASE Tick(l)
  BY <1>1, <1>2, LoopMoves DEF Tick, manager, env
<1>3. CASE StopLoop(l)
  BY <1>3, StopLoopKeeps
<1>4. CASE ReadClient(l)
  BY <1>1, <1>4, LoopMoves DEF ReadClient, manager, env
<1>5. CASE Query(l)
  BY <1>1, <1>5, LoopMoves DEF Query, manager, env
<1>6. CASE Passed(l)
  BY <1>1, <1>6, LoopMoves DEF Passed, manager, env
<1>7. CASE ConnectionFailure(l)
  <2>1. CASE MayReconnect
    BY <1>7, <2>1, ReconnectStarts
  <2>2. CASE ~ MayReconnect
    <3>1. /\ Set(l, "select", 0) /\ connected' = FALSE /\ attempts' \in Nat /\ Pc(l) = "failed"
          /\ UNCHANGED <<mu, client, stopped, done, limit, db, open, causes>>
      BY <1>1, <1>7, <2>2 DEF ConnectionFailure, Lost, env
    <3> QED BY <1>1, <3>1, LoopMoves
  <2> QED BY <2>1, <2>2
<1> QED BY <1>2, <1>3, <1>4, <1>5, <1>6, <1>7 DEF Loop

\* Init.
LEMMA Initially == Init => Inv
<1> SUFFICES ASSUME Init PROVE Inv
  OBVIOUS
<1> USE Apart DEF Init, Goroutines, Dialers, At, Pc
<1>1. Types
  <2>1. proc \in [Goroutines -> Places] /\ open \in [Clients -> {"none", "nb", "both"}]
    BY DEF Places, Pcs
  <2>2. {connected, stopped, db} \subseteq BOOLEAN /\ causes \subseteq {"again", "overlap", "late"}
    OBVIOUS
  <2> QED BY <2>1, <2>2 DEF Types
<1>2. Programs /\ Hands
  BY DEF Programs, Hands
<1>3. Connections /\ Once /\ Fresh
  BY DEF Connections, Once, Fresh
<1>4. Single /\ Alone /\ NoClientLeaks
  BY DEF Single, Alone, NoClientLeaks
<1>5. Stopping /\ ClosedStaysClosed
  BY DEF Stopping, ClosedStaysClosed
<1>6. Ends
  <2>1. Exited = {}
    BY DEF Exited
  <2> QED BY <2>1, FS_EmptySet DEF Ends
<1> QED BY <1>1, <1>2, <1>3, <1>4, <1>5, <1>6 DEF Inv

\* Every step keeps the invariant.
LEMMA Steps == Inv /\ [Next]_vars => Inv'
<1> SUFFICES ASSUME Inv, [Next]_vars PROVE Inv'
  OBVIOUS
<1>1. CASE UNCHANGED vars
  <2> USE <1>1 DEF vars, Inv, Pc
  <2>1. Types' /\ Programs' /\ Hands' /\ Connections'
    BY DEF Types, Programs, Hands, Connections
  <2>2. Ends' /\ Fresh' /\ Once' /\ Single'
    BY DEF Ends, Fresh, Once, Single, Exited
  <2>3. Alone' /\ NoClientLeaks' /\ Stopping' /\ ClosedStaysClosed'
    BY DEF Alone, NoClientLeaks, Dialing, Stopping, ClosedStaysClosed
  <2> QED BY <2>1, <2>2, <2>3
<1>2. ASSUME NEW a \in Callers, Connect(a) \/ StartClose(a) \/ FinishClose(a) PROVE Inv'
  BY <1>2, ConnectKeeps, StartCloseKeeps, FinishCloseKeeps
<1>3. ASSUME NEW g \in Callers \cup Reconnects, Dial(g) \/ GiveUp(g) PROVE Inv'
  <2>1. g \in Dialers
    BY DEF Dialers
  <2>2. CASE DialSouthbound(g)
    BY <2>2, DialSouthboundKeeps DEF DialSouthbound
  <2>3. CASE Connected(g)
    BY <2>3, ConnectedKeeps DEF Connected
  <2> QED BY <1>3, <2>1, <2>2, <2>3, DialNorthboundKeeps, GiveUpKeeps DEF Dial
<1>4. ASSUME NEW l \in Loops, Tick(l) \/ StopLoop(l) \/ Loop(l) PROVE Inv'
  BY <1>4, LoopKeeps
<1>5. ASSUME NEW r \in Reconnects, Reconnect(r) PROVE Inv'
  BY <1>5, CloseOldKeeps, InstallNewKeeps DEF Reconnect
<1>6. CASE Drop \/ ComeBack
  BY <1>6, OutsideKeeps
<1> QED BY <1>1, <1>2, <1>3, <1>4, <1>5, <1>6 DEF Next

-----------------------------------------------------------------------------
(* Theorems.                                                               *)

\* The inductive invariant holds of every behaviour of the manager.
THEOREM Invariance == Spec => []Inv
<1>1. Init => Inv
  BY Initially
<1>2. Inv /\ [Next]_vars => Inv'
  BY Steps
<1> QED BY <1>1, <1>2, PTL DEF Spec

\* Whatever the order of Connect, Close, health checks and attemptReconnect: a
\* client that is open is the manager's or is being made, IsConnected is true
\* of a client that has both connections, and only a second Connect closes
\* healthCheckDone twice.
THEOREM ClientsAreSound == Spec => []ClientsSound
<1>1. Inv => ClientsSound
  <2> SUFFICES ASSUME Inv PROVE ClientsSound
    OBVIOUS
  <2>1. TypeOK
    <3>1. Cardinality(Exited) \in 0 .. Cardinality(Loops)
      BY Apart, FS_Subset, FS_CardinalityType DEF Exited
    <3>2. done \in 0 .. Cardinality(Loops)
      BY <3>1 DEF Inv, Ends
    <3>3. Goroutines = Callers \cup Loops \cup Reconnects
      BY DEF Goroutines, Dialers
    <3> QED BY <3>2, <3>3 DEF Inv, Types, TypeOK, Places
  <2>2. ConnectedHasClient
    BY DEF Inv, Alone, Connections, ConnectedHasClient
  <2>3. PanicOnlyAfterSecondConnect
    <3> SUFFICES ASSUME done = 2, "again" \notin causes PROVE FALSE
      BY DEF PanicOnlyAfterSecondConnect
    <3>1. PICK l \in Loops : Pc(l) = "exited"
      BY EndedLoop
    <3>2. Exited = {l}
      BY <3>1 DEF Exited, Inv, Once
    <3>3. Cardinality(Exited) = 1
      BY <3>2, FS_Singleton, Zenon
    <3>4. done = Cardinality(Exited)
      BY DEF Inv, Ends
    <3> QED BY <3>3, <3>4
  <2> QED BY <2>1, <2>2, <2>3 DEF ClientsSound, Inv
<1> QED BY <1>1, Invariance, PTL

\* After Close has returned, nothing is connected and no client is left, unless
\* a reconnect was under way or Connect was called again.
THEOREM ClosedForGood == Spec => []ClosedStaysClosed
<1>1. Inv => ClosedStaysClosed
  BY DEF Inv
<1> QED BY <1>1, Invariance, PTL

-----------------------------------------------------------------------------
(* Induction.                                                              *)

\* A nonempty set of natural numbers has a least element.
LEMMA LeastElement ==
  ASSUME NEW S \in SUBSET Nat, S # {}
  PROVE  \E i \in S : \A j \in S : i <= j
<1> DEFINE T == {0 .. i : i \in S}
<1>1. IsWellFoundedOn(StrictSubsetOrdering(Nat), FiniteSubsetsOf(Nat))
  BY FS_StrictSubsetOrderingWellFounded
<1>2. T \subseteq FiniteSubsetsOf(Nat)
  <2> SUFFICES ASSUME NEW i \in S PROVE 0 .. i \in FiniteSubsetsOf(Nat)
    OBVIOUS
  <2>1. IsFiniteSet(0 .. i)
    BY FS_Interval
  <2> QED BY <2>1 DEF FiniteSubsetsOf
<1>3. T # {}
  OBVIOUS
<1>4. \E x \in T : \A y \in T : <<y, x>> \notin StrictSubsetOrdering(Nat)
  <2> HIDE DEF T
  <2> QED BY <1>1, <1>2, <1>3, WFMin
<1>5. PICK i \in S : \A y \in T : <<y, 0 .. i>> \notin StrictSubsetOrdering(Nat)
  BY <1>4
<1>6. ASSUME NEW j \in S, j < i PROVE FALSE
  <2>1. i \in 0 .. i /\ i \notin 0 .. j /\ 0 .. j \subseteq 0 .. i
    BY <1>6
  <2>2. 0 .. j \in T /\ 0 .. j \in SUBSET Nat /\ 0 .. i \in SUBSET Nat
    OBVIOUS
  <2> QED BY <1>5, <2>1, <2>2 DEF StrictSubsetOrdering
<1> QED BY <1>6

\* Induction up to n, with a set in the place of a predicate.
LEMMA UpTo ==
  ASSUME NEW n \in Nat, NEW G,
         n > 0 => 1 \in G, \A i \in 1 .. n : i \in G /\ i < n => i + 1 \in G
  PROVE  \A i \in 1 .. n : i \in G
<1> DEFINE Bad == (1 .. n) \ G
<1> SUFFICES ASSUME Bad # {} PROVE FALSE
  OBVIOUS
<1>1. PICK i \in Bad : \A j \in Bad : i <= j
  <2>1. Bad \in SUBSET Nat
    OBVIOUS
  <2> HIDE DEF Bad
  <2> QED BY <2>1, LeastElement
<1>2. i \in 1 .. n /\ i \notin G
  OBVIOUS
<1>3. i # 1
  BY <1>2
<1>4. i - 1 \in 1 .. n /\ i - 1 < n /\ ~ (i <= i - 1) /\ i - 1 + 1 = i
  BY <1>2, <1>3
<1>5. i - 1 \notin G
  BY <1>2, <1>4
<1> QED BY <1>1, <1>4, <1>5

-----------------------------------------------------------------------------
(* FlattenSeq.                                                             *)

\* f holds the sequences of seqs joined one after the other, up to the n-th.
Joins(f, seqs, n) ==
  f = [i \in 1 .. n |-> IF i = 1 THEN seqs[i] ELSE f[i-1] \o seqs[i]]

\* There is such a function.
LEMMA JoinsExist ==
  ASSUME NEW seqs, NEW n \in Nat
  PROVE  n > 0 => \E f : Joins(f, seqs, n)
<1> DEFINE G == {i \in 1 .. n : \E f : Joins(f, seqs, i)}
<1>1. n > 0 => 1 \in G
  <2> SUFFICES ASSUME n > 0 PROVE \E f : Joins(f, seqs, 1)
    OBVIOUS
  <2> DEFINE f == [i \in 1 .. 1 |-> seqs[i]]
  <2>1. \A i \in 1 .. 1 : i = 1
    OBVIOUS
  <2>2. f = [i \in 1 .. 1 |-> IF i = 1 THEN seqs[i] ELSE f[i-1] \o seqs[i]]
    BY <2>1
  <2>3. Joins(f, seqs, 1)
    BY <2>2 DEF Joins
  <2> QED BY <2>3
<1>2. ASSUME NEW i \in 1 .. n, i \in G, i < n PROVE i + 1 \in G
  <2>1. PICK f : Joins(f, seqs, i)
    BY <1>2
  <2>2. DOMAIN f = 1 .. i
    BY <2>1 DEF Joins
  <2> DEFINE g == [j \in 1 .. i + 1 |-> IF j = i + 1 THEN f[i] \o seqs[i + 1] ELSE f[j]]
  <2>3. ASSUME NEW j \in 1 .. i + 1
        PROVE  g[j] = IF j = 1 THEN seqs[j] ELSE g[j-1] \o seqs[j]
    <3>1. CASE j = i + 1
      <4>1. j # 1 /\ j - 1 = i /\ i # i + 1 /\ i \in 1 .. i + 1
        BY <3>1
      <4>2. g[j-1] = f[i]
        BY <4>1
      <4> QED BY <3>1, <4>1, <4>2
    <3>2. CASE j # i + 1
      <4>1. j \in 1 .. i /\ g[j] = f[j]
        BY <3>2
      <4>2. f[j] = IF j = 1 THEN seqs[j] ELSE f[j-1] \o seqs[j]
        BY <2>1, <4>1 DEF Joins
      <4>3. j # 1 => j - 1 \in 1 .. i + 1 /\ j - 1 # i + 1
        BY <4>1
      <4>4. j # 1 => g[j-1] = f[j-1]
        BY <4>3
      <4> QED BY <4>1, <4>2, <4>4
    <3> QED BY <3>1, <3>2
  <2>4. Joins(g, seqs, i + 1)
    <3>1. g = [j \in 1 .. i + 1 |-> g[j]]
      OBVIOUS
    <3> HIDE DEF g
    <3> QED BY <2>3, <3>1 DEF Joins
  <2>5. \E h : Joins(h, seqs, i + 1)
    BY <2>4
  <2>6. i + 1 \in 1 .. n
    BY <1>2
  <2> QED BY <2>5, <2>6
<1> HIDE DEF G
<1>3. \A i \in 1 .. n : i \in G
  BY <1>1, <1>2, UpTo
<1>4. n > 0 => n \in G
  BY <1>3
<1> QED BY <1>4 DEF G

\* What FlattenSeq yields is the last of them.
LEMMA FlattenSeqJoins ==
  ASSUME NEW seqs, Len(seqs) \in Nat, Len(seqs) > 0
  PROVE  \E f : Joins(f, seqs, Len(seqs)) /\ FlattenSeq(seqs) = f[Len(seqs)]
<1> DEFINE f == CHOOSE g : Joins(g, seqs, Len(seqs))
<1>1. Joins(f, seqs, Len(seqs))
  BY JoinsExist
<1>2. Len(seqs) # 0
  OBVIOUS
<1>3. FlattenSeq(seqs) = f[Len(seqs)]
  BY <1>2 DEF FlattenSeq, Joins
<1> QED BY <1>1, <1>3

-----------------------------------------------------------------------------
(* The invariant of the Service controller.                                *)

\* The records of the load balancer table, and what an item asks for.
IsRow(r) == /\ r = [vips |-> r.vips, skipSNAT |-> r.skipSNAT, here |-> r.here]
            /\ r.skipSNAT \in BOOLEAN /\ r.here \in BOOLEAN

Calls == [name : Names, port : Ports]

Ensuring == {"ensure", "options", "attach"}

Deleting == {"list", "detach", "delete"}

Works ==
  [pc : {"idle", "cleanup"} \cup Ensuring \cup Deleting, svc : Specs \cup {NoService},
   eps : SUBSET Endpoint, todo : Seq(Calls), left : SUBSET Names]

ServiceTypes ==
  /\ svc \in Specs \cup {NoService}
  /\ DOMAIN conditions \subseteq Endpoint /\ Range(conditions) \subseteq Conditions
  /\ nodes \subseteq Node /\ active \subseteq Switch
  /\ lbs = [n \in Names |-> lbs[n]] /\ \A n \in Names : IsRow(lbs[n])
  /\ attached \in [Switch -> SUBSET Names]
  /\ tracked \subseteq Names /\ queued \in {"no", "yes", "backoff"}
  /\ work \in Works
  /\ excused \subseteq {"attach", "options", "stale", "untracked"} \X Names

\* A reconcile has come to a place in the list of its Service's items.
Total == Len(Items(work.svc))

Made == Total - Len(work.todo)

Serving == work.pc \in Ensuring \cup {"cleanup"}

Place ==
  /\ work.pc = "idle" => work = NoWork
  /\ work.pc \in Ensuring <=> work.todo # <<>>
  /\ Serving => /\ shouldManageService(work.svc)
                /\ Len(work.todo) <= Total
                /\ \A i \in 1 .. Len(work.todo) : work.todo[i] = Items(work.svc)[Made + i]
  /\ work.pc \in {"options", "attach"} => lbs[Doing.name].here
  /\ work.pc = "delete" => work.left # {}

\* Of the first k items of a Service: their load balancers are there, those
\* that are to keep the source do so, and their VIPs are those of the last
\* item of each name.
Here(s, k) == \A i \in 1 .. k : lbs[Items(s)[i].name].here

SourceKept(s, k) ==
  \A i \in 1 .. k : SkipsSNAT(s, Items(s)[i]) =>
    lbs[Items(s)[i].name].skipSNAT \/ <<"options", Items(s)[i].name>> \in excused

IsLast(s, i, k) == \A j \in i + 1 .. k : Items(s)[j].name # Items(s)[i].name

VipsMade(s, eps, k) ==
  \A i \in 1 .. k : IsLast(s, i, k) => lbs[Items(s)[i].name].vips = Vips(s, eps, Items(s)[i])

\* The items whose VIPs are written, and those whose option is set as well.
Written == Made + (IF work.pc \in {"options", "attach"} THEN 1 ELSE 0)

Optioned == Made + (IF work.pc = "attach" THEN 1 ELSE 0)

\* What a reconcile has brought about so far, and that it works from what is
\* there unless the Service is queued again.
Progress ==
  Serving =>
    /\ Here(work.svc, Written) /\ SourceKept(work.svc, Optioned)
    /\ queued = "no" => /\ work.svc = svc /\ work.eps = getEndpoints
                        /\ ~ unseen => VipsMade(work.svc, work.eps, Written)

\* What the last reconcile has left.
Result ==
  Settled /\ Managed =>
    /\ Here(svc, Len(Items(svc))) /\ SourceKept(svc, Len(Items(svc)))
    /\ ~ unseen => VipsMade(svc, getEndpoints, Len(Items(svc)))
    /\ Present \ Current(svc) \subseteq Left({"stale", "untracked"})

\* A load balancer that is there is on all active switches unless it is being
\* attached or is excused.
Attaching == IF work.pc = "attach" THEN {Doing.name} ELSE {}

Attachments ==
  \A n \in Names \ Attaching, w \in active :
    lbs[n].here /\ <<"attach", n>> \notin excused => n \in attached[w]

\* What is there is on record, to be deleted, or excused.
Recorded ==
  /\ Present \subseteq tracked \cup Left({"stale", "untracked"})
  /\ work.pc \in {"detach", "delete"} => Present \subseteq work.left \cup Left({"stale"})
  /\ work.pc \in Deleting /\ queued = "no" => svc = NoService
  /\ Settled /\ svc = NoService => Present \subseteq Left({"stale"})

ServiceInv ==
  ServiceTypes /\ Place /\ Progress /\ Result /\ Attachments /\ Recorded

-----------------------------------------------------------------------------
(* The items of a Service.                                                 *)

\* The items of a Service are calls for load balancers of the table; a Service
\* that has ports has items.
LEMMA ItemsTyped ==
  ASSUME NEW s \in Specs
  PROVE  /\ Items(s) \in Seq(Calls) /\ Len(Items(s)) \in Nat
         /\ s.ports # <<>> => Len(Items(s)) > 0
         /\ Current(s) = {Items(s)[i].name : i \in 1 .. Len(Items(s))}
         /\ Current(s) \subseteq Names
<1> DEFINE n == Len(s.ports)
<1> DEFINE S == Seq(Calls) \ {<<>>}
<1>1. /\ s.ports \in Seq(Ports) /\ n \in Nat /\ (s.ports # <<>> <=> n > 0) /\ DOMAIN s.ports = 1 .. n
      /\ \A i \in 1 .. n : s.ports[i] \in Ports
  <2>1. s.ports \in Seq(Ports)
    BY ServiceAssumption
  <2>2. s.ports = <<>> <=> n = 0
    BY <2>1, EmptySeq
  <2> QED BY <2>1, <2>2
<1>2. ASSUME NEW i \in 1 .. n, NEW kind \in {"clusterip", "nodeport"}
      PROVE  Item(kind, s.ports[i]) \in Calls
  <2>1. s.ports[i].proto \in Protocols /\ s.ports[i] \in Ports
    BY <1>1 DEF Protocols, Range
  <2> QED BY <2>1 DEF Item, Calls, Names
<1> DEFINE one(i) == <<Item("clusterip", s.ports[i])>>
<1> DEFINE two(i) == <<Item("clusterip", s.ports[i]), Item("nodeport", s.ports[i])>>
<1> DEFINE seqs == [i \in DOMAIN s.ports |->
                      IF s.type \in {"NodePort", "LoadBalancer"} /\ s.ports[i].nodePort > 0
                      THEN two(i) ELSE one(i)]
<1>3. ASSUME NEW i \in 1 .. n PROVE one(i) \in S /\ two(i) \in S
  <2>1. Item("clusterip", s.ports[i]) \in Calls /\ Item("nodeport", s.ports[i]) \in Calls
    BY <1>2
  <2> QED BY <2>1
<1>4. Items(s) = FlattenSeq(seqs)
  BY DEF Items
<1>5. Len(seqs) = n /\ \A i \in 1 .. n : seqs[i] \in S
  <2>1. DOMAIN seqs = 1 .. n
    BY <1>1
  <2>2. ASSUME NEW i \in 1 .. n PROVE seqs[i] \in S
    <3>1. seqs[i] = two(i) \/ seqs[i] = one(i)
      BY <1>1
    <3> HIDE DEF one, two, seqs
    <3> QED BY <1>3, <3>1
  <2> HIDE DEF seqs
  <2> QED BY <1>1, <2>1, <2>2
<1> HIDE DEF seqs, one, two
<1>6. ASSUME n > 0 PROVE Items(s) \in S
  <2>1. PICK f : Joins(f, seqs, n) /\ FlattenSeq(seqs) = f[n]
    BY <1>1, <1>5, <1>6, FlattenSeqJoins
  <2>2. \A i \in 1 .. n : f[i] = IF i = 1 THEN seqs[i] ELSE f[i-1] \o seqs[i]
    BY <2>1 DEF Joins
  <2> DEFINE G == {i \in 1 .. n : f[i] \in S}
  <2>3. 1 \in G
    <3>1. 1 \in 1 .. n /\ f[1] = seqs[1]
      BY <1>1, <1>6, <2>2
    <3> QED BY <1>5, <3>1
  <2>4. ASSUME NEW i \in 1 .. n, i \in G, i < n PROVE i + 1 \in G
    <3>1. i + 1 \in 1 .. n /\ i + 1 # 1 /\ i + 1 - 1 = i
      BY <2>4
    <3>2. f[i + 1] = f[i] \o seqs[i + 1]
      <4>1. ASSUME NEW k \in 1 .. n, k = i + 1 PROVE f[k] = f[i] \o seqs[k]
        <5>1. k # 1 /\ k - 1 = i
          BY <4>1
        <5>2. f[k] = IF k = 1 THEN seqs[k] ELSE f[k-1] \o seqs[k]
          BY <2>2
        <5> QED BY <5>1, <5>2
      <4> QED BY <3>1, <4>1
    <3>3. f[i] \in S /\ seqs[i + 1] \in S
      BY <1>5, <2>4, <3>1
    <3>4. ASSUME NEW a \in S, NEW b \in S PROVE a \o b \in S
      <4>1. a \o b \in Seq(Calls) /\ Len(a \o b) = Len(a) + Len(b)
        BY ConcatProperties
      <4>2. Len(a) > 0 /\ Len(a) \in Nat /\ Len(b) \in Nat /\ Len(<<>>) = 0
        BY EmptySeq, LenProperties
      <4> QED BY <4>1, <4>2
    <3> QED BY <3>1, <3>2, <3>3, <3>4
  <2>5. \A i \in 1 .. n : i \in G
    <3> HIDE DEF G
    <3> QED BY <1>1, <2>3, <2>4, UpTo
  <2> QED BY <1>1, <1>4, <1>6, <2>1, <2>5
<1>7. ASSUME n = 0 PROVE Items(s) = <<>>
  <2>1. seqs = <<>>
    BY <1>1, <1>7 DEF seqs
  <2>2. Len(<<>>) = 0
    OBVIOUS
  <2> QED BY <1>4, <2>1, <2>2 DEF FlattenSeq
<1>8. Items(s) \in Seq(Calls) /\ (n > 0 => Items(s) # <<>>)
  <2>1. <<>> \in Seq(Calls)
    OBVIOUS
  <2>2. n > 0 \/ n = 0
    BY <1>1
  <2> QED BY <1>6, <1>7, <2>1, <2>2
<1>9. /\ Items(s) \in Seq(Calls) /\ Len(Items(s)) \in Nat /\ (s.ports # <<>> => Len(Items(s)) > 0)
      /\ DOMAIN Items(s) = 1 .. Len(Items(s))
  <2>1. Items(s) = <<>> <=> Len(Items(s)) = 0
    BY <1>8, EmptySeq
  <2> QED BY <1>1, <1>8, <2>1
<1>10. Current(s) = {Items(s)[i].name : i \in 1 .. Len(Items(s))}
  BY <1>9 DEF Current, Range
<1>11. Current(s) \subseteq Names
  <2> SUFFICES ASSUME NEW i \in 1 .. Len(Items(s)) PROVE Items(s)[i].name \in Names
    BY <1>10
  <2>1. Items(s)[i] \in Calls
    BY <1>9
  <2> QED BY <2>1 DEF Calls
<1> QED BY <1>9, <1>10, <1>11

-----------------------------------------------------------------------------
(* What a step does to the rows, and what of that matters.                 *)

\* New VIPs change nothing else of their row and no other row.
LEMMA VipsChange ==
  ASSUME ServiceTypes, NEW n \in Names, NEW v
  PROVE  LET new == SetVips(n, v) IN
         /\ new = [m \in Names |-> new[m]] /\ \A m \in Names : IsRow(new[m])
         /\ \A m \in Names : new[m].here = lbs[m].here /\ new[m].skipSNAT = lbs[m].skipSNAT
         /\ \A m \in Names \ {n} : new[m] = lbs[m]
         /\ new[n].vips = v
<1> DEFINE new == SetVips(n, v)
<1>1. lbs = [m \in Names |-> lbs[m]] /\ \A m \in Names : IsRow(lbs[m])
  BY DEF ServiceTypes
<1>2. new = [m \in Names |-> IF m = n THEN [lbs[n] EXCEPT !.vips = v] ELSE lbs[m]]
  BY <1>1 DEF SetVips
<1>3. IsRow(lbs[n])
  BY <1>1
<1>4. /\ IsRow([lbs[n] EXCEPT !.vips = v]) /\ [lbs[n] EXCEPT !.vips = v].vips = v
      /\ [lbs[n] EXCEPT !.vips = v].here = lbs[n].here
      /\ [lbs[n] EXCEPT !.vips = v].skipSNAT = lbs[n].skipSNAT
  BY <1>3 DEF IsRow
<1> HIDE DEF new
<1>5. new = [m \in Names |-> new[m]] /\ new[n] = [lbs[n] EXCEPT !.vips = v]
      /\ \A m \in Names \ {n} : new[m] = lbs[m]
  BY <1>2
<1>6. \A m \in Names : IsRow(new[m]) /\ new[m].here = lbs[m].here /\ new[m].skipSNAT = lbs[m].skipSNAT
  BY <1>1, <1>4, <1>5
<1> QED BY <1>4, <1>5, <1>6 DEF new

\* The option of one row.
LEMMA OptionChange ==
  ASSUME ServiceTypes, NEW n \in Names
  PROVE  LET new == [lbs EXCEPT ![n].skipSNAT = TRUE] IN
         /\ new = [m \in Names |-> new[m]] /\ \A m \in Names : IsRow(new[m])
         /\ \A m \in Names : /\ new[m].here = lbs[m].here /\ new[m].vips = lbs[m].vips
                             /\ lbs[m].skipSNAT => new[m].skipSNAT
         /\ new[n].skipSNAT
<1> DEFINE new == [lbs EXCEPT ![n].skipSNAT = TRUE]
<1>1. lbs = [m \in Names |-> lbs[m]] /\ \A m \in Names : IsRow(lbs[m])
  BY DEF ServiceTypes
<1>2. new = [m \in Names |-> IF m = n THEN [lbs[n] EXCEPT !.skipSNAT = TRUE] ELSE lbs[m]]
  BY <1>1
<1>3. IsRow(lbs[n])
  BY <1>1
<1>4. [lbs[n] EXCEPT !.skipSNAT = TRUE]
        = [vips |-> lbs[n].vips, skipSNAT |-> TRUE, here |-> lbs[n].here]
  <2>1. ASSUME NEW t, NEW r, r = [vips |-> r.vips, skipSNAT |-> r.skipSNAT, here |-> r.here]
        PROVE  [r EXCEPT !.skipSNAT = t] = [vips |-> r.vips, skipSNAT |-> t, here |-> r.here]
    BY <2>1
  <2> QED BY <1>3, <2>1, Zenon DEF IsRow
<1> DEFINE row == [vips |-> lbs[n].vips, skipSNAT |-> TRUE, here |-> lbs[n].here]
<1>7. IsRow(row) /\ row.skipSNAT /\ row.here = lbs[n].here /\ row.vips = lbs[n].vips
  <2>1. row.vips = lbs[n].vips /\ row.skipSNAT = TRUE /\ row.here = lbs[n].here
    OBVIOUS
  <2> QED BY <1>3, <2>1, Zenon DEF IsRow
<1> HIDE DEF row
<1> HIDE DEF new
<1>5. new = [m \in Names |-> new[m]] /\ new[n] = row
      /\ \A m \in Names \ {n} : new[m] = lbs[m]
  BY <1>2, <1>4 DEF row
<1>6. \A m \in Names : IsRow(new[m]) /\ new[m].here = lbs[m].here /\ new[m].vips = lbs[m].vips
                       /\ (lbs[m].skipSNAT => new[m].skipSNAT)
  BY <1>1, <1>5, <1>7
<1> QED BY <1>5, <1>6, <1>7 DEF new

\* A new row.
LEMMA RowCreated ==
  ASSUME ServiceTypes, NEW n \in Names, NEW v, NEW b \in BOOLEAN
  PROVE  LET new == [lbs EXCEPT ![n] = [vips |-> v, skipSNAT |-> b, here |-> TRUE]] IN
         /\ new = [m \in Names |-> new[m]] /\ \A m \in Names : IsRow(new[m])
         /\ \A m \in Names \ {n} : new[m] = lbs[m]
         /\ new[n].here /\ new[n].vips = v /\ new[n].skipSNAT = b
<1> DEFINE row == [vips |-> v, skipSNAT |-> b, here |-> TRUE]
<1> DEFINE new == [lbs EXCEPT ![n] = row]
<1>1. lbs = [m \in Names |-> lbs[m]] /\ \A m \in Names : IsRow(lbs[m])
  BY DEF ServiceTypes
<1>2. IsRow(row) /\ row.here /\ row.vips = v /\ row.skipSNAT = b
  BY DEF IsRow
<1> HIDE DEF row
<1>3. new = [m \in Names |-> IF m = n THEN row ELSE lbs[m]]
  BY <1>1
<1> HIDE DEF new
<1>4. new = [m \in Names |-> new[m]] /\ new[n] = row /\ \A m \in Names \ {n} : new[m] = lbs[m]
  BY <1>3
<1>5. \A m \in Names : IsRow(new[m])
  BY <1>1, <1>2, <1>4
<1> QED BY <1>2, <1>4, <1>5 DEF new, row

\* Rows that are deleted, with the references to them.
LEMMA RowsDeleted ==
  ASSUME ServiceTypes, NEW D \in SUBSET Names, Delete(D)
  PROVE  /\ lbs' = [m \in Names |-> lbs'[m]] /\ \A m \in Names : IsRow(lbs'[m])
         /\ \A m \in D : ~ lbs'[m].here
         /\ \A m \in Names \ D : lbs'[m] = lbs[m]
         /\ attached' \in [Switch -> SUBSET Names]
         /\ \A w \in Switch : attached'[w] = attached[w] \ D
         /\ Present' = Present \ D
<1>1. lbs = [m \in Names |-> lbs[m]] /\ \A m \in Names : IsRow(lbs[m])
  BY DEF ServiceTypes
<1>2. IsRow(NoLB) /\ ~ NoLB.here
  BY DEF IsRow, NoLB
<1>3. lbs' = [m \in Names |-> IF m \in D THEN NoLB ELSE lbs[m]]
  BY DEF Delete
<1>4. /\ lbs' = [m \in Names |-> lbs'[m]] /\ \A m \in D : lbs'[m] = NoLB
      /\ \A m \in Names \ D : lbs'[m] = lbs[m]
  BY <1>3
<1>5. \A m \in Names : IsRow(lbs'[m])
  BY <1>1, <1>2, <1>4
<1>6. /\ attached' \in [Switch -> SUBSET Names] /\ \A w \in Switch : attached'[w] = attached[w] \ D
  BY DEF ServiceTypes, Delete
<1>7. Present' = Present \ D
  BY <1>2, <1>4 DEF Present
<1> QED BY <1>2, <1>4, <1>5, <1>6, <1>7

\* The names of a Service's items are in the table.
LEMMA ItemName ==
  ASSUME NEW s \in Specs, NEW i \in 1 .. Len(Items(s))
  PROVE  Items(s)[i] \in Calls /\ Items(s)[i].name \in Names /\ Items(s)[i].name \in Current(s)
<1>1. Items(s)[i] \in Calls
  BY ItemsTyped
<1> QED BY <1>1, ItemsTyped DEF Calls

\* What follows from what a step does to the rows of the first k items, and of
\* one item more.
LEMMA HereKept ==
  ASSUME NEW s \in Specs, NEW k \in 0 .. Len(Items(s)), Here(s, k),
         \A m \in Current(s) : lbs[m].here => lbs'[m].here
  PROVE  Here(s, k)'
<1> SUFFICES ASSUME NEW i \in 1 .. k PROVE lbs'[Items(s)[i].name].here
  BY DEF Here
<1>1. i \in 1 .. Len(Items(s))
  BY ItemsTyped
<1> QED BY <1>1, ItemName DEF Here

LEMMA HereExtended ==
  ASSUME NEW s \in Specs, NEW k \in Nat, NEW j, j = k + 1, Here(s, k)',
         lbs'[Items(s)[j].name].here
  PROVE  Here(s, j)'
<1> SUFFICES ASSUME NEW i \in 1 .. j PROVE lbs'[Items(s)[i].name].here
  BY DEF Here
<1>1. i = j \/ i \in 1 .. k
  OBVIOUS
<1> QED BY <1>1 DEF Here

LEMMA SourceStays ==
  ASSUME NEW s \in Specs, NEW k \in 0 .. Len(Items(s)), SourceKept(s, k),
         \A m \in Current(s) :
           m[2] = "nodeport" /\ s.local /\ (lbs[m].skipSNAT \/ <<"options", m>> \in excused) =>
             lbs'[m].skipSNAT \/ <<"options", m>> \in excused'
  PROVE  SourceKept(s, k)'
<1> SUFFICES ASSUME NEW i \in 1 .. k, SkipsSNAT(s, Items(s)[i])
             PROVE  lbs'[Items(s)[i].name].skipSNAT \/ <<"options", Items(s)[i].name>> \in excused'
  BY DEF SourceKept
<1>1. i \in 1 .. Len(Items(s))
  BY ItemsTyped
<1>2. lbs[Items(s)[i].name].skipSNAT \/ <<"options", Items(s)[i].name>> \in excused
  BY DEF SourceKept
<1> QED BY <1>1, <1>2, ItemName DEF SkipsSNAT

LEMMA SourceExtended ==
  ASSUME NEW s \in Specs, NEW k \in Nat, NEW j, j = k + 1, SourceKept(s, k)',
         SkipsSNAT(s, Items(s)[j]) =>
           lbs'[Items(s)[j].name].skipSNAT \/ <<"options", Items(s)[j].name>> \in excused'
  PROVE  SourceKept(s, j)'
<1> SUFFICES ASSUME NEW i \in 1 .. j, SkipsSNAT(s, Items(s)[i])
             PROVE  lbs'[Items(s)[i].name].skipSNAT \/ <<"options", Items(s)[i].name>> \in excused'
  BY DEF SourceKept
<1>1. i = j \/ i \in 1 .. k
  OBVIOUS
<1> QED BY <1>1 DEF SourceKept

\* The VIPs of an item depend on the endpoints and nodes only.
LEMMA VipsKept ==
  ASSUME NEW s, NEW eps, NEW it, UNCHANGED <<conditions, nodes>>
  PROVE  Vips(s, eps, it)' = Vips(s, eps, it)
BY DEF Vips, Clusterwide, NodePortVips, getEndpoints

LEMMA VipsStay ==
  ASSUME NEW s \in Specs, NEW eps, NEW k \in 0 .. Len(Items(s)), VipsMade(s, eps, k),
         UNCHANGED <<conditions, nodes>>, \A m \in Current(s) : lbs'[m].vips = lbs[m].vips
  PROVE  VipsMade(s, eps, k)'
<1> SUFFICES ASSUME NEW i \in 1 .. k, IsLast(s, i, k)
             PROVE  lbs'[Items(s)[i].name].vips = Vips(s, eps, Items(s)[i])'
  BY DEF VipsMade, IsLast
<1>1. i \in 1 .. Len(Items(s))
  BY ItemsTyped
<1>2. Vips(s, eps, Items(s)[i])' = Vips(s, eps, Items(s)[i])
  BY VipsKept
<1>3. lbs[Items(s)[i].name].vips = Vips(s, eps, Items(s)[i])
  BY DEF VipsMade
<1> QED BY <1>1, <1>2, <1>3, ItemName

LEMMA VipsExtended ==
  ASSUME NEW s \in Specs, NEW eps, NEW k \in Nat, NEW j \in 1 .. Len(Items(s)), j = k + 1,
         VipsMade(s, eps, k), UNCHANGED <<conditions, nodes>>,
         \A m \in Current(s) \ {Items(s)[j].name} : lbs'[m].vips = lbs[m].vips,
         lbs'[Items(s)[j].name].vips = Vips(s, eps, Items(s)[j])
  PROVE  VipsMade(s, eps, j)'
<1> SUFFICES ASSUME NEW i \in 1 .. j, IsLast(s, i, j)
             PROVE  lbs'[Items(s)[i].name].vips = Vips(s, eps, Items(s)[i])'
  BY DEF VipsMade, IsLast
<1>1. i \in 1 .. Len(Items(s)) /\ Vips(s, eps, Items(s)[i])' = Vips(s, eps, Items(s)[i])
  BY ItemsTyped, VipsKept
<1>2. CASE i = j
  BY <1>1, <1>2
<1>3. CASE i # j
  <2>1. i \in 1 .. k /\ j \in i + 1 .. j
    BY <1>3
  <2>2. Items(s)[j].name # Items(s)[i].name
    BY <2>1 DEF IsLast
  <2>3. IsLast(s, i, k)
    BY <2>1 DEF IsLast
  <2>4. lbs[Items(s)[i].name].vips = Vips(s, eps, Items(s)[i])
    BY <2>1, <2>3 DEF VipsMade
  <2> QED BY <1>1, <2>2, <2>4, ItemName
<1> QED BY <1>2, <1>3

-----------------------------------------------------------------------------
(* The work in progress.                                                   *)

LEMMA InitService == ASSUME ServiceInit PROVE ServiceInv
<1> USE ServiceAssumption
<1>1. work = NoWork /\ svc = NoService /\ queued = "no" /\ excused = {} /\ tracked = {}
      /\ conditions = <<>> /\ nodes = Node /\ active = Switch
      /\ lbs = [n \in Names |-> NoLB] /\ attached = [w \in Switch |-> {}]
  BY DEF ServiceInit
<1>2. work.pc = "idle" /\ work.todo = <<>> /\ work \in Works
  <2>1. <<>> \in Seq(Calls)
    OBVIOUS
  <2> QED BY <1>1, <2>1 DEF NoWork, Works
<1>3. IsRow(NoLB) /\ ~ NoLB.here
  BY DEF IsRow, NoLB
<1>4. \A n \in Names : lbs[n] = NoLB
  BY <1>1
<1>5. ServiceTypes
  <2>1. DOMAIN conditions = {} /\ Range(conditions) = {}
    BY <1>1 DEF Range
  <2>2. lbs = [n \in Names |-> lbs[n]] /\ \A n \in Names : IsRow(lbs[n])
    BY <1>1, <1>3, <1>4
  <2> QED BY <1>1, <1>2, <2>1, <2>2 DEF ServiceTypes
<1>6. Place
  BY <1>1, <1>2 DEF Place, Serving, Ensuring
<1>7. Progress
  BY <1>2 DEF Progress, Serving, Ensuring
<1>8. Result
  BY <1>1 DEF Result, Managed, shouldManageService
<1>9. Attachments
  BY <1>3, <1>4 DEF Attachments
<1>10. Present = {}
  BY <1>3, <1>4 DEF Present
<1>11. Recorded
  BY <1>2, <1>10 DEF Recorded, Deleting
<1> QED BY <1>5, <1>6, <1>7, <1>8, <1>9, <1>11 DEF ServiceInv

\* The fields of the work in progress.
LEMMA WorkFields ==
  ASSUME ServiceTypes
  PROVE  /\ work.pc \in {"idle", "cleanup"} \cup Ensuring \cup Deleting
         /\ work.svc \in Specs \cup {NoService}
         /\ work.eps \subseteq Endpoint /\ work.todo \in Seq(Calls) /\ work.left \subseteq Names
BY DEF ServiceTypes, Works

\* A reconcile is at an item of its Service.
LEMMA AtItem ==
  ASSUME ServiceTypes, Place, work.pc \in Ensuring
  PROVE  /\ work.svc \in Specs /\ shouldManageService(work.svc)
         /\ Total = Len(Items(work.svc)) /\ Total \in Nat
         /\ Len(work.todo) \in 1 .. Total /\ Made \in Nat /\ Made = Total - Len(work.todo)
         /\ Made + 1 \in 1 .. Total
         /\ Doing = Items(work.svc)[Made + 1]
         /\ Doing.name \in Names /\ Doing.name \in Current(work.svc)
         /\ Serving
<1>1. Serving
  BY DEF Serving
<1>2. work.svc \in Specs /\ shouldManageService(work.svc)
  BY <1>1, WorkFields DEF Place, shouldManageService
<1>3. Total = Len(Items(work.svc)) /\ Total \in Nat
  BY <1>2, ItemsTyped DEF Total
<1>4. work.todo # <<>> /\ work.todo \in Seq(Calls)
  BY WorkFields DEF Place
<1>5. Len(work.todo) \in Nat /\ Len(work.todo) > 0 /\ Head(work.todo) = work.todo[1]
  BY <1>4
<1>6. Len(work.todo) \in 1 .. Total
  BY <1>1, <1>3, <1>5 DEF Place
<1>7. Made = Total - Len(work.todo)
  BY DEF Made
<1>8. Made \in Nat /\ Made + 1 \in 1 .. Total
  BY <1>3, <1>6, <1>7
<1>9. Doing = Items(work.svc)[Made + 1]
  BY <1>1, <1>5 DEF Place, Doing
<1> QED BY <1>1, <1>2, <1>3, <1>6, <1>7, <1>8, <1>9, ItemName

\* It goes on with the next one, or to the clean-up.
LEMMA Advances ==
  ASSUME ServiceTypes, Place, work.pc \in Ensuring, work' = Advance
  PROVE  /\ work' \in Works /\ Place' /\ Serving'
         /\ work'.pc \in {"ensure", "cleanup"}
         /\ work'.svc = work.svc /\ work'.eps = work.eps
         /\ Written' = Made + 1 /\ Optioned' = Made + 1
         /\ Attaching' = {}
<1> DEFINE p == IF Len(work.todo) = 1 THEN "cleanup" ELSE "ensure"
<1>1. work.todo \in Seq(Calls) /\ Len(work.todo) \in 1 .. Total /\ Total \in Nat
  BY AtItem, WorkFields
<1>2. /\ Tail(work.todo) \in Seq(Calls) /\ Len(Tail(work.todo)) = Len(work.todo) - 1
      /\ \A i \in 1 .. Len(work.todo) - 1 : Tail(work.todo)[i] = work.todo[i + 1]
  <2>1. work.todo # <<>>
    BY <1>1
  <2> QED BY <1>1, <2>1, HeadTailProperties
<1>3. work' = [work EXCEPT !.todo = Tail(work.todo), !.pc = p]
  BY DEF Advance
<1>4. p \in {"ensure", "cleanup"}
  OBVIOUS
<1>5. /\ work' \in Works /\ work'.pc = p /\ work'.todo = Tail(work.todo)
      /\ work'.svc = work.svc /\ work'.eps = work.eps
  <2> HIDE DEF p
  <2>1. work \in Works
    BY DEF ServiceTypes
  <2> QED BY <1>2, <1>3, <1>4, <2>1 DEF Works, Ensuring
<1>6. Total' = Total /\ Made' = Made + 1
  <2>1. Total' = Total
    BY <1>5 DEF Total, Items, Item
  <2>2. Made' = Total' - Len(work'.todo)
    BY DEF Made
  <2>3. Made = Total - Len(work.todo)
    BY DEF Made
  <2>4. Len(work'.todo) = Len(work.todo) - 1 /\ Len(work.todo) \in Int /\ Total \in Int
    BY <1>1, <1>2, <1>5
  <2> QED BY <2>1, <2>2, <2>3, <2>4
<1>7. Serving'
  BY <1>4, <1>5 DEF Serving, Ensuring
<1>8. Written' = Made + 1 /\ Optioned' = Made + 1
  <2>1. Made + 1 \in Nat
    BY AtItem
  <2> QED BY <1>4, <1>5, <1>6, <2>1 DEF Written, Optioned
<1>9. Place'
  <2>1. Len(work'.todo) <= Total'
    BY <1>1, <1>2, <1>5, <1>6
  <2>2. ASSUME NEW i \in 1 .. Len(work'.todo) PROVE work'.todo[i] = Items(work'.svc)[Made' + i]
    <3>1. i + 1 \in 1 .. Len(work.todo) /\ work'.todo[i] = work.todo[i + 1]
      BY <1>1, <1>2, <1>5
    <3>2. work.todo[i + 1] = Items(work.svc)[Made + (i + 1)]
      <4>1. Serving
        BY AtItem
      <4> QED BY <3>1, <4>1 DEF Place
    <3>3. Made' + i = Made + (i + 1)
      BY <1>6, AtItem
    <3> QED BY <1>5, <3>1, <3>2, <3>3
  <2>3. work'.pc \in Ensuring <=> work'.todo # <<>>
    <3>1. work'.todo # <<>> <=> Len(work.todo) # 1
      <4>1. Len(work'.todo) = Len(work.todo) - 1 /\ work'.todo \in Seq(Calls) /\ Len(work.todo) \in Int
        BY <1>1, <1>2, <1>5
      <4>2. work'.todo = <<>> <=> Len(work'.todo) = 0
        BY <4>1, EmptySeq
      <4> QED BY <4>1, <4>2
    <3> QED BY <1>5, <3>1 DEF Ensuring
  <2>4. shouldManageService(work'.svc)
    BY <1>5, AtItem
  <2>5. work'.pc \notin {"idle", "options", "attach", "delete"}
    BY <1>4, <1>5
  <2>6. shouldManageService(work.svc)' <=> shouldManageService(work'.svc)
    BY DEF shouldManageService
  <2>7. \A i \in 1 .. Len(work'.todo) : work'.todo[i] = Items(work.svc)'[Made' + i]
    BY <2>2 DEF Items, Item
  <2> QED BY <2>1, <2>3, <2>4, <2>5, <2>6, <2>7 DEF Place
<1> QED BY <1>4, <1>5, <1>7, <1>8, <1>9 DEF Attaching

\* It stays at its item, in another phase.
LEMMA Phases ==
  ASSUME ServiceTypes, Place, work.pc \in Ensuring, NEW p \in {"options", "attach"},
         work' = [work EXCEPT !.pc = p], lbs'[Doing.name].here
  PROVE  /\ work' \in Works /\ Place' /\ Serving'
         /\ work'.pc = p /\ work'.svc = work.svc /\ work'.eps = work.eps
         /\ Written' = Made + 1 /\ Optioned' = Made + (IF p = "attach" THEN 1 ELSE 0)
         /\ Attaching' = IF p = "attach" THEN {Doing.name} ELSE {}
<1>1. /\ work' \in Works /\ work'.pc = p /\ work'.todo = work.todo
      /\ work'.svc = work.svc /\ work'.eps = work.eps
  <2>1. work \in Works
    BY DEF ServiceTypes
  <2> QED BY <2>1 DEF Works, Ensuring
<1>2. Total' = Total /\ Made' = Made /\ Doing' = Doing
  <2>1. Total' = Total
    BY <1>1 DEF Total, Items, Item
  <2> QED BY <1>1, <2>1 DEF Made, Doing
<1>3. Serving'
  BY <1>1 DEF Serving, Ensuring
<1>4. Written' = Made + 1 /\ Optioned' = Made + (IF p = "attach" THEN 1 ELSE 0)
  BY <1>1, <1>2 DEF Written, Optioned
<1>5. Place'
  <2>1. Serving /\ work.todo # <<>>
    BY AtItem DEF Place
  <2>2. shouldManageService(work.svc)' /\ Len(work'.todo) <= Total'
    BY <1>1, <1>2, <2>1 DEF Place, shouldManageService
  <2>3. \A i \in 1 .. Len(work'.todo) : work'.todo[i] = Items(work.svc)'[Made' + i]
    BY <1>1, <1>2, <2>1 DEF Place, Items, Item
  <2>4. work'.pc \in Ensuring /\ work'.todo # <<>> /\ work'.pc \notin {"idle", "delete"}
    BY <1>1, <2>1 DEF Ensuring
  <2> QED BY <1>2, <2>2, <2>3, <2>4 DEF Place
<1>6. Attaching' = IF p = "attach" THEN {Doing.name} ELSE {}
  BY <1>1, <1>2 DEF Attaching
<1> QED BY <1>1, <1>3, <1>4, <1>5, <1>6

\* It is over.
LEMMA Stops ==
  ASSUME work' = NoWork
  PROVE  /\ work' \in Works /\ work'.pc = "idle" /\ Place' /\ ~ Serving' /\ Progress' /\ Attaching' = {}
<1>1. work' \in Works /\ work'.pc = "idle" /\ work'.todo = <<>>
  <2>1. <<>> \in Seq(Calls)
    OBVIOUS
  <2> QED BY <2>1 DEF NoWork, Works
<1>2. ~ Serving' /\ Attaching' = {}
  BY <1>1 DEF Serving, Ensuring, Attaching
<1> QED BY <1>1, <1>2 DEF Place, Progress, Ensuring, NoWork

LEMMA Fails ==
  ASSUME ServiceTypes, Fail
  PROVE  /\ work' = NoWork /\ queued' \in {"yes", "backoff"} /\ Result'
BY DEF Fail, ServiceTypes, Result, Settled

\* It goes on where it was.
LEMMA Resumes ==
  ASSUME ServiceTypes, Place, UNCHANGED work, \A n \in Names : lbs[n].here => lbs'[n].here
  PROVE  /\ work' \in Works /\ Place' /\ Serving' = Serving
         /\ Written' = Written /\ Optioned' = Optioned /\ Attaching' = Attaching
<1>1. Total' = Total /\ Made' = Made /\ Doing' = Doing
  <2>1. Total' = Total
    BY DEF Total, Items, Item
  <2> QED BY <2>1 DEF Made, Doing
<1>2. Serving' = Serving /\ Written' = Written /\ Optioned' = Optioned /\ Attaching' = Attaching
  BY <1>1 DEF Serving, Written, Optioned, Attaching
<1>3. work.pc \in {"options", "attach"} => lbs'[Doing.name].here
  BY AtItem DEF Place, Ensuring
<1>4. /\ shouldManageService(work.svc)' = shouldManageService(work.svc)
      /\ Items(work.svc)' = Items(work.svc)
  BY DEF shouldManageService, Items, Item
<1>5. Place'
  BY <1>1, <1>2, <1>3, <1>4 DEF Place
<1>6. work' \in Works
  BY DEF ServiceTypes
<1> QED BY <1>2, <1>5, <1>6

\* What has to be shown for a step of a reconcile that goes on.
LEMMA ProgressGoes ==
  ASSUME NEW s, NEW eps, s = work.svc, eps = work.eps, s = work'.svc, eps = work'.eps,
         Serving, Progress, UNCHANGED <<cluster, queued, unseen>>,
         NEW k, k = Written', NEW o, o = Optioned',
         Here(s, k)', SourceKept(s, o)', VipsMade(s, eps, Written) => VipsMade(s, eps, k)'
  PROVE  Progress'
<1>1. getEndpoints' = getEndpoints
  BY DEF getEndpoints, cluster
<1>2. Here(work.svc, Written)' /\ SourceKept(work.svc, Optioned)'
  OBVIOUS
<1>3. queued' = "no" => queued = "no" /\ work'.svc = svc' /\ work'.eps = getEndpoints'
  BY <1>1 DEF Progress, cluster
<1>4. queued' = "no" /\ ~ unseen' => VipsMade(s, eps, Written)
  BY DEF Progress
<1>5. VipsMade(work.svc, work.eps, Written)' = VipsMade(s, eps, k)'
  OBVIOUS
<1> QED BY <1>2, <1>3, <1>4, <1>5 DEF Progress

LEMMA Unsettled ==
  ASSUME Serving' \/ queued' # "no" \/ svc' = NoService
  PROVE  Result'
<1>1. CASE Serving'
  <2>1. work'.pc # "idle"
    BY <1>1 DEF Serving, Ensuring
  <2> QED BY <2>1 DEF Result, Settled, NoWork
<1>2. CASE queued' # "no" \/ svc' = NoService
  BY <1>2 DEF Result, Settled, Managed, shouldManageService
<1> QED BY <1>1, <1>2

-----------------------------------------------------------------------------
(* The steps from outside.                                                 *)

\* The place and the rows stay as they are, and excused only grows.
LEMMA CacheKeeps ==
  ASSUME ServiceInv, UNCHANGED <<lbs, tracked, work>>, excused \subseteq excused',
         queued' = "no" => /\ queued = "no" /\ UNCHANGED <<svc, conditions>>
                           /\ ~ unseen' => ~ unseen /\ UNCHANGED nodes
  PROVE  work' \in Works /\ Place' /\ Progress' /\ Result' /\ Recorded'
<1> USE DEF ServiceInv
<1>1. /\ work' \in Works /\ Place' /\ Serving' = Serving
      /\ Written' = Written /\ Optioned' = Optioned
  BY Resumes
<1>2. queued' = "no" => getEndpoints' = getEndpoints /\ Managed' = Managed
  BY DEF getEndpoints, Managed, shouldManageService
<1>3. ASSUME NEW s, NEW k
      PROVE  Here(s, k)' = Here(s, k) /\ (SourceKept(s, k) => SourceKept(s, k)')
  BY DEF Here, SourceKept, Items, Item, SkipsSNAT
<1>4. ASSUME NEW s, NEW eps, NEW k, queued' = "no", ~ unseen', VipsMade(s, eps, k)
      PROVE  VipsMade(s, eps, k)'
  <2>1. UNCHANGED <<conditions, nodes>>
    BY <1>4
  <2>2. \A it : Vips(s, eps, it)' = Vips(s, eps, it)
    BY <2>1, VipsKept
  <2> QED BY <1>4, <2>2 DEF VipsMade, IsLast, Items, Item
<1>5. Progress'
  <2> SUFFICES ASSUME Serving' PROVE Progress'
    BY DEF Progress
  <2>1. Serving
    BY <1>1
  <2>2. Here(work.svc, Written)' /\ SourceKept(work.svc, Optioned)'
    BY <1>1, <1>3, <2>1 DEF Progress
  <2>3. ASSUME queued' = "no" PROVE work'.svc = svc' /\ work'.eps = getEndpoints'
    BY <1>2, <2>1, <2>3 DEF Progress
  <2>4. ASSUME queued' = "no", ~ unseen' PROVE VipsMade(work.svc, work.eps, Written)'
    <3>1. VipsMade(work.svc, work.eps, Written)
      BY <2>1, <2>4 DEF Progress
    <3> QED BY <1>1, <1>4, <2>4, <3>1
  <2> QED BY <2>2, <2>3, <2>4 DEF Progress
<1>6. Present' = Present /\ \A W : Left(W) \subseteq Left(W)'
  BY DEF Present, Left
<1>7. Result'
  <2> SUFFICES ASSUME Settled', Managed' PROVE Result'
    BY DEF Result
  <2>1. Settled /\ Managed /\ queued' = "no" /\ svc' = svc
    BY <1>2 DEF Settled
  <2>2. Here(svc, Len(Items(svc)))' /\ SourceKept(svc, Len(Items(svc)))'
    <3>1. PICK s, k : s = svc /\ k = Len(Items(s))
      OBVIOUS
    <3>2. Here(s, k)' /\ SourceKept(s, k)'
      BY <1>3, <2>1, <3>1 DEF Result
    <3>3. s = svc' /\ k = Len(Items(svc))'
      BY <2>1, <3>1 DEF Items, Item
    <3> QED BY <3>2, <3>3
  <2>3. ASSUME ~ unseen' PROVE VipsMade(svc, getEndpoints, Len(Items(svc)))'
    <3>1. PICK s, eps, k : s = svc /\ k = Len(Items(s)) /\ eps = getEndpoints
      OBVIOUS
    <3>2. VipsMade(s, eps, k)
      BY <2>1, <2>3, <3>1 DEF Result
    <3>3. s = svc' /\ k = Len(Items(svc))' /\ eps = getEndpoints'
      BY <1>2, <2>1, <3>1 DEF Items, Item
    <3> QED BY <1>4, <2>1, <2>3, <3>2, <3>3
  <2>4. (Present \ Current(svc) \subseteq Left({"stale", "untracked"}))'
    <3>1. Current(svc)' = Current(svc)
      BY <2>1 DEF Current, Items, Item
    <3>2. Present \ Current(svc) \subseteq Left({"stale", "untracked"})
      BY <2>1 DEF Result
    <3> QED BY <1>6, <3>1, <3>2
  <2> QED BY <2>2, <2>3, <2>4 DEF Result
<1>8. Recorded'
  <2>1. queued' = "no" => queued = "no" /\ svc' = svc
    OBVIOUS
  <2>2. Settled' => Settled
    BY DEF Settled
  <2>3. Recorded
    OBVIOUS
  <2>4. (Present \subseteq tracked \cup Left({"stale", "untracked"}))'
    BY <1>6, <2>3 DEF Recorded
  <2>5. (work.pc \in {"detach", "delete"} => Present \subseteq work.left \cup Left({"stale"}))'
    BY <1>6, <2>3 DEF Recorded
  <2>6. (work.pc \in Deleting /\ queued = "no" => svc = NoService)'
    BY <2>1, <2>3 DEF Recorded
  <2>7. (Settled /\ svc = NoService => Present \subseteq Left({"stale"}))'
    <3>1. Settled' => queued' = "no"
      BY DEF Settled
    <3> QED BY <1>6, <2>1, <2>2, <2>3, <3>1 DEF Recorded
  <2> QED BY <2>4, <2>5, <2>6, <2>7 DEF Recorded
<1> QED BY <1>1, <1>5, <1>7, <1>8

\* Nothing there changes for a switch.
LEMMA AttachmentsStay ==
  ASSUME ServiceInv, UNCHANGED <<attached, active, lbs, work>>, excused \subseteq excused'
  PROVE  Attachments'
<1>1. Attaching' = Attaching
  BY DEF Attaching, Doing
<1> QED BY <1>1 DEF ServiceInv, Attachments

LEMMA EditServiceKeeps == ASSUME ServiceInv, EditService PROVE ServiceInv'
<1>1. UNCHANGED <<lbs, tracked, work, conditions, nodes, active, attached, excused>> /\ queued' = "yes"
  BY DEF EditService, Edit
<1>2. work' \in Works /\ Place' /\ Progress' /\ Result' /\ Recorded'
  BY <1>1, CacheKeeps
<1>3. Attachments'
  BY <1>1, AttachmentsStay
<1>4. ServiceTypes'
  BY <1>1, <1>2 DEF EditService, ServiceInv, ServiceTypes
<1> QED BY <1>2, <1>3, <1>4 DEF ServiceInv

LEMMA EditEndpointsKeeps == ASSUME ServiceInv, EditEndpoints PROVE ServiceInv'
<1>1. UNCHANGED <<lbs, tracked, work, svc, nodes, active, attached, excused>> /\ queued' = "yes"
  BY DEF EditEndpoints, Edit
<1>2. work' \in Works /\ Place' /\ Progress' /\ Result' /\ Recorded'
  BY <1>1, CacheKeeps
<1>3. Attachments'
  BY <1>1, AttachmentsStay
<1>4. DOMAIN conditions' \subseteq Endpoint /\ Range(conditions') \subseteq Conditions
  BY DEF EditEndpoints, Range
<1>5. ServiceTypes'
  BY <1>1, <1>2, <1>4 DEF ServiceInv, ServiceTypes
<1> QED BY <1>2, <1>3, <1>5 DEF ServiceInv

LEMMA EditNodesKeeps == ASSUME ServiceInv, EditNodes PROVE ServiceInv'
<1>1. /\ UNCHANGED <<lbs, tracked, work, svc, conditions, active, attached, excused, queued>>
      /\ unseen' = TRUE
  BY DEF EditNodes, Edit
<1>2. work' \in Works /\ Place' /\ Progress' /\ Result' /\ Recorded'
  BY <1>1, CacheKeeps
<1>3. Attachments'
  BY <1>1, AttachmentsStay
<1>4. nodes' \subseteq Node
  BY DEF EditNodes, ServiceInv, ServiceTypes
<1>5. ServiceTypes'
  BY <1>1, <1>2, <1>4 DEF ServiceInv, ServiceTypes
<1> QED BY <1>2, <1>3, <1>5 DEF ServiceInv

LEMMA EditSubnetsKeeps == ASSUME ServiceInv, EditSubnets PROVE ServiceInv'
<1>1. UNCHANGED <<lbs, tracked, work, svc, conditions, nodes, queued, unseen>>
  BY DEF EditSubnets, Edit
<1>2. PICK w \in Switch :
        /\ active' \in {active \cup {w}, active \ {w}}
        /\ active' # active
        /\ attached' = [attached EXCEPT ![w] = {}]
        /\ excused' = IF w \in active THEN excused ELSE Excuse({"attach"}, Present)
  BY DEF EditSubnets
<1>3. excused \subseteq excused' /\ (w \notin active => \A n \in Present : <<"attach", n>> \in excused')
  BY <1>2 DEF Excuse
<1>4. work' \in Works /\ Place' /\ Progress' /\ Result' /\ Recorded'
  BY <1>1, <1>3, CacheKeeps
<1>5. Attachments'
  <2>1. Attaching' = Attaching
    BY <1>1 DEF Attaching, Doing
  <2> SUFFICES ASSUME NEW n \in Names \ Attaching, NEW u \in active',
                      lbs[n].here, <<"attach", n>> \notin excused'
               PROVE  n \in attached'[u]
    BY <1>1, <2>1 DEF Attachments
  <2>2. CASE w \in active
    <3>1. u \in active /\ u # w
      BY <1>2, <2>2
    <3>2. attached'[u] = attached[u]
      BY <1>2, <3>1 DEF ServiceInv, ServiceTypes
    <3> QED BY <1>3, <3>1, <3>2 DEF ServiceInv, Attachments
  <2>3. CASE w \notin active
    BY <1>3, <2>3 DEF Present
  <2> QED BY <2>2, <2>3
<1>6. attached' \in [Switch -> SUBSET Names] /\ active' \subseteq Switch
  BY <1>2 DEF ServiceInv, ServiceTypes
<1>7. excused' \subseteq {"attach", "options", "stale", "untracked"} \X Names
  BY <1>2 DEF Excuse, Present, ServiceInv, ServiceTypes
<1>8. ServiceTypes'
  BY <1>1, <1>4, <1>6, <1>7 DEF ServiceInv, ServiceTypes
<1> QED BY <1>4, <1>5, <1>8 DEF ServiceInv

LEMMA BackoffKeeps == ASSUME ServiceInv, BackoffExpires PROVE ServiceInv'
<1>1. /\ UNCHANGED <<svc, conditions, nodes, active, lbs, attached, tracked, work, excused, unseen>>
      /\ queued' = "yes"
  BY DEF BackoffExpires, cluster, database
<1>2. work' \in Works /\ Place' /\ Progress' /\ Result' /\ Recorded'
  BY <1>1, CacheKeeps
<1>3. Attachments'
  BY <1>1, AttachmentsStay
<1>4. ServiceTypes'
  BY <1>1, <1>2 DEF ServiceInv, ServiceTypes
<1> QED BY <1>2, <1>3, <1>4 DEF ServiceInv

-----------------------------------------------------------------------------
(* The steps of a reconcile.                                               *)

LEMMA ReconcileKeeps == ASSUME ServiceInv, Reconcile PROVE ServiceInv'
<1> USE DEF ServiceInv
<1>1. /\ UNCHANGED <<svc, conditions, nodes, active, lbs, attached, tracked, excused>>
      /\ work = NoWork /\ queued' = "no" /\ unseen' = FALSE
  BY DEF Reconcile, cluster, database
<1>2. Present' = Present /\ \A W : Left(W)' = Left(W)
  BY <1>1 DEF Present, Left
<1>3. Attaching = {} /\ getEndpoints' = getEndpoints /\ getEndpoints \subseteq Endpoint
  BY <1>1 DEF Attaching, NoWork, getEndpoints, ServiceTypes
<1>4. CASE svc = NoService
  <2>1. work' = [NoWork EXCEPT !.pc = "list"]
    BY <1>4 DEF Reconcile, shouldManageService
  <2>2. /\ work' \in Works /\ work'.pc = "list" /\ work'.todo = <<>>
    <3>1. NoWork \in Works /\ NoWork.todo = <<>>
      <4>1. <<>> \in Seq(Calls)
        OBVIOUS
      <4> QED BY <4>1 DEF NoWork, Works
    <3> QED BY <2>1, <3>1 DEF Works, Deleting
  <2>3. ~ Serving' /\ Attaching' = {} /\ Place' /\ Progress'
    BY <2>2 DEF Serving, Ensuring, Attaching, Place, Progress
  <2>4. Result'
    BY <1>1, <1>4, Unsettled
  <2>5. Recorded'
    <3>1. ~ Settled'
      BY <2>2 DEF Settled, NoWork
    <3> QED BY <1>1, <1>2, <1>4, <2>2, <3>1 DEF Recorded
  <2>6. Attachments'
    BY <1>1, <1>3, <2>3 DEF Attachments
  <2>7. ServiceTypes'
    BY <1>1, <2>2 DEF ServiceTypes
  <2> QED BY <2>3, <2>4, <2>5, <2>6, <2>7
<1>5. CASE svc # NoService /\ shouldManageService(svc)
  <2>1. work' = [NoWork EXCEPT !.pc = "ensure", !.svc = svc, !.eps = getEndpoints, !.todo = Items(svc)]
    BY <1>5 DEF Reconcile
  <2>2. svc \in Specs
    BY <1>5 DEF ServiceTypes
  <2>3. /\ Items(svc) \in Seq(Calls) /\ Len(Items(svc)) \in Nat /\ Len(Items(svc)) > 0
    <3>1. svc.ports # <<>>
      BY <1>5, <2>2, ServiceAssumption DEF shouldManageService
    <3> QED BY <2>2, <3>1, ItemsTyped
  <2>4. /\ work'.pc = "ensure" /\ work'.todo = Items(svc) /\ work'.svc = svc
        /\ work'.eps = getEndpoints
    <3> DEFINE its == Items(svc)
    <3> HIDE DEF its
    <3>1. work' = [NoWork EXCEPT !.pc = "ensure", !.svc = svc, !.eps = getEndpoints, !.todo = its]
      BY <2>1 DEF its
    <3> QED BY <3>1 DEF NoWork, its
  <2>5. work' \in Works
    <3>1. work' = [pc |-> "ensure", svc |-> svc, eps |-> getEndpoints, todo |-> Items(svc), left |-> {}]
      BY <2>1 DEF NoWork
    <3> QED BY <1>3, <2>2, <2>3, <3>1 DEF Works, Ensuring
  <2>6. Serving' /\ Attaching' = {}
    BY <2>4 DEF Serving, Ensuring, Attaching
  <2>7. Total' = Len(Items(svc)) /\ Made' = 0
    <3>1. Total' = Len(Items(svc))
      BY <2>4 DEF Total, Items, Item
    <3> QED BY <2>3, <2>4, <3>1 DEF Made
  <2>8. Written' = 0 /\ Optioned' = 0
    BY <2>4, <2>7 DEF Written, Optioned
  <2>9. Place'
    <3>1. work'.todo # <<>>
      BY <2>3, <2>4, EmptySeq
    <3>2. \A i \in 1 .. Len(work'.todo) : work'.todo[i] = Items(work.svc)'[Made' + i]
      <4> SUFFICES ASSUME NEW i \in 1 .. Len(Items(svc)) PROVE work'.todo[i] = Items(work.svc)'[0 + i]
        BY <2>4, <2>7
      <4>1. 0 + i = i
        BY <2>3
      <4>2. Items(work.svc)' = Items(svc)
        BY <2>4 DEF Items, Item
      <4> QED BY <2>4, <4>1, <4>2
    <3>3. shouldManageService(work.svc)'
      BY <1>5, <2>4 DEF shouldManageService
    <3>4. Len(work'.todo) <= Total'
      BY <2>3, <2>4, <2>7
    <3> QED BY <2>4, <3>1, <3>2, <3>3, <3>4 DEF Place, Ensuring
  <2>10. Progress'
    <3>1. Here(work.svc, Written)' /\ SourceKept(work.svc, Optioned)'
         /\ VipsMade(work.svc, work.eps, Written)'
      <4>1. \A i : i \notin 1 .. 0
        OBVIOUS
      <4> QED BY <2>8, <4>1 DEF Here, SourceKept, VipsMade
    <3> QED BY <1>1, <1>3, <2>4, <3>1 DEF Progress
  <2>11. Result'
    BY <2>6, Unsettled
  <2>12. Recorded'
    <3>1. ~ Settled'
      BY <2>4 DEF Settled, NoWork
    <3> QED BY <1>1, <1>2, <2>4, <3>1 DEF Recorded, Deleting
  <2>13. Attachments'
    BY <1>1, <1>3, <2>6 DEF Attachments
  <2>14. ServiceTypes'
    BY <1>1, <2>5 DEF ServiceTypes
  <2> QED BY <2>9, <2>10, <2>11, <2>12, <2>13, <2>14
<1>6. CASE svc # NoService /\ ~ shouldManageService(svc)
  <2>1. work' = NoWork
    BY <1>6 DEF Reconcile
  <2>2. work' \in Works /\ work'.pc = "idle" /\ Place' /\ Progress' /\ Attaching' = {}
    BY <2>1, Stops
  <2>3. Result'
    BY <1>1, <1>6 DEF Result, Managed, shouldManageService
  <2>4. Recorded'
    BY <1>1, <1>2, <1>6, <2>2 DEF Recorded, Deleting
  <2>5. Attachments'
    BY <1>1, <1>3, <2>2 DEF Attachments
  <2>6. ServiceTypes'
    BY <1>1, <2>2 DEF ServiceTypes
  <2> QED BY <2>2, <2>3, <2>4, <2>5, <2>6
<1> QED BY <1>4, <1>5, <1>6

\* A reconcile of s from eps is at item k + 1, and n is the name in it.
Reached(s, eps, k, n) ==
  /\ s = work.svc /\ eps = work.eps /\ k = Made /\ n = Doing.name
  /\ k + 1 \in 1 .. Len(Items(s)) /\ k \in 0 .. Len(Items(s))
  /\ Doing = Items(s)[k + 1] /\ n = Items(s)[k + 1].name /\ n \in Current(s)
  /\ Serving
  /\ Here(s, Written) /\ SourceKept(s, Optioned)
  /\ Written = k + (IF work.pc = "ensure" THEN 0 ELSE 1)
  /\ Optioned = k + (IF work.pc = "attach" THEN 1 ELSE 0)

\* Where a reconcile is, with names that do not change for what it works from.
LEMMA Underway ==
  ASSUME ServiceInv, work.pc \in Ensuring
  PROVE  \E s \in Specs, eps \in SUBSET Endpoint, k \in Nat, n \in Names : Reached(s, eps, k, n)
<1> USE DEF ServiceInv
<1>1. work.pc \in {"ensure", "options", "attach"}
  BY DEF Ensuring
<1>2. Written = Made + (IF work.pc = "ensure" THEN 0 ELSE 1)
  BY <1>1 DEF Written
<1>3. Here(work.svc, Written) /\ SourceKept(work.svc, Optioned)
  BY AtItem DEF Progress
<1>4. Made \in 0 .. Len(Items(work.svc))
  BY AtItem
<1>5. Optioned = Made + (IF work.pc = "attach" THEN 1 ELSE 0)
  BY DEF Optioned
<1>6. work.eps \in SUBSET Endpoint
  BY WorkFields
<1>7. work.svc \in Specs /\ Made \in Nat /\ Doing.name \in Names
  BY AtItem
<1> USE <1>6, <1>7
<1> WITNESS work.svc \in Specs, work.eps \in SUBSET Endpoint, Made \in Nat, Doing.name \in Names
<1> QED BY <1>2, <1>3, <1>4, <1>5, AtItem DEF Reached

\* A reconcile that fails leaves the rows and their records sound.
LEMMA FailKeeps ==
  ASSUME ServiceInv, Serving, Fail, UNCHANGED <<svc, conditions, nodes, active, tracked>>,
         lbs' = [m \in Names |-> lbs'[m]], \A m \in Names : IsRow(lbs'[m]),
         attached' \in [Switch -> SUBSET Names],
         excused' \subseteq {"attach", "options", "stale", "untracked"} \X Names,
         Present' \subseteq tracked \cup Left({"stale", "untracked"})'
  PROVE  ServiceTypes' /\ Place' /\ Progress' /\ Result' /\ Recorded' /\ Attaching' = {}
<1>1. /\ work' = NoWork /\ queued' \in {"yes", "backoff"} /\ Result'
  BY Fails DEF ServiceInv
<1>2. work' \in Works /\ work'.pc = "idle" /\ Place' /\ Progress' /\ Attaching' = {}
  BY <1>1, Stops
<1>3. Recorded'
  BY <1>1, <1>2 DEF Recorded, Deleting, Settled
<1>4. ServiceTypes'
  BY <1>1, <1>2 DEF ServiceInv, ServiceTypes
<1> QED BY <1>1, <1>2, <1>3, <1>4

LEMMA UpdateKeeps == ASSUME ServiceInv, UpdateLB PROVE ServiceInv'
<1> USE DEF ServiceInv, Reached
<1>1. /\ UNCHANGED <<svc, conditions, nodes, active, attached, unseen>>
      /\ work.pc = "ensure" /\ work.pc \in Ensuring /\ lbs[Doing.name].here
  BY DEF UpdateLB, cluster, Ensuring
<1>2. PICK s \in Specs, eps \in SUBSET Endpoint, k \in Nat, n \in Names : Reached(s, eps, k, n)
  BY <1>1, Underway
<1> DEFINE v == Vips(s, eps, Items(s)[k + 1])
<1> DEFINE new == SetVips(n, v)
<1>3. /\ new = [m \in Names |-> new[m]] /\ \A m \in Names : IsRow(new[m])
      /\ \A m \in Names : new[m].here = lbs[m].here /\ new[m].skipSNAT = lbs[m].skipSNAT
      /\ \A m \in Names \ {n} : new[m] = lbs[m]
      /\ new[n].vips = v
  BY VipsChange
<1> HIDE DEF new
<1>4. Attaching = {}
  BY <1>1 DEF Attaching
<1>5. Written = k /\ Optioned = k
  BY <1>1, <1>2
<1>6. SetVips(Doing.name, Vips(work.svc, work.eps, Doing)) = new
  BY <1>2 DEF new
<1>7. CASE /\ Done(new) /\ tracked' = tracked \cup {n}
           /\ excused' = excused \ ({"stale", "untracked"} \X {n})
           /\ Goto(IF SkipsSNAT(work.svc, Doing) THEN [work EXCEPT !.pc = "options"] ELSE Advance)
  <2>1. lbs' = new /\ queued' = queued
    BY <1>7 DEF Done, Goto
  <2>2. /\ work' \in Works /\ Place' /\ Serving' /\ work'.svc = s /\ work'.eps = eps
        /\ Written' = k + 1 /\ Attaching' = {} /\ work'.pc \notin Deleting
        /\ Optioned' = k + (IF SkipsSNAT(s, Items(s)[k + 1]) THEN 0 ELSE 1)
    <3>1. CASE SkipsSNAT(work.svc, Doing)
      <4>1. work' = [work EXCEPT !.pc = "options"] /\ lbs'[Doing.name].here
        BY <1>1, <1>2, <1>3, <1>7, <2>1, <3>1 DEF Goto
      <4>2. /\ work' \in Works /\ Place' /\ Serving'
            /\ work'.pc = "options" /\ work'.svc = work.svc /\ work'.eps = work.eps
            /\ Written' = Made + 1 /\ Optioned' = Made + (IF "options" = "attach" THEN 1 ELSE 0)
            /\ Attaching' = IF "options" = "attach" THEN {Doing.name} ELSE {}
        BY <1>1, <4>1, Phases
      <4> QED BY <1>2, <3>1, <4>2 DEF Deleting
    <3>2. CASE ~ SkipsSNAT(work.svc, Doing)
      <4>1. work' = Advance
        BY <1>7, <3>2 DEF Goto
      <4> QED BY <1>1, <1>2, <3>2, <4>1, Advances DEF Deleting
    <3> QED BY <3>1, <3>2
  <2>3. Here(s, k + 1)'
    <3>1. \A m \in Current(s) : lbs[m].here => lbs'[m].here
      BY <1>3, <2>1, ItemsTyped
    <3>2. Here(s, k)'
      BY <1>2, <1>5, <3>1, HereKept
    <3>3. lbs'[Items(s)[k + 1].name].here
      BY <1>1, <1>2, <1>3, <2>1
    <3> QED BY <3>2, <3>3, HereExtended
  <2> DEFINE o == k + (IF SkipsSNAT(s, Items(s)[k + 1]) THEN 0 ELSE 1)
  <2>4. SourceKept(s, o)'
    <3>1. \A m \in Current(s) :
            m[2] = "nodeport" /\ s.local /\ (lbs[m].skipSNAT \/ <<"options", m>> \in excused) =>
              lbs'[m].skipSNAT \/ <<"options", m>> \in excused'
      BY <1>3, <1>7, <2>1, ItemsTyped
    <3>2. SourceKept(s, k)'
      BY <1>2, <1>5, <3>1, SourceStays
    <3>3. CASE SkipsSNAT(s, Items(s)[k + 1])
      <4>1. o = k
        BY <3>3
      <4> HIDE DEF o
      <4> QED BY <3>2, <4>1
    <3>4. CASE ~ SkipsSNAT(s, Items(s)[k + 1])
      <4>1. SourceKept(s, k + 1)'
        BY <3>2, <3>4, SourceExtended
      <4>2. o = k + 1
        BY <3>4
      <4> HIDE DEF o
      <4> QED BY <4>1, <4>2
    <3> QED BY <3>3, <3>4
  <2>5. VipsMade(s, eps, Written) => VipsMade(s, eps, k + 1)'
    <3>1. /\ \A m \in Current(s) \ {Items(s)[k + 1].name} : lbs'[m].vips = lbs[m].vips
          /\ lbs'[Items(s)[k + 1].name].vips = v
      BY <1>2, <1>3, <2>1, ItemsTyped
    <3> QED BY <1>1, <1>2, <1>5, <3>1, VipsExtended
  <2>6. Progress'
    <3>1. o = Optioned' /\ k + 1 = Written'
      BY <2>2
    <3> HIDE DEF o
    <3> QED BY <1>1, <1>2, <2>1, <2>2, <2>3, <2>4, <2>5, <3>1, ProgressGoes DEF cluster
  <2>7. Present' = Present
    BY <1>3, <2>1 DEF Present
  <2>8. Result' /\ ~ Settled'
    BY <2>2, Unsettled DEF Settled, Serving, NoWork, Ensuring
  <2>9. Recorded'
    <3>1. Left({"stale", "untracked"}) \ {n} \subseteq Left({"stale", "untracked"})'
      BY <1>7 DEF Left, ServiceTypes
    <3>2. (Present \subseteq tracked \cup Left({"stale", "untracked"}))'
      BY <1>7, <2>7, <3>1 DEF Recorded
    <3> QED BY <2>2, <2>8, <3>2 DEF Recorded, Deleting
  <2>10. Attachments'
    <3>1. \A m \in Names : <<"attach", m>> \notin excused' => <<"attach", m>> \notin excused
      BY <1>7
    <3> QED BY <1>1, <1>3, <1>4, <2>1, <2>2, <3>1 DEF Attachments
  <2>11. ServiceTypes'
    <3>1. tracked' \subseteq Names /\ excused' \subseteq {"attach", "options", "stale", "untracked"} \X Names
      BY <1>7 DEF ServiceTypes
    <3>2. lbs' = [m \in Names |-> lbs'[m]] /\ \A m \in Names : IsRow(lbs'[m])
      BY <1>3, <2>1
    <3> QED BY <1>1, <2>1, <2>2, <3>1, <3>2 DEF ServiceTypes
  <2> QED BY <2>2, <2>6, <2>8, <2>9, <2>10, <2>11
<1>8. CASE Failed(new) /\ Fail /\ UNCHANGED <<tracked, excused>>
  <2>1. lbs' \in {lbs, new}
    BY <1>8 DEF Failed
  <2>2. /\ lbs' = [m \in Names |-> lbs'[m]] /\ \A m \in Names : IsRow(lbs'[m])
        /\ \A m \in Names : lbs'[m].here = lbs[m].here
    BY <1>3, <2>1 DEF ServiceTypes
  <2>3. Present' = Present
    BY <2>2 DEF Present
  <2>4. Left({"stale", "untracked"})' = Left({"stale", "untracked"})
    BY <1>8 DEF Left
  <2>5. ServiceTypes' /\ Place' /\ Progress' /\ Result' /\ Recorded' /\ Attaching' = {}
    <3>1. attached' \in [Switch -> SUBSET Names]
          /\ excused' \subseteq {"attach", "options", "stale", "untracked"} \X Names
      BY <1>1, <1>8 DEF ServiceTypes
    <3>2. Present' \subseteq tracked \cup Left({"stale", "untracked"})'
      BY <2>3, <2>4 DEF Recorded
    <3> QED BY <1>1, <1>2, <1>8, <2>2, <3>1, <3>2, FailKeeps
  <2>6. Attachments'
    BY <1>1, <1>4, <1>8, <2>2, <2>5 DEF Attachments
  <2> QED BY <2>5, <2>6
<1> QED BY <1>2, <1>6, <1>7, <1>8 DEF UpdateLB

LEMMA SetOptionsKeeps == ASSUME ServiceInv, SetOptions PROVE ServiceInv'
<1> USE DEF ServiceInv, Reached
<1>1. /\ UNCHANGED <<svc, conditions, nodes, active, attached, tracked, queued, unseen>>
      /\ work.pc = "options" /\ work.pc \in Ensuring /\ work' = Advance
  BY DEF SetOptions, cluster, Ensuring, Goto
<1>2. PICK s \in Specs, eps \in SUBSET Endpoint, k \in Nat, n \in Names : Reached(s, eps, k, n)
  BY <1>1, Underway
<1> DEFINE new == [lbs EXCEPT ![n].skipSNAT = TRUE]
<1>3. /\ new = [m \in Names |-> new[m]] /\ \A m \in Names : IsRow(new[m])
      /\ \A m \in Names : /\ new[m].here = lbs[m].here /\ new[m].vips = lbs[m].vips
                          /\ lbs[m].skipSNAT => new[m].skipSNAT
      /\ new[n].skipSNAT
  BY OptionChange
<1>4. \/ lbs' = new /\ excused' = excused \ {<<"options", n>>}
      \/ lbs' \in {lbs, new} /\ excused' = excused \cup {<<"options", n>>}
  BY <1>2 DEF SetOptions, Done, Failed, Excuse
<1> HIDE DEF new
<1>5. /\ lbs' = [m \in Names |-> lbs'[m]] /\ \A m \in Names : IsRow(lbs'[m])
      /\ \A m \in Names : /\ lbs'[m].here = lbs[m].here /\ lbs'[m].vips = lbs[m].vips
                          /\ lbs[m].skipSNAT => lbs'[m].skipSNAT
      /\ lbs'[n].skipSNAT \/ <<"options", n>> \in excused'
      /\ \A m \in Names : <<"options", m>> \in excused =>
           lbs'[m].skipSNAT \/ <<"options", m>> \in excused'
  <2>1. CASE lbs' = new
    BY <1>3, <1>4, <2>1
  <2>2. CASE lbs' = lbs /\ excused' = excused \cup {<<"options", n>>}
    BY <2>2 DEF ServiceTypes
  <2> QED BY <1>4, <2>1, <2>2
<1>6. \A what \in {"attach", "stale", "untracked"}, m \in Names :
        <<what, m>> \in excused' <=> <<what, m>> \in excused
  BY <1>4
<1>7. excused' \subseteq {"attach", "options", "stale", "untracked"} \X Names
  BY <1>4 DEF ServiceTypes
<1>8. Present' = Present /\ Left({"stale", "untracked"}) \subseteq Left({"stale", "untracked"})'
  <2>1. Present' = Present
    BY <1>5 DEF Present
  <2>2. ASSUME NEW x \in excused, x[1] \in {"stale", "untracked"} PROVE x \in excused'
    <3>1. x = <<x[1], x[2]>> /\ x[2] \in Names
      BY DEF ServiceTypes
    <3> QED BY <1>6, <2>2, <3>1
  <2> QED BY <2>1, <2>2 DEF Left
<1>9. /\ work' \in Works /\ Place' /\ Serving' /\ work'.pc \in {"ensure", "cleanup"}
      /\ work'.svc = s /\ work'.eps = eps
      /\ Written' = k + 1 /\ Optioned' = k + 1 /\ Attaching' = {}
  BY <1>1, <1>2, Advances
<1>10. Progress'
  <2>1. Written = k + 1 /\ Optioned = k
    BY <1>1, <1>2
  <2>2. Here(s, k + 1)'
    <3>1. \A m \in Current(s) : lbs[m].here => lbs'[m].here
      BY <1>5, ItemsTyped
    <3>2. k + 1 \in 0 .. Len(Items(s))
      BY <1>2
    <3> QED BY <1>2, <2>1, <3>1, <3>2, HereKept
  <2>3. SourceKept(s, k + 1)'
    <3>1. \A m \in Current(s) :
            m[2] = "nodeport" /\ s.local /\ (lbs[m].skipSNAT \/ <<"options", m>> \in excused) =>
              lbs'[m].skipSNAT \/ <<"options", m>> \in excused'
      BY <1>5, ItemsTyped
    <3>2. SourceKept(s, k)'
      BY <1>2, <2>1, <3>1, SourceStays
    <3> QED BY <1>2, <1>5, <3>2, SourceExtended
  <2>4. VipsMade(s, eps, k + 1) => VipsMade(s, eps, k + 1)'
    <3>1. \A m \in Current(s) : lbs'[m].vips = lbs[m].vips
      BY <1>5, ItemsTyped
    <3>2. k + 1 \in 0 .. Len(Items(s))
      BY <1>2
    <3> QED BY <1>1, <3>1, <3>2, VipsStay
  <2> QED BY <1>1, <1>2, <1>9, <2>1, <2>2, <2>3, <2>4, ProgressGoes DEF cluster
<1>11. Result' /\ ~ Settled'
  BY <1>9, Unsettled DEF Settled, Serving, NoWork, Ensuring
<1>12. Recorded'
  <2>1. (Present \subseteq tracked \cup Left({"stale", "untracked"}))'
    BY <1>1, <1>8 DEF Recorded
  <2> QED BY <1>9, <1>11, <2>1 DEF Recorded, Deleting
<1>13. Attachments'
  <2>1. Attaching = {}
    BY <1>1 DEF Attaching
  <2> QED BY <1>1, <1>5, <1>6, <1>9, <2>1 DEF Attachments
<1>14. ServiceTypes'
  BY <1>1, <1>5, <1>7, <1>9 DEF ServiceTypes
<1> QED BY <1>9, <1>10, <1>11, <1>12, <1>13, <1>14

LEMMA AttachKeeps == ASSUME ServiceInv, attachToSwitches PROVE ServiceInv'
<1> USE DEF ServiceInv, Reached
<1>1. /\ UNCHANGED <<svc, conditions, nodes, active, lbs, tracked, queued, unseen>>
      /\ work.pc = "attach" /\ work.pc \in Ensuring /\ work' = Advance
  BY DEF attachToSwitches, cluster, Ensuring, Goto
<1>2. PICK s \in Specs, eps \in SUBSET Endpoint, k \in Nat, n \in Names : Reached(s, eps, k, n)
  BY <1>1, Underway
<1>3. PICK W \in SUBSET active : /\ attached' = With(n, W)
                                 /\ \/ W = active /\ excused' = excused
                                    \/ excused' = excused \cup {<<"attach", n>>}
  BY <1>2 DEF attachToSwitches, Excuse
<1>4. /\ attached' \in [Switch -> SUBSET Names]
      /\ \A w \in Switch : attached[w] \subseteq attached'[w]
      /\ \A w \in W : n \in attached'[w]
  BY <1>3 DEF With, ServiceTypes
<1>5. /\ excused \subseteq excused'
      /\ excused' \subseteq {"attach", "options", "stale", "untracked"} \X Names
  BY <1>3 DEF ServiceTypes
<1>6. Present' = Present /\ Left({"stale", "untracked"}) \subseteq Left({"stale", "untracked"})'
  BY <1>1, <1>5 DEF Present, Left
<1>7. /\ work' \in Works /\ Place' /\ Serving' /\ work'.pc \in {"ensure", "cleanup"}
      /\ work'.svc = s /\ work'.eps = eps
      /\ Written' = k + 1 /\ Optioned' = k + 1 /\ Attaching' = {}
  BY <1>1, <1>2, Advances
<1>8. Progress'
  <2>1. Written = k + 1 /\ Optioned = k + 1
    BY <1>1, <1>2
  <2>2. k + 1 \in 0 .. Len(Items(s))
    BY <1>2
  <2>3. Here(s, k + 1)'
    BY <1>1, <1>2, <2>1, <2>2, HereKept
  <2>4. SourceKept(s, k + 1)'
    BY <1>1, <1>2, <1>5, <2>1, <2>2, SourceStays
  <2>5. VipsMade(s, eps, k + 1) => VipsMade(s, eps, k + 1)'
    BY <1>1, <2>2, VipsStay
  <2> QED BY <1>1, <1>2, <1>7, <2>1, <2>3, <2>4, <2>5, ProgressGoes DEF cluster
<1>9. Result' /\ ~ Settled'
  BY <1>7, Unsettled DEF Settled, Serving, NoWork, Ensuring
<1>10. Recorded'
  <2>1. (Present \subseteq tracked \cup Left({"stale", "untracked"}))'
    BY <1>1, <1>6 DEF Recorded
  <2> QED BY <1>7, <1>9, <2>1 DEF Recorded, Deleting
<1>11. Attachments'
  <2> SUFFICES ASSUME NEW m \in Names, NEW w \in active, lbs[m].here, <<"attach", m>> \notin excused'
               PROVE  m \in attached'[w]
    BY <1>1 DEF Attachments
  <2>1. w \in Switch
    BY DEF ServiceTypes
  <2>2. CASE m = n
    BY <1>3, <1>4, <2>2
  <2>3. CASE m # n
    <3>1. m \notin Attaching
      BY <1>1, <1>2, <2>3 DEF Attaching
    <3> QED BY <1>4, <1>5, <2>1, <3>1 DEF Attachments
  <2> QED BY <2>2, <2>3
<1>12. ServiceTypes'
  BY <1>1, <1>4, <1>5, <1>7 DEF ServiceTypes
<1> QED BY <1>7, <1>8, <1>9, <1>10, <1>11, <1>12

LEMMA CreateKeeps == ASSUME ServiceInv, CreateLB PROVE ServiceInv'
<1> USE DEF ServiceInv, Reached
<1>1. /\ UNCHANGED <<svc, conditions, nodes, active, attached, unseen>>
      /\ work.pc = "ensure" /\ work.pc \in Ensuring /\ ~ lbs[Doing.name].here
  BY DEF CreateLB, cluster, Ensuring
<1>2. PICK s \in Specs, eps \in SUBSET Endpoint, k \in Nat, n \in Names : Reached(s, eps, k, n)
  BY <1>1, Underway
<1> DEFINE v == Vips(s, eps, Items(s)[k + 1])
<1> DEFINE b == SkipsSNAT(s, Items(s)[k + 1])
<1> DEFINE new == [lbs EXCEPT ![n] = [vips |-> v, skipSNAT |-> b, here |-> TRUE]]
<1>3. b \in BOOLEAN
  BY Zenon DEF SkipsSNAT
<1>4. /\ new = [m \in Names |-> new[m]] /\ \A m \in Names : IsRow(new[m])
      /\ \A m \in Names \ {n} : new[m] = lbs[m]
      /\ new[n].here /\ new[n].vips = v /\ new[n].skipSNAT = b
  <2> HIDE DEF b, v
  <2> QED BY <1>3, RowCreated
<1>5. Attaching = {} /\ Written = k /\ Optioned = k
  BY <1>1, <1>2 DEF Attaching
<1>6. [lbs EXCEPT ![Doing.name] = [vips |-> Vips(work.svc, work.eps, Doing),
                                    skipSNAT |-> SkipsSNAT(work.svc, Doing), here |-> TRUE]] = new
  BY <1>2
<1> HIDE DEF new
<1>7. /\ \A m \in Names : lbs[m].here => new[m].here
      /\ \A m \in Names : new[m].here => m = n \/ lbs[m].here
  BY <1>4
<1>8. CASE /\ Done(new) /\ tracked' = tracked \cup {n} /\ excused' = Cleared({n})
           /\ Goto([work EXCEPT !.pc = "attach"])
  <2>1. lbs' = new /\ queued' = queued /\ work' = [work EXCEPT !.pc = "attach"]
    BY <1>8 DEF Done, Goto
  <2>2. /\ work' \in Works /\ Place' /\ Serving' /\ work'.pc = "attach"
        /\ work'.svc = s /\ work'.eps = eps /\ Written' = k + 1 /\ Optioned' = k + 1
        /\ Attaching' = {n}
    <3>1. lbs'[Doing.name].here
      BY <1>2, <1>4, <2>1
    <3>2. /\ work' \in Works /\ Place' /\ Serving'
          /\ work'.pc = "attach" /\ work'.svc = work.svc /\ work'.eps = work.eps
          /\ Written' = Made + 1 /\ Optioned' = Made + (IF "attach" = "attach" THEN 1 ELSE 0)
          /\ Attaching' = IF "attach" = "attach" THEN {Doing.name} ELSE {}
      BY <1>1, <2>1, <3>1, Phases
    <3> QED BY <1>2, <3>2
  <2>3. Here(s, k + 1)'
    <3>1. \A m \in Current(s) : lbs[m].here => lbs'[m].here
      BY <1>7, <2>1, ItemsTyped
    <3>2. Here(s, k)'
      BY <1>2, <1>5, <3>1, HereKept
    <3>3. lbs'[Items(s)[k + 1].name].here
      BY <1>2, <1>4, <2>1
    <3> QED BY <3>2, <3>3, HereExtended
  <2>4. SourceKept(s, k + 1)'
    <3>1. n[2] = "nodeport" /\ s.local => b
      BY <1>2 DEF SkipsSNAT
    <3>2. \A m \in Names \ {n} : <<"options", m>> \in excused => <<"options", m>> \in excused'
      BY <1>8 DEF Cleared
    <3>3. ASSUME NEW m \in Current(s), m[2] = "nodeport" /\ s.local,
                 lbs[m].skipSNAT \/ <<"options", m>> \in excused
          PROVE  lbs'[m].skipSNAT \/ <<"options", m>> \in excused'
      <4>1. CASE m = n
        BY <1>4, <2>1, <3>1, <3>3, <4>1
      <4>2. CASE m # n
        <5>1. m \in Names \ {n}
          BY <4>2, ItemsTyped
        <5>2. lbs'[m] = lbs[m]
          BY <1>4, <2>1, <5>1
        <5> QED BY <3>2, <3>3, <5>1, <5>2
      <4> QED BY <4>1, <4>2
    <3>4. SourceKept(s, k)'
      BY <1>2, <1>5, <3>3, SourceStays
    <3>5. b => lbs'[Items(s)[k + 1].name].skipSNAT
      BY <1>2, <1>4, <2>1
    <3> QED BY <3>4, <3>5, SourceExtended
  <2>5. VipsMade(s, eps, Written) => VipsMade(s, eps, k + 1)'
    <3>1. /\ \A m \in Current(s) \ {Items(s)[k + 1].name} : lbs'[m].vips = lbs[m].vips
          /\ lbs'[Items(s)[k + 1].name].vips = v
      BY <1>2, <1>4, <2>1, ItemsTyped
    <3> QED BY <1>1, <1>2, <1>5, <3>1, VipsExtended
  <2>6. Progress'
    BY <1>1, <1>2, <2>1, <2>2, <2>3, <2>4, <2>5, ProgressGoes DEF cluster
  <2>7. Present' \subseteq Present \cup {n}
    BY <1>7, <2>1 DEF Present
  <2>8. Result' /\ ~ Settled'
    BY <2>2, Unsettled DEF Settled, Serving, NoWork, Ensuring
  <2>9. Recorded'
    <3>1. Left({"stale", "untracked"}) \ {n} \subseteq Left({"stale", "untracked"})'
      BY <1>8 DEF Left, Cleared
    <3>2. (Present \subseteq tracked \cup Left({"stale", "untracked"}))'
      BY <1>8, <2>7, <3>1 DEF Recorded
    <3> QED BY <2>2, <2>8, <3>2 DEF Recorded, Deleting
  <2>10. Attachments'
    <3> SUFFICES ASSUME NEW m \in Names \ {n}, NEW w \in active,
                        lbs'[m].here, <<"attach", m>> \notin excused'
                 PROVE  m \in attached[w]
      BY <1>1, <2>2 DEF Attachments
    <3>1. <<"attach", m>> \notin excused
      BY <1>8 DEF Cleared
    <3> QED BY <1>5, <1>7, <2>1, <3>1 DEF Attachments
  <2>11. ServiceTypes'
    <3>1. tracked' \subseteq Names /\ excused' \subseteq {"attach", "options", "stale", "untracked"} \X Names
      BY <1>8 DEF ServiceTypes, Cleared
    <3>2. lbs' = [m \in Names |-> lbs'[m]] /\ \A m \in Names : IsRow(lbs'[m])
      BY <1>4, <2>1
    <3> QED BY <1>1, <2>1, <2>2, <3>1, <3>2 DEF ServiceTypes
  <2> QED BY <2>2, <2>6, <2>8, <2>9, <2>10, <2>11
<1>9. CASE /\ Failed(new) /\ Fail /\ UNCHANGED tracked
           /\ excused' = IF lbs' = lbs THEN excused ELSE Excuse({"attach", "untracked"}, {n})
  <2>1. lbs' \in {lbs, new}
    BY <1>9 DEF Failed
  <2>2. /\ excused \subseteq excused'
        /\ lbs' # lbs => <<"attach", n>> \in excused' /\ <<"untracked", n>> \in excused'
        /\ excused' \subseteq {"attach", "options", "stale", "untracked"} \X Names
    BY <1>9 DEF Excuse, ServiceTypes
  <2>3. lbs' = [m \in Names |-> lbs'[m]] /\ \A m \in Names : IsRow(lbs'[m])
    BY <1>4, <2>1 DEF ServiceTypes
  <2>4. Present' \subseteq tracked \cup Left({"stale", "untracked"})'
    <3>1. Left({"stale", "untracked"}) \subseteq Left({"stale", "untracked"})'
      BY <2>2 DEF Left
    <3>2. Present \subseteq tracked \cup Left({"stale", "untracked"})
      BY DEF Recorded
    <3>3. CASE lbs' = lbs
      BY <3>1, <3>2, <3>3 DEF Present
    <3>4. CASE lbs' # lbs
      <4>1. n \in Left({"stale", "untracked"})'
        BY <2>2, <3>4 DEF Left
      <4>2. Present' \subseteq Present \cup {n}
        BY <1>7, <2>1, <3>4 DEF Present
      <4> QED BY <3>1, <3>2, <4>1, <4>2
    <3> QED BY <3>3, <3>4
  <2>5. ServiceTypes' /\ Place' /\ Progress' /\ Result' /\ Recorded' /\ Attaching' = {}
    <3>1. attached' \in [Switch -> SUBSET Names]
      BY <1>1 DEF ServiceTypes
    <3> QED BY <1>1, <1>2, <1>9, <2>2, <2>3, <2>4, <3>1, FailKeeps
  <2>6. Attachments'
    <3> SUFFICES ASSUME NEW m \in Names, NEW w \in active,
                        lbs'[m].here, <<"attach", m>> \notin excused'
                 PROVE  m \in attached[w]
      BY <1>1, <2>5 DEF Attachments
    <3>1. lbs[m].here
      BY <1>7, <2>1, <2>2
    <3> QED BY <1>5, <2>2, <3>1 DEF Attachments
  <2> QED BY <2>5, <2>6
<1> QED BY <1>2, <1>6, <1>8, <1>9 DEF CreateLB

-----------------------------------------------------------------------------
(* The steps that delete.                                                  *)

LEMMA InLeft ==
  ASSUME NEW W, NEW what \in W, NEW n, <<what, n>> \in excused'
  PROVE  n \in Left(W)'
<1>1. <<what, n>>[1] = what /\ <<what, n>>[2] = n
  OBVIOUS
<1> QED BY <1>1 DEF Left

\* Some of the rows are deleted, and what is left of them is excused.
LEMMA DeleteSome ==
  ASSUME ServiceInv, NEW N \in SUBSET Names, DeleteAll(N)
  PROVE  /\ lbs' = [m \in Names |-> lbs'[m]] /\ \A m \in Names : IsRow(lbs'[m])
         /\ \A m \in Names \ N : /\ lbs'[m] = lbs[m]
                                /\ \A what : <<what, m>> \in excused' <=> <<what, m>> \in excused
         /\ attached' \in [Switch -> SUBSET Names]
         /\ \A m \in Names, w \in Switch :
              lbs'[m].here => lbs[m].here /\ (m \in attached[w] => m \in attached'[w])
         /\ \A m \in Names : lbs'[m].here /\ <<"attach", m>> \notin excused' => <<"attach", m>> \notin excused
         /\ \A m \in N : lbs'[m].here => <<"stale", m>> \in excused'
         /\ excused' \subseteq {"attach", "options", "stale", "untracked"} \X Names
         /\ Present' \subseteq Present
         /\ \A W : Left(W) \cap Present' \subseteq Left(W)'
<1> USE DEF ServiceInv
<1>1. PICK D \in SUBSET N :
        /\ Delete(D)
        /\ excused' = Cleared(D) \cup ({"stale"} \X ((N \ D) \cap Present))
  <2>1. CASE Delete(N) /\ excused' = Cleared(N)
    <3>1. (N \ N) \cap Present = {}
      OBVIOUS
    <3>2. excused' = Cleared(N) \cup ({"stale"} \X ((N \ N) \cap Present))
      BY <2>1, <3>1
    <3> QED BY <2>1, <3>2
  <2>2. CASE \E D \in SUBSET N :
               /\ Delete(D)
               /\ excused' = Cleared(D) \cup ({"stale"} \X ((N \ D) \cap Present))
    BY <2>2
  <2> QED BY <2>1, <2>2 DEF DeleteAll
<1>2. /\ lbs' = [m \in Names |-> lbs'[m]] /\ \A m \in Names : IsRow(lbs'[m])
      /\ \A m \in D : ~ lbs'[m].here
      /\ \A m \in Names \ D : lbs'[m] = lbs[m]
      /\ attached' \in [Switch -> SUBSET Names]
      /\ \A w \in Switch : attached'[w] = attached[w] \ D
      /\ Present' = Present \ D
  BY <1>1, RowsDeleted
<1>3. \A m \in Names \ N : \A what : <<what, m>> \in excused' <=> <<what, m>> \in excused
  BY <1>1 DEF Cleared
<1>4. \A m \in Names \ D : \A what : <<what, m>> \in excused => <<what, m>> \in excused'
  BY <1>1 DEF Cleared
<1>5. excused' \subseteq {"attach", "options", "stale", "untracked"} \X Names
  BY <1>1 DEF Cleared, ServiceTypes
<1>6. ASSUME NEW m \in N, lbs'[m].here PROVE <<"stale", m>> \in excused'
  <2>1. m \notin D
    BY <1>2, <1>6
  <2>2. m \in Present
    BY <1>2, <1>6, <2>1 DEF Present
  <2> QED BY <1>1, <2>1, <2>2
<1>7. ASSUME NEW W, NEW m \in Left(W) \cap Present' PROVE m \in Left(W)'
  <2>1. PICK x \in excused : x[1] \in W /\ m = x[2]
    BY DEF Left
  <2>2. m \notin D
    BY <1>2
  <2>3. x \in excused'
    BY <1>1, <2>1, <2>2 DEF Cleared
  <2> QED BY <2>1, <2>3 DEF Left
<1>8. \A m \in Names, w \in Switch :
        lbs'[m].here => lbs[m].here /\ (m \in attached[w] => m \in attached'[w])
  BY <1>2
<1>9. \A m \in Names : lbs'[m].here /\ <<"attach", m>> \notin excused' => <<"attach", m>> \notin excused
  BY <1>2, <1>4
<1>10. \A m \in Names \ N : lbs'[m] = lbs[m]
  BY <1>2
<1>11. Present' \subseteq Present
  BY <1>2
<1> QED BY <1>2, <1>3, <1>5, <1>6, <1>7, <1>8, <1>9, <1>10, <1>11

\* A step that deletes rows leaves the rest where it has to be.
LEMMA DeletionAttachments ==
  ASSUME ServiceInv, NEW N \in SUBSET Names, DeleteAll(N), UNCHANGED active,
         Attaching = {}
  PROVE  Attachments'
<1> SUFFICES ASSUME NEW n \in Names, NEW w \in active, lbs'[n].here, <<"attach", n>> \notin excused'
             PROVE  n \in attached'[w]
  BY DEF Attachments
<1>1. w \in Switch
  BY DEF ServiceInv, ServiceTypes
<1>2. lbs[n].here /\ <<"attach", n>> \notin excused /\ (n \in attached[w] => n \in attached'[w])
  BY <1>1, DeleteSome
<1> QED BY <1>2 DEF ServiceInv, Attachments

LEMMA CleanupKeeps == ASSUME ServiceInv, cleanupStale PROVE ServiceInv'
<1> USE DEF ServiceInv
<1>1. /\ UNCHANGED <<svc, conditions, nodes, active, tracked, queued, unseen>>
      /\ work.pc = "cleanup" /\ DeleteAll(Stale) /\ work' = NoWork
  BY DEF cleanupStale, cluster, Goto
<1>2. Stale \in SUBSET Names
  BY DEF Stale, ServiceTypes
<1>3. /\ lbs' = [m \in Names |-> lbs'[m]] /\ \A m \in Names : IsRow(lbs'[m])
      /\ \A m \in Names \ Stale : /\ lbs'[m] = lbs[m]
                                 /\ \A what : <<what, m>> \in excused' <=> <<what, m>> \in excused
      /\ attached' \in [Switch -> SUBSET Names]
      /\ \A m \in Stale : lbs'[m].here => <<"stale", m>> \in excused'
      /\ excused' \subseteq {"attach", "options", "stale", "untracked"} \X Names
      /\ Present' \subseteq Present
      /\ \A W : Left(W) \cap Present' \subseteq Left(W)'
  BY <1>1, <1>2, DeleteSome
<1>4. work' \in Works /\ work'.pc = "idle" /\ Place' /\ Progress' /\ Attaching' = {}
  BY <1>1, Stops
<1>5. Attaching = {}
  BY <1>1 DEF Attaching
<1>6. Attachments'
  BY <1>1, <1>2, <1>5, DeletionAttachments
<1>7. ServiceTypes'
  BY <1>1, <1>3, <1>4 DEF ServiceTypes
<1>8. Serving /\ work.svc \in Specs /\ shouldManageService(work.svc)
  BY <1>1, WorkFields DEF Serving, Place, shouldManageService
<1>9. Written = Total /\ Optioned = Total /\ Total = Len(Items(work.svc)) /\ Total \in Nat
  <2>1. work.todo = <<>>
    BY <1>1 DEF Place, Ensuring
  <2>2. Total = Len(Items(work.svc)) /\ Total \in Nat
    BY <1>8, ItemsTyped DEF Total
  <2> QED BY <1>1, <2>1, <2>2 DEF Made, Written, Optioned
<1>10. ASSUME queued = "no" PROVE work.svc = svc /\ svc \in Specs /\ svc # NoService
  BY <1>8, <1>10 DEF Progress, shouldManageService
<1>11. ASSUME NEW n \in Present', n \notin Current(work.svc)
       PROVE  n \in Left({"stale", "untracked"})'
  <2>1. n \in Names /\ lbs'[n].here /\ n \in Present
    BY <1>3 DEF Present
  <2>2. CASE n \in tracked
    <3>1. <<"stale", n>> \in excused'
      BY <1>3, <1>11, <2>1, <2>2 DEF Stale
    <3> QED BY <3>1 DEF Left
  <2>3. CASE n \notin tracked
    <3>1. n \in Left({"stale", "untracked"})
      BY <2>1, <2>3 DEF Recorded
    <3> QED BY <1>3, <3>1
  <2> QED BY <2>2, <2>3
<1>12. Result'
  <2> SUFFICES ASSUME queued = "no" PROVE Result'
    BY <1>1 DEF Result, Settled
  <2>1. PICK s \in Specs, eps \in {getEndpoints}, k \in Nat :
          s = svc /\ eps = getEndpoints /\ k = Len(Items(s))
    BY <1>10, ItemsTyped
  <2>2. \A m \in Current(s) : /\ lbs'[m] = lbs[m]
                              /\ \A what : <<what, m>> \in excused' <=> <<what, m>> \in excused
    BY <1>3, <1>10, <2>1, ItemsTyped DEF Stale
  <2>3. k \in 0 .. Len(Items(s))
    BY <2>1
  <2>4. Here(s, k) /\ SourceKept(s, k) /\ (~ unseen => VipsMade(s, eps, k))
    BY <1>8, <1>9, <1>10, <2>1 DEF Progress
  <2>5. Here(s, k)'
    BY <2>2, <2>3, <2>4, HereKept
  <2>6. SourceKept(s, k)'
    BY <2>2, <2>3, <2>4, SourceStays
  <2>7. ~ unseen' => VipsMade(s, eps, k)'
    BY <1>1, <2>2, <2>3, <2>4, VipsStay
  <2>8. s = svc' /\ k = Len(Items(svc))' /\ eps = getEndpoints'
    BY <1>1, <2>1 DEF Items, Item, getEndpoints
  <2>9. (Present \ Current(svc) \subseteq Left({"stale", "untracked"}))'
    <3>1. Current(svc)' = Current(work.svc)
      BY <1>1, <1>10 DEF Current, Items, Item
    <3> QED BY <1>11, <3>1
  <2>10. Here(svc, Len(Items(svc)))' /\ SourceKept(svc, Len(Items(svc)))'
         /\ (~ unseen' => VipsMade(svc, getEndpoints, Len(Items(svc)))')
    BY <2>5, <2>6, <2>7, <2>8
  <2> QED BY <2>9, <2>10 DEF Result
<1>13. Recorded'
  <2>1. (Present \subseteq tracked \cup Left({"stale", "untracked"}))'
    BY <1>1, <1>3 DEF Recorded
  <2>2. ~ (Settled /\ svc = NoService)'
    BY <1>1, <1>10 DEF Settled
  <2> QED BY <1>4, <2>1, <2>2 DEF Recorded, Deleting
<1> QED BY <1>4, <1>6, <1>7, <1>12, <1>13

\* The steps of a deletion that goes on.
LEMMA Deletes ==
  ASSUME ServiceTypes, work.pc \in Deleting, work'.pc \in Deleting, work' \in Works,
         work'.todo = <<>>, work'.pc = "delete" => work'.left # {}
  PROVE  Place' /\ Progress' /\ Result' /\ Attaching = {} /\ Attaching' = {} /\ ~ Settled'
<1>1. ~ Serving' /\ Attaching = {} /\ Attaching' = {} /\ ~ Settled'
  BY DEF Serving, Ensuring, Deleting, Attaching, Settled, NoWork
<1> QED BY <1>1 DEF Place, Progress, Result, Ensuring, Deleting

\* The fields of the work of a deletion that goes on.
LEMMA DeletionWork ==
  ASSUME ServiceTypes, Place, work.pc \in Deleting, NEW p \in Deleting, NEW L \in SUBSET Names,
         work' = [work EXCEPT !.pc = p, !.left = L]
  PROVE  work' \in Works /\ work'.pc = p /\ work'.left = L /\ work'.todo = <<>> /\ work'.pc \in Deleting
<1>1. work \in Works /\ work.todo = <<>>
  BY DEF ServiceTypes, Place, Ensuring, Deleting
<1> QED BY <1>1 DEF Works, Deleting

LEMMA ListKeeps == ASSUME ServiceInv, ListForDelete PROVE ServiceInv'
<1> USE DEF ServiceInv
<1>1. /\ UNCHANGED <<svc, conditions, nodes, active, lbs, attached, tracked, queued, unseen>>
      /\ work.pc = "list" /\ work.pc \in Deleting
  BY DEF ListForDelete, cluster, database, Deleting, Goto
<1>2. PICK L \in SUBSET Names :
        /\ work' = [work EXCEPT !.pc = "detach", !.left = L]
        /\ \/ L = Present /\ excused' = excused
           \/ excused' = Excuse({"stale"}, Present)
  <2>1. CASE work' = [work EXCEPT !.pc = "detach", !.left = Present] /\ excused' = excused
    <3>1. Present \in SUBSET Names
      BY DEF Present
    <3> QED BY <2>1, <3>1
  <2>2. CASE work' = [work EXCEPT !.pc = "detach"] /\ excused' = Excuse({"stale"}, Present)
    <3>1. [work EXCEPT !.pc = "detach"] = [work EXCEPT !.pc = "detach", !.left = work.left]
      <4>1. work = [pc |-> work.pc, svc |-> work.svc, eps |-> work.eps, todo |-> work.todo,
                left |-> work.left]
        BY DEF ServiceTypes, Works
      <4> QED BY <4>1
    <3>2. work.left \in SUBSET Names
      BY WorkFields
    <3> QED BY <2>2, <3>1, <3>2
  <2> QED BY <2>1, <2>2 DEF ListForDelete, Goto
<1>3. work' \in Works /\ work'.pc = "detach" /\ work'.left = L /\ work'.todo = <<>> /\ work'.pc \in Deleting
  <2>1. "detach" \in Deleting
    BY DEF Deleting
  <2> QED BY <1>1, <1>2, <2>1, DeletionWork
<1>4. Place' /\ Progress' /\ Result' /\ Attaching = {} /\ Attaching' = {} /\ ~ Settled'
  BY <1>1, <1>3, Deletes
<1>5. /\ excused \subseteq excused'
      /\ L # Present => \A n \in Present : <<"stale", n>> \in excused'
      /\ excused' \subseteq {"attach", "options", "stale", "untracked"} \X Names
  BY <1>2 DEF Excuse, ServiceTypes, Present
<1>6. Present' = Present /\ \A W : Left(W) \subseteq Left(W)'
  BY <1>1, <1>5 DEF Present, Left
<1>7. Recorded'
  <2>1. (Present \subseteq tracked \cup Left({"stale", "untracked"}))'
    BY <1>1, <1>6 DEF Recorded
  <2>2. Present' \subseteq work'.left \cup Left({"stale"})'
    BY <1>3, <1>5, <1>6, InLeft
  <2>3. queued' = "no" => svc' = NoService
    BY <1>1 DEF Recorded
  <2> QED BY <1>4, <2>1, <2>2, <2>3 DEF Recorded
<1>8. Attachments'
  BY <1>1, <1>4, <1>5 DEF Attachments
<1>9. ServiceTypes'
  BY <1>1, <1>3, <1>5 DEF ServiceTypes
<1> QED BY <1>4, <1>7, <1>8, <1>9

LEMMA DetachKeeps == ASSUME ServiceInv, Detach PROVE ServiceInv'
<1> USE DEF ServiceInv
<1>1. /\ UNCHANGED <<svc, conditions, nodes, active, lbs, tracked, queued, unseen>>
      /\ work.pc = "detach" /\ work.pc \in Deleting /\ work.left # {}
      /\ excused' = Excuse({"attach"}, {Leaving}) /\ work' = [work EXCEPT !.pc = "delete"]
  BY DEF Detach, cluster, Deleting, Goto
<1>2. PICK n \in Names : n = Leaving /\ n \in work.left
  BY <1>1, WorkFields DEF Leaving
<1>3. PICK W \in SUBSET Switch : attached' = Without(n, W)
  BY <1>2 DEF Detach
<1>4. /\ attached' \in [Switch -> SUBSET Names]
      /\ \A m \in Names \ {n}, w \in Switch : m \in attached[w] => m \in attached'[w]
  BY <1>3 DEF Without, ServiceTypes
<1>5. /\ excused \subseteq excused'
      /\ <<"attach", n>> \in excused'
      /\ excused' \subseteq {"attach", "options", "stale", "untracked"} \X Names
  BY <1>1, <1>2 DEF Excuse, ServiceTypes
<1>6. /\ work' \in Works /\ work'.pc = "delete" /\ work'.left = work.left
      /\ work'.todo = <<>> /\ work'.pc \in Deleting
  <2>1. work \in Works /\ work.todo = <<>>
    BY <1>1 DEF ServiceTypes, Place, Ensuring
  <2> QED BY <1>1, <2>1 DEF Works, Deleting
<1>7. Place' /\ Progress' /\ Result' /\ Attaching = {} /\ Attaching' = {} /\ ~ Settled'
  BY <1>1, <1>6, Deletes
<1>8. Present' = Present /\ \A V : Left(V) \subseteq Left(V)'
  BY <1>1, <1>5 DEF Present, Left
<1>9. Recorded'
  <2>1. (Present \subseteq tracked \cup Left({"stale", "untracked"}))'
    BY <1>1, <1>8 DEF Recorded
  <2>2. Present' \subseteq work'.left \cup Left({"stale"})'
    BY <1>1, <1>6, <1>8 DEF Recorded
  <2>3. queued' = "no" => svc' = NoService
    BY <1>1 DEF Recorded
  <2> QED BY <1>7, <2>1, <2>2, <2>3 DEF Recorded
<1>10. Attachments'
  <2> SUFFICES ASSUME NEW m \in Names, NEW w \in active, lbs[m].here, <<"attach", m>> \notin excused'
               PROVE  m \in attached'[w]
    BY <1>1, <1>7 DEF Attachments
  <2>1. m # n /\ <<"attach", m>> \notin excused /\ w \in Switch
    BY <1>5 DEF ServiceTypes
  <2> QED BY <1>4, <1>7, <2>1 DEF Attachments
<1>11. ServiceTypes'
  BY <1>1, <1>4, <1>5, <1>6 DEF ServiceTypes
<1> QED BY <1>7, <1>9, <1>10, <1>11

LEMMA DeleteKeeps == ASSUME ServiceInv, DeleteLB PROVE ServiceInv'
<1> USE DEF ServiceInv
<1>1. /\ UNCHANGED <<svc, conditions, nodes, active, tracked, queued, unseen>>
      /\ work.pc = "delete" /\ work.pc \in Deleting /\ work.left # {} /\ DeleteAll({Leaving})
      /\ work' = [work EXCEPT !.pc = "detach", !.left = work.left \ {Leaving}]
  BY DEF DeleteLB, cluster, Deleting, Goto, Place
<1>2. PICK n \in Names : n = Leaving /\ n \in work.left
  BY <1>1, WorkFields DEF Leaving
<1>3. /\ lbs' = [m \in Names |-> lbs'[m]] /\ \A m \in Names : IsRow(lbs'[m])
      /\ attached' \in [Switch -> SUBSET Names]
      /\ lbs'[n].here => <<"stale", n>> \in excused'
      /\ excused' \subseteq {"attach", "options", "stale", "untracked"} \X Names
      /\ Present' \subseteq Present
      /\ \A W : Left(W) \cap Present' \subseteq Left(W)'
  <2>1. {n} \in SUBSET Names /\ DeleteAll({n}) /\ n \in {n}
    BY <1>1, <1>2
  <2> QED BY <2>1, DeleteSome
<1>4. /\ work' \in Works /\ work'.pc = "detach" /\ work'.left = work.left \ {n} /\ work'.todo = <<>>
      /\ work'.pc \in Deleting
  <2>1. "detach" \in Deleting /\ work.left \ {Leaving} \in SUBSET Names
    BY WorkFields DEF Deleting
  <2> QED BY <1>1, <1>2, <2>1, DeletionWork
<1>5. Place' /\ Progress' /\ Result' /\ Attaching = {} /\ Attaching' = {} /\ ~ Settled'
  BY <1>1, <1>4, Deletes
<1>6. Recorded'
  <2>1. (Present \subseteq tracked \cup Left({"stale", "untracked"}))'
    BY <1>1, <1>3 DEF Recorded
  <2>2. Present' \subseteq work'.left \cup Left({"stale"})'
    <3> SUFFICES ASSUME NEW m \in Present', m \notin work'.left PROVE m \in Left({"stale"})'
      OBVIOUS
    <3>1. CASE m = n
      <4>1. <<"stale", n>> \in excused'
        BY <1>3, <3>1 DEF Present
      <4> QED BY <3>1, <4>1 DEF Left
    <3>2. CASE m # n
      <4>1. m \in Left({"stale"})
        BY <1>1, <1>3, <1>4, <3>2 DEF Recorded
      <4> QED BY <1>3, <4>1
    <3> QED BY <3>1, <3>2
  <2>3. queued' = "no" => svc' = NoService
    BY <1>1 DEF Recorded
  <2> QED BY <1>5, <2>1, <2>2, <2>3 DEF Recorded
<1>7. Attachments'
  <2>1. {Leaving} \in SUBSET Names
    BY <1>2
  <2> QED BY <1>1, <1>5, <2>1, DeletionAttachments
<1>8. ServiceTypes'
  BY <1>1, <1>3, <1>4 DEF ServiceTypes
<1> QED BY <1>5, <1>6, <1>7, <1>8

LEMMA ForgetKeeps == ASSUME ServiceInv, Forget PROVE ServiceInv'
<1> USE DEF ServiceInv
<1>1. /\ UNCHANGED <<svc, conditions, nodes, active, lbs, attached, queued, excused, unseen>>
      /\ work.pc = "detach" /\ work.left = {} /\ tracked' = {} /\ work' = NoWork
  BY DEF Forget, cluster, database, Goto
<1>2. work' \in Works /\ work'.pc = "idle" /\ Place' /\ Progress' /\ Attaching' = {}
  BY <1>1, Stops
<1>3. queued' = "no" => svc' = NoService
  BY <1>1 DEF Recorded, Deleting
<1>4. Result'
  BY <1>3, Unsettled
<1>5. /\ Present' = Present /\ Present \subseteq Left({"stale"})'
      /\ Left({"stale"})' \subseteq Left({"stale", "untracked"})'
  BY <1>1 DEF Present, Left, Recorded
<1>6. Recorded'
  BY <1>2, <1>5 DEF Recorded, Deleting
<1>7. Attachments'
  <2>1. Attaching = {}
    BY <1>1 DEF Attaching
  <2> QED BY <1>1, <1>2, <2>1 DEF Attachments
<1>8. ServiceTypes'
  BY <1>1, <1>2 DEF ServiceTypes
<1> QED BY <1>2, <1>4, <1>6, <1>7, <1>8

LEMMA RestartKeeps == ASSUME ServiceInv, Restart PROVE ServiceInv'
<1> USE DEF ServiceInv
<1>1. /\ UNCHANGED <<svc, conditions, nodes, active, lbs, attached, unseen>>
      /\ work' = NoWork /\ tracked' = {}
      /\ queued' = IF svc = NoService THEN "no" ELSE "yes"
      /\ excused' = Excuse({"untracked"} \cup (IF svc = NoService THEN {"stale"} ELSE {}), Present)
                      \cup (IF work.pc = "attach" THEN {<<"attach", Doing.name>>} ELSE {})
  BY DEF Restart, cluster, database
<1>2. work' \in Works /\ work'.pc = "idle" /\ Place' /\ Progress' /\ Attaching' = {}
  BY <1>1, Stops
<1>3. /\ excused \subseteq excused' /\ \A n \in Present : <<"untracked", n>> \in excused'
      /\ svc = NoService => \A n \in Present : <<"stale", n>> \in excused'
      /\ work.pc = "attach" => <<"attach", Doing.name>> \in excused'
  BY <1>1 DEF Excuse
<1>4. excused' \subseteq {"attach", "options", "stale", "untracked"} \X Names
  <2>1. work.pc = "attach" => Doing.name \in Names
    BY AtItem DEF Ensuring
  <2> QED BY <1>1, <2>1 DEF Excuse, Present, ServiceTypes
<1>5. Result'
  BY <1>1, Unsettled
<1>6. Present' = Present
  BY <1>1 DEF Present
<1>7. Recorded'
  <2>1. Present' \subseteq Left({"stale", "untracked"})'
    BY <1>3, <1>6, InLeft
  <2>2. svc' = NoService => Present' \subseteq Left({"stale"})'
    BY <1>1, <1>3, <1>6, InLeft
  <2> QED BY <1>2, <2>1, <2>2 DEF Recorded, Deleting
<1>8. Attachments'
  <2> SUFFICES ASSUME NEW n \in Names, NEW w \in active, lbs[n].here, <<"attach", n>> \notin excused'
               PROVE  n \in attached[w]
    BY <1>1 DEF Attachments
  <2>1. n \notin Attaching /\ <<"attach", n>> \notin excused
    BY <1>3 DEF Attaching
  <2> QED BY <2>1 DEF Attachments
<1>9. ServiceTypes'
  BY <1>1, <1>2, <1>4 DEF ServiceTypes
<1> QED BY <1>2, <1>5, <1>7, <1>8, <1>9

-----------------------------------------------------------------------------
(* The theorems.                                                           *)

LEMMA ServiceStutters == ASSUME ServiceInv, UNCHANGED serviceVars PROVE ServiceInv'
<1> USE DEF ServiceInv
<1>1. /\ UNCHANGED <<svc, conditions, nodes, active, lbs, attached, tracked, queued, work, excused, unseen>>
  BY DEF serviceVars
<1>2. work' \in Works /\ Place' /\ Progress' /\ Result' /\ Recorded'
  BY <1>1, CacheKeeps
<1>3. Attachments'
  BY <1>1, AttachmentsStay
<1>4. ServiceTypes'
  BY <1>1, <1>2 DEF ServiceTypes
<1> QED BY <1>2, <1>3, <1>4

\* The inductive invariant of the Service controller: how far a reconcile has
\* brought the load balancers, what the last one has left, which switches they
\* are on, and that what is there is on record or excused.
THEOREM ServiceInvariance == ServiceSpec => []ServiceInv
<1>1. ASSUME ServiceInit PROVE ServiceInv
  BY <1>1, InitService
<1>2. ASSUME ServiceInv, [ServiceNext]_serviceVars PROVE ServiceInv'
  <2>1. CASE ServiceNext
    BY <1>2, <2>1, EditServiceKeeps, EditEndpointsKeeps, EditNodesKeeps, EditSubnetsKeeps,
       BackoffKeeps, ReconcileKeeps, UpdateKeeps, SetOptionsKeeps, CreateKeeps, AttachKeeps,
       CleanupKeeps, ListKeeps, DetachKeeps, DeleteKeeps, ForgetKeeps, RestartKeeps
       DEF ServiceNext, Worker
  <2>2. CASE UNCHANGED serviceVars
    BY <1>2, <2>2, ServiceStutters
  <2> QED BY <1>2, <2>1, <2>2
<1> QED BY <1>1, <1>2, PTL DEF ServiceSpec

\* Among the items of a name that is due there is a last one.
LEMMA LastItemIs ==
  ASSUME svc \in Specs, NEW n \in Current(svc)
  PROVE  \E i \in 1 .. Len(Items(svc)) :
           Items(svc)[i].name = n /\ IsLast(svc, i, Len(Items(svc))) /\ LastItem(n) = Items(svc)[i]
<1> DEFINE its == Items(svc)
<1> DEFINE k == Len(its)
<1> DEFINE R == {k - i : i \in {j \in 1 .. k : its[j].name = n}}
<1>1. its \in Seq(Calls) /\ k \in Nat /\ DOMAIN its = 1 .. k /\ \E i \in 1 .. k : its[i].name = n
  BY ItemsTyped
<1> HIDE DEF its
<1>2. R \in SUBSET Nat /\ R # {}
  BY <1>1
<1>3. PICK r \in R : \A q \in R : r <= q
  <2> HIDE DEF R
  <2> QED BY <1>2, LeastElement
<1>4. PICK i \in 1 .. k : its[i].name = n /\ r = k - i
  OBVIOUS
<1>5. \A j \in (i + 1) .. k : its[j].name # n
  <2> SUFFICES ASSUME NEW j \in (i + 1) .. k, its[j].name = n PROVE FALSE
    OBVIOUS
  <2>1. j \in 1 .. k /\ k - j \in R /\ ~ (k - i <= k - j)
    BY <1>1
  <2> QED BY <1>3, <1>4, <2>1
<1>6. \E h \in DOMAIN its : its[h].name = n /\ \A j \in (h + 1) .. k : its[j].name # n
  BY <1>1, <1>4, <1>5
<1>7. PICK h \in DOMAIN its :
        /\ h = CHOOSE g \in DOMAIN its : its[g].name = n /\ \A j \in (g + 1) .. k : its[j].name # n
        /\ its[h].name = n /\ \A j \in (h + 1) .. k : its[j].name # n
  BY <1>6
<1>8. LastItem(n) = its[h]
  BY <1>7 DEF LastItem, its
<1> QED BY <1>1, <1>7, <1>8 DEF IsLast, its

\* What the Service controller owes a Service once it has nothing left to do:
\* the VIPs of its load balancers follow from the spec and the endpoints, each
\* is on the switches of the Active subnets, and a NodePort under the Local
\* policy keeps the source.
THEOREM LoadBalancersAreSound == ServiceSpec => []LoadBalancersSound
<1>1. ASSUME ServiceInv PROVE LoadBalancersSound
  <2> USE <1>1 DEF ServiceInv
  <2>1. ServiceTypeOK
    <3>1. DOMAIN lbs = Names
      BY DEF ServiceTypes
    <3>2. \A n \in Names : lbs[n].here \in BOOLEAN /\ lbs[n].skipSNAT \in BOOLEAN
      BY DEF ServiceTypes, IsRow
    <3>3. work.pc \in {"idle", "ensure", "options", "attach", "cleanup", "list", "detach", "delete"}
      BY WorkFields DEF Ensuring, Deleting
    <3>4. (work.todo # <<>>) = (work.pc \in {"ensure", "options", "attach"})
      BY DEF Place, Ensuring
    <3> QED BY <3>1, <3>2, <3>3, <3>4 DEF ServiceTypeOK, ServiceTypes
  <2>2. ASSUME Settled, Managed
        PROVE  /\ svc \in Specs /\ work.pc = "idle" /\ Attaching = {}
               /\ Here(svc, Len(Items(svc))) /\ SourceKept(svc, Len(Items(svc)))
               /\ ~ unseen => VipsMade(svc, getEndpoints, Len(Items(svc)))
               /\ \A n \in Current(svc) : n \in Names /\ lbs[n].here
    <3>1. svc \in Specs /\ work.pc = "idle" /\ Attaching = {}
      BY <2>2 DEF Settled, Managed, shouldManageService, ServiceTypes, NoWork, Attaching
    <3>2. /\ Here(svc, Len(Items(svc))) /\ SourceKept(svc, Len(Items(svc)))
          /\ ~ unseen => VipsMade(svc, getEndpoints, Len(Items(svc)))
      BY <2>2 DEF Result
    <3>3. \A n \in Current(svc) : n \in Names /\ lbs[n].here
      BY <3>1, <3>2, ItemsTyped DEF Here
    <3> QED BY <3>1, <3>2, <3>3
  <2>3. VipsFollow
    <3> SUFFICES ASSUME Settled, Managed, ~ unseen, NEW n \in Current(svc)
                 PROVE  lbs[n].here /\ lbs[n].vips = Vips(svc, getEndpoints, LastItem(n))
      BY DEF VipsFollow, VipsNow
    <3>1. PICK i \in 1 .. Len(Items(svc)) :
            Items(svc)[i].name = n /\ IsLast(svc, i, Len(Items(svc))) /\ LastItem(n) = Items(svc)[i]
      BY <2>2, LastItemIs
    <3>2. lbs[n].vips = Vips(svc, getEndpoints, Items(svc)[i])
      BY <2>2, <3>1 DEF VipsMade
    <3> QED BY <2>2, <3>1, <3>2
  <2>4. AttachedWhereActive
    <3> SUFFICES ASSUME Settled, Managed, NEW n \in Current(svc), n \notin Left({"attach"}), NEW w \in active
                 PROVE  n \in attached[w]
      BY DEF AttachedWhereActive
    <3>1. <<"attach", n>> \notin excused
      <4>1. <<"attach", n>>[1] = "attach" /\ <<"attach", n>>[2] = n
        OBVIOUS
      <4> QED BY <4>1 DEF Left
    <3> QED BY <2>2, <3>1 DEF Attachments
  <2>5. LocalKeepsSource
    <3> SUFFICES ASSUME Settled, Managed, NEW it \in Range(Items(svc)), SkipsSNAT(svc, it)
                 PROVE  lbs[it.name].skipSNAT \/ it.name \in Left({"options"})
      BY DEF LocalKeepsSource
    <3>1. PICK i \in 1 .. Len(Items(svc)) : it = Items(svc)[i]
      BY <2>2, ItemsTyped DEF Range
    <3>2. lbs[it.name].skipSNAT \/ <<"options", it.name>> \in excused
      BY <2>2, <3>1 DEF SourceKept
    <3>3. <<"options", it.name>> \in excused => it.name \in Left({"options"})
      <4>1. <<"options", it.name>>[1] = "options" /\ <<"options", it.name>>[2] = it.name
        OBVIOUS
      <4> QED BY <4>1 DEF Left
    <3> QED BY <3>2, <3>3
  <2> QED BY <2>1, <2>3, <2>4, <2>5 DEF LoadBalancersSound
<1> QED BY <1>1, ServiceInvariance, PTL

\* Once the Service controller has nothing left to do, the load balancers that
\* are not due are gone, except those a fault cost it.
THEOREM NothingIsLeftBehind == ServiceSpec => []NothingLeftBehind
<1>1. ASSUME ServiceInv PROVE NothingLeftBehind
  BY <1>1 DEF ServiceInv, Result, Recorded, NothingLeftBehind
<1> QED BY <1>1, ServiceInvariance, PTL
=============================================================================
