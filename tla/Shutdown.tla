------------------------------ MODULE Shutdown ------------------------------
(***************************************************************************)
(* The end of main (cmd/server/main.go, readiness.go): on a signal the     *)
(* drain gate closes, the pollers stop, the readiness head start passes,   *)
(* http.Server.Shutdown drains the connections within what is left of the  *)
(* grace and connTracker closes the rest by force; the listener's outcome  *)
(* is collected last.                                                      *)
(*                                                                         *)
(* http.Server is external: Shutdown closes the listener and the idle      *)
(* connections, keeps closing those that become idle, and returns when     *)
(* none is left or with an error when its context expires.                 *)
(***************************************************************************)
EXTENDS Naturals

CONSTANT Conns   \* client connections

VARIABLES
    main,        \* where main stands
    draining,    \* Server.Draining, read by /readyz and by the request gate
    polling,     \* the config poller: "running", "told", "exited"
    listener,    \* "open", "failed", "closed"
    serveDone,   \* results in the one-slot channel
    conn,        \* each connection as http.ConnState reports it; "fresh" before
    tracked,     \* connTracker.conns
    refused,     \* requests turned away with 503 by the drain gate
    \* Not in the program, for the properties only:
    unready      \* how long readiness has been down: "no", "yes", "window"

processVars == <<main, draining, polling, listener, serveDone, conn, tracked, refused, unready>>

ProcessInit ==
    /\ main = "serving"
    /\ draining = FALSE
    /\ polling = "running"
    /\ listener = "open"
    /\ serveDone = 0
    /\ conn = [c \in Conns |-> "fresh"]
    /\ tracked = {}
    /\ refused = {}
    /\ unready = "no"

-----------------------------------------------------------------------------
\* Mutant of Track: a connection is added when it is new and never again.
TrackNew(c) == IF conn[c] = "fresh" THEN tracked \cup {c} ELSE tracked

\* connTracker.connState on StateNew and StateActive.
Track(c) == tracked \cup {c}

\* A connection is accepted.
Accept(c) ==
    /\ conn[c] = "fresh" /\ listener = "open"
    /\ main # "exited"
    /\ conn' = [conn EXCEPT ![c] = "new"]
    /\ tracked' = Track(c)
    /\ UNCHANGED <<main, draining, polling, listener, serveDone, refused, unready>>

\* A new or an idle connection gets a request, which meets the drain gate.
Request(c) ==
    /\ conn[c] \in {"new", "idle"}
    /\ main # "exited"
    /\ conn' = [conn EXCEPT ![c] = "active"]
    /\ tracked' = Track(c)
    /\ refused' = IF draining THEN refused \cup {c} ELSE refused \ {c}
    /\ UNCHANGED <<main, draining, polling, listener, serveDone, unready>>

\* The handler returns; a request the gate refused always does.
Finish(c) ==
    /\ conn[c] = "active"
    /\ conn' = [conn EXCEPT ![c] = "idle"]
    /\ tracked' = tracked \ {c}
    /\ UNCHANGED <<main, draining, polling, listener, serveDone, refused, unready>>

\* A connection something may still happen on.
Alive(c) == conn[c] \in {"new", "active", "idle"}

\* The client hangs up, or Shutdown closes an idle connection.
Close(c) ==
    /\ Alive(c)
    /\ conn' = [conn EXCEPT ![c] = "closed"]
    /\ tracked' = tracked \ {c}
    /\ UNCHANGED <<main, draining, polling, listener, serveDone, refused, unready>>

\* An accept or bind error ends ListenAndServe by itself.
ListenerFails ==
    /\ listener = "open"
    /\ listener' = "failed"
    /\ serveDone' = serveDone + 1
    /\ UNCHANGED <<main, draining, polling, conn, tracked, refused, unready>>

\* Store.poll sees stopCh.
PollerExits ==
    /\ polling = "told"
    /\ polling' = "exited"
    /\ UNCHANGED <<main, draining, listener, serveDone, conn, tracked, refused, unready>>

-----------------------------------------------------------------------------
\* The signal arrives: server.Drain().
Signal ==
    /\ main = "serving"
    /\ draining' = TRUE
    /\ main' = "stopping"
    /\ unready' = "yes"
    /\ UNCHANGED <<polling, listener, serveDone, conn, tracked, refused>>

\* store.Stop() and uaStop() wait for their goroutines.
StopPollers ==
    /\ main = "stopping"
    /\ \/ polling = "running" /\ polling' = "told" /\ UNCHANGED main
       \/ polling = "exited" /\ main' = "headstart" /\ UNCHANGED polling
    /\ UNCHANGED <<draining, listener, serveDone, conn, tracked, refused, unready>>

\* awaitReadinessHeadStart: the window passes, or the server is gone already.
HeadStartPasses ==
    /\ main = "headstart"
    /\ main' = "shutdown"
    /\ unready' = IF draining THEN "window" ELSE unready
    /\ UNCHANGED <<draining, polling, listener, serveDone, conn, tracked, refused>>
HeadStartCut ==
    /\ main = "headstart"
    /\ serveDone > 0
    /\ serveDone' = serveDone - 1
    /\ main' = "shutdown"
    /\ UNCHANGED <<draining, polling, listener, conn, tracked, refused, unready>>

\* Shutdown closes the listener: ListenAndServe returns ErrServerClosed.
ShutdownBegins ==
    /\ main = "shutdown"
    /\ main' = "draining"
    /\ listener' = IF listener = "open" THEN "closed" ELSE listener
    /\ serveDone' = IF listener = "open" THEN serveDone + 1 ELSE serveDone
    /\ UNCHANGED <<draining, polling, conn, tracked, refused, unready>>

Drained ==
    /\ main = "draining"
    /\ \A c \in Conns : ~Alive(c)
    /\ main' = "collect"
    /\ UNCHANGED <<draining, polling, listener, serveDone, conn, tracked, refused, unready>>

\* Mutant of ForceClose: Shutdown gets a context without a deadline.
ForceCloseNever == FALSE

\* The budget lapses: forceCloseAll.
ForceClose ==
    /\ main = "draining"
    /\ \E c \in Conns : Alive(c)
    /\ conn' = [c \in Conns |-> IF c \in tracked THEN "closed" ELSE conn[c]]
    /\ tracked' = {}
    /\ main' = "collect"
    /\ UNCHANGED <<draining, polling, listener, serveDone, refused, unready>>

Collect ==
    /\ main = "collect"
    /\ serveDone > 0
    /\ serveDone' = serveDone - 1
    /\ main' = "exited"
    /\ UNCHANGED <<draining, polling, listener, conn, tracked, refused, unready>>

Main == \/ StopPollers \/ HeadStartPasses \/ HeadStartCut \/ ShutdownBegins
        \/ Drained \/ ForceClose \/ Collect

ProcessNext ==
    \/ \E c \in Conns : Accept(c) \/ Request(c) \/ Finish(c) \/ Close(c)
    \/ ListenerFails \/ PollerExits \/ Signal \/ Main

\* main runs, its timers fire and the poller returns to its select.  Nothing
\* makes a client hang up or a stream end.
ProcessSpec == ProcessInit /\ [][ProcessNext]_processVars /\ WF_processVars(Main) /\ WF_processVars(PollerExits)

-----------------------------------------------------------------------------
\* "readiness must drop while the socket the balancer is routing to is still
\* answering" (readiness.go): a listener this process closes, as against one
\* that failed, was open for the whole head start while /readyz said 503.
ReadinessDropsFirst == listener = "closed" => draining /\ unready = "window"

\* When main exits no connection with a request on it is left behind: those
\* Shutdown gave up on were all tracked, through any order of state changes.
NothingActiveAtExit ==
    main \in {"collect", "exited"} => \A c \in Conns : conn[c] # "active" \/ c \in refused

\* The process leaves in order: balancers are warned before the listener goes,
\* and every request is over, or was closed on purpose, before main exits.
OrderlyExit == ReadinessDropsFirst /\ NothingActiveAtExit

\* The process ends after the signal, whatever its clients and streams do, if
\* the listener lives until Shutdown closes it: the head start, the poller and
\* the drain are all bounded.
ExitsWithLiveListener == main = "stopping" ~> main = "exited" \/ listener = "failed"

\* "bounding the process exit to the grace in all cases" (main.go): the same
\* without the condition.
ExitsAfterSignal == main = "stopping" ~> main = "exited"

=============================================================================
