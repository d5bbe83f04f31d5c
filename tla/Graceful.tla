------------------------------ MODULE Graceful ------------------------------
(***************************************************************************)
(* The HTTP server of hookyd while it shuts down: graceful.Server, which   *)
(* main runs with a timeout.  The goroutine in Serve accepts connections,  *)
(* a manager keeps the set of open ones, a third goroutine waits for the   *)
(* signal, and every connection has one that serves its requests.  They    *)
(* meet on unbuffered channels: add, remove, shutdown, done; kill is only  *)
(* ever closed.                                                            *)
(***************************************************************************)
EXTENDS FiniteSets

CONSTANTS
  Conn          \* connections; a closed one may be opened again

VARIABLES
  serve,        \* main goroutine: Listen, Serve, shutdown, and what main does after
  signal,       \* handleInterrupt: not there, waiting, keep-alives off, listener closed
  manager,      \* manageConnections: in its select, sending on done, not there
  asked,        \* done # nil: the shutdown was asked for
  managed,      \* srv.connections
  killed,       \* the kill channel is closed: the timeout has passed
  conn          \* [Conn -> where the goroutine of the connection is]

serverVars == <<serve, signal, manager, asked, managed, killed, conn>>

ServeSteps == {"listen", "accept", "shutdown", "wait", "stop", "join", "stopped", "exited"}
ConnSteps == {"closed", "idle", "handle", "remove"}

ServerTypeOK ==
  /\ serve \in ServeSteps
  /\ signal \in {"unhandled", "none", "received", "closed"}
  /\ manager \in {"select", "done", "gone"}
  /\ asked \in BOOLEAN /\ killed \in BOOLEAN
  /\ managed \subseteq Conn
  /\ conn \in [Conn -> ConnSteps]

ServerInit ==
  /\ serve = "listen"
  /\ signal = "unhandled"
  /\ manager = "gone"
  /\ asked = FALSE /\ killed = FALSE
  /\ managed = {}
  /\ conn = [c \in Conn |-> "closed"]

ConnGoes(c, step) == conn' = [conn EXCEPT ![c] = step]

\* Requests are being handled.
Handling == {c \in Conn : conn[c] = "handle"}

\* Serve has returned to main.
ServeReturned == serve \in {"stop", "join", "stopped", "exited"}
-----------------------------------------------------------------------------
(* The main goroutine: ListenAndServe, and Serve in it *)

\* From here on the signal is handled; before, it just kills the process.
Listen ==
  /\ serve = "listen"
  /\ serve' = "accept"
  /\ signal' = "none"
  /\ manager' = "select"
  /\ UNCHANGED <<asked, managed, killed, conn>>

\* net.Listen fails: main goes on to sched.Stop at once.
ListenFails ==
  /\ serve = "listen"
  /\ serve' = "stop"
  /\ UNCHANGED <<signal, manager, asked, managed, killed, conn>>

\* Mutant: the manager is not told of the connection before it is served.
AcceptUnannounced(c) ==
  /\ serve = "accept" /\ signal # "closed"
  /\ conn[c] = "closed"
  /\ ConnGoes(c, "idle")
  /\ UNCHANGED <<serve, signal, manager, asked, managed, killed>>

\* Serve announces the connection (add <- conn), then starts its goroutine.
\* The manager takes it at once: it only leaves its select when Serve is over.
Accept(c) ==
  /\ serve = "accept" /\ signal # "closed"
  /\ conn[c] = "closed" /\ manager = "select"
  /\ managed' = managed \cup {c}
  /\ ConnGoes(c, "idle")
  /\ UNCHANGED <<serve, signal, manager, asked, killed>>

\* Accept fails for good, with or without a signal.
AcceptFails ==
  /\ serve = "accept"
  /\ serve' = "shutdown"
  /\ UNCHANGED <<signal, manager, asked, managed, killed, conn>>

\* It must fail once the listener is closed.
ListenerClosed == signal = "closed" /\ AcceptFails

\* shutdown <- done
AskShutdown ==
  /\ serve = "shutdown" /\ manager = "select"
  /\ asked' = TRUE
  /\ manager' = IF managed = {} THEN "done" ELSE "select"
  /\ serve' = "wait"
  /\ UNCHANGED <<signal, managed, killed, conn>>

\* <-done
AllClosed ==
  /\ serve = "wait" /\ manager = "done"
  /\ manager' = "gone"
  /\ serve' = "stop"
  /\ UNCHANGED <<signal, asked, managed, killed, conn>>

\* Mutant: after the timeout Serve still waits for the manager.
TimedOutWaits ==
  /\ serve = "wait" /\ ~killed
  /\ killed' = TRUE
  /\ UNCHANGED <<serve, signal, manager, asked, managed, conn>>

\* time.After(srv.Timeout); a manager that is sending on done stays there.
TimedOut ==
  /\ serve = "wait"
  /\ killed' = TRUE
  /\ serve' = "stop"
  /\ UNCHANGED <<signal, manager, asked, managed, conn>>
-----------------------------------------------------------------------------
(* handleInterrupt *)

\* The signal is received; keep-alives are off.
Interrupt ==
  /\ signal = "none"
  /\ signal' = "received"
  /\ UNCHANGED <<serve, manager, asked, managed, killed, conn>>

CloseListener ==
  /\ signal = "received"
  /\ signal' = "closed"
  /\ UNCHANGED <<serve, manager, asked, managed, killed, conn>>
-----------------------------------------------------------------------------
(* A connection and the manager *)

Request(c) ==
  /\ conn[c] = "idle"
  /\ ConnGoes(c, "handle")
  /\ UNCHANGED <<serve, signal, manager, asked, managed, killed>>

\* The handler has returned; keep-alives decide whether the connection stays.
Respond(c) ==
  /\ conn[c] = "handle"
  /\ \/ signal = "none" /\ ConnGoes(c, "idle")
     \/ ConnGoes(c, "remove")
  /\ UNCHANGED <<serve, signal, manager, asked, managed, killed>>

\* The client closes it, or the manager did.
CloseIdle(c) ==
  /\ conn[c] = "idle"
  /\ ConnGoes(c, "remove")
  /\ UNCHANGED <<serve, signal, manager, asked, managed, killed>>

\* remove <- conn.  Once the manager is gone, this blocks for ever.
Remove(c) ==
  /\ conn[c] = "remove" /\ manager = "select"
  /\ managed' = managed \ {c}
  /\ manager' = IF asked /\ managed' = {} THEN "done" ELSE "select"
  /\ ConnGoes(c, "closed")
  /\ UNCHANGED <<serve, signal, asked, killed>>

\* <-kill: closes the connections; their handlers run on.
KillAll ==
  /\ manager = "select" /\ killed
  /\ manager' = "gone"
  /\ UNCHANGED <<serve, signal, asked, managed, killed, conn>>
-----------------------------------------------------------------------------
\* The main goroutine when it waits for no client.
ServeGoesOn == Listen \/ ListenFails \/ ListenerClosed \/ AskShutdown \/ AllClosed \/ TimedOut

ConnStep(c) == Accept(c) \/ Request(c) \/ Respond(c) \/ CloseIdle(c) \/ Remove(c)

ServerNext ==
  \/ ServeGoesOn
  \/ AcceptFails
  \/ Interrupt
  \/ CloseListener
  \/ \E c \in Conn : ConnStep(c)
  \/ KillAll

=============================================================================
