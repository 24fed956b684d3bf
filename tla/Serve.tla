-------------------------------- MODULE Serve --------------------------------
(***************************************************************************)
(* The life of the process (serve in cmd/pulumi-backend/main.go): it       *)
(* serves until the listener fails or a signal cancels its context, then   *)
(* drains the active requests for at most 30 seconds and closes what is    *)
(* left.                                                                   *)
(*                                                                         *)
(* net/http is modelled from how serve uses it: Serve returns when the     *)
(* listener fails or the server is shut down, Shutdown waits for the       *)
(* active requests or its deadline, Close cuts connections.                *)
(***************************************************************************)
EXTENDS FiniteSets

CONSTANT Clients   \* clients that may have a request under way

VARIABLES
  main,       \* "select", "shutdown", "close", "receive" or "returned"
  cancelled,  \* ctx.Done()
  deadline,   \* whether the shutdown's 30 seconds have passed
  server,     \* "serving", "failed" (Serve returns the listener's error), "closed"
  errCh,      \* what the goroutine sent, received values left out
  errs,       \* the errors that serve returns
  request     \* per client: "none", "active", "answered" or "cut"

serveVars == <<main, cancelled, deadline, server, errCh, errs, request>>

Active == {c \in Clients : request[c] = "active"}

\* Real, where no error counts.
RealNone(err) == {}

\* ErrServerClosed is no error.
Real(err) == {err} \ {"ErrServerClosed"}

ServeInit ==
  /\ main = "select"
  /\ cancelled = FALSE
  /\ deadline = FALSE
  /\ server = "serving"
  /\ errCh = {}
  /\ errs = {}
  /\ request = [c \in Clients |-> "none"]

\* The goroutine: Serve returns and its error is sent; the channel has room.
ServeReturns ==
  /\ server \in {"failed", "closed"}
  /\ errCh = {}
  /\ errCh' = {IF server = "failed" THEN "listener" ELSE "ErrServerClosed"}
  /\ UNCHANGED <<main, cancelled, deadline, server, errs, request>>

Receive(from) ==
  /\ main = from
  /\ errCh # {}
  /\ main' = "returned"
  /\ errs' = errs \cup UNION {Real(e) : e \in errCh}
  /\ UNCHANGED <<cancelled, deadline, server, errCh, request>>

\* Both cases of the select may be ready: one is taken at random.
SelectDone ==
  /\ main = "select" /\ cancelled
  /\ main' = "shutdown"
  /\ server' = IF server = "serving" THEN "closed" ELSE server
  /\ UNCHANGED <<cancelled, deadline, errCh, errs, request>>

\* ShutdownReturns without a deadline.
ShutdownWaits ==
  /\ main = "shutdown"
  /\ Active = {} /\ main' = "receive" /\ UNCHANGED errs
  /\ UNCHANGED <<cancelled, deadline, server, errCh, request>>

ShutdownReturns ==
  /\ main = "shutdown"
  /\ \/ Active = {} /\ main' = "receive" /\ UNCHANGED errs
     \/ deadline /\ main' = "close" /\ errs' = errs \cup {"DeadlineExceeded"}
  /\ UNCHANGED <<cancelled, deadline, server, errCh, request>>

\* Close without waiting for the goroutine.
CloseAndReturn ==
  /\ main = "close"
  /\ request' = [c \in Clients |-> IF c \in Active THEN "cut" ELSE request[c]]
  /\ main' = "returned"
  /\ \E failed \in {{}, {"close"}} : errs' = errs \cup failed
  /\ UNCHANGED <<cancelled, deadline, server, errCh>>

Close ==
  /\ main = "close"
  /\ request' = [c \in Clients |-> IF c \in Active THEN "cut" ELSE request[c]]
  /\ main' = "receive"
  /\ \E failed \in {{}, {"close"}} : errs' = errs \cup failed
  /\ UNCHANGED <<cancelled, deadline, server, errCh>>

Main ==
  Receive("select") \/ SelectDone \/ ShutdownReturns \/ Close \/ Receive("receive")

------------------------------------------------------------------------------

Cancel ==
  /\ ~cancelled
  /\ cancelled' = TRUE
  /\ UNCHANGED <<main, deadline, server, errCh, errs, request>>

ListenerFails ==
  /\ server = "serving"
  /\ server' = "failed"
  /\ UNCHANGED <<main, cancelled, deadline, errCh, errs, request>>

Deadline ==
  /\ main = "shutdown" /\ ~deadline
  /\ deadline' = TRUE
  /\ UNCHANGED <<main, cancelled, server, errCh, errs, request>>

Request(c) ==
  /\ \/ request[c] \in {"none", "answered"} /\ main = "select"
        /\ request' = [request EXCEPT ![c] = "active"]
     \/ request[c] = "active" /\ main # "returned"
        /\ request' = [request EXCEPT ![c] = "answered"]
  /\ UNCHANGED <<main, cancelled, deadline, server, errCh, errs>>

ServeNext ==
  \/ ServeReturns \/ Main \/ Cancel \/ ListenerFails \/ Deadline
  \/ \E c \in Clients : Request(c)
  \/ main = "returned" /\ UNCHANGED serveVars

\* Threads run and the timer fires.  Nobody has to cancel, and a request may
\* take forever.
ServeFairness ==
  WF_serveVars(Main) /\ WF_serveVars(ServeReturns) /\ WF_serveVars(Deadline)

ServeSpec == ServeInit /\ [][ServeNext]_serveVars /\ ServeFairness

------------------------------------------------------------------------------
(* Properties *)

\* serve returns nil only when it was asked to stop, every request had been
\* answered and the listener had not failed, whichever of the two the select
\* saw first (serve).
CleanExit ==
  main = "returned" /\ errs = {} =>
    cancelled /\ Active = {} /\ server = "closed" /\ \A c \in Clients : request[c] # "cut"

\* A failure of the listener is in what serve returns, even if a shutdown was
\* under way and its deadline passed (serve, errors.Join).
FailureReported == main = "returned" /\ server = "failed" => "listener" \in errs

\* Once cancelled, serve returns, even if a request never ends (serve).
Stops == cancelled ~> main = "returned"
==============================================================================
