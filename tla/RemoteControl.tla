--------------------------- MODULE RemoteControl ---------------------------
(***************************************************************************)
(* The remote control of ocpp/http.go on top of the central system: the    *)
(* /reset/, /start/ and /stop/ handlers, each in its own goroutine.  A     *)
(* handler looks the charge point, connector or transaction up in the      *)
(* handler's maps, hands a request to the library, and waits on a channel  *)
(* for the callback of that request.                                       *)
(*                                                                         *)
(* The look-up and the sending are two steps, between which callbacks and  *)
(* connection handlers run.  The library calls a callback once: with the   *)
(* charge point's answer, or with an error and no confirmation when the    *)
(* answer is an error, does not come in time, or the charge point          *)
(* disconnects first.  No callback of http.go looks at the error; the nil  *)
(* confirmation it dereferences ends the process.                          *)
(***************************************************************************)
EXTENDS CentralSystem

CONSTANT Clients      \* bound: HTTP requests that are served at one time

VARIABLE commands     \* what each client's handler is doing, Null when none

rcVars == <<chargePoints, nextTransactionId, db, running, connected, configPending, commands>>

NoCommands == [u \in Clients |-> Null]

\* Target is a connector of a start, a transaction of a stop and 0 of a reset;
\* Seen is the TransactionInfo that a stop found, without what may still change of it.
\* Since is history: the counter when a start looked its connector up, which tells
\* the transactions that began later.
Commands ==
    [Op : {"reset", "start", "stop"}, To : ChargePoint,
     Target : ConnectorIds \cup TransactionIds \cup {0},
     Seen : (ConnectorIds \X Stamps) \cup {Null}, Since : 0 .. MaxTransactions,
     Sent : BOOLEAN]

ASSUME CommandsAssumption == Null \notin Commands

\* A request that is refused (not a POST, unknown or unfit target) is answered
\* at once and leaves no trace; only the ones that pass the checks appear here.
Checked(u, op, cp, target, seen) ==
    /\ running /\ commands[u] = Null /\ Known(cp)
    /\ commands' = [commands EXCEPT ![u] =
           [Op |-> op, To |-> cp, Target |-> target, Seen |-> seen,
            Since |-> IF op = "start" THEN nextTransactionId ELSE 0, Sent |-> FALSE]]
    /\ UNCHANGED vars

Reset(u, cp) == Checked(u, "reset", cp, 0, Null)

\* Faulty variant: a connector in use is not refused.
StartTransactionUnchecked(u, cp, c) ==
    /\ Known(cp) /\ chargePoints[cp].Connectors[c] # Null
    /\ Checked(u, "start", cp, c, Null)

StartTransaction(u, cp, c) ==
    /\ Known(cp) /\ chargePoints[cp].Connectors[c] # Null
    /\ ~hasTransactionInProgress(chargePoints[cp].Connectors[c])
    /\ Checked(u, "start", cp, c, Null)

\* Faulty variant: the transaction is looked up in all charge points.
StopTransactionOfAnyone(u, cp, t) ==
    \E o \in ChargePoint :
        /\ Recorded(chargePoints, o, t)
        /\ LET trans == chargePoints[o].Transactions[t]
           IN  /\ ~hasTransactionEnded(trans)
               /\ Checked(u, "stop", cp, t, <<trans.ConnectorId, trans.Start>>)

StopTransaction(u, cp, t) ==
    /\ Recorded(chargePoints, cp, t)
    /\ LET trans == chargePoints[cp].Transactions[t]
       IN  /\ ~hasTransactionEnded(trans)
           /\ Checked(u, "stop", cp, t, <<trans.ConnectorId, trans.Start>>)

\* Faulty variant: the error of the library is not looked at.
SendIgnoresError(u) ==
    /\ running /\ commands[u] # Null /\ ~commands[u].Sent
    /\ commands' = [commands EXCEPT ![u] = [commands[u] EXCEPT !.Sent = TRUE]]
    /\ UNCHANGED vars

\* The library takes a request for a connected charge point only; otherwise
\* the handler answers with the error.
Send(u) ==
    /\ running /\ commands[u] # Null /\ ~commands[u].Sent
    /\ commands' = [commands EXCEPT ![u] =
           IF commands[u].To \in connected THEN [commands[u] EXCEPT !.Sent = TRUE] ELSE Null]
    /\ UNCHANGED vars

Awaiting(u) == commands[u] # Null /\ commands[u].Sent

\* The library calls back for requests it has taken and still holds.
Owed(u) == running /\ Awaiting(u) /\ commands[u].To \in connected

\* The callback with a confirmation: accepted or rejected, the client gets its
\* answer and the handler is released.
Callback(u) ==
    /\ Owed(u)
    /\ commands' = [commands EXCEPT ![u] = Null]
    /\ UNCHANGED vars

\* The callback with an error: an answer the charge point refuses or that is
\* late, or none because it disconnected.
CallbackPanics(u) ==
    /\ Owed(u)
    /\ Stopped
    /\ commands' = NoCommands

-----------------------------------------------------------------------------
(* The central system's steps among those of the handlers *)

\* Faulty variant: the disconnection handler runs although a request waits.
DisconnectedFirst(cp) == ChargePointDisconnected(cp) /\ UNCHANGED commands

\* A request that waits is failed before the disconnection handler runs, so
\* that handler is reached only without one.
Disconnected(cp) ==
    /\ \A u \in Clients : Awaiting(u) => commands[u].To # cp
    /\ ChargePointDisconnected(cp)
    /\ UNCHANGED commands

\* Whatever ends the process ends its handlers.
Survivors == IF running' THEN commands ELSE NoCommands

RCInit == Init /\ commands = NoCommands

Command(u) ==
    \/ \E cp \in ChargePoint :
          \/ Reset(u, cp)
          \/ \E c \in ConnectorIds : StartTransaction(u, cp, c)
          \/ \E t \in TransactionIds : StopTransaction(u, cp, t)
    \/ Send(u) \/ Callback(u) \/ CallbackPanics(u)

RCNext ==
    \/ \E u \in Clients : Command(u)
    \/ \E cp \in ChargePoint : Disconnected(cp)
    \/ \E cp \in ChargePoint :
          (NewChargePoint(cp) \/ Request(cp)) /\ commands' = Survivors
    \/ (Save \/ Crash \/ Restart) /\ commands' = Survivors

\* The handlers run on, and the library bounds the wait for an answer.
RCSpec ==
    /\ RCInit /\ [][RCNext]_rcVars
    /\ WF_rcVars(Save /\ UNCHANGED commands)
    /\ WF_rcVars(Restart /\ UNCHANGED commands)
    /\ \A u \in Clients : WF_rcVars(Send(u)) /\ WF_rcVars(Callback(u) \/ CallbackPanics(u))

-----------------------------------------------------------------------------
(* Properties *)

\* A handler waits only for a charge point that is connected, so the library
\* still owes it a callback, and no handler outlives the process.
RCTypeOK ==
    /\ commands \in [Clients -> Commands \cup {Null}]
    /\ \A u \in Clients : Awaiting(u) => commands[u].To \in connected
    /\ ~running => commands = NoCommands

\* The look-up of a start may be old when the request goes out: the charge point
\* may have reconnected, with an empty entry, or have started on the connector
\* by itself or for another request.  What the start finds there began after
\* its look-up (http.go refuses a connector in use): no stop, reconnection or
\* change of the entry lets an older transaction come back to the connector.
StartFindsOnlyNewer ==
    \A u \in Clients :
        (commands[u] # Null /\ commands[u].Op = "start") =>
            LET t == Current(chargePoints, commands[u].To, commands[u].Target)
            IN  t >= 0 => t >= commands[u].Since

\* The look-up of a stop may be old when the request goes out: the charge
\* point may have reconnected, with an empty entry, and other transactions may
\* have begun.  Still the id never comes to mean another transaction than the
\* one that was looked up, because the counter does not go back while the
\* process runs, and the pending request does not outlive the process.
StopMeansWhatWasSeen ==
    \A u \in Clients :
        (commands[u] # Null /\ commands[u].Op = "stop") =>
            \A cp \in ChargePoint :
                Recorded(chargePoints, cp, commands[u].Target) =>
                    LET ti == chargePoints[cp].Transactions[commands[u].Target]
                    IN  /\ cp = commands[u].To
                        /\ <<ti.ConnectorId, ti.Start>> = commands[u].Seen

\* Every HTTP request is answered or ends with the process: the wait on the
\* channel in http.go has no timeout of its own.
EveryCommandSettles == \A u \in Clients : commands[u] # Null ~> commands[u] = Null

=============================================================================
