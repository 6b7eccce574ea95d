----------------------------- MODULE LiveTracking -----------------------------
(***************************************************************************)
(* The live position of a train: the widget of the dashboard               *)
(* (LiveTrackingWidget.tsx 32-102) and the WebSocket server that asks for  *)
(* the train's status every 5 seconds and for every connection             *)
(* (live-tracking-ws.service.ts).  The two ends of a socket learn of its   *)
(* end at different times.  The clean-up of the widget's effect closes the *)
(* socket of its closure, the one the widget was opened with; a socket     *)
(* made by "Reconnect" is in wsRef only, which is set to null: it stays    *)
(* open when the widget is gone, and its train is asked for ever.          *)
(***************************************************************************)
EXTENDS Naturals

CONSTANTS NoSocket,
          MaxSockets    \* bound of the sockets ever made

TrackingAssumption == MaxSockets \in Nat /\ NoSocket \notin 1..MaxSockets

VARIABLES serverUp,
          widget,   \* first: the closure's socket, ref: wsRef.current
          made,     \* sockets made so far
          client,   \* readyState of a socket in the browser
          server,   \* and at the server
          timer,    \* sub.interval is set
          poll,     \* getLiveStatus is awaited
          retried   \* sockets made by reconnect()

vars == <<serverUp, widget, made, client, server, timer, poll, retried>>

Sockets == 1..MaxSockets
Gone == [open |-> FALSE, first |-> NoSocket, ref |-> NoSocket,
         connState |-> "connecting", status |-> FALSE]

Init ==
  /\ serverUp = TRUE
  /\ widget = Gone
  /\ made = 0
  /\ client = [s \in Sockets |-> "none"]
  /\ server = [s \in Sockets |-> "none"]
  /\ timer = [s \in Sockets |-> FALSE]
  /\ poll = [s \in Sockets |-> FALSE]
  /\ retried = {}

\* The handlers of a socket set the state of the widget that made it, if that
\* is still there.
Handler(s, field, value) ==
  widget' = IF widget.open /\ s >= widget.first
            THEN [widget EXCEPT ![field] = value] ELSE widget

\* close() of a socket that is closed already does nothing.
Closed(s) == [client EXCEPT ![s] = IF @ \in {"connecting", "open"} THEN "closing" ELSE @]

\* The effect: a socket, which the closure and wsRef have.
Open ==
  /\ ~widget.open /\ made < MaxSockets
  /\ made' = made + 1
  /\ widget' = [Gone EXCEPT !.open = TRUE, !.first = made + 1, !.ref = made + 1]
  /\ client' = [client EXCEPT ![made + 1] = "connecting"]
  /\ UNCHANGED <<serverUp, server, timer, poll, retried>>

\* Mutant of CloseWidget: wsRef is given up, and its socket is not closed.
CloseWidgetLeavesSocket ==
  /\ widget.open
  /\ widget' = Gone
  /\ UNCHANGED <<serverUp, made, client, server, timer, poll, retried>>

\* The clean-up.
CloseWidget ==
  /\ widget.open
  /\ widget' = Gone
  /\ client' = Closed(widget.first)
  /\ UNCHANGED <<serverUp, made, server, timer, poll, retried>>

\* The button is there after an error, or while there is nothing to show.
OffersReconnect ==
  widget.open /\ widget.connState = "disconnected" /\ ~widget.status

Reconnect ==
  /\ OffersReconnect /\ made < MaxSockets
  /\ made' = made + 1
  /\ client' = [Closed(widget.ref) EXCEPT ![made + 1] = "connecting"]
  /\ widget' = [widget EXCEPT !.ref = made + 1, !.connState = "connecting", !.status = FALSE]
  /\ retried' = retried \cup {made + 1}
  /\ UNCHANGED <<serverUp, server, timer, poll>>

\* The server's 'connection': subscription and timer; the browser may have
\* turned away, or given up, by now.
Connection(s) ==
  /\ serverUp
  /\ client[s] # "none" /\ server[s] = "none"
  /\ server' = [server EXCEPT ![s] = "open"]
  /\ timer' = [timer EXCEPT ![s] = TRUE]
  /\ UNCHANGED <<serverUp, widget, made, client, poll, retried>>

OnOpen(s) ==
  /\ client[s] = "connecting" /\ server[s] = "open"
  /\ client' = [client EXCEPT ![s] = "open"]
  /\ Handler(s, "connState", "connected")
  /\ UNCHANGED <<serverUp, made, server, timer, poll, retried>>

\* The network, the server, a token that is over, or close(): onerror, where
\* there was one, and onclose in one task, so that 'error' is never seen.  The
\* handshake of an end that the server began is left out.
OnClose(s) ==
  /\ client[s] \in {"connecting", "open", "closing"}
  /\ client' = [client EXCEPT ![s] = "closed"]
  /\ Handler(s, "connState", "disconnected")
  /\ UNCHANGED <<serverUp, made, server, timer, poll, retried>>

\* The server's 'close' or 'error' for a socket, whoever ended it.
ServerClose(s) ==
  /\ server[s] = "open"
  /\ server' = [server EXCEPT ![s] = "closed"]
  /\ timer' = [timer EXCEPT ![s] = FALSE]
  /\ UNCHANGED <<serverUp, widget, made, client, poll, retried>>

\* An answer that takes longer than the interval is overtaken by the next call:
\* one of them stands for all.
Poll(s) ==
  /\ timer[s] /\ ~poll[s]
  /\ poll' = [poll EXCEPT ![s] = TRUE]
  /\ UNCHANGED <<serverUp, widget, made, client, server, timer, retried>>

\* The status is sent if the socket is still open, and shown by onmessage; no
\* status, an error and a closed socket are silent.
Status(s) ==
  /\ poll[s]
  /\ poll' = [poll EXCEPT ![s] = FALSE]
  /\ \/ server[s] = "open" /\ client[s] = "open" /\ Handler(s, "status", TRUE)
     \/ UNCHANGED widget
  /\ UNCHANGED <<serverUp, made, client, server, timer, retried>>

\* closeLiveTracking: every timer is cleared, every socket closed.
CloseLiveTracking ==
  /\ serverUp /\ serverUp' = FALSE
  /\ timer' = [s \in Sockets |-> FALSE]
  /\ server' = [s \in Sockets |-> IF server[s] = "open" THEN "closed" ELSE server[s]]
  /\ poll' = [s \in Sockets |-> FALSE]
  /\ UNCHANGED <<widget, made, client, retried>>

SetupLiveTracking ==
  /\ ~serverUp /\ serverUp' = TRUE
  /\ UNCHANGED <<widget, made, client, server, timer, poll, retried>>

Next ==
  \/ Open \/ CloseWidget \/ Reconnect \/ CloseLiveTracking \/ SetupLiveTracking
  \/ \E s \in Sockets : \/ Connection(s) \/ OnOpen(s) \/ OnClose(s)
                        \/ ServerClose(s) \/ Poll(s) \/ Status(s)

Spec == Init /\ [][Next]_vars
-----------------------------------------------------------------------------
States == {"none", "connecting", "open", "closing", "closed"}

TypeOK ==
  /\ serverUp \in BOOLEAN
  /\ widget \in [open : BOOLEAN, first : Sockets \cup {NoSocket},
                 ref : Sockets \cup {NoSocket},
                 connState : {"connecting", "connected", "disconnected"},
                 status : BOOLEAN]
  /\ made \in 0..MaxSockets
  /\ client \in [Sockets -> States]
  /\ server \in [Sockets -> {"none", "open", "closed"}]
  /\ timer \in [Sockets -> BOOLEAN] /\ poll \in [Sockets -> BOOLEAN]
  /\ retried \subseteq Sockets

\* What the widget says of its connection is true of the socket it has now,
\* whatever late events of earlier sockets come in; and no socket but one of a
\* reconnection is live without a widget, nor has a timer at the server without
\* a connection there.
TrackingHonest ==
  /\ widget.open /\ widget.connState = "connected" => client[widget.ref] = "open"
  /\ widget.open /\ widget.connState = "disconnected" => client[widget.ref] = "closed"
  /\ \A s \in Sockets \ retried :
        client[s] \in {"connecting", "open"} => widget.open /\ widget.ref = s
  /\ \A s \in Sockets : timer[s] => server[s] = "open"
=============================================================================
