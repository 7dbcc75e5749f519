--------------------------- MODULE InterlockGuard ---------------------------
(***************************************************************************)
(* What one call of ag_flex_run_session promises, to the operator of the   *)
(* radio and to the loops of main.c that call it, without saying how:      *)
(* no lines, sequence numbers, deferred updates or timeouts.               *)
(*                                                                         *)
(* FlexSession implements it (ImplementsGuard); Lifecycle is built on it.  *)
(***************************************************************************)

VARIABLES
    phase,           \* "connecting", "connected", "ended"
    told,            \* the last interlock command the radio was sent
    may_transmit,    \* transmission is asked for and the matrix permits it
    result,          \* the ag_session_result, once the call has returned
    stop_requested,  \* set by the signal handler
    link_up,         \* no send and no read has failed so far
    observe_only

guard_vars == <<phase, told, may_transmit, result, stop_requested, link_up,
                observe_only>>

\* The state at the call; the stop flag is the caller's.
Begin ==
    /\ phase = "connecting"
    /\ told = "none"
    /\ may_transmit = FALSE
    /\ result = "none"
    /\ link_up = TRUE

Init == Begin /\ stop_requested = FALSE /\ observe_only \in BOOLEAN

\* No address is tried once a stop is requested.
Connects ==
    /\ phase = "connecting" /\ ~stop_requested
    /\ phase' = "connected"
    /\ UNCHANGED <<told, may_transmit, result, stop_requested, link_up,
                   observe_only>>

Unavailable ==
    /\ phase = "connecting"
    /\ phase' = "ended"
    /\ result' = IF stop_requested THEN "STOPPED" ELSE "UNAVAILABLE"
    /\ UNCHANGED <<told, may_transmit, stop_requested, link_up, observe_only>>

\* A status of the radio changes what the session knows.
Learns ==
    /\ phase = "connected"
    /\ may_transmit' \in BOOLEAN
    /\ UNCHANGED <<phase, told, result, stop_requested, link_up, observe_only>>

\* The order of interlock commands on the wire.
MayFollow(c, d) ==
    \/ c = "none" /\ d = "create"
    \/ c = "create" /\ d \in {"not_ready", "remove"}
    \/ c \in {"not_ready", "ready"} /\ d \in {"not_ready", "ready", "remove"}

\* Only a session that protects sends interlock commands, in their order,
\* and ready only while transmission is asked for and permitted.
Tells(command) ==
    /\ phase = "connected" /\ ~observe_only
    /\ MayFollow(told, command)
    /\ command = "ready" => may_transmit
    /\ told' = command
    /\ UNCHANGED <<phase, may_transmit, result, stop_requested, link_up,
                   observe_only>>

Breaks ==
    /\ phase = "connected"
    /\ link_up' = FALSE
    /\ UNCHANGED <<phase, told, may_transmit, result, stop_requested,
                   observe_only>>

\* The call returns: with an armed interlock only if the link broke, at the
\* latest with this step, and as stopped only if a stop was requested.
Ends ==
    /\ phase = "connected"
    /\ phase' = "ended"
    /\ stop_requested' \in {stop_requested, TRUE}
    /\ link_up' \in {link_up, FALSE}
    /\ link_up' => told \notin {"not_ready", "ready"}
    /\ \/ result' = "STOPPED" /\ stop_requested'
       \/ result' = "DISCONNECTED" /\ ~link_up'
       \/ result' = "ERROR"
    /\ UNCHANGED <<told, may_transmit, observe_only>>

SessionStep ==
    \/ Connects \/ Unavailable \/ Learns \/ Breaks \/ Ends
    \/ \E command \in {"create", "not_ready", "ready", "remove"} : Tells(command)

\* SIGINT or SIGTERM.
Signal ==
    /\ stop_requested' = TRUE
    /\ UNCHANGED <<phase, told, may_transmit, result, link_up, observe_only>>

Next == SessionStep \/ Signal

Spec == Init /\ [][Next]_guard_vars
=============================================================================
