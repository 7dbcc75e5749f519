----------------------------- MODULE FlexSystem -----------------------------
(***************************************************************************)
(* The session of FlexSession with a radio at the other end of a TCP       *)
(* connection: two FIFO channels, a radio that executes one command after  *)
(* the other and reports what its operator does.                           *)
(*                                                                         *)
(* The radio is not part of the repository.  It is modelled from what      *)
(* flex.c expects of it and what the fake radio of the tests does, and is  *)
(* left free where neither decides: it may be slow without limit, reject   *)
(* any command, create an interlock that is ready, and report a change of  *)
(* frequency without the antenna.                                          *)
(***************************************************************************)
EXTENDS FlexSession

CONSTANT MaxEvents     \* bound on what the operator does at the radio

ASSUME MaxEventsAssumption == MaxEvents \in Nat

VARIABLES
    to_radio,          \* command frames the radio has not executed
    from_radio,        \* lines the session has not read
    radio_id,          \* the dynamic interlock the radio holds, or NoId
    radio_ready,       \* that interlock is ready
    radio_hz,          \* the transmit frequency
    radio_antenna,     \* the transmit antenna, see NoSlice
    radio_keyed,       \* a client of the radio asks to transmit
    subscribed,        \* "sub tx all" was executed
    events             \* how many of MaxEvents have happened

radio_context == <<radio_hz, radio_antenna>>
interlock == <<radio_id, radio_ready>>

radio_vars == <<interlock, radio_context, radio_keyed, subscribed, events>>

system_vars == <<vars, to_radio, from_radio, radio_vars>>

\* The radio has no transmit slice: its antenna is "INVALID", in any letters.
NoSlice == SameName(radio_antenna, "INVALID")

Frame == [sequence : 0 .. SequenceModulus - 1, command : Commands]

-----------------------------------------------------------------------------
(* Lines the radio sends.                                                  *)

ResponseTo(frame, code, body) ==
    [kind |-> "response",
     response |-> [sequence |-> frame.sequence, code |-> code, body |-> body]]

FullReport(hz, antenna) ==
    [kind |-> "transmit", freq |-> [hz |-> hz, clean |-> TRUE],
     tx_antenna |-> antenna]

FrequencyReport(hz) ==
    [kind |-> "transmit", freq |-> [hz |-> hz, clean |-> TRUE],
     tx_antenna |-> NoField]

AntennaReport(antenna) ==
    [kind |-> "transmit", freq |-> NoField, tx_antenna |-> antenna]

StateReport(state) == [kind |-> "interlock", state |-> state]

\* A link that has failed delivers nothing more.
Deliver(lines) ==
    from_radio' = IF link_up THEN from_radio \o lines ELSE from_radio

Report(line) == Deliver(<<line>>)

-----------------------------------------------------------------------------
(* The radio.                                                              *)

\* The next command is executed and answered.
RadioAccepts ==
    /\ to_radio # <<>>
    /\ to_radio' = Tail(to_radio)
    /\ UNCHANGED <<vars, radio_context, radio_keyed, events>>
    /\ LET frame == Head(to_radio)
       IN  \/ /\ frame.command = "create"
              /\ radio_id' \in Ids
              /\ radio_ready' \in BOOLEAN
              /\ Deliver(<<ResponseTo(frame, 0, radio_id')>>)
              /\ UNCHANGED subscribed
           \/ /\ frame.command \in {"ready", "not_ready"}
              /\ radio_id # NoId
              /\ radio_ready' = (frame.command = "ready")
              /\ Deliver(<<ResponseTo(frame, 0, NoId)>>)
              /\ UNCHANGED <<radio_id, subscribed>>
           \/ /\ frame.command = "remove"
              /\ radio_id' = NoId
              /\ radio_ready' = FALSE
              /\ Deliver(<<ResponseTo(frame, 0, NoId)>>)
              /\ UNCHANGED subscribed
           \/ /\ frame.command = "sub tx"
              /\ subscribed' = TRUE
              /\ Deliver(<<ResponseTo(frame, 0, NoId),
                           FullReport(radio_hz, radio_antenna)>>)
              /\ UNCHANGED interlock
           \/ /\ frame.command \in {"name", "sub radio", "sub slice"}
              /\ Deliver(<<ResponseTo(frame, 0, NoId)>>)
              /\ UNCHANGED <<interlock, subscribed>>

\* The next command is answered with an error and has no effect.
RadioRejects ==
    /\ to_radio # <<>>
    /\ to_radio' = Tail(to_radio)
    /\ \E code \in Codes \ {0} : Deliver(<<ResponseTo(Head(to_radio), code, NoId)>>)
    /\ UNCHANGED <<vars, radio_vars>>

\* Before the subscription nothing is reported: what happens until then is
\* in the choice of the initial values.  Nor is it without a connection.
OperatorActs ==
    /\ subscribed /\ link_up /\ pc # "closed"
    /\ events < MaxEvents
    /\ events' = events + 1
    /\ UNCHANGED <<vars, to_radio, interlock, subscribed>>

\* The frequency of the transmit slice changes; the report has no antenna.
Tune ==
    /\ OperatorActs
    /\ radio_hz' \in Frequencies \ {radio_hz}
    /\ Report(FrequencyReport(radio_hz'))
    /\ UNCHANGED <<radio_antenna, radio_keyed>>

\* Another antenna is selected for the transmit slice, or there is no
\* transmit slice any more.
SelectAntenna ==
    /\ OperatorActs
    /\ ~NoSlice
    /\ radio_antenna' \in Names \ {"", radio_antenna}
    /\ Report(AntennaReport(radio_antenna'))
    /\ UNCHANGED <<radio_hz, radio_keyed>>

\* A transmit slice appears: both of its fields are reported.
SelectSlice ==
    /\ OperatorActs
    /\ NoSlice
    /\ radio_hz' \in Frequencies
    /\ radio_antenna' \in Names \ {""}
    /\ ~NoSlice'
    /\ Report(FullReport(radio_hz', radio_antenna'))
    /\ UNCHANGED radio_keyed

Key ==
    /\ OperatorActs
    /\ ~radio_keyed
    /\ radio_keyed' = TRUE
    /\ Report(StateReport("PTT_REQUESTED"))
    /\ UNCHANGED radio_context

\* The interlock lets a keyed radio transmit.
Transmit ==
    /\ OperatorActs
    /\ radio_keyed
    /\ radio_id = NoId \/ radio_ready
    /\ Report(StateReport("TRANSMITTING"))
    /\ UNCHANGED <<radio_context, radio_keyed>>

Unkey ==
    /\ OperatorActs
    /\ radio_keyed
    /\ radio_keyed' = FALSE
    /\ Report(StateReport("UNKEY_REQUESTED"))
    /\ UNCHANGED radio_context

RadioNext ==
    \/ RadioAccepts \/ RadioRejects
    \/ Tune \/ SelectAntenna \/ SelectSlice \/ Key \/ Transmit \/ Unkey

-----------------------------------------------------------------------------
(* The session's steps that use the connection.                            *)

SystemSend ==
    /\ SendFrame
    /\ to_radio' = IF link_up
                   THEN Append(to_radio, [sequence |-> sequence', command |-> command])
                   ELSE to_radio
    /\ UNCHANGED <<from_radio, radio_vars>>

SystemRead ==
    /\ from_radio # <<>>
    /\ ReadLine(Head(from_radio)) \/ PollLine(Head(from_radio))
    /\ from_radio' = Tail(from_radio)
    /\ UNCHANGED <<to_radio, radio_vars>>

\* Part of the next line has arrived.
SystemReadPartial ==
    /\ from_radio # <<>>
    /\ ReadPartial
    /\ UNCHANGED <<to_radio, from_radio, radio_vars>>

\* The connection fails: nothing more is read, and the radio receives only
\* some of the frames that were sent.
SystemLoses ==
    /\ SendFails \/ ReadFails \/ PollFails
    /\ from_radio' = <<>>
    /\ \E n \in 0 .. Len(to_radio) : to_radio' = SubSeq(to_radio, 1, n)
    /\ UNCHANGED radio_vars

\* Steps the thread takes by itself.
SystemLocal ==
    /\ \/ Connect \/ ConnectFails \/ SendRefused
       \/ AwaitStopped \/ AwaitSaved \/ AwaitExpired \/ AwaitRead
       \/ ReadTimesOut
       \/ LoopReads \/ LoopStops \/ PollNothing \/ remove_interlock
    /\ UNCHANGED <<to_radio, from_radio, radio_vars>>

SystemClock == DeadlinePasses /\ UNCHANGED <<to_radio, from_radio, radio_vars>>

SystemSignal ==
    /\ Signal \/ ReadInterrupted
    /\ UNCHANGED <<to_radio, from_radio, radio_vars>>

SystemInit ==
    /\ SessionInit
    /\ to_radio = <<>> /\ from_radio = <<>>
    /\ radio_id = NoId /\ radio_ready = FALSE
    /\ radio_hz \in Frequencies /\ radio_antenna \in Names \ {""}
    /\ radio_keyed \in BOOLEAN
    /\ subscribed = FALSE
    /\ events = 0

SystemNext ==
    \/ SystemSend \/ SystemRead \/ SystemReadPartial \/ SystemLoses
    \/ SystemLocal \/ SystemClock \/ SystemSignal
    \/ RadioNext
    \/ Returned /\ UNCHANGED system_vars

SystemSpec == SystemInit /\ [][SystemNext]_system_vars

(***************************************************************************)
(* The thread is scheduled, the clock advances, and a line that was sent   *)
(* on a connection that lives is read in the end, although any single poll *)
(* may miss it.  The radio need not do anything.                           *)
(***************************************************************************)
SystemFairness ==
    /\ WF_system_vars(SystemSend \/ SystemLocal)
    /\ WF_system_vars(SystemClock)
    /\ SF_system_vars(SystemRead)

FairSystemSpec == SystemSpec /\ SystemFairness

-----------------------------------------------------------------------------
(* Safety.                                                                 *)

\* The channels hold frames and lines, and the radio's state has its type.
SystemTypeOK ==
    /\ to_radio \in Seq(Frame)
    /\ from_radio \in Seq(Line)
    /\ radio_id \in Ids \cup {NoId}
    /\ radio_ready \in BOOLEAN
    /\ radio_hz \in Frequencies
    /\ radio_antenna \in Names \ {""}
    /\ radio_keyed \in BOOLEAN
    /\ subscribed \in BOOLEAN
    /\ events \in 0 .. MaxEvents

LinesOfKind(kind) ==
    {i \in 1 .. Len(from_radio) : from_radio[i].kind = kind}

\* What the matrix says of the radio's own frequency and antenna.
RadioPermits ==
    Permitted(config, ~NoSlice, radio_hz, radio_antenna)

RadioMayTransmit == radio_keyed /\ RadioPermits

(***************************************************************************)
(* When the session has read every transmit report, it judges the radio's  *)
(* frequency and antenna as the matrix does, although reports carry one    *)
(* field or both, "INVALID" withdraws both, and overlong names are refused *)
(* (handle_transmit).                                                      *)
(***************************************************************************)
ContextAgrees ==
    subscribed /\ link_up /\ pc # "closed" /\ LinesOfKind("transmit") = {}
        => (Allowed <=> RadioPermits)

(***************************************************************************)
(* A radio whose interlock is ready without an allowed PTT is about to be  *)
(* told not_ready: the frame is on its way, or is the next one the session *)
(* sends, or the line that makes it send one has not been read; or the     *)
(* session is creating the interlock, or ending, or has lost the radio.    *)
(***************************************************************************)
WithdrawalUnderWay ==
    radio_ready /\ ~RadioMayTransmit =>
        \/ \E i \in 1 .. Len(to_radio) : to_radio[i].command = "not_ready"
        \/ from_radio # <<>>
        \/ NotReadyComing
        \/ Ending
        \/ ~link_up
        \/ step = "create"

(***************************************************************************)
(* remove_interlock logs "Removed interlock" only when the radio did: a    *)
(* late answer to a command that was given up is not taken for the answer  *)
(* to the cleanup command.                                                 *)
(***************************************************************************)
ConfirmedRemovalIsReal == cleanup_confirmed => radio_id = NoId

(***************************************************************************)
(* The fake radio's test asserts that the response cache does not overflow *)
(* ("response cache overflowed during band change"): with a radio that     *)
(* answers each command once, at most one response is ever waiting in it.  *)
(***************************************************************************)
CacheHoldsOne ==
    \A i, j \in Slots \ FreeSlots : i = j

-----------------------------------------------------------------------------
(* Liveness, of FairSystemSpec.                                            *)

(***************************************************************************)
(* A radio that is ready without an allowed PTT does not stay so while the *)
(* session lasts, even if it never answers and reports without end.        *)
(***************************************************************************)
ForbiddenIsWithdrawn ==
    (radio_ready /\ ~RadioMayTransmit)
        ~> \/ ~radio_ready
           \/ RadioMayTransmit
           \/ pc = "closed"

-----------------------------------------------------------------------------
(* A claim of the repository that the system does not keep.                *)

(***************************************************************************)
(* README: "SIGINT and SIGTERM remove the dynamic interlock before exit    *)
(* when the radio connection is still available."  A stop that arrives     *)
(* while the answer to create is awaited leaves before the ID is known,    *)
(* and the interlock stays at the radio.                                   *)
(***************************************************************************)
StopRemovesInterlock ==
    pc = "closed" /\ stop_requested /\ link_up /\ to_radio = <<>>
        => radio_id = NoId
=============================================================================
