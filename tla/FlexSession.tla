---------------------------- MODULE FlexSession ----------------------------
(***************************************************************************)
(* One call of ag_flex_run_session (flex.c): the client's side of a TCP    *)
(* session with the radio.  The radio is left open: at every read it may   *)
(* have sent any line at all, in any order and any number of times, the    *)
(* link may fail at every send and read, and a signal may arrive between   *)
(* any two steps.  What is proved of SessionSpec therefore holds with      *)
(* every radio; module FlexSystem closes the model with one.               *)
(*                                                                         *)
(* Lines are whole protocol lines.  A response is abstracted to its        *)
(* sequence number, result code and the interlock ID its body yields, a    *)
(* status to the fields the handlers look at.                              *)
(***************************************************************************)
EXTENDS Policy

CONSTANTS
    config,            \* the loaded configuration (its antenna rows)
    LongNames,         \* the names longer than AG_MAX_ANTENNA_ID
    Frequencies,       \* the frequencies the radio may report
    Codes,             \* result codes of the radio, 0 is success
    Ids,               \* interlock IDs the radio may hand out
    NoId,              \* the empty interlock_id; also a body without a usable ID
    NoField,           \* a field that a status line does not carry
    SequenceModulus,   \* 2^32 in the program: connection->sequence is unsigned
    SavedResponses     \* AG_SAVED_RESPONSES

ASSUME SessionAssumption ==
    /\ config \in Configs /\ DistinctRows(config)
    /\ LongNames \subseteq Names \ {"", "INVALID"}
    /\ Frequencies \subseteq Int
    /\ 0 \in Frequencies       \* frequency_mhz of a zeroed connection
    /\ Codes \subseteq Nat /\ 0 \in Codes
    /\ NoId \notin Ids
    /\ NoField \notin Names
    /\ NoField \notin [hz : Frequencies, clean : BOOLEAN]
    /\ SequenceModulus \in Nat \ {0, 1}
    /\ SavedResponses \in Nat

\* valid_antenna_id (config.c) limits the names of rows to AG_MAX_ANTENNA_ID,
\* and names that differ in letter case only are equally long.
ASSUME ShortRowsAssumption ==
    \A i \in Rows(config), name \in LongNames :
        ~SameName(config.antennas[i].id, name)

VARIABLES
    pc,                 \* where the thread is, see Locations
    step,               \* which caller of send_command is active, see Steps
    command,            \* the command being sent or awaited
    expired,            \* the deadline of that command has passed
    sequence,
    interlock_id,
    observe_only,
    has_frequency,
    frequency_mhz,      \* in Hz, see Policy
    tx_antenna,
    interlock_update_pending,
    pending_interlock_ready,
    saved_responses,
    result,             \* the ag_session_result the call will return
    cleanup_confirmed,  \* remove_interlock logged "Removed", not "not confirmed"
    stop_requested,     \* set by the signal handler
    link_up,            \* no send_all and no read_line has failed so far
    last_interlock_command, \* history: the last interlock command sent
    keyed               \* history: the last PTT or UNKEY request read was a PTT

context == <<has_frequency, frequency_mhz, tx_antenna>>
pending == <<interlock_update_pending, pending_interlock_ready>>

vars == <<pc, step, command, expired, sequence, interlock_id, observe_only,
          has_frequency, frequency_mhz, tx_antenna, interlock_update_pending,
          pending_interlock_ready, saved_responses, result, cleanup_confirmed,
          stop_requested, link_up, last_interlock_command, keyed>>

-----------------------------------------------------------------------------
(* Locations of the thread and the commands it sends.                      *)

\* connect, send_command_once (send: before the frame; await: at the head of
\* the while loop; read: in read_line), the main loop (loop: at its head;
\* poll: in read_line), cleanup: label of ag_flex_run_session, returned.
Locations == {"connect", "send", "await", "read", "loop", "poll", "cleanup",
              "closed"}

\* initialize_session's commands in order (arm is its set_interlock(false)),
\* the main loop, remove_interlock.
Steps == {"name", "sub radio", "sub slice", "sub tx", "create", "arm", "run",
          "remove"}

InterlockCommands == {"create", "not_ready", "ready", "remove"}

Commands == {"name", "sub radio", "sub slice", "sub tx"} \cup InterlockCommands

Results == {"none", "STOPPED", "UNAVAILABLE", "DISCONNECTED", "ERROR"}

\* The flag of the connection: set around each send_command_once.
command_in_progress == pc \in {"send", "await", "read"}

\* The cleanup_command argument of send_command.
cleanup_command == step = "remove"

-----------------------------------------------------------------------------
(* Lines.                                                                  *)

\* What parse_response yields.
Response == [sequence : 0 .. SequenceModulus - 1, code : Codes,
             body : Ids \cup {NoId}]

ResponseLine == [kind : {"response"}, response : Response]

\* A freq= value: what strtod made of it and whether it consumed all of it.
FrequencyField == [hz : Frequencies, clean : BOOLEAN]

TransmitLine == [kind : {"transmit"}, freq : FrequencyField \cup {NoField},
                 tx_antenna : Names \cup {NoField}]

\* "READY" stands for every state the handler does not name.
InterlockStates == {"PTT_REQUESTED", "UNKEY_REQUESTED", "TRANSMITTING", "READY"}

ASSUME NoStateAssumption == NoField \notin InterlockStates

InterlockLine == [kind : {"interlock"}, state : InterlockStates \cup {NoField}]

\* Any line that is neither a response nor one of the two statuses.
OtherLine == [kind : {"other"}]

StatusLine == TransmitLine \cup InterlockLine \cup OtherLine

Line == ResponseLine \cup StatusLine

-----------------------------------------------------------------------------
(* The cache of responses that arrived while another one was awaited.      *)

Slots == 1 .. SavedResponses

FreeSlots == {i \in Slots : saved_responses[i] = <<>>}

\* The first free slot; with none free the response is dropped.
save_response(response) ==
    \/ /\ FreeSlots = {}
       /\ UNCHANGED saved_responses
    \/ \E slot \in FreeSlots :
          /\ \A i \in FreeSlots : slot <= i
          /\ saved_responses' = [saved_responses EXCEPT ![slot] = <<response>>]

\* The slots take_response would return for the awaited sequence number.
MatchingSlots ==
    {i \in Slots : /\ saved_responses[i] # <<>>
                   /\ saved_responses[i][1].sequence = sequence}

-----------------------------------------------------------------------------
(* Returning from send_command.                                            *)

\* Mutant: initialize_session's failure is always reported as a stop.
Fails_as_stopped ==
    /\ UNCHANGED <<step, command, pending, cleanup_confirmed>>
    /\ \/ /\ cleanup_command
          /\ pc' = "closed"
          /\ interlock_id' = NoId
          /\ UNCHANGED result
       \/ /\ ~cleanup_command
          /\ pc' = "cleanup"
          /\ result' = IF step # "run" THEN "STOPPED" ELSE "ERROR"
          /\ UNCHANGED interlock_id

\* send_command returns -1: remove_interlock ends the session, every other
\* caller goes to the cleanup label.
Fails ==
    /\ UNCHANGED <<step, command, pending, cleanup_confirmed>>
    /\ \/ /\ cleanup_command
          /\ pc' = "closed"
          /\ interlock_id' = NoId
          /\ UNCHANGED result
       \/ /\ ~cleanup_command
          /\ pc' = "cleanup"
          /\ result' = IF step # "run" /\ stop_requested'
                       THEN "STOPPED" ELSE "ERROR"
          /\ UNCHANGED interlock_id

\* remove_interlock's command was confirmed.
Removed ==
    /\ cleanup_command
    /\ pc' = "closed"
    /\ interlock_id' = NoId
    /\ cleanup_confirmed' = TRUE
    /\ UNCHANGED <<step, command, result, pending>>

\* Mutant: send_command does not return early after the cleanup command.
SendDeferred_after_cleanup ==
    /\ interlock_update_pending
    /\ interlock_update_pending' = FALSE
    /\ command' = IF pending_interlock_ready THEN "ready" ELSE "not_ready"
    /\ pc' = "send"
    /\ UNCHANGED <<step, interlock_id, result, pending_interlock_ready,
                   cleanup_confirmed>>

\* An update was requested while the command was awaited: it is sent next.
SendDeferred ==
    /\ ~cleanup_command
    /\ interlock_update_pending /\ ~stop_requested
    /\ interlock_update_pending' = FALSE
    /\ command' = IF pending_interlock_ready THEN "ready" ELSE "not_ready"
    /\ pc' = "send"
    /\ UNCHANGED <<step, interlock_id, result, pending_interlock_ready,
                   cleanup_confirmed>>

NextStep == [s \in {"name", "sub radio", "sub slice", "sub tx"} |->
                CASE s = "name"      -> "sub radio"
                  [] s = "sub radio" -> "sub slice"
                  [] s = "sub slice" -> "sub tx"
                  [] s = "sub tx"    -> "create"]

\* initialize_session sends the next of its commands.
SendNext ==
    /\ step \in DOMAIN NextStep
    /\ step' = NextStep[step]
    /\ command' = NextStep[step]
    /\ pc' = "send"
    /\ UNCHANGED <<interlock_id, result>>

\* The response to create names the interlock, which is armed at once, or
\* it does not.
Created(body) ==
    \/ /\ body # NoId
       /\ interlock_id' = body
       /\ step' = "arm"
       /\ command' = "not_ready"
       /\ pc' = "send"
       /\ UNCHANGED result
    \/ /\ body = NoId
       /\ result' = IF stop_requested THEN "STOPPED" ELSE "ERROR"
       /\ pc' = "cleanup"
       /\ UNCHANGED <<step, command, interlock_id>>

\* initialize_session returns 0.
EnterLoop ==
    /\ step' = "run"
    /\ pc' = "loop"
    /\ UNCHANGED <<command, interlock_id, result>>

\* Mutant: an observing session does not return before create.
initialize_session_unobserving(body) ==
    /\ UNCHANGED <<pending, cleanup_confirmed>>
    /\ \/ SendNext
       \/ step = "create" /\ Created(body)
       \/ step = "arm" /\ EnterLoop

\* The caller of send_command continues after a success.
initialize_session(body) ==
    /\ UNCHANGED <<pending, cleanup_confirmed>>
    /\ \/ ~(step = "sub tx" /\ observe_only) /\ SendNext
       \/ step = "create" /\ Created(body)
       \/ step = "arm" /\ EnterLoop
       \/ step = "sub tx" /\ observe_only /\ EnterLoop

\* handle_status of the main loop returns 0.
ReturnToLoop ==
    /\ step = "run"
    /\ pc' = "loop"
    /\ UNCHANGED <<step, command, interlock_id, result, pending,
                   cleanup_confirmed>>

\* send_command_once returned 0 to send_command.
Succeeds(body) ==
    \/ Removed
    \/ SendDeferred
    \/ /\ ~cleanup_command
       /\ ~interlock_update_pending \/ stop_requested
       /\ initialize_session(body) \/ ReturnToLoop

accept_response(response) ==
    \/ response.code # 0 /\ Fails
    \/ response.code = 0 /\ Succeeds(response.body)

-----------------------------------------------------------------------------
(* Status handlers, called from the main loop and from a waiting command.  *)

Allowed ==
    ag_policy_evaluate(config, has_frequency, frequency_mhz, tx_antenna).allowed

\* The handler is done and leaves the interlock alone.
NoUpdate ==
    /\ pc' = IF command_in_progress THEN "await" ELSE "loop"
    /\ UNCHANGED <<command, pending>>

\* Mutant: an update during a command is forgotten.
set_interlock_forgetting(state) ==
    \/ /\ observe_only \/ interlock_id = NoId \/ command_in_progress
       /\ NoUpdate
    \/ /\ ~observe_only /\ interlock_id # NoId /\ ~command_in_progress
       /\ command' = state
       /\ pc' = "send"
       /\ UNCHANGED pending

\* Mutant: an update during a command is sent at once, in place of it.
set_interlock_nesting(state) ==
    \/ /\ observe_only \/ interlock_id = NoId
       /\ NoUpdate
    \/ /\ ~observe_only /\ interlock_id # NoId
       /\ command' = state
       /\ pc' = "send"
       /\ UNCHANGED pending

set_interlock(state) ==
    \/ /\ observe_only \/ interlock_id = NoId
       /\ NoUpdate
    \/ /\ ~observe_only /\ interlock_id # NoId
       /\ command_in_progress
       /\ interlock_update_pending' = TRUE
       /\ pending_interlock_ready' = (state = "ready")
       /\ pc' = "await"
       /\ UNCHANGED command
    \/ /\ ~observe_only /\ interlock_id # NoId
       /\ ~command_in_progress
       /\ command' = state
       /\ pc' = "send"
       /\ UNCHANGED pending

\* The antenna value is "INVALID" in any letter case.
SaysInvalid(line) ==
    line.tx_antenna # NoField /\ SameName(line.tx_antenna, "INVALID")

\* Mutant: INVALID withdraws the frequency and leaves the antenna.
ReportedContext_keeping_antenna(line) ==
    /\ has_frequency' = /\ ~SaysInvalid(line)
                        /\ IF line.freq = NoField THEN has_frequency
                                                  ELSE line.freq.clean
    /\ frequency_mhz' = IF line.freq = NoField THEN frequency_mhz
                                               ELSE line.freq.hz
    /\ tx_antenna' = IF line.tx_antenna = NoField \/ SaysInvalid(line)
                     THEN tx_antenna ELSE line.tx_antenna

\* The fields a transmit status carries replace the session's.
ReportedContext(line) ==
    /\ has_frequency' = /\ ~SaysInvalid(line)
                        /\ IF line.freq = NoField THEN has_frequency
                                                  ELSE line.freq.clean
    /\ frequency_mhz' = IF line.freq = NoField THEN frequency_mhz
                                               ELSE line.freq.hz
    /\ tx_antenna' =
          IF line.tx_antenna = NoField THEN tx_antenna
          ELSE IF SaysInvalid(line) \/ line.tx_antenna \in LongNames THEN ""
          ELSE line.tx_antenna

\* Mutant: a forbidden context does not reassert not_ready.
handle_transmit_silent(line) ==
    ReportedContext(line) /\ UNCHANGED keyed /\ NoUpdate

handle_transmit(line) ==
    /\ ReportedContext(line)
    /\ UNCHANGED keyed
    /\ \/ /\ ~Allowed' /\ interlock_id # NoId
          /\ set_interlock("not_ready")
       \/ /\ Allowed' \/ interlock_id = NoId
          /\ NoUpdate

handle_interlock(line) ==
    /\ UNCHANGED context
    /\ \/ /\ line.state = "PTT_REQUESTED"
          /\ keyed' = TRUE
          /\ set_interlock(IF Allowed THEN "ready" ELSE "not_ready")
       \/ /\ line.state = "UNKEY_REQUESTED"
          /\ keyed' = FALSE
          /\ set_interlock("not_ready")
       \/ /\ line.state = "TRANSMITTING" /\ ~Allowed
          /\ UNCHANGED keyed
          /\ set_interlock("not_ready")
       \/ /\ \/ line.state = "TRANSMITTING" /\ Allowed
             \/ line.state \in {"READY", NoField}
          /\ UNCHANGED keyed
          /\ NoUpdate

\* Responses read by the main loop, and all other lines, are ignored.
handle_status(line) ==
    \/ line.kind = "transmit" /\ handle_transmit(line)
    \/ line.kind = "interlock" /\ handle_interlock(line)
    \/ /\ line.kind \in {"response", "other"}
       /\ UNCHANGED <<context, keyed>>
       /\ NoUpdate

-----------------------------------------------------------------------------
(* The session's actions.                                                  *)

SessionInit ==
    /\ pc = "connect" /\ step = "name" /\ command = "name"
    /\ expired = FALSE
    /\ sequence = 0
    /\ interlock_id = NoId
    /\ observe_only \in BOOLEAN
    /\ has_frequency = FALSE /\ frequency_mhz = 0 /\ tx_antenna = ""
    /\ interlock_update_pending = FALSE /\ pending_interlock_ready = FALSE
    /\ saved_responses = [i \in Slots |-> <<>>]
    /\ result = "none"
    /\ cleanup_confirmed = FALSE
    /\ stop_requested = FALSE
    /\ link_up = TRUE
    /\ last_interlock_command = "none"
    /\ keyed = FALSE

\* What no action but Init decides, and what only reading a line changes.
UnreadVars == <<observe_only, context, keyed>>

\* SIGINT or SIGTERM: handle_signal.
Signal ==
    /\ pc # "closed"
    /\ ~stop_requested
    /\ stop_requested' = TRUE
    /\ UNCHANGED <<pc, step, command, expired, sequence, interlock_id, pending,
                   saved_responses, result, cleanup_confirmed, link_up,
                   last_interlock_command, UnreadVars>>

\* connect_socket: the address loop is not entered once a stop is requested.
Connect ==
    /\ pc = "connect"
    /\ ~stop_requested
    /\ pc' = "send"
    /\ UNCHANGED <<step, command, expired, sequence, interlock_id, pending,
                   saved_responses, result, cleanup_confirmed, stop_requested,
                   link_up, last_interlock_command, UnreadVars>>

ConnectFails ==
    /\ pc = "connect"
    /\ pc' = "closed"
    /\ result' = IF stop_requested THEN "STOPPED" ELSE "UNAVAILABLE"
    /\ UNCHANGED <<step, command, expired, sequence, interlock_id, pending,
                   saved_responses, cleanup_confirmed, stop_requested,
                   link_up, last_interlock_command, UnreadVars>>

\* Mutant: the sequence number does not wrap.
StartCommand_unwrapped ==
    /\ pc = "send"
    /\ sequence' = sequence + 1
    /\ expired' = FALSE
    /\ UNCHANGED <<saved_responses, stop_requested, UnreadVars>>

\* send_command_once up to its loop: the sequence number is taken and the
\* deadline set before anything can go wrong.
StartCommand ==
    /\ pc = "send"
    /\ sequence' = (sequence + 1) % SequenceModulus
    /\ expired' = FALSE
    /\ UNCHANGED <<saved_responses, stop_requested, UnreadVars>>

\* Mutant: a stop refuses the cleanup command too.
SendRefused_at_cleanup ==
    /\ StartCommand
    /\ stop_requested
    /\ UNCHANGED <<link_up, last_interlock_command>>
    /\ Fails

\* A stop was requested and this is not the cleanup command.
SendRefused ==
    /\ StartCommand
    /\ stop_requested /\ ~cleanup_command
    /\ UNCHANGED <<link_up, last_interlock_command>>
    /\ Fails

\* send_all fails: the link is gone or did not drain within SO_SNDTIMEO.
SendFails ==
    /\ StartCommand
    /\ ~stop_requested \/ cleanup_command
    /\ link_up' = FALSE
    /\ UNCHANGED last_interlock_command
    /\ Fails

SendFrame ==
    /\ StartCommand
    /\ ~stop_requested \/ cleanup_command
    /\ pc' = "await"
    /\ last_interlock_command' = IF command \in InterlockCommands
                                 THEN command ELSE last_interlock_command
    /\ UNCHANGED <<step, command, interlock_id, pending, result,
                   cleanup_confirmed, link_up>>

\* AG_COMMAND_TIMEOUT_MS passes while a response is awaited.
DeadlinePasses ==
    /\ pc \in {"await", "read"}
    /\ ~expired
    /\ expired' = TRUE
    /\ UNCHANGED <<pc, step, command, sequence, interlock_id, pending,
                   saved_responses, result, cleanup_confirmed, stop_requested,
                   link_up, last_interlock_command, UnreadVars>>

\* The head of the while loop of send_command_once.
Await ==
    /\ pc = "await"
    /\ UNCHANGED <<expired, sequence, stop_requested, link_up,
                   last_interlock_command, UnreadVars>>

AwaitStopped ==
    /\ Await
    /\ stop_requested /\ ~cleanup_command
    /\ UNCHANGED saved_responses
    /\ Fails

\* take_response finds the response in the cache.
AwaitSaved ==
    /\ Await
    /\ ~stop_requested \/ cleanup_command
    /\ \E slot \in MatchingSlots :
          /\ \A i \in MatchingSlots : slot <= i
          /\ saved_responses' = [saved_responses EXCEPT ![slot] = <<>>]
          /\ accept_response(saved_responses[slot][1])

AwaitExpired ==
    /\ Await
    /\ ~stop_requested \/ cleanup_command
    /\ MatchingSlots = {}
    /\ expired
    /\ UNCHANGED saved_responses
    /\ Fails

AwaitRead ==
    /\ Await
    /\ ~stop_requested \/ cleanup_command
    /\ MatchingSlots = {}
    /\ ~expired
    /\ pc' = "read"
    /\ UNCHANGED <<step, command, interlock_id, pending, saved_responses,
                   result, cleanup_confirmed>>

\* Mutant: any response is taken for the command's own.
ReadLine_unmatched(line) ==
    /\ pc = "read"
    /\ UNCHANGED <<expired, sequence, stop_requested, link_up, observe_only,
                   last_interlock_command>>
    /\ \/ /\ line.kind = "response"
          /\ accept_response(line.response)
          /\ UNCHANGED <<context, keyed, saved_responses>>
       \/ /\ line.kind # "response"
          /\ handle_status(line)
          /\ UNCHANGED <<step, interlock_id, result, cleanup_confirmed,
                         saved_responses>>

\* read_line returns a line to the waiting command: its own response, the
\* response to another command, or a status.
ReadLine(line) ==
    /\ pc = "read"
    /\ UNCHANGED <<expired, sequence, stop_requested, link_up, observe_only,
                   last_interlock_command>>
    /\ \/ /\ line.kind = "response" /\ line.response.sequence = sequence
          /\ accept_response(line.response)
          /\ UNCHANGED <<context, keyed, saved_responses>>
       \/ /\ line.kind = "response" /\ line.response.sequence # sequence
          /\ save_response(line.response)
          /\ pc' = "await"
          /\ UNCHANGED <<step, command, interlock_id, pending, result,
                         cleanup_confirmed, context, keyed>>
       \/ /\ line.kind # "response"
          /\ handle_status(line)
          /\ UNCHANGED <<step, interlock_id, result, cleanup_confirmed,
                         saved_responses>>

\* read_line returns 0 to the waiting command, which gives up at once.
ReadNothing ==
    /\ pc = "read"
    /\ UNCHANGED <<expired, sequence, saved_responses, link_up,
                   last_interlock_command, UnreadVars>>
    /\ Fails

\* poll ran into the deadline.
ReadTimesOut == expired /\ UNCHANGED stop_requested /\ ReadNothing

\* recv returned bytes that do not complete a line.
ReadPartial == UNCHANGED stop_requested /\ ReadNothing

\* A signal interrupted poll or recv (EINTR).
ReadInterrupted == stop_requested' = TRUE /\ ReadNothing

\* read_line returns -1: closed, failed, or an overlong line.
ReadFails ==
    /\ pc = "read"
    /\ link_up' = FALSE
    /\ UNCHANGED <<expired, sequence, saved_responses, stop_requested,
                   last_interlock_command, UnreadVars>>
    /\ Fails

\* Mutant: the main loop does not test the stop flag.
LoopReads_unstoppable ==
    /\ pc = "loop"
    /\ pc' = "poll"
    /\ UNCHANGED <<step, command, expired, sequence, interlock_id, pending,
                   saved_responses, result, cleanup_confirmed, stop_requested,
                   link_up, last_interlock_command, UnreadVars>>

\* The main loop tests the stop flag, then reads for up to a second.
LoopReads ==
    /\ pc = "loop"
    /\ ~stop_requested
    /\ pc' = "poll"
    /\ UNCHANGED <<step, command, expired, sequence, interlock_id, pending,
                   saved_responses, result, cleanup_confirmed, stop_requested,
                   link_up, last_interlock_command, UnreadVars>>

LoopStops ==
    /\ pc = "loop"
    /\ stop_requested
    /\ result' = "STOPPED"
    /\ pc' = "cleanup"
    /\ UNCHANGED <<step, command, expired, sequence, interlock_id, pending,
                   saved_responses, cleanup_confirmed, stop_requested,
                   link_up, last_interlock_command, UnreadVars>>

PollLine(line) ==
    /\ pc = "poll"
    /\ handle_status(line)
    /\ UNCHANGED <<step, expired, sequence, interlock_id, saved_responses,
                   result, cleanup_confirmed, stop_requested, link_up,
                   observe_only, last_interlock_command>>

\* read_line returns 0: nothing for a second, a signal, or part of a line.
PollNothing ==
    /\ pc = "poll"
    /\ pc' = "loop"
    /\ UNCHANGED <<step, command, expired, sequence, interlock_id, pending,
                   saved_responses, result, cleanup_confirmed, stop_requested,
                   link_up, last_interlock_command, UnreadVars>>

PollFails ==
    /\ pc = "poll"
    /\ link_up' = FALSE
    /\ result' = "DISCONNECTED"
    /\ pc' = "cleanup"
    /\ UNCHANGED <<step, command, expired, sequence, interlock_id, pending,
                   saved_responses, cleanup_confirmed, stop_requested,
                   last_interlock_command, UnreadVars>>

\* remove_interlock: nothing to remove, or the cleanup command is sent.
remove_interlock ==
    /\ pc = "cleanup"
    /\ UNCHANGED <<expired, sequence, interlock_id, pending, saved_responses,
                   result, cleanup_confirmed, stop_requested, link_up,
                   last_interlock_command, UnreadVars>>
    /\ \/ /\ observe_only \/ interlock_id = NoId
          /\ pc' = "closed"
          /\ UNCHANGED <<step, command>>
       \/ /\ ~observe_only /\ interlock_id # NoId
          /\ step' = "remove"
          /\ command' = "remove"
          /\ pc' = "send"

\* The call has returned.
Returned == pc = "closed" /\ UNCHANGED vars

\* The steps the thread takes whatever the radio and the link do.
OwnStep ==
    \/ Connect \/ ConnectFails
    \/ SendRefused \/ SendFrame
    \/ AwaitStopped \/ AwaitSaved \/ AwaitExpired \/ AwaitRead
    \/ ReadTimesOut
    \/ LoopReads \/ LoopStops \/ PollNothing
    \/ remove_interlock

SessionNext ==
    \/ OwnStep
    \/ SendFails \/ ReadFails \/ PollFails
    \/ ReadPartial \/ ReadInterrupted
    \/ \E line \in Line : ReadLine(line) \/ PollLine(line)
    \/ Signal
    \/ DeadlinePasses
    \/ Returned

SessionSpec == SessionInit /\ [][SessionNext]_vars

\* The thread is scheduled and the clock advances; nothing is asked of the
\* radio, the link or the operator.
SessionFairness == WF_vars(OwnStep) /\ WF_vars(DeadlinePasses)

FairSessionSpec == SessionSpec /\ SessionFairness

-----------------------------------------------------------------------------
(* Safety.                                                                 *)

\* Every variable keeps its type: the session's locals (ag_connection), the
\* flags the signal handler and the socket set, and the history variables.
TypeOK ==
    /\ pc \in Locations
    /\ step \in Steps
    /\ command \in Commands
    /\ expired \in BOOLEAN
    /\ sequence \in 0 .. SequenceModulus - 1
    /\ interlock_id \in Ids \cup {NoId}
    /\ observe_only \in BOOLEAN
    /\ has_frequency \in BOOLEAN
    /\ frequency_mhz \in Frequencies
    /\ tx_antenna \in Names
    /\ interlock_update_pending \in BOOLEAN
    /\ pending_interlock_ready \in BOOLEAN
    /\ saved_responses \in [Slots -> {<<>>} \cup {<<r>> : r \in Response}]
    /\ result \in Results
    /\ cleanup_confirmed \in BOOLEAN
    /\ stop_requested \in BOOLEAN
    /\ link_up \in BOOLEAN
    /\ last_interlock_command \in {"none"} \cup InterlockCommands
    /\ keyed \in BOOLEAN

\* The session is on its way out: only remove_interlock can still send.
Ending == pc \in {"cleanup", "closed"} \/ step = "remove"

\* The next interlock command of the session is not_ready.
NotReadyComing ==
    \/ interlock_update_pending /\ ~pending_interlock_ready
    \/ pc = "send" /\ command = "not_ready"

\* Transmission is asked for, with a context the allow matrix permits.
MayTransmit ==
    keyed /\ Permitted(config, has_frequency, frequency_mhz, tx_antenna)

\* The session seen as an InterlockGuard.
Phase ==
    IF pc = "connect" THEN "connecting"
    ELSE IF pc = "closed" THEN "ended" ELSE "connected"

Guard == INSTANCE InterlockGuard WITH
    phase <- Phase,
    told <- last_interlock_command,
    may_transmit <- MayTransmit,
    result <- IF pc = "closed" THEN result ELSE "none"

(***************************************************************************)
(* The last thing the session told the radio is "ready" only while         *)
(* transmission is asked for on an allowed frequency and antenna, or else  *)
(* a not_ready is already the next command: however the statuses fall      *)
(* around a command in flight, the one-slot deferral of set_interlock and  *)
(* send_command never loses the last decision.                             *)
(***************************************************************************)
ReadyIsJustified ==
    last_interlock_command = "ready" /\ ~Ending => MayTransmit \/ NotReadyComing

(***************************************************************************)
(* A ready that is about to be sent, at once or deferred, is for a PTT     *)
(* request and a context that is still allowed: the decision was not taken *)
(* on a frequency or antenna that has changed since.                       *)
(***************************************************************************)
ReadyIsNotStale ==
    \/ pc = "send" /\ command = "ready"
    \/ interlock_update_pending /\ pending_interlock_ready
    => MayTransmit

(***************************************************************************)
(* An observing session (--observe) never sends an interlock command and   *)
(* never has one waiting.                                                  *)
(***************************************************************************)
ObserveIsPassive ==
    observe_only => /\ last_interlock_command = "none"
                    /\ ~interlock_update_pending
                    /\ command_in_progress => command \notin InterlockCommands

(***************************************************************************)
(* Whatever ends the session, an interlock it has armed is removed before  *)
(* the socket is closed, unless the link failed: remove_interlock is sent  *)
(* even after a stop, which refuses every other command.                   *)
(***************************************************************************)
ArmedInterlockIsRemoved ==
    pc = "closed" /\ link_up =>
        last_interlock_command \in {"none", "create", "remove"}

(***************************************************************************)
(* The order of interlock commands on the wire: create first, then         *)
(* not_ready before any ready, and nothing after remove, although statuses *)
(* read during create and during the cleanup command can ask for updates.  *)
(***************************************************************************)
InterlockOrder ==
    [][last_interlock_command' # last_interlock_command =>
          Guard!MayFollow(last_interlock_command, last_interlock_command')]_vars

(***************************************************************************)
(* The session keeps every promise of InterlockGuard, to the radio and to  *)
(* the loops of main.c: with lines in any order, failing sends and reads,  *)
(* rejected commands, timeouts and signals, each of its steps is a step of *)
(* that specification or changes nothing there.                            *)
(***************************************************************************)
ImplementsGuard == Guard!Spec

-----------------------------------------------------------------------------
(* Liveness, of FairSessionSpec.                                           *)

(***************************************************************************)
(* A stop request ends the session, in whatever command or read it finds   *)
(* it and whatever the radio keeps sending.                                *)
(***************************************************************************)
StopEndsSession == stop_requested ~> pc = "closed"

(***************************************************************************)
(* A ready that is no longer justified (unkey, forbidden context) does not *)
(* stand: another interlock command follows, or a new PTT in an allowed    *)
(* context justifies it again, or the session ends.                        *)
(***************************************************************************)
UnjustifiedReadyIsWithdrawn ==
    (last_interlock_command = "ready" /\ ~MayTransmit)
        ~> \/ last_interlock_command # "ready"
           \/ MayTransmit
           \/ pc = "closed"

-----------------------------------------------------------------------------
(* A claim of the repository that the session does not keep.               *)

(***************************************************************************)
(* README: "Unkey, forbidden context changes, and out-of-policy transmit   *)
(* reports reassert not_ready", "fail closed while connected".  When the   *)
(* command in flight is rejected or not answered, the deferred not_ready   *)
(* is dropped and the interlock removed, with the link still up.           *)
(***************************************************************************)
ForbiddenReassertsNotReady ==
    (last_interlock_command = "ready" /\ ~MayTransmit)
        ~> \/ last_interlock_command = "not_ready"
           \/ MayTransmit
           \/ stop_requested
           \/ ~link_up
=============================================================================
