------------------------- MODULE FlexSessionProofs -------------------------
(***************************************************************************)
(* Theorems about every session, for any configuration, radio, link and    *)
(* timing of signals: its invariants, and that it implements the contract  *)
(* InterlockGuard.                                                         *)
(***************************************************************************)
EXTENDS FlexSession, PolicyProofs

-----------------------------------------------------------------------------
(* The inductive invariant.                                                *)

Subscribing == {"name", "sub radio", "sub slice", "sub tx"}

(***************************************************************************)
(* What each caller of send_command implies: the command it is sending,    *)
(* whether the session holds an interlock, and the last interlock command  *)
(* on the wire.                                                            *)
(***************************************************************************)
CallerOK ==
    /\ step \in Subscribing =>
          /\ command = step
          /\ interlock_id = NoId
          /\ last_interlock_command = "none"
    /\ step = "create" =>
          /\ ~observe_only
          /\ command = "create"
          /\ interlock_id = NoId
          /\ last_interlock_command \in {"none", "create"}
          /\ pc = "send" => last_interlock_command = "none"
          /\ pc \in {"await", "read"} => last_interlock_command = "create"
    /\ step = "arm" =>
          /\ ~observe_only
          /\ command \in {"ready", "not_ready"}
          /\ interlock_id # NoId
          /\ last_interlock_command \in {"create", "not_ready", "ready"}
          /\ last_interlock_command = "create" =>
                command = "not_ready" /\ pc \in {"send", "cleanup"}
    /\ step = "run" /\ observe_only =>
          /\ pc \in {"loop", "poll", "cleanup", "closed"}
          /\ interlock_id = NoId
          /\ last_interlock_command = "none"
    /\ step = "run" /\ ~observe_only =>
          /\ command \in {"ready", "not_ready"}
          /\ interlock_id # NoId
          /\ last_interlock_command \in {"not_ready", "ready"}
    /\ step = "remove" =>
          /\ ~observe_only
          /\ command = "remove"
          /\ pc \in {"send", "await", "read", "closed"}
          /\ pc # "closed" => interlock_id # NoId
          /\ last_interlock_command \in {"create", "not_ready", "ready", "remove"}
          /\ pc = "send" => last_interlock_command # "remove"
          /\ pc \in {"await", "read"} => last_interlock_command = "remove"
          /\ pc = "closed" /\ link_up => last_interlock_command = "remove"

\* Where the thread is says which caller it is in.
LocationOK ==
    /\ pc = "connect" => step = "name"
    /\ pc \in {"loop", "poll"} => step = "run"
    /\ pc = "closed" => interlock_id = NoId

(***************************************************************************)
(* An update is deferred only by a session with an interlock, and none is  *)
(* left behind when send_command has returned, unless a stop is requested. *)
(***************************************************************************)
DeferralOK ==
    /\ interlock_update_pending => /\ ~observe_only
                                   /\ step \in {"arm", "run", "remove"}
    /\ pc = "loop" /\ interlock_update_pending => stop_requested
    /\ pc = "poll" => ~interlock_update_pending

ControlOK == CallerOK /\ LocationOK /\ DeferralOK

ReadyOK == ReadyIsJustified /\ ReadyIsNotStale

SessionInv == TypeOK /\ ControlOK /\ ReadyOK

-----------------------------------------------------------------------------
(* Type correctness.                                                       *)

\* The caller's part of the state, which Fails and Succeeds decide.
CallerTypeOK ==
    /\ pc \in Locations
    /\ step \in Steps
    /\ command \in Commands
    /\ interlock_id \in Ids \cup {NoId}
    /\ interlock_update_pending \in BOOLEAN
    /\ pending_interlock_ready \in BOOLEAN
    /\ result \in Results
    /\ cleanup_confirmed \in BOOLEAN

\* The rest of it, which they leave alone.
RestTypeOK ==
    /\ expired \in BOOLEAN
    /\ sequence \in 0 .. SequenceModulus - 1
    /\ observe_only \in BOOLEAN
    /\ has_frequency \in BOOLEAN
    /\ frequency_mhz \in Frequencies
    /\ tx_antenna \in Names
    /\ saved_responses \in [Slots -> {<<>>} \cup {<<r>> : r \in Response}]
    /\ stop_requested \in BOOLEAN
    /\ link_up \in BOOLEAN
    /\ last_interlock_command \in {"none"} \cup InterlockCommands
    /\ keyed \in BOOLEAN

LEMMA TypeSplit == TypeOK <=> CallerTypeOK /\ RestTypeOK
BY DEF TypeOK, CallerTypeOK, RestTypeOK

LEMMA NextStepValue ==
    /\ DOMAIN NextStep = Subscribing
    /\ NextStep["name"] = "sub radio"
    /\ NextStep["sub radio"] = "sub slice"
    /\ NextStep["sub slice"] = "sub tx"
    /\ NextStep["sub tx"] = "create"
BY DEF NextStep, Subscribing

LEMMA FailsType ==
    ASSUME CallerTypeOK, Fails
    PROVE  CallerTypeOK'
BY DEF CallerTypeOK, Fails, pending, Locations, Results

LEMMA SucceedsType ==
    ASSUME CallerTypeOK, NEW body \in Ids \cup {NoId}, Succeeds(body)
    PROVE  CallerTypeOK'
<1> USE DEF CallerTypeOK, pending, Locations, Results, Steps, Commands,
            InterlockCommands
<1>1. CASE Removed
  BY <1>1 DEF Removed
<1>2. CASE SendDeferred
  BY <1>2 DEF SendDeferred
<1>3. CASE initialize_session(body)
  <2>1. CASE SendNext
    BY <1>3, <2>1, NextStepValue DEF initialize_session, SendNext, Subscribing
  <2>2. CASE step = "create" /\ Created(body)
    BY <1>3, <2>2 DEF initialize_session, Created
  <2>3. CASE step \in {"sub tx", "arm"} /\ EnterLoop
    BY <1>3, <2>3 DEF initialize_session, EnterLoop
  <2> QED
    BY <1>3, <2>1, <2>2, <2>3 DEF initialize_session
<1>4. CASE ReturnToLoop
  BY <1>4 DEF ReturnToLoop
<1> QED
  BY <1>1, <1>2, <1>3, <1>4 DEF Succeeds

LEMMA AcceptType ==
    ASSUME CallerTypeOK, NEW r \in Response, accept_response(r)
    PROVE  CallerTypeOK'
<1>1. r.body \in Ids \cup {NoId}
  BY DEF Response
<1> QED
  BY <1>1, FailsType, SucceedsType DEF accept_response

\* What reading a status may change, besides the caller's part.
ContextTypeOK ==
    /\ has_frequency \in BOOLEAN
    /\ frequency_mhz \in Frequencies
    /\ tx_antenna \in Names
    /\ keyed \in BOOLEAN

LEMMA SetInterlockType ==
    ASSUME CallerTypeOK, NEW state \in {"ready", "not_ready"},
           set_interlock(state),
           UNCHANGED <<step, interlock_id, result, cleanup_confirmed>>
    PROVE  CallerTypeOK'
BY DEF CallerTypeOK, set_interlock, NoUpdate, pending, Locations, Commands,
       InterlockCommands

LEMMA NoUpdateType ==
    ASSUME CallerTypeOK, NoUpdate,
           UNCHANGED <<step, interlock_id, result, cleanup_confirmed>>
    PROVE  CallerTypeOK'
BY DEF CallerTypeOK, NoUpdate, pending, Locations

LEMMA HandleStatusType ==
    ASSUME CallerTypeOK, ContextTypeOK, NEW line \in Line, handle_status(line),
           UNCHANGED <<step, interlock_id, result, cleanup_confirmed>>
    PROVE  CallerTypeOK' /\ ContextTypeOK'
<1>1. CASE line.kind = "transmit" /\ handle_transmit(line)
  <2>1. /\ line.freq \in FrequencyField \cup {NoField}
        /\ line.tx_antenna \in Names \cup {NoField}
    BY <1>1 DEF Line, StatusLine, ResponseLine, TransmitLine, InterlockLine,
                OtherLine
  <2>2. ContextTypeOK'
    <3>1. line.freq # NoField => /\ line.freq.hz \in Frequencies
                                 /\ line.freq.clean \in BOOLEAN
      BY <2>1 DEF FrequencyField
    <3> QED
      BY <1>1, <2>1, <3>1, CaseFoldAssumption DEF ContextTypeOK, handle_transmit,
                                                     ReportedContext
  <2>3. CallerTypeOK'
    BY <1>1, SetInterlockType, NoUpdateType DEF handle_transmit
  <2> QED
    BY <2>2, <2>3
<1>2. CASE line.kind = "interlock" /\ handle_interlock(line)
  <2>1. ContextTypeOK'
    BY <1>2 DEF ContextTypeOK, handle_interlock, context
  <2>2. CallerTypeOK'
    BY <1>2, SetInterlockType, NoUpdateType DEF handle_interlock
  <2> QED
    BY <2>1, <2>2
<1>3. CASE UNCHANGED <<context, keyed>> /\ NoUpdate
  BY <1>3, NoUpdateType DEF ContextTypeOK, context
<1> QED
  BY <1>1, <1>2, <1>3 DEF handle_status

LEMMA SaveResponseType ==
    ASSUME saved_responses \in [Slots -> {<<>>} \cup {<<r>> : r \in Response}],
           NEW response \in Response, save_response(response)
    PROVE  saved_responses' \in [Slots -> {<<>>} \cup {<<r>> : r \in Response}]
BY DEF save_response, FreeSlots

\* A slot that holds a response holds one of the right type.
LEMMA MatchingSlotType ==
    ASSUME saved_responses \in [Slots -> {<<>>} \cup {<<r>> : r \in Response}],
           NEW slot \in MatchingSlots
    PROVE  saved_responses[slot][1] \in Response
<1>1. /\ saved_responses[slot] \in {<<>>} \cup {<<r>> : r \in Response}
      /\ saved_responses[slot] # <<>>
  BY DEF MatchingSlots
<1>2. PICK r \in Response : saved_responses[slot] = <<r>>
  BY <1>1
<1> QED
  BY <1>2

\* The arithmetic part of the assumption on the constants.
LEMMA ModulusType ==
    /\ SequenceModulus \in Nat \ {0, 1} /\ SequenceModulus \in Nat \ {0}
    /\ 0 \in Frequencies
<1>1. SequenceModulus \in Nat \ {0, 1} /\ 0 \in Frequencies
  BY SessionAssumption, Zenon
<1> QED
  BY <1>1, Zenon

LEMMA InitType == SessionInit => TypeOK
<1> SUFFICES ASSUME SessionInit PROVE TypeOK
  OBVIOUS
<1>1. 0 \in 0 .. SequenceModulus - 1 /\ 0 \in Frequencies
  BY ModulusType
<1>2. "" \in Names
  BY CaseFoldAssumption
<1>3. saved_responses \in [Slots -> {<<>>} \cup {<<r>> : r \in Response}]
  BY DEF SessionInit
<1> QED
  BY <1>1, <1>2, <1>3
     DEF SessionInit, TypeOK, Locations, Steps, Commands, Results

LEMMA StepType == TypeOK /\ [SessionNext]_vars => TypeOK'
<1> SUFFICES ASSUME TypeOK, [SessionNext]_vars PROVE TypeOK'
  OBVIOUS
<1>0. CallerTypeOK /\ RestTypeOK
  BY TypeSplit
<1>00. SUFFICES CallerTypeOK' /\ RestTypeOK'
  BY DEF TypeOK, CallerTypeOK, RestTypeOK
<1> USE <1>0 DEF UnreadVars, context, pending, Locations
<1>1. StartCommand => sequence' \in 0 .. SequenceModulus - 1
  <2>1. \A m \in Nat \ {0}, n \in Nat : n % m \in 0 .. m - 1
    OBVIOUS
  <2>2. SequenceModulus \in Nat \ {0} /\ sequence + 1 \in Nat
    BY ModulusType DEF RestTypeOK
  <2>3. (sequence + 1) % SequenceModulus \in 0 .. SequenceModulus - 1
    BY <2>1, <2>2
  <2> QED
    BY <2>3 DEF StartCommand
<1>2. CASE Connect
  BY <1>2 DEF Connect, CallerTypeOK, RestTypeOK
<1>3. CASE ConnectFails
  BY <1>3 DEF ConnectFails, CallerTypeOK, RestTypeOK, Results
<1>4. CASE SendRefused
  BY <1>1, <1>4, FailsType DEF SendRefused, StartCommand, RestTypeOK
<1>5. CASE SendFails
  BY <1>1, <1>5, FailsType DEF SendFails, StartCommand, RestTypeOK
<1>6. CASE SendFrame
  BY <1>1, <1>6 DEF SendFrame, StartCommand, CallerTypeOK, RestTypeOK
<1>7. CASE DeadlinePasses
  BY <1>7 DEF DeadlinePasses, CallerTypeOK, RestTypeOK
<1>8. CASE AwaitStopped
  BY <1>8, FailsType DEF AwaitStopped, Await, RestTypeOK
<1>9. CASE AwaitSaved
  <2>1. PICK slot \in MatchingSlots :
          /\ saved_responses' = [saved_responses EXCEPT ![slot] = <<>>]
          /\ accept_response(saved_responses[slot][1])
    BY <1>9 DEF AwaitSaved
  <2>2. CallerTypeOK'
    BY <2>1, MatchingSlotType, AcceptType DEF RestTypeOK
  <2>3. RestTypeOK'
    BY <1>9, <2>1 DEF AwaitSaved, Await, RestTypeOK
  <2> QED
    BY <2>2, <2>3
<1>10. CASE AwaitExpired
  BY <1>10, FailsType DEF AwaitExpired, Await, RestTypeOK
<1>11. CASE AwaitRead
  BY <1>11 DEF AwaitRead, Await, CallerTypeOK, RestTypeOK
<1>12. ASSUME NEW line \in Line, ReadLine(line) PROVE CallerTypeOK' /\ RestTypeOK'
  <2>1. CASE line.kind = "response"
    <3>1. line.response \in Response
      BY <2>1 DEF Line, ResponseLine, StatusLine, TransmitLine, InterlockLine,
                  OtherLine
    <3>2. CASE accept_response(line.response)
               /\ UNCHANGED <<context, keyed, saved_responses>>
      BY <1>12, <3>1, <3>2, AcceptType DEF ReadLine, RestTypeOK
    <3>3. CASE save_response(line.response) /\ pc' = "await"
               /\ UNCHANGED <<step, command, interlock_id, pending, result,
                              cleanup_confirmed, context, keyed>>
      BY <1>12, <3>1, <3>3, SaveResponseType DEF ReadLine, RestTypeOK, CallerTypeOK
    <3> QED
      BY <1>12, <2>1, <3>2, <3>3 DEF ReadLine
  <2>2. CASE line.kind # "response"
    <3>1. /\ handle_status(line)
          /\ UNCHANGED <<step, interlock_id, result, cleanup_confirmed,
                         saved_responses, expired, sequence, stop_requested,
                         link_up, observe_only, last_interlock_command>>
      BY <1>12, <2>2 DEF ReadLine
    <3>2. CallerTypeOK' /\ ContextTypeOK'
      BY <3>1, HandleStatusType DEF RestTypeOK, ContextTypeOK
    <3> QED
      BY <3>1, <3>2 DEF RestTypeOK, ContextTypeOK
  <2> QED
    BY <2>1, <2>2
<1>13. CASE ReadNothing /\ stop_requested' \in BOOLEAN
  BY <1>13, FailsType DEF ReadNothing, RestTypeOK
<1>14. CASE ReadFails
  BY <1>14, FailsType DEF ReadFails, RestTypeOK
<1>15. CASE LoopReads
  BY <1>15 DEF LoopReads, CallerTypeOK, RestTypeOK
<1>16. CASE LoopStops
  BY <1>16 DEF LoopStops, CallerTypeOK, RestTypeOK, Results
<1>17. ASSUME NEW line \in Line, PollLine(line) PROVE CallerTypeOK' /\ RestTypeOK'
  <2>1. CallerTypeOK' /\ ContextTypeOK'
    BY <1>17, HandleStatusType DEF PollLine, RestTypeOK, ContextTypeOK
  <2> QED
    BY <1>17, <2>1 DEF PollLine, RestTypeOK, ContextTypeOK
<1>18. CASE PollNothing
  BY <1>18 DEF PollNothing, CallerTypeOK, RestTypeOK
<1>19. CASE PollFails
  BY <1>19 DEF PollFails, CallerTypeOK, RestTypeOK, Results
<1>20. CASE remove_interlock
  <2>1. CallerTypeOK'
    BY <1>20 DEF remove_interlock, CallerTypeOK, Steps, Commands,
                 InterlockCommands
  <2>2. RestTypeOK'
    BY <1>20 DEF remove_interlock, RestTypeOK
  <2> QED
    BY <2>1, <2>2
<1>21. CASE Signal
  BY <1>21 DEF Signal, CallerTypeOK, RestTypeOK
<1>22. CASE UNCHANGED vars
  BY <1>22 DEF vars, CallerTypeOK, RestTypeOK
<1>23. ReadTimesOut \/ ReadPartial \/ ReadInterrupted
          => ReadNothing /\ stop_requested' \in BOOLEAN
  BY DEF ReadTimesOut, ReadPartial, ReadInterrupted, RestTypeOK
<1> QED
  BY <1>2, <1>3, <1>4, <1>5, <1>6, <1>7, <1>8, <1>9, <1>10, <1>11, <1>12,
     <1>13, <1>14, <1>15, <1>16, <1>17, <1>18, <1>19, <1>20, <1>21, <1>22,
     <1>23
     DEF SessionNext, OwnStep, Returned

(***************************************************************************)
(* Every variable of a session keeps its type, whatever lines the radio    *)
(* sends.                                                                  *)
(***************************************************************************)
THEOREM SessionType == SessionSpec => []TypeOK
BY InitType, StepType, PTL DEF SessionSpec

-----------------------------------------------------------------------------
(* Control.                                                                *)

LEMMA InitControl == SessionInit => ControlOK
BY DEF SessionInit, ControlOK, CallerOK, LocationOK, DeferralOK, Subscribing

LEMMA FailsControl ==
    ASSUME TypeOK, ControlOK, Fails, command_in_progress,
           pc = "send" => ~cleanup_command \/ ~link_up',
           UNCHANGED <<observe_only, last_interlock_command>>
    PROVE  ControlOK'
<1> USE DEF TypeOK, ControlOK, command_in_progress, cleanup_command, pending,
            Steps, Fails
<1>1. CallerOK'
  BY DEF CallerOK, Subscribing
<1>2. LocationOK'
  BY DEF CallerOK, LocationOK, Subscribing
<1>3. DeferralOK'
  BY DEF DeferralOK
<1> QED
  BY <1>1, <1>2, <1>3

LEMMA SucceedsControl ==
    ASSUME TypeOK, ControlOK, NEW body, Succeeds(body), pc \in {"await", "read"},
           UNCHANGED <<observe_only, last_interlock_command, stop_requested, link_up>>
    PROVE  ControlOK'
<1> USE DEF TypeOK, ControlOK, cleanup_command, pending, Steps, CallerOK,
            LocationOK, DeferralOK, Subscribing
<1>1. CASE Removed
  BY <1>1 DEF Removed
<1>2. CASE SendDeferred
  BY <1>2 DEF SendDeferred
<1>3. CASE /\ initialize_session(body)
           /\ ~interlock_update_pending \/ stop_requested
  BY <1>3, NextStepValue DEF initialize_session, SendNext, Created, EnterLoop
<1>4. CASE /\ ReturnToLoop
           /\ ~interlock_update_pending \/ stop_requested
  BY <1>4 DEF ReturnToLoop
<1> QED
  BY <1>1, <1>2, <1>3, <1>4 DEF Succeeds

LEMMA AcceptControl ==
    ASSUME TypeOK, ControlOK, NEW r, accept_response(r), pc \in {"await", "read"},
           UNCHANGED <<observe_only, last_interlock_command, stop_requested, link_up>>
    PROVE  ControlOK'
BY FailsControl, SucceedsControl DEF accept_response, command_in_progress

LEMMA NoUpdateControl ==
    ASSUME TypeOK, ControlOK, NoUpdate, pc \in {"read", "poll"},
           UNCHANGED <<step, interlock_id, observe_only, last_interlock_command,
                       stop_requested, link_up>>
    PROVE  ControlOK'
BY DEF NoUpdate, ControlOK, command_in_progress, pending, CallerOK, LocationOK,
       DeferralOK, Subscribing, TypeOK, Steps

LEMMA SetInterlockControl ==
    ASSUME TypeOK, ControlOK, NEW state \in {"ready", "not_ready"},
           set_interlock(state), pc \in {"read", "poll"},
           UNCHANGED <<step, interlock_id, observe_only, last_interlock_command,
                       stop_requested, link_up>>
    PROVE  ControlOK'
<1>1. CASE NoUpdate
  BY <1>1, NoUpdateControl
<1>2. CASE ~NoUpdate
  BY <1>2 DEF set_interlock, ControlOK, command_in_progress, pending, CallerOK,
         LocationOK, DeferralOK, Subscribing, TypeOK, Steps
<1> QED
  BY <1>1, <1>2

LEMMA HandleStatusControl ==
    ASSUME TypeOK, ControlOK, NEW line, handle_status(line),
           pc \in {"read", "poll"},
           UNCHANGED <<step, interlock_id, observe_only, last_interlock_command,
                       stop_requested, link_up>>
    PROVE  ControlOK'
<1>1. \/ NoUpdate
      \/ \E state \in {"ready", "not_ready"} : set_interlock(state)
  BY DEF handle_status, handle_transmit, handle_interlock
<1> QED
  BY <1>1, NoUpdateControl, SetInterlockControl

LEMMA StepControl ==
    TypeOK /\ ControlOK /\ [SessionNext]_vars => ControlOK'
<1> SUFFICES ASSUME TypeOK, ControlOK, [SessionNext]_vars PROVE ControlOK'
  OBVIOUS
<1> USE DEF UnreadVars, context, pending
<1>1. CASE Connect \/ ConnectFails
  <2>1. /\ pc = "connect" /\ pc' \in {"send", "closed"}
        /\ UNCHANGED <<step, command, interlock_id, interlock_update_pending,
                       observe_only, last_interlock_command>>
    BY <1>1 DEF Connect, ConnectFails
  <2>2. step = "name" /\ ~interlock_update_pending
    BY <2>1 DEF ControlOK, LocationOK, DeferralOK
  <2> QED
    BY <2>1, <2>2
       DEF ControlOK, CallerOK, LocationOK, DeferralOK, Subscribing
<1>2. CASE SendRefused
  BY <1>2, FailsControl DEF SendRefused, StartCommand, command_in_progress
<1>3. CASE SendFails
  BY <1>3, FailsControl DEF SendFails, StartCommand, command_in_progress, TypeOK
<1>4. CASE SendFrame
  BY <1>4 DEF SendFrame, StartCommand, InterlockCommands, TypeOK, Steps,
              ControlOK, CallerOK, LocationOK, DeferralOK, Subscribing
<1>5. CASE DeadlinePasses
  BY <1>5 DEF DeadlinePasses, ControlOK, CallerOK, LocationOK, DeferralOK
<1>6. CASE AwaitStopped \/ AwaitExpired
  BY <1>6, FailsControl DEF AwaitStopped, AwaitExpired, Await, command_in_progress
<1>7. CASE AwaitSaved
  BY <1>7, AcceptControl DEF AwaitSaved, Await
<1>8. CASE AwaitRead
  BY <1>8 DEF AwaitRead, Await, ControlOK, CallerOK, LocationOK, DeferralOK
<1>9. ASSUME NEW line \in Line, ReadLine(line) PROVE ControlOK'
  <2>1. CASE accept_response(line.response)
    BY <1>9, <2>1, AcceptControl DEF ReadLine
  <2>2. CASE pc' = "await" /\ UNCHANGED <<step, command, interlock_id, pending>>
    BY <1>9, <2>2
       DEF ReadLine, ControlOK, CallerOK, LocationOK, DeferralOK
  <2>3. CASE handle_status(line) /\ UNCHANGED <<step, interlock_id>>
    BY <1>9, <2>3, HandleStatusControl DEF ReadLine
  <2> QED
    BY <1>9, <2>1, <2>2, <2>3 DEF ReadLine
<1>10. CASE ReadNothing
  BY <1>10, FailsControl DEF ReadNothing, command_in_progress
<1>11. CASE ReadFails
  BY <1>11, FailsControl DEF ReadFails, command_in_progress
<1>12. CASE LoopReads
  BY <1>12 DEF LoopReads, ControlOK, CallerOK, LocationOK, DeferralOK
<1>13. CASE LoopStops \/ PollFails \/ PollNothing
  BY <1>13 DEF LoopStops, PollFails, PollNothing, ControlOK, CallerOK,
               LocationOK, DeferralOK
<1>14. ASSUME NEW line \in Line, PollLine(line) PROVE ControlOK'
  BY <1>14, HandleStatusControl DEF PollLine
<1>15. CASE remove_interlock
  BY <1>15 DEF remove_interlock, TypeOK, Steps, ControlOK, CallerOK,
               LocationOK, DeferralOK, Subscribing
<1>16. CASE Signal
  BY <1>16 DEF Signal, ControlOK, CallerOK, LocationOK, DeferralOK
<1>17. CASE UNCHANGED vars
  BY <1>17 DEF vars, ControlOK, CallerOK, LocationOK, DeferralOK
<1> QED
  BY <1>1, <1>2, <1>3, <1>4, <1>5, <1>6, <1>7, <1>8, <1>9, <1>10, <1>11,
     <1>12, <1>13, <1>14, <1>15, <1>16, <1>17
     DEF SessionNext, OwnStep, ReadTimesOut, ReadPartial, ReadInterrupted,
         Returned

-----------------------------------------------------------------------------
(* Ready.                                                                  *)

LEMMA ConfigType == config \in Configs /\ DistinctRows(config) /\ Frequencies \subseteq Int
BY SessionAssumption, Zenon

\* The session's decision is the matrix's, before a step and after it.
LEMMA AllowedIsPermitted ==
    /\ TypeOK => (Allowed <=> Permitted(config, has_frequency, frequency_mhz, tx_antenna))
    /\ TypeOK' => (Allowed' <=> Permitted(config, has_frequency', frequency_mhz', tx_antenna'))
BY ConfigType, DecisionIsTheMatrix DEF Allowed, TypeOK

LEMMA FailsReady ==
    ASSUME ReadyOK, Fails, UNCHANGED <<context, keyed>>
    PROVE  ReadyOK'
BY DEF ReadyOK, ReadyIsJustified, ReadyIsNotStale, Fails, Ending, MayTransmit,
       pending, context

LEMMA SucceedsReady ==
    ASSUME TypeOK, ControlOK, ReadyOK, NEW body, Succeeds(body),
           pc \in {"await", "read"},
           UNCHANGED <<context, keyed, last_interlock_command>>
    PROVE  ReadyOK'
<1> USE DEF ReadyOK, ReadyIsJustified, ReadyIsNotStale, NotReadyComing, Ending,
            MayTransmit, pending, context, cleanup_command, TypeOK
<1>1. CASE Removed
  BY <1>1 DEF Removed
<1>2. CASE SendDeferred
  BY <1>2 DEF SendDeferred
<1>3. CASE initialize_session(body)
  <2>1. CASE SendNext
    BY <1>3, <2>1, NextStepValue DEF initialize_session, SendNext, Subscribing
  <2>2. CASE step = "create" /\ Created(body)
    BY <1>3, <2>2 DEF initialize_session, Created
  <2>3. CASE step \in {"sub tx", "arm"} /\ EnterLoop
    BY <1>3, <2>3 DEF initialize_session, EnterLoop
  <2> QED
    BY <1>3, <2>1, <2>2, <2>3 DEF initialize_session
<1>4. CASE ReturnToLoop
  BY <1>4 DEF ReturnToLoop
<1> QED
  BY <1>1, <1>2, <1>3, <1>4 DEF Succeeds

LEMMA AcceptReady ==
    ASSUME TypeOK, ControlOK, ReadyOK, NEW r, accept_response(r),
           pc \in {"await", "read"},
           UNCHANGED <<context, keyed, last_interlock_command>>
    PROVE  ReadyOK'
BY FailsReady, SucceedsReady DEF accept_response

\* A handler that leaves the interlock alone took nothing away from it.
LEMMA NoUpdateReady ==
    ASSUME ReadyOK, NoUpdate, pc \in {"read", "poll"}, MayTransmit => MayTransmit',
           UNCHANGED <<step, last_interlock_command>>
    PROVE  ReadyOK'
BY DEF ReadyOK, ReadyIsJustified, ReadyIsNotStale, NotReadyComing, Ending,
       NoUpdate, pending, command_in_progress

\* The session holds an interlock wherever a status can find it ready or
\* about to be.
LEMMA HeldWhenReady ==
    ASSUME TypeOK, ControlOK, pc \in {"read", "poll"},
           \/ last_interlock_command = "ready"
           \/ interlock_update_pending
    PROVE  ~observe_only /\ interlock_id # NoId
BY DEF TypeOK, ControlOK, CallerOK, LocationOK, DeferralOK, Steps, Subscribing

LEMMA SetInterlockReady ==
    ASSUME TypeOK, ControlOK, ReadyOK, NEW state \in {"ready", "not_ready"},
           set_interlock(state), pc \in {"read", "poll"},
           state = "ready" => MayTransmit',
           UNCHANGED <<step, last_interlock_command>>
    PROVE  ReadyOK'
<1>1. CASE NoUpdate /\ (observe_only \/ interlock_id = NoId)
  BY <1>1, HeldWhenReady
     DEF ReadyOK, ReadyIsJustified, ReadyIsNotStale, NoUpdate, pending,
         command_in_progress
<1>2. CASE /\ command_in_progress
           /\ interlock_update_pending' = TRUE
           /\ pending_interlock_ready' = (state = "ready")
           /\ pc' = "await"
  BY <1>2 DEF ReadyOK, ReadyIsJustified, ReadyIsNotStale, NotReadyComing, MayTransmit
<1>3. CASE /\ ~command_in_progress
           /\ command' = state
           /\ pc' = "send"
           /\ UNCHANGED pending
  <2>1. ~interlock_update_pending'
    BY <1>3 DEF ControlOK, DeferralOK, command_in_progress, pending
  <2> QED
    BY <1>3, <2>1
       DEF ReadyOK, ReadyIsJustified, ReadyIsNotStale, NotReadyComing
<1> QED
  BY <1>1, <1>2, <1>3 DEF set_interlock

LEMMA HandleStatusReady ==
    ASSUME TypeOK, TypeOK', ControlOK, ReadyOK, NEW line, handle_status(line),
           pc \in {"read", "poll"}, UNCHANGED <<step, last_interlock_command>>
    PROVE  ReadyOK'
<1>1. CASE handle_transmit(line)
  <2>1. CASE set_interlock("not_ready")
    BY <2>1, SetInterlockReady
  <2>2. CASE Allowed' /\ NoUpdate
    BY <1>1, <2>2, NoUpdateReady, AllowedIsPermitted
       DEF handle_transmit, ReportedContext, MayTransmit
  <2>3. CASE interlock_id = NoId /\ NoUpdate
    BY <2>3, HeldWhenReady
       DEF ReadyOK, ReadyIsJustified, ReadyIsNotStale, NoUpdate, pending,
           command_in_progress
  <2> QED
    BY <1>1, <2>1, <2>2, <2>3 DEF handle_transmit
<1>2. CASE handle_interlock(line)
  <2>0. Permitted(config, has_frequency', frequency_mhz', tx_antenna')
          <=> Permitted(config, has_frequency, frequency_mhz, tx_antenna)
    BY <1>2 DEF handle_interlock, context
  <2>1. CASE set_interlock("not_ready")
    BY <2>1, SetInterlockReady
  <2>2. CASE set_interlock("ready") /\ Allowed /\ keyed' = TRUE
    BY <2>0, <2>2, SetInterlockReady, AllowedIsPermitted DEF MayTransmit
  <2>3. CASE NoUpdate /\ UNCHANGED keyed
    BY <2>0, <2>3, NoUpdateReady DEF MayTransmit
  <2> QED
    BY <1>2, <2>1, <2>2, <2>3 DEF handle_interlock
<1>3. CASE UNCHANGED <<context, keyed>> /\ NoUpdate
  BY <1>3, NoUpdateReady DEF context, MayTransmit
<1> QED
  BY <1>1, <1>2, <1>3 DEF handle_status

\* A step that reads no line and sends no interlock command.
LEMMA IdleReady ==
    ASSUME ReadyOK, UNCHANGED <<context, keyed, pending, command, last_interlock_command>>,
           \/ UNCHANGED <<pc, step>>
           \/ /\ pc # "send" \/ command \notin {"ready", "not_ready"}
              /\ pc' # "send" \/ command' \notin {"ready", "not_ready"}
              /\ Ending => Ending'
    PROVE  ReadyOK'
BY DEF ReadyOK, ReadyIsJustified, ReadyIsNotStale, NotReadyComing, Ending,
       MayTransmit, pending, context

LEMMA StepReady ==
    SessionInv /\ TypeOK' /\ [SessionNext]_vars => ReadyOK'
<1> SUFFICES ASSUME TypeOK, TypeOK', ControlOK, ReadyOK, [SessionNext]_vars
             PROVE  ReadyOK'
  BY DEF SessionInv
<1> USE DEF UnreadVars
<1>1. CASE Connect \/ ConnectFails
  <2>1. command = "name" /\ pc = "connect" /\ step = "name"
    BY <1>1 DEF Connect, ConnectFails, ControlOK, CallerOK, LocationOK, Subscribing
  <2>2. ~Ending
    BY <2>1 DEF Ending
  <2> QED
    BY <1>1, <2>1, <2>2, IdleReady DEF Connect, ConnectFails
<1>2. CASE SendRefused \/ SendFails
  BY <1>2, FailsReady DEF SendRefused, SendFails, StartCommand
<1>3. CASE SendFrame
  <2>1. /\ pc = "send" /\ pc' = "await"
        /\ UNCHANGED <<step, pending, context, keyed>>
        /\ last_interlock_command' = IF command \in InterlockCommands
                                     THEN command ELSE last_interlock_command
    BY <1>3 DEF SendFrame, StartCommand
  <2>2. MayTransmit' <=> MayTransmit
    BY <2>1 DEF MayTransmit, context
  <2>3. ReadyIsNotStale'
    BY <2>1, <2>2 DEF ReadyOK, ReadyIsNotStale, pending
  <2>4. ReadyIsJustified'
    BY <2>1, <2>2 DEF ReadyOK, ReadyIsJustified, ReadyIsNotStale,
                      NotReadyComing, Ending, pending, InterlockCommands
  <2> QED
    BY <2>3, <2>4 DEF ReadyOK
<1>4. CASE DeadlinePasses \/ Signal
  BY <1>4, IdleReady DEF DeadlinePasses, Signal
<1>5. CASE AwaitStopped \/ AwaitExpired
  BY <1>5, FailsReady DEF AwaitStopped, AwaitExpired, Await
<1>6. CASE AwaitSaved
  BY <1>6, AcceptReady DEF AwaitSaved, Await
<1>7. CASE AwaitRead
  BY <1>7, IdleReady DEF AwaitRead, Await, Ending
<1>8. ASSUME NEW line \in Line, ReadLine(line) PROVE ReadyOK'
  <2>1. CASE accept_response(line.response) /\ UNCHANGED <<context, keyed>>
    BY <1>8, <2>1, AcceptReady DEF ReadLine
  <2>2. CASE pc' = "await" /\ UNCHANGED <<step, command, pending, context, keyed>>
    BY <1>8, <2>2, IdleReady DEF ReadLine, Ending
  <2>3. CASE handle_status(line) /\ UNCHANGED step
    BY <1>8, <2>3, HandleStatusReady DEF ReadLine
  <2> QED
    BY <1>8, <2>1, <2>2, <2>3 DEF ReadLine
<1>9. CASE ReadNothing \/ ReadFails
  BY <1>9, FailsReady DEF ReadNothing, ReadFails
<1>10. CASE LoopReads \/ LoopStops \/ PollFails \/ PollNothing
  <2>1. ~Ending
    BY <1>10 DEF LoopReads, LoopStops, PollFails, PollNothing, Ending,
                 ControlOK, LocationOK
  <2> QED
    BY <1>10, <2>1, IdleReady DEF LoopReads, LoopStops, PollFails, PollNothing
<1>11. ASSUME NEW line \in Line, PollLine(line) PROVE ReadyOK'
  BY <1>11, HandleStatusReady DEF PollLine
<1>12. CASE remove_interlock
  BY <1>12 DEF remove_interlock, ReadyOK, ReadyIsJustified, ReadyIsNotStale,
               Ending, MayTransmit, context, pending
<1>13. CASE UNCHANGED vars
  BY <1>13, IdleReady DEF vars, context, pending
<1> QED
  BY <1>1, <1>2, <1>3, <1>4, <1>5, <1>6, <1>7, <1>8, <1>9, <1>10, <1>11,
     <1>12, <1>13
     DEF SessionNext, OwnStep, ReadTimesOut, ReadPartial, ReadInterrupted,
         Returned

LEMMA SessionInvHolds == SessionSpec => []SessionInv
<1>1. SessionInit => SessionInv
  <2>1. SessionInit => ReadyOK
    BY DEF SessionInit, ReadyOK, ReadyIsJustified, ReadyIsNotStale
  <2> QED
    BY <2>1, InitType, InitControl DEF SessionInv
<1>2. SessionInv /\ [SessionNext]_vars => SessionInv'
  BY StepType, StepControl, StepReady DEF SessionInv
<1> QED
  BY <1>1, <1>2, PTL DEF SessionSpec

(***************************************************************************)
(* "It sends ready only for a PTT request with a known, allowed frequency  *)
(* and transmit antenna": no ready is sent or deferred on a decision that  *)
(* has gone stale.                                                         *)
(***************************************************************************)
THEOREM ReadyNeverStale == SessionSpec => []ReadyIsNotStale
BY SessionInvHolds, PTL DEF SessionInv, ReadyOK

(***************************************************************************)
(* The one-slot deferral loses no decision: a radio last told ready is     *)
(* justified in transmitting or the next command it gets is not_ready.     *)
(***************************************************************************)
THEOREM ReadyAlwaysJustified == SessionSpec => []ReadyIsJustified
BY SessionInvHolds, PTL DEF SessionInv, ReadyOK

(***************************************************************************)
(* --observe never touches the radio's interlocks.                         *)
(***************************************************************************)
THEOREM ObserveNeverActs == SessionSpec => []ObserveIsPassive
<1>1. SessionInv => ObserveIsPassive
  BY DEF SessionInv, TypeOK, ControlOK, CallerOK, LocationOK, DeferralOK,
         ObserveIsPassive, command_in_progress, InterlockCommands, Steps,
         Subscribing
<1> QED
  BY <1>1, SessionInvHolds, PTL

(***************************************************************************)
(* However a session ends while its link works, an interlock it has armed  *)
(* is removed.                                                             *)
(***************************************************************************)
THEOREM ArmedAlwaysRemoved == SessionSpec => []ArmedInterlockIsRemoved
<1>1. SessionInv => ArmedInterlockIsRemoved
  BY DEF SessionInv, TypeOK, ControlOK, CallerOK, LocationOK,
         ArmedInterlockIsRemoved, Steps, Subscribing
<1> QED
  BY <1>1, SessionInvHolds, PTL

(***************************************************************************)
(* Interlock commands go out in the order create, not_ready, any of ready  *)
(* and not_ready, remove.                                                  *)
(***************************************************************************)
THEOREM WireOrder == SessionSpec => InterlockOrder
<1> DEFINE Ordered ==
      last_interlock_command' # last_interlock_command
        => Guard!MayFollow(last_interlock_command, last_interlock_command')
<1>1. SessionInv /\ [SessionNext]_vars => [Ordered]_vars
  <2> SUFFICES ASSUME SessionInv, SessionNext PROVE Ordered
    BY DEF vars
  <2>1. CASE SendFrame
    BY <2>1 DEF SendFrame, StartCommand, SessionInv, TypeOK, ControlOK, CallerOK,
                LocationOK, Steps, Subscribing, InterlockCommands, Guard!MayFollow
  <2>2. ~SendFrame => UNCHANGED last_interlock_command
    BY DEF SessionNext, OwnStep, Connect, ConnectFails, SendRefused, SendFails,
           AwaitStopped, AwaitSaved, AwaitExpired, AwaitRead, Await,
           ReadTimesOut, ReadPartial, ReadInterrupted, ReadNothing, ReadFails,
           LoopReads, LoopStops, PollNothing, PollFails, remove_interlock,
           ReadLine, PollLine, Signal, DeadlinePasses, Returned, vars
  <2> QED
    BY <2>1, <2>2
<1> QED
  BY <1>1, SessionInvHolds, PTL DEF SessionSpec, InterlockOrder

-----------------------------------------------------------------------------
(* FlexSession implements InterlockGuard: the contract on which Lifecycle  *)
(* relies holds for every configuration, radio, link and timing.           *)
(* What SessionInv leaves open: the result of a session on its way out.    *)

Leaving == pc = "cleanup" \/ (step = "remove" /\ pc # "closed")

ResultOK ==
    Leaving => \/ result = "STOPPED" /\ stop_requested
               \/ result = "DISCONNECTED" /\ ~link_up
               \/ result = "ERROR"

GuardInv == SessionInv /\ ResultOK

\* What the refinement needs of the type invariant and of ControlOK.
LEMMA GuardTypes ==
    ASSUME SessionInv
    PROVE  /\ pc \in Locations /\ step \in Steps
           /\ stop_requested \in BOOLEAN /\ link_up \in BOOLEAN
           /\ observe_only \in BOOLEAN
           /\ last_interlock_command \in {"none"} \cup InterlockCommands
BY DEF SessionInv, TypeOK

\* A command that fails leaves with a result that tells why.
LEMMA FailsResult ==
    ASSUME SessionInv, ResultOK, Fails, pc \in {"send", "await", "read"},
           stop_requested => stop_requested', link_up' => link_up
    PROVE  ResultOK'
BY GuardTypes DEF Fails, ResultOK, Leaving, cleanup_command, Locations

\* So does what follows an accepted response.
LEMMA AcceptResult ==
    ASSUME SessionInv, ResultOK, NEW r, accept_response(r),
           pc \in {"await", "read"}, UNCHANGED <<stop_requested, link_up>>
    PROVE  ResultOK'
<1>1. CASE Fails
  BY <1>1, FailsResult
<1>2. CASE Removed
  BY <1>2 DEF Removed, ResultOK, Leaving
<1>3. CASE SendDeferred
  BY <1>3 DEF SendDeferred, ResultOK, Leaving, cleanup_command
<1>4. CASE initialize_session(r.body) /\ ~cleanup_command
  <2>1. CASE SendNext
    BY <2>1, NextStepValue DEF SendNext, ResultOK, Leaving, Subscribing
  <2>2. CASE Created(r.body)
    BY <1>4, <2>2 DEF Created, ResultOK, Leaving, cleanup_command
  <2>3. CASE EnterLoop
    BY <2>3 DEF EnterLoop, ResultOK, Leaving
  <2> QED
    BY <1>4, <2>1, <2>2, <2>3 DEF initialize_session
<1>5. CASE ReturnToLoop
  BY <1>5 DEF ReturnToLoop, ResultOK, Leaving
<1> QED
  BY <1>1, <1>2, <1>3, <1>4, <1>5 DEF accept_response, Succeeds

\* A handler leaves the session where it is, or sends a command.
LEMMA HandlerMoves ==
    ASSUME NEW line, handle_status(line)
    PROVE  pc' \in {"await", "loop", "send"}
BY DEF handle_status, handle_transmit, handle_interlock, set_interlock, NoUpdate

\* A status handler does not choose the result.
LEMMA HandlerResult ==
    ASSUME SessionInv, ResultOK, NEW line, handle_status(line), pc \in {"read", "poll"},
           UNCHANGED <<step, result, stop_requested, link_up>>
    PROVE  ResultOK'
BY HandlerMoves DEF ResultOK, Leaving

\* Every step keeps the result of a session that is leaving true.
LEMMA StepResult == SessionInv /\ ResultOK /\ [SessionNext]_vars => ResultOK'
<1> SUFFICES ASSUME SessionInv, ResultOK, [SessionNext]_vars PROVE ResultOK'
  OBVIOUS
<1>1. CASE Connect \/ ConnectFails
  BY <1>1 DEF Connect, ConnectFails, ResultOK, Leaving, SessionInv, ControlOK, LocationOK
<1>2. CASE SendRefused \/ SendFails
  BY <1>2, FailsResult DEF SendRefused, SendFails, StartCommand
<1>3. CASE SendFrame
  BY <1>3 DEF SendFrame, StartCommand, ResultOK, Leaving
<1>4. CASE AwaitStopped \/ AwaitExpired
  BY <1>4, FailsResult DEF AwaitStopped, AwaitExpired, Await
<1>5. CASE AwaitSaved
  BY <1>5, AcceptResult DEF AwaitSaved, Await
<1>6. CASE AwaitRead \/ DeadlinePasses
  BY <1>6 DEF AwaitRead, Await, DeadlinePasses, ResultOK, Leaving
<1>7. ASSUME NEW line \in Line, ReadLine(line) PROVE ResultOK'
  <2>1. CASE accept_response(line.response)
    BY <1>7, <2>1, AcceptResult DEF ReadLine
  <2>2. CASE pc' = "await" /\ UNCHANGED <<step, result>>
    BY <1>7, <2>2 DEF ReadLine, ResultOK, Leaving
  <2>3. CASE handle_status(line) /\ UNCHANGED <<step, result>>
    BY <1>7, <2>3, HandlerResult DEF ReadLine
  <2> QED
    BY <1>7, <2>1, <2>2, <2>3 DEF ReadLine
<1>8. CASE ReadNothing /\ (stop_requested => stop_requested')
  BY <1>8, FailsResult DEF ReadNothing
<1>9. CASE ReadFails
  BY <1>9, FailsResult DEF ReadFails
<1>10. CASE LoopReads \/ LoopStops \/ PollNothing \/ PollFails
  BY <1>10 DEF LoopReads, LoopStops, PollNothing, PollFails, ResultOK, Leaving
<1>11. ASSUME NEW line \in Line, PollLine(line) PROVE ResultOK'
  BY <1>11, HandlerResult DEF PollLine
<1>12. CASE remove_interlock
  BY <1>12 DEF remove_interlock, ResultOK, Leaving
<1>13. CASE Signal
  BY <1>13 DEF Signal, ResultOK, Leaving
<1>14. CASE UNCHANGED vars
  BY <1>14 DEF vars, ResultOK, Leaving
<1> QED
  BY <1>1, <1>2, <1>3, <1>4, <1>5, <1>6, <1>7, <1>8, <1>9, <1>10, <1>11,
     <1>12, <1>13, <1>14
     DEF SessionNext, OwnStep, ReadTimesOut, ReadPartial, ReadInterrupted,
         Returned

\* The strengthened invariant holds of every session.
LEMMA GuardInvHolds == SessionSpec => []GuardInv
<1>1. SessionInit => ResultOK
  BY DEF SessionInit, ResultOK, Leaving
<1> QED
  BY <1>1, StepResult, SessionInvHolds, PTL DEF SessionSpec, GuardInv

-----------------------------------------------------------------------------
(* Steps of the session as steps of the guard.                             *)

\* A step of the guard, or one it does not see.
GuardStep == [Guard!Next]_(Guard!guard_vars)

\* The thread is between connecting and returning.
Inside == pc \notin {"connect", "closed"}

\* What only lines of the radio change.
KnowledgeKept == UNCHANGED <<has_frequency, frequency_mhz, tx_antenna, keyed>>

\* Steps that leave context and PTT alone leave may_transmit alone.
LEMMA MayTransmitKept ==
    ASSUME KnowledgeKept
    PROVE  MayTransmit' = MayTransmit
BY DEF KnowledgeKept, MayTransmit

\* A step that shows nothing outside is a stutter of the contract.
LEMMA InsideUnseen ==
    ASSUME Inside, Inside', KnowledgeKept,
           UNCHANGED <<last_interlock_command, stop_requested, link_up, observe_only>>
    PROVE  GuardStep
BY MayTransmitKept DEF GuardStep, Guard!guard_vars, Phase, Inside

\* A signal is the contract's Signal.
LEMMA InsideSignal ==
    ASSUME Inside, Inside', KnowledgeKept, stop_requested' = TRUE,
           UNCHANGED <<last_interlock_command, link_up, observe_only>>
    PROVE  GuardStep
BY MayTransmitKept
   DEF GuardStep, Guard!Next, Guard!Signal, Phase, Inside

\* A failing link is the contract's Breaks.
LEMMA InsideBreaks ==
    ASSUME Inside, Inside', KnowledgeKept, link_up' = FALSE,
           UNCHANGED <<last_interlock_command, stop_requested, observe_only>>
    PROVE  GuardStep
BY MayTransmitKept
   DEF GuardStep, Guard!Next, Guard!SessionStep, Guard!Breaks, Phase, Inside

\* A status is the contract's Learns.
LEMMA InsideLearns ==
    ASSUME Inside, Inside',
           UNCHANGED <<last_interlock_command, stop_requested, link_up, observe_only>>
    PROVE  GuardStep
<1>1. MayTransmit' \in BOOLEAN
  BY DEF MayTransmit
<1> QED
  BY <1>1 DEF GuardStep, Guard!Next, Guard!SessionStep, Guard!Learns, Phase, Inside

\* The call returns.
LEMMA ReturnEnds ==
    ASSUME SessionInv, SessionInv', ResultOK, Leaving, pc' = "closed",
           KnowledgeKept, UNCHANGED <<result, last_interlock_command, observe_only>>,
           stop_requested' \in {stop_requested, TRUE}, link_up' \in {link_up, FALSE}
    PROVE  GuardStep
<1>1. pc # "connect"
  BY DEF Leaving, SessionInv, ControlOK, LocationOK
<1>2. pc # "closed"
  BY DEF Leaving
<1>3. link_up' => last_interlock_command \notin {"not_ready", "ready"}
  BY DEF SessionInv, TypeOK, ControlOK, CallerOK, LocationOK, Steps, Subscribing
<1>4. \/ result' = "STOPPED" /\ stop_requested'
      \/ result' = "DISCONNECTED" /\ ~link_up'
      \/ result' = "ERROR"
  BY DEF ResultOK
<1> QED
  BY <1>1, <1>2, <1>3, <1>4, MayTransmitKept
     DEF GuardStep, Guard!Next, Guard!SessionStep, Guard!Ends, Phase

\* A failing command is a step of the contract.
LEMMA FailsGuard ==
    ASSUME SessionInv, SessionInv', ResultOK, Fails, pc \in {"send", "await", "read"},
           KnowledgeKept, UNCHANGED <<last_interlock_command, observe_only>>,
           \/ UNCHANGED <<stop_requested, link_up>>
           \/ stop_requested' = TRUE /\ UNCHANGED link_up
           \/ link_up' = FALSE /\ UNCHANGED stop_requested
    PROVE  GuardStep
<1>1. CASE cleanup_command
  <2>1. Leaving /\ pc' = "closed" /\ UNCHANGED result
    BY <1>1 DEF Fails, Leaving, cleanup_command
  <2> QED
    BY <2>1, ReturnEnds
<1>2. CASE ~cleanup_command
  <2>1. Inside /\ Inside'
    BY <1>2 DEF Fails, Inside
  <2> QED
    BY <2>1, InsideUnseen, InsideSignal, InsideBreaks
<1> QED
  BY <1>1, <1>2

\* An accepted response is a step of the contract.
LEMMA AcceptGuard ==
    ASSUME SessionInv, SessionInv', ResultOK, NEW r, accept_response(r),
           pc \in {"await", "read"}, KnowledgeKept,
           UNCHANGED <<last_interlock_command, observe_only, stop_requested, link_up>>
    PROVE  GuardStep
<1>1. CASE Fails
  BY <1>1, FailsGuard
<1>2. CASE Removed
  <2>1. Leaving /\ pc' = "closed" /\ UNCHANGED result
    BY <1>2 DEF Removed, Leaving, cleanup_command
  <2> QED
    BY <2>1, ReturnEnds
<1>3. CASE SendDeferred \/ initialize_session(r.body) \/ ReturnToLoop
  <2>1. Inside /\ Inside'
    BY <1>3 DEF SendDeferred, initialize_session, SendNext, Created, EnterLoop,
                ReturnToLoop, Inside
  <2> QED
    BY <2>1, InsideUnseen
<1> QED
  BY <1>1, <1>2, <1>3 DEF accept_response, Succeeds

\* A frame goes out: a command of the interlock, in order and justified, or
\* one the guard does not speak of.
LEMMA FrameGuard ==
    ASSUME SessionInv, SendFrame
    PROVE  GuardStep
<1>1. Inside /\ Inside' /\ KnowledgeKept
  BY DEF SendFrame, StartCommand, UnreadVars, context, Inside, KnowledgeKept
<1>2. UNCHANGED <<stop_requested, link_up, observe_only>>
  BY DEF SendFrame, StartCommand, UnreadVars
<1>3. CASE command \notin InterlockCommands
  BY <1>1, <1>2, <1>3, InsideUnseen DEF SendFrame
<1>4. CASE command \in InterlockCommands
  <2>1. ~observe_only
    BY <1>4 DEF SendFrame, StartCommand, SessionInv, TypeOK, ControlOK, CallerOK,
                Steps, Subscribing, InterlockCommands
  <2>2. Guard!MayFollow(last_interlock_command, command)
    BY <1>4 DEF SendFrame, StartCommand, SessionInv, TypeOK, ControlOK, CallerOK,
                LocationOK, Steps, Subscribing, InterlockCommands, Guard!MayFollow
  <2>3. command = "ready" => MayTransmit
    BY DEF SendFrame, StartCommand, SessionInv, ReadyOK, ReadyIsNotStale
  <2>4. last_interlock_command' = command
    BY <1>4 DEF SendFrame
  <2>5. Guard!Tells(command)
    BY <1>1, <1>2, <2>1, <2>2, <2>3, <2>4, MayTransmitKept
       DEF Guard!Tells, Phase, Inside
  <2> QED
    BY <1>4, <2>5 DEF GuardStep, Guard!Next, Guard!SessionStep, InterlockCommands
<1> QED
  BY <1>3, <1>4

\* Every step of a session is a step of the contract or a stutter.
LEMMA StepGuard ==
    SessionInv /\ SessionInv' /\ ResultOK /\ [SessionNext]_vars => GuardStep
<1> SUFFICES ASSUME SessionInv, SessionInv', ResultOK, [SessionNext]_vars
             PROVE  GuardStep
  OBVIOUS
<1> USE DEF UnreadVars, context, KnowledgeKept
<1>1. CASE Connect
  <2>1. Guard!Connects
    BY <1>1, MayTransmitKept DEF Connect, Guard!Connects, Phase
  <2> QED
    BY <2>1 DEF GuardStep, Guard!Next, Guard!SessionStep
<1>2. CASE ConnectFails
  <2>1. Guard!Unavailable
    BY <1>2, MayTransmitKept DEF ConnectFails, Guard!Unavailable, Phase
  <2> QED
    BY <2>1 DEF GuardStep, Guard!Next, Guard!SessionStep
<1>3. CASE SendRefused \/ SendFails
  BY <1>3, FailsGuard DEF SendRefused, SendFails, StartCommand
<1>4. CASE SendFrame
  BY <1>4, FrameGuard
<1>5. CASE AwaitStopped \/ AwaitExpired
  BY <1>5, FailsGuard DEF AwaitStopped, AwaitExpired, Await
<1>6. CASE AwaitSaved
  BY <1>6, AcceptGuard DEF AwaitSaved, Await
<1>7. CASE AwaitRead \/ DeadlinePasses \/ LoopReads \/ LoopStops \/ PollNothing
  BY <1>7, InsideUnseen DEF AwaitRead, Await, DeadlinePasses, LoopReads, LoopStops,
                            PollNothing, Inside
<1>8. ASSUME NEW line \in Line, ReadLine(line) PROVE GuardStep
  <2>1. CASE accept_response(line.response) /\ UNCHANGED <<context, keyed>>
    BY <1>8, <2>1, AcceptGuard DEF ReadLine
  <2>2. CASE pc' = "await" \/ handle_status(line)
    <3>1. Inside /\ Inside'
      BY <1>8, <2>2, HandlerMoves DEF ReadLine, Inside
    <3> QED
      BY <1>8, <3>1, InsideLearns DEF ReadLine
  <2> QED
    BY <1>8, <2>1, <2>2 DEF ReadLine
<1>9. CASE ReadNothing /\ (UNCHANGED stop_requested \/ stop_requested' = TRUE)
  BY <1>9, FailsGuard DEF ReadNothing
<1>10. CASE ReadFails
  BY <1>10, FailsGuard DEF ReadFails
<1>11. CASE PollFails
  BY <1>11, InsideBreaks DEF PollFails, Inside
<1>12. ASSUME NEW line \in Line, PollLine(line) PROVE GuardStep
  <2>1. Inside /\ Inside'
    BY <1>12, HandlerMoves DEF PollLine, Inside
  <2> QED
    BY <1>12, <2>1, InsideLearns DEF PollLine
<1>13. CASE remove_interlock
  <2>1. CASE pc' = "closed"
    BY <1>13, <2>1, ReturnEnds DEF remove_interlock, Leaving
  <2>2. CASE pc' = "send"
    BY <1>13, <2>2, InsideUnseen DEF remove_interlock, Inside
  <2> QED
    BY <1>13, <2>1, <2>2 DEF remove_interlock
<1>14. CASE Signal
  <2>1. Guard!Signal
    BY <1>14, MayTransmitKept DEF Signal, Guard!Signal, Phase
  <2> QED
    BY <2>1 DEF GuardStep, Guard!Next
<1>15. CASE UNCHANGED vars
  BY <1>15, MayTransmitKept DEF vars, GuardStep, Guard!guard_vars, Phase
<1> QED
  BY <1>1, <1>2, <1>3, <1>4, <1>5, <1>6, <1>7, <1>8, <1>9, <1>10, <1>11,
     <1>12, <1>13, <1>14, <1>15
     DEF SessionNext, OwnStep, ReadTimesOut, ReadPartial, ReadInterrupted,
         Returned

(***************************************************************************)
(* ag_flex_run_session keeps every promise of its contract InterlockGuard, *)
(* whatever the radio sends, whichever send or read fails and whenever a   *)
(* signal arrives.                                                         *)
(***************************************************************************)
THEOREM SessionImplementsGuard == SessionSpec => ImplementsGuard
<1>1. SessionInit => Guard!Init
  BY DEF SessionInit, Guard!Init, Guard!Begin, Phase, MayTransmit
<1>2. GuardInv /\ GuardInv' /\ [SessionNext]_vars => [Guard!Next]_(Guard!guard_vars)
  BY StepGuard DEF GuardInv, GuardStep
<1> QED
  BY <1>1, <1>2, GuardInvHolds, PTL DEF SessionSpec, ImplementsGuard, Guard!Spec
=============================================================================
