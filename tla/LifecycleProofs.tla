-------------------------- MODULE LifecycleProofs --------------------------
(***************************************************************************)
(* The safety of the process, for every command line, setting and order of *)
(* session results, announcements and signals.                             *)
(***************************************************************************)
EXTENDS Lifecycle, PolicyProofs

-----------------------------------------------------------------------------
(* Arithmetic.                                                             *)

\* The smaller of two numbers, which bounds a counter.
LEMMA MinOfTwo ==
    ASSUME NEW a \in Int, NEW b \in Int
    PROVE  Min({a, b}) = IF a <= b THEN a ELSE b
BY DEF Min

\* The larger of two numbers.
LEMMA MaxOfTwo ==
    ASSUME NEW a \in Int, NEW b \in Int
    PROVE  Max({a, b}) = IF a >= b THEN a ELSE b
BY DEF Max

\* Unsigned arithmetic does not wrap below its modulus.
LEMMA SmallModulo ==
    ASSUME NEW a \in Nat, NEW m \in Nat, a < m
    PROVE  a % m = a
OBVIOUS

\* What ag_config_load guarantees of the settings.
LEMMA SettingsType ==
    ASSUME NEW s \in Settings
    PROVE  /\ s.reconnect_seconds \in Nat \ {0}
           /\ s.reconnect_max_seconds \in Nat \ {0}
           /\ s.reconnect_log_seconds \in Nat \ {0}
           /\ s.reconnect_seconds <= s.reconnect_max_seconds
           /\ s.reconnect_max_seconds < UnsignedModulus
           /\ s.reconnect_log_seconds <= LongSilence
BY LifecycleAssumption

\* The bounds are numbers.
LEMMA BoundsType ==
    UnsignedModulus \in Nat /\ MaxFailures \in Nat /\ LongSilence \in Nat
BY LifecycleAssumption

(***************************************************************************)
(* ag_retry_next_delay doubles or stops at the maximum: it never wraps     *)
(* around unsigned, exceeds the maximum or becomes shorter.                *)
(***************************************************************************)
THEOREM NextDelayIsBounded ==
    ASSUME NEW m \in Nat \ {0}, m < UnsignedModulus, NEW c \in Nat, c <= m
    PROVE  /\ ag_retry_next_delay(c, m) = IF 2 * c <= m THEN 2 * c ELSE m
           /\ ag_retry_next_delay(c, m) \in c .. m
<1>1. CASE 2 * c <= m
  <2>1. c * 2 \in Nat /\ c * 2 < UnsignedModulus
    BY <1>1, BoundsType
  <2>2. (c * 2) % UnsignedModulus = c * 2
    BY <2>1, BoundsType, SmallModulo
  <2>3. ~(c >= m) /\ ~(c > m - c)
    BY <1>1
  <2>4. ag_retry_next_delay(c, m) = c * 2
    BY <2>2, <2>3 DEF ag_retry_next_delay
  <2> QED
    BY <1>1, <2>4
<1>2. CASE ~(2 * c <= m)
  <2>1. ag_retry_next_delay(c, m) = m
    BY <1>2 DEF ag_retry_next_delay
  <2> QED
    BY <1>2, <2>1
<1> QED
  BY <1>1, <1>2

-----------------------------------------------------------------------------
(* The listening socket.                                                   *)

ListenInv ==
    /\ socket_open => wait_pc \in {"head", "poll"}
    /\ wait_pc # "idle" => main_pc = "wait"

\* Every step keeps the socket within the wait, and the wait within main's.
LEMMA ListenStep ==
    ASSUME ListenInv, [Next]_vars
    PROVE  ListenInv'
<1> USE DEF ListenInv
<1>1. CASE ParseArgument
  BY <1>1 DEF ParseArgument, wait_vars
<1>2. CASE LoadConfig
  BY <1>2 DEF LoadConfig, wait_vars
<1>3. CASE LoopStops
  BY <1>3 DEF LoopStops, wait_vars
<1>4. CASE LoopConnects
  BY <1>4 DEF LoopConnects, wait_vars
<1>5. CASE LoopWaits
  BY <1>5 DEF LoopWaits, CallWait
<1>6. CASE Waits
  BY <1>6 DEF Waits, WaitStep, OpenSocket, OpenFails, WaitStops, WaitPolls,
     PollsNothing, PollError, Receive, Returns, Ignore, main_vars
<1>7. CASE Waited
  BY <1>7 DEF Waited, wait_vars
<1>8. CASE ReturnedLast
  BY <1>8 DEF ReturnedLast, Returned, wait_vars
<1>9. CASE ReturnedToDiscovery
  BY <1>9 DEF ReturnedToDiscovery, Returned, GoesOn, wait_vars
<1>10. CASE ReturnedUnavailable
  BY <1>10 DEF ReturnedUnavailable, Returned, GoesOn, wait_vars
<1>11. CASE ReturnedConnected
  BY <1>11 DEF ReturnedConnected, Returned, GoesOn, wait_vars
<1>12. CASE PauseEnds
  BY <1>12 DEF PauseEnds, SleepEnds, wait_vars
<1>13. CASE BackoffEnds
  BY <1>13 DEF BackoffEnds, SleepEnds, wait_vars
<1>14. CASE Connected
  BY <1>14 DEF Connected, wait_vars
<1>15. CASE SessionEnds
  BY <1>15 DEF SessionEnds, wait_vars
<1>16. CASE ConnectFails
  BY <1>16 DEF ConnectFails, wait_vars
<1>17. CASE ResolveFails
  BY <1>17 DEF ResolveFails, wait_vars
<1>18. CASE Tick
  BY <1>18 DEF Tick, wait_vars
<1>19. CASE handle_signal
  BY <1>19 DEF handle_signal, main_vars, wait_vars
<1>20. CASE KilledEarly
  BY <1>20 DEF KilledEarly, wait_vars
<1>21. CASE Announced
  BY <1>21 DEF Announced, Arrive, main_vars
<1>22. CASE Exited
  BY <1>22 DEF Exited, vars, wait_vars
<1>23. CASE UNCHANGED vars
  BY <1>23 DEF vars, wait_vars
<1> QED
  BY <1>1, <1>2, <1>3, <1>4, <1>5, <1>6, <1>7, <1>8, <1>9, <1>10, <1>11,
     <1>12, <1>13, <1>14, <1>15, <1>16, <1>17, <1>18, <1>19, <1>20, <1>21,
     <1>22, <1>23 DEF Next, MainStep

(***************************************************************************)
(* No way out of ag_discovery_wait leaves the listening socket open, in no *)
(* order of datagrams, errors, signals and sessions.                       *)
(***************************************************************************)
THEOREM ListeningStops == Spec => []ListensOnlyWhileWaiting
<1>1. Init => ListenInv
  BY DEF Init, WaitInit, ListenInv
<1>2. ListenInv /\ [Next]_vars => ListenInv'
  BY ListenStep
<1>3. ListenInv => ListensOnlyWhileWaiting
  BY DEF ListenInv, ListensOnlyWhileWaiting
<1> QED
  BY <1>1, <1>2, <1>3, PTL DEF Spec

-----------------------------------------------------------------------------
(* The exit code.                                                          *)

\* A call says that it was stopped only if it was, and the process has no
\* exit code before its end.
ExitInv ==
    /\ CleanExitOnlyOnRequest
    /\ main_pc # "exited" => exit_code = "none"
    /\ result = "STOPPED" => stop_requested
    /\ discovery_result = "STOPPED" => stop_requested

\* Every step keeps the exit code justified.
LEMMA ExitStep ==
    ASSUME ExitInv, [Next]_vars
    PROVE  ExitInv'
<1> USE DEF ExitInv
<1>1. CASE ParseArgument
  BY <1>1 DEF ParseArgument, Exit, session_vars, wait_vars,
     CleanExitOnlyOnRequest
<1>2. CASE LoadConfig
  BY <1>2 DEF LoadConfig, Exit, wait_vars, CleanExitOnlyOnRequest
<1>3. CASE LoopStops
  BY <1>3 DEF LoopStops, Exit, CleanExitOnlyOnRequest
<1>4. CASE LoopConnects
  BY <1>4 DEF LoopConnects, StartSession, wait_vars, CleanExitOnlyOnRequest
<1>5. CASE LoopWaits
  BY <1>5 DEF LoopWaits, CallWait, session_vars, CleanExitOnlyOnRequest
<1>6. CASE Waits
  BY <1>6 DEF Waits, WaitStep, OpenSocket, OpenFails, WaitStops, WaitPolls,
     PollsNothing, PollError, Receive, Returns, Ignore, main_vars,
     session_vars, CleanExitOnlyOnRequest
<1>7. CASE Waited
  BY <1>7 DEF Waited, Exit, StartSession, session_vars, wait_vars,
     CleanExitOnlyOnRequest
<1>8. CASE ReturnedLast
  BY <1>8 DEF ReturnedLast, Returned, Exit, session_vars, wait_vars,
     CleanExitOnlyOnRequest
<1>9. CASE ReturnedToDiscovery
  BY <1>9 DEF ReturnedToDiscovery, Returned, GoesOn, session_vars,
     wait_vars, CleanExitOnlyOnRequest
<1>10. CASE ReturnedUnavailable
  BY <1>10 DEF ReturnedUnavailable, Returned, GoesOn, session_vars,
     wait_vars, CleanExitOnlyOnRequest
<1>11. CASE ReturnedConnected
  BY <1>11 DEF ReturnedConnected, Returned, GoesOn, session_vars, wait_vars,
     CleanExitOnlyOnRequest
<1>12. CASE PauseEnds
  BY <1>12 DEF PauseEnds, SleepEnds, session_vars, wait_vars,
     CleanExitOnlyOnRequest
<1>13. CASE BackoffEnds
  BY <1>13 DEF BackoffEnds, SleepEnds, session_vars, wait_vars,
     CleanExitOnlyOnRequest
<1>14. CASE Connected
  BY <1>14 DEF Connected, Session!Connects, Session!Learns, Session!Breaks,
     Session!Tells, main_vars, wait_vars, CleanExitOnlyOnRequest
<1>15. CASE SessionEnds
  <2>1. /\ stop_requested' = stop_requested \/ stop_requested' = TRUE
        /\ \/ result' = "STOPPED" /\ stop_requested'
           \/ result' = "DISCONNECTED"
           \/ result' = "ERROR"
    BY <1>15, Zenon DEF SessionEnds, Session!Ends
  <2>2. exit_code = "none" /\ exit_code' = exit_code
    BY <1>15 DEF SessionEnds, main_vars
  <2>3. discovery_result' = discovery_result
    BY <1>15 DEF SessionEnds, wait_vars
  <2> QED
    BY <2>1, <2>2, <2>3 DEF CleanExitOnlyOnRequest
<1>16. CASE ConnectFails
  BY <1>16 DEF ConnectFails, Session!Unavailable, main_vars, wait_vars,
     CleanExitOnlyOnRequest
<1>17. CASE ResolveFails
  BY <1>17 DEF ResolveFails, Session!Unavailable, main_vars, wait_vars,
     CleanExitOnlyOnRequest
<1>18. CASE Tick
  BY <1>18 DEF Tick, session_vars, wait_vars, CleanExitOnlyOnRequest
<1>19. CASE handle_signal
  BY <1>19 DEF handle_signal, main_vars, CleanExitOnlyOnRequest
<1>20. CASE KilledEarly
  BY <1>20 DEF KilledEarly, Exit, session_vars, wait_vars,
     CleanExitOnlyOnRequest
<1>21. CASE Announced
  BY <1>21 DEF Announced, Arrive, main_vars, session_vars,
     CleanExitOnlyOnRequest
<1>22. CASE Exited
  BY <1>22 DEF Exited, vars, session_vars, wait_vars, CleanExitOnlyOnRequest
<1>23. CASE UNCHANGED vars
  BY <1>23 DEF vars, session_vars, wait_vars, CleanExitOnlyOnRequest
<1> QED
  BY <1>1, <1>2, <1>3, <1>4, <1>5, <1>6, <1>7, <1>8, <1>9, <1>10, <1>11,
     <1>12, <1>13, <1>14, <1>15, <1>16, <1>17, <1>18, <1>19, <1>20, <1>21,
     <1>22, <1>23 DEF Next, MainStep

(***************************************************************************)
(* A guard ends with exit code 0, after which the service manager does not *)
(* start it again, only because it was asked to.                           *)
(***************************************************************************)
THEOREM ExitIsRequested == Spec => []CleanExitOnlyOnRequest
<1>1. Init => ExitInv
  BY DEF Init, WaitInit, ExitInv, CleanExitOnlyOnRequest, Session!Begin
<1>2. ExitInv /\ [Next]_vars => ExitInv'
  BY ExitStep
<1>3. ExitInv => CleanExitOnlyOnRequest
  BY DEF ExitInv
<1> QED
  BY <1>1, <1>2, <1>3, PTL DEF Spec

-----------------------------------------------------------------------------
(* The options.                                                            *)

Running == main_pc \notin {"arguments", "config", "exited"}

\* What main has made of the options, by the place it has reached.
OptionsInv ==
    /\ OptionsAreKept
    /\ sessions \in Nat
    /\ main_pc \in {"arguments", "config"} => sessions = 0 /\ told = "none"
    /\ Running => /\ "check-config" \notin options
                  /\ "observe" \in options => observe_only = TRUE
    /\ "once" \in options => /\ main_pc \in {"loop", "wait"} => sessions = 0
                             /\ main_pc \notin {"backoff", "pause"}

\* A session is counted when it begins.
LEMMA SessionsCounted ==
    ASSUME sessions \in Nat, sessions' = Min({sessions + 1, 2})
    PROVE  sessions' \in Nat /\ (sessions = 0 => sessions' = 1)
BY MinOfTwo

\* Both loops start a session alike.
LEMMA OptionsAtStart ==
    ASSUME OptionsInv, ListenInv, StartSession, UNCHANGED wait_vars,
           main_pc \in {"loop", "wait"}, wait_pc = "idle"
    PROVE  OptionsInv'
<1>1. sessions' \in Nat /\ (sessions = 0 => sessions' = 1)
  BY SessionsCounted DEF OptionsInv, StartSession
<1>2. ~socket_open'
  BY DEF ListenInv, wait_vars
<1> QED
  BY <1>1, <1>2 DEF OptionsInv, OptionsAreKept, Running, StartSession

\* Every step keeps the options.
LEMMA OptionsStep ==
    ASSUME OptionsInv, ListenInv, [Next]_vars
    PROVE  OptionsInv'
<1> USE DEF OptionsInv
<1>1. CASE ParseArgument
  BY <1>1 DEF ParseArgument, Exit, session_vars, history_vars, wait_vars,
     OptionsAreKept, Running, ListenInv
<1>2. CASE LoadConfig
  BY <1>2 DEF LoadConfig, Exit, history_vars, wait_vars, OptionsAreKept,
     Running
<1>3. CASE LoopStops
  BY <1>3 DEF LoopStops, Exit, session_vars, history_vars, OptionsAreKept,
     Running
<1>4. CASE LoopConnects
  BY <1>4, OptionsAtStart DEF LoopConnects, ListenInv
<1>5. CASE LoopWaits
  BY <1>5 DEF LoopWaits, session_vars, history_vars, OptionsAreKept, Running
<1>6. CASE Waits
  BY <1>6 DEF Waits, main_vars, session_vars, history_vars, OptionsAreKept,
     Running
<1>7. CASE Waited
  <2>1. CASE StartSession
    BY <1>7, <2>1, OptionsAtStart DEF Waited
  <2>2. CASE ~StartSession
    BY <1>7, <2>2 DEF Waited, Exit, session_vars, history_vars,
       OptionsAreKept, Running
  <2> QED
    BY <2>1, <2>2
<1>8. CASE ReturnedLast
  BY <1>8 DEF ReturnedLast, Returned, Exit, session_vars, history_vars,
     OptionsAreKept, Running
<1>9. CASE ReturnedToDiscovery
  BY <1>9 DEF ReturnedToDiscovery, Returned, GoesOn, session_vars,
     history_vars, OptionsAreKept, Running
<1>10. CASE ReturnedUnavailable
  BY <1>10 DEF ReturnedUnavailable, Returned, GoesOn, session_vars,
     OptionsAreKept, Running
<1>11. CASE ReturnedConnected
  BY <1>11 DEF ReturnedConnected, Returned, GoesOn, session_vars,
     OptionsAreKept, Running
<1>12. CASE PauseEnds
  BY <1>12 DEF PauseEnds, SleepEnds, session_vars, OptionsAreKept, Running
<1>13. CASE BackoffEnds
  BY <1>13 DEF BackoffEnds, SleepEnds, session_vars, OptionsAreKept, Running
<1>14. CASE Connected
  BY <1>14 DEF Connected, Session!Connects, Session!Learns, Session!Breaks,
     Session!Tells, main_vars, history_vars, OptionsAreKept, Running
<1>15. CASE SessionEnds
  BY <1>15 DEF SessionEnds, Session!Ends, main_vars, history_vars,
     OptionsAreKept, Running
<1>16. CASE ConnectFails
  BY <1>16 DEF ConnectFails, Session!Unavailable, main_vars, OptionsAreKept,
     Running
<1>17. CASE ResolveFails
  BY <1>17 DEF ResolveFails, Session!Unavailable, main_vars, OptionsAreKept,
     Running
<1>18. CASE Tick
  BY <1>18 DEF Tick, session_vars, OptionsAreKept, Running
<1>19. CASE handle_signal
  BY <1>19 DEF handle_signal, main_vars, session_vars, history_vars,
     OptionsAreKept, Running
<1>20. CASE KilledEarly
  BY <1>20 DEF KilledEarly, Exit, session_vars, history_vars, wait_vars,
     OptionsAreKept, Running
<1>21. CASE Announced
  BY <1>21 DEF Announced, Arrive, main_vars, session_vars, history_vars,
     OptionsAreKept, Running
<1>22. CASE Exited
  BY <1>22 DEF Exited, vars, session_vars, history_vars, wait_vars,
     OptionsAreKept, Running
<1>23. CASE UNCHANGED vars
  BY <1>23 DEF vars, session_vars, history_vars, wait_vars, OptionsAreKept,
     Running
<1> QED
  BY <1>1, <1>2, <1>3, <1>4, <1>5, <1>6, <1>7, <1>8, <1>9, <1>10, <1>11,
     <1>12, <1>13, <1>14, <1>15, <1>16, <1>17, <1>18, <1>19, <1>20, <1>21,
     <1>22, <1>23 DEF Next, MainStep

(***************************************************************************)
(* --check-config, --observe and --once are kept in every loop and after   *)
(* every result.                                                           *)
(***************************************************************************)
THEOREM OptionsKept == Spec => []OptionsAreKept
<1>1. Init => OptionsInv /\ ListenInv
  BY DEF Init, WaitInit, OptionsInv, OptionsAreKept, ListenInv, Running,
         Session!Begin
<1>2. OptionsInv /\ ListenInv /\ [Next]_vars => OptionsInv' /\ ListenInv'
  BY OptionsStep, ListenStep
<1>3. OptionsInv => OptionsAreKept
  BY DEF OptionsInv
<1> QED
  BY <1>1, <1>2, <1>3, PTL DEF Spec

-----------------------------------------------------------------------------
(* Types.                                                                  *)

ControlTypeOK ==
    /\ main_pc \in MainLocations
    /\ arguments \in Seq(Options) /\ options \subseteq Options
    /\ radio_mode \in {"DIRECT", "DISCOVERY"}
    /\ log_attempt \in BOOLEAN
    /\ exit_code \in {"none", "0", "1", "2", "signal"}

TimeTypeOK ==
    /\ settings \in Settings
    /\ retry_delay \in Nat /\ retry_delay <= settings.reconnect_max_seconds
    /\ sleeping \in Nat /\ sleeping <= settings.reconnect_max_seconds
    /\ log_wait \in Nat /\ log_wait <= settings.reconnect_log_seconds
    /\ unannounced \in Nat /\ unannounced <= LongSilence

\* Every step keeps the types of what is not a number.
LEMMA ControlStep ==
    ASSUME ControlTypeOK, [Next]_vars
    PROVE  ControlTypeOK'
<1> USE DEF ControlTypeOK
<1>1. CASE ParseArgument
  <2>1. /\ UNCHANGED <<radio_mode, log_attempt>>
        /\ main_pc' \in MainLocations
        /\ exit_code' \in {"none", "0", "1", "2", "signal"}
    BY <1>1 DEF ParseArgument, Exit, MainLocations, file_vars, retry_vars
  <2>2. CASE arguments = <<>>
    <3>1. UNCHANGED <<arguments, options>>
      BY <1>1, <2>2 DEF ParseArgument
    <3> QED
      BY <2>1, <3>1
  <2>3. CASE arguments # <<>>
    <3>1. arguments' = Tail(arguments) /\ options' = options \cup {Head(arguments)}
      BY <1>1, <2>3 DEF ParseArgument
    <3>2. Tail(arguments) \in Seq(Options) /\ Head(arguments) \in Options
      BY <2>3
    <3> QED
      BY <2>1, <3>1, <3>2
  <2> QED
    BY <2>2, <2>3
<1>2. CASE LoadConfig
  BY <1>2 DEF LoadConfig, Exit, file_vars, MainLocations
<1>3. CASE LoopStops
  BY <1>3 DEF LoopStops, Exit, retry_vars, file_vars, MainLocations
<1>4. CASE LoopConnects
  BY <1>4 DEF LoopConnects, StartSession, retry_vars, file_vars,
     MainLocations
<1>5. CASE LoopWaits
  BY <1>5 DEF LoopWaits, retry_vars, file_vars, MainLocations
<1>6. CASE Waits
  BY <1>6 DEF Waits, main_vars, retry_vars, file_vars
<1>7. CASE Waited
  BY <1>7 DEF Waited, Exit, StartSession, retry_vars, file_vars,
     MainLocations
<1>8. CASE ReturnedLast
  BY <1>8 DEF ReturnedLast, Returned, Exit, retry_vars, file_vars,
     MainLocations
<1>9. CASE ReturnedToDiscovery
  BY <1>9 DEF ReturnedToDiscovery, Returned, GoesOn, file_vars,
     MainLocations
<1>10. CASE ReturnedUnavailable
  BY <1>10 DEF ReturnedUnavailable, Returned, GoesOn, file_vars,
     MainLocations
<1>11. CASE ReturnedConnected
  BY <1>11 DEF ReturnedConnected, Returned, GoesOn, file_vars, MainLocations
<1>12. CASE PauseEnds
  BY <1>12 DEF PauseEnds, SleepEnds, file_vars, MainLocations
<1>13. CASE BackoffEnds
  BY <1>13 DEF BackoffEnds, SleepEnds, file_vars, MainLocations
<1>14. CASE Connected
  BY <1>14 DEF Connected, main_vars, retry_vars, file_vars
<1>15. CASE SessionEnds
  BY <1>15 DEF SessionEnds, main_vars, retry_vars, file_vars
<1>16. CASE ConnectFails
  BY <1>16 DEF ConnectFails, main_vars, retry_vars, file_vars
<1>17. CASE ResolveFails
  BY <1>17 DEF ResolveFails, main_vars, retry_vars, file_vars
<1>18. CASE Tick
  BY <1>18 DEF Tick, file_vars
<1>19. CASE handle_signal
  BY <1>19 DEF handle_signal, main_vars, retry_vars, file_vars
<1>20. CASE KilledEarly
  BY <1>20 DEF KilledEarly, Exit, retry_vars, file_vars, MainLocations
<1>21. CASE Announced
  BY <1>21 DEF Announced, main_vars, retry_vars, file_vars
<1>22. CASE Exited
  BY <1>22 DEF Exited, vars, retry_vars, file_vars
<1>23. CASE UNCHANGED vars
  BY <1>23 DEF vars, retry_vars, file_vars
<1> QED
  BY <1>1, <1>2, <1>3, <1>4, <1>5, <1>6, <1>7, <1>8, <1>9, <1>10, <1>11,
     <1>12, <1>13, <1>14, <1>15, <1>16, <1>17, <1>18, <1>19, <1>20, <1>21,
     <1>22, <1>23 DEF Next, MainStep

\* The settings do not change once they are loaded.
LEMMA SettingsStay ==
    ASSUME [Next]_vars
    PROVE  UNCHANGED file_vars
<1>1. CASE ParseArgument
  BY <1>1 DEF ParseArgument
<1>2. CASE LoadConfig
  BY <1>2 DEF LoadConfig
<1>3. CASE LoopStops
  BY <1>3 DEF LoopStops
<1>4. CASE LoopConnects
  BY <1>4 DEF LoopConnects, StartSession
<1>5. CASE LoopWaits
  BY <1>5 DEF LoopWaits
<1>6. CASE Waits
  BY <1>6 DEF Waits, main_vars
<1>7. CASE Waited
  BY <1>7 DEF Waited, StartSession
<1>8. CASE ReturnedLast
  BY <1>8 DEF ReturnedLast, Returned
<1>9. CASE ReturnedToDiscovery
  BY <1>9 DEF ReturnedToDiscovery, Returned, GoesOn
<1>10. CASE ReturnedUnavailable
  BY <1>10 DEF ReturnedUnavailable, Returned, GoesOn
<1>11. CASE ReturnedConnected
  BY <1>11 DEF ReturnedConnected, Returned, GoesOn
<1>12. CASE PauseEnds
  BY <1>12 DEF PauseEnds, SleepEnds
<1>13. CASE BackoffEnds
  BY <1>13 DEF BackoffEnds, SleepEnds
<1>14. CASE Connected
  BY <1>14 DEF Connected, main_vars
<1>15. CASE SessionEnds
  BY <1>15 DEF SessionEnds, main_vars
<1>16. CASE ConnectFails
  BY <1>16 DEF ConnectFails, main_vars
<1>17. CASE ResolveFails
  BY <1>17 DEF ResolveFails, main_vars
<1>18. CASE Tick
  BY <1>18 DEF Tick
<1>19. CASE handle_signal
  BY <1>19 DEF handle_signal, main_vars
<1>20. CASE KilledEarly
  BY <1>20 DEF KilledEarly
<1>21. CASE Announced
  BY <1>21 DEF Announced, main_vars
<1>22. CASE Exited
  BY <1>22 DEF Exited, vars
<1>23. CASE UNCHANGED vars
  BY <1>23 DEF vars
<1> QED
  BY <1>1, <1>2, <1>3, <1>4, <1>5, <1>6, <1>7, <1>8, <1>9, <1>10, <1>11,
     <1>12, <1>13, <1>14, <1>15, <1>16, <1>17, <1>18, <1>19, <1>20, <1>21,
     <1>22, <1>23 DEF Next, MainStep

\* A second more of silence, a second less to wait.
LEMMA TickTimes ==
    ASSUME NEW q \in Nat, NEW w \in Nat
    PROVE  /\ Min({q + 1, LongSilence}) = IF q + 1 <= LongSilence THEN q + 1
                                                               ELSE LongSilence
           /\ Max({w - 1, 0}) = IF w >= 1 THEN w - 1 ELSE 0
BY MinOfTwo, MaxOfTwo, BoundsType

\* Every step keeps the types of delays and times.
LEMMA TimeStep ==
    ASSUME TimeTypeOK, [Next]_vars
    PROVE  TimeTypeOK'
<1> USE DEF TimeTypeOK
<1>1. /\ settings' = settings /\ settings \in Settings
      /\ settings.reconnect_seconds \in Nat /\ settings.reconnect_max_seconds \in Nat
      /\ settings.reconnect_log_seconds \in Nat /\ LongSilence \in Nat
      /\ settings.reconnect_seconds <= settings.reconnect_max_seconds
      /\ settings.reconnect_log_seconds <= LongSilence
  BY SettingsStay, SettingsType, BoundsType DEF file_vars
<1>2. CASE ParseArgument
  BY <1>2, <1>1 DEF ParseArgument, retry_vars, history_vars
<1>3. CASE LoadConfig
  BY <1>3, <1>1 DEF LoadConfig, history_vars
<1>4. CASE LoopStops
  BY <1>4, <1>1 DEF LoopStops, retry_vars, history_vars
<1>5. CASE LoopConnects
  BY <1>5, <1>1 DEF LoopConnects, StartSession, retry_vars
<1>6. CASE LoopWaits
  BY <1>6, <1>1 DEF LoopWaits, retry_vars, history_vars
<1>7. CASE Waits
  BY <1>7, <1>1 DEF Waits, main_vars, retry_vars, history_vars
<1>8. CASE Waited
  BY <1>8, <1>1 DEF Waited, StartSession, retry_vars, history_vars
<1>9. CASE ReturnedLast
  BY <1>9, <1>1 DEF ReturnedLast, retry_vars, history_vars
<1>10. CASE ReturnedToDiscovery
  BY <1>10, <1>1 DEF ReturnedToDiscovery, history_vars
<1>11. CASE ReturnedUnavailable
  BY <1>11, <1>1 DEF ReturnedUnavailable
<1>12. CASE ReturnedConnected
  BY <1>12, <1>1 DEF ReturnedConnected
<1>13. CASE PauseEnds
  BY <1>13, <1>1 DEF PauseEnds, SleepEnds
<1>14. CASE BackoffEnds
  <2>1. ag_retry_next_delay(retry_delay, settings.reconnect_max_seconds)
            \in retry_delay .. settings.reconnect_max_seconds
    BY <1>1, SettingsType, NextDelayIsBounded
  <2>2. /\ retry_delay' = ag_retry_next_delay(retry_delay,
                                              settings.reconnect_max_seconds)
        /\ sleeping' = 0 /\ UNCHANGED <<log_wait, unannounced>>
    BY <1>14 DEF BackoffEnds, SleepEnds
  <2> QED
    BY <1>1, <2>1, <2>2
<1>15. CASE Connected
  BY <1>15, <1>1 DEF Connected, main_vars, retry_vars, history_vars
<1>16. CASE SessionEnds
  BY <1>16, <1>1 DEF SessionEnds, main_vars, retry_vars, history_vars
<1>17. CASE ConnectFails
  BY <1>17, <1>1 DEF ConnectFails, main_vars, retry_vars
<1>18. CASE ResolveFails
  BY <1>18, <1>1 DEF ResolveFails, main_vars, retry_vars
<1>19. CASE Tick
  <2>1. /\ unannounced' \in Nat /\ unannounced' <= LongSilence
        /\ log_wait' \in Nat /\ log_wait' <= log_wait
    BY <1>19, <1>1, TickTimes DEF Tick
  <2>2. sleeping' \in Nat /\ sleeping' <= sleeping
    BY <1>19 DEF Tick, sleep_interruptibly
  <2>3. UNCHANGED <<settings, retry_delay>>
    BY <1>19 DEF Tick, file_vars
  <2> QED
    BY <1>1, <2>1, <2>2, <2>3
<1>20. CASE handle_signal
  BY <1>20, <1>1 DEF handle_signal, main_vars, retry_vars, history_vars
<1>21. CASE KilledEarly
  BY <1>21, <1>1 DEF KilledEarly, retry_vars, history_vars
<1>22. CASE Announced
  BY <1>22, <1>1 DEF Announced, main_vars, retry_vars, history_vars
<1>23. CASE Exited
  BY <1>23, <1>1 DEF Exited, vars, retry_vars, history_vars
<1>24. CASE UNCHANGED vars
  BY <1>24, <1>1 DEF vars, retry_vars, history_vars
<1> QED
  BY <1>2, <1>3, <1>4, <1>5, <1>6, <1>7, <1>8, <1>9, <1>10, <1>11, <1>12,
     <1>13, <1>14, <1>15, <1>16, <1>17, <1>18, <1>19, <1>20, <1>21, <1>22,
     <1>23, <1>24 DEF Next, MainStep

(***************************************************************************)
(* The process' variables keep their types: the delay between attempts     *)
(* never exceeds reconnect_max_seconds, for every setting.                 *)
(***************************************************************************)
THEOREM LifecycleTypes == Spec => []LifecycleTypeOK
<1>1. Init => ControlTypeOK
  BY CommandLinesAssumption DEF Init, ControlTypeOK, MainLocations
<1>2. Init => TimeTypeOK
  BY SettingsType, BoundsType DEF Init, TimeTypeOK
<1>3. ControlTypeOK /\ [Next]_vars => ControlTypeOK'
  BY ControlStep
<1>4. TimeTypeOK /\ [Next]_vars => TimeTypeOK'
  BY TimeStep
<1>5. ControlTypeOK /\ TimeTypeOK => LifecycleTypeOK
  BY SettingsType DEF ControlTypeOK, TimeTypeOK, LifecycleTypeOK
<1> QED
  BY <1>1, <1>2, <1>3, <1>4, <1>5, PTL DEF Spec

-----------------------------------------------------------------------------
(* The messages of the direct loop.                                        *)

\* Before an attempt that will be announced the silence was long enough; an
\* attempt that will not be is followed by a message when the silence so
\* far and the time left add up to reconnect_log_seconds.
LogInv ==
    radio_mode = "DIRECT" =>
        /\ log_attempt /\ main_pc \in {"arguments", "config", "loop", "pause"}
              => unannounced >= settings.reconnect_log_seconds
        /\ ~log_attempt \/ main_pc = "backoff"
              => log_wait + unannounced >= settings.reconnect_log_seconds

\* Every step keeps the messages apart.
LEMMA LogStep ==
    ASSUME LogInv, TimeTypeOK, [Next]_vars
    PROVE  LogInv'
<1> USE DEF LogInv
<1>1. /\ settings' = settings /\ radio_mode' = radio_mode
      /\ settings.reconnect_log_seconds \in Nat /\ LongSilence \in Nat
      /\ settings.reconnect_log_seconds <= LongSilence
      /\ unannounced \in Nat /\ log_wait \in Nat
  BY SettingsStay, SettingsType, BoundsType DEF file_vars, TimeTypeOK
<1>2. CASE ParseArgument
  BY <1>2, <1>1 DEF ParseArgument, retry_vars, history_vars
<1>3. CASE LoadConfig
  BY <1>3, <1>1 DEF LoadConfig, history_vars
<1>4. CASE LoopStops
  BY <1>4, <1>1 DEF LoopStops, retry_vars, history_vars
<1>5. CASE LoopConnects
  BY <1>5, <1>1 DEF LoopConnects, StartSession, retry_vars
<1>6. CASE LoopWaits
  BY <1>6, <1>1 DEF LoopWaits
<1>7. CASE Waits
  BY <1>7, <1>1 DEF Waits, main_vars, retry_vars, history_vars
<1>8. CASE Waited
  BY <1>8, <1>1 DEF Waited, Exit, StartSession, retry_vars, history_vars
<1>9. CASE ReturnedLast
  BY <1>9, <1>1 DEF ReturnedLast, Exit, retry_vars, history_vars
<1>10. CASE ReturnedToDiscovery
  BY <1>10, <1>1 DEF ReturnedToDiscovery
<1>11. CASE ReturnedUnavailable
  BY <1>11, <1>1 DEF ReturnedUnavailable
<1>12. CASE ReturnedConnected
  BY <1>12, <1>1 DEF ReturnedConnected
<1>13. CASE PauseEnds
  BY <1>13, <1>1 DEF PauseEnds, SleepEnds
<1>14. CASE BackoffEnds
  <2>1. main_pc = "backoff" /\ main_pc' = "loop" /\ UNCHANGED <<unannounced, log_wait>>
    BY <1>14 DEF BackoffEnds, SleepEnds
  <2>2. log_attempt' <=> log_wait = 0
    BY <1>14, Zenon DEF BackoffEnds
  <2> QED
    BY <1>1, <2>1, <2>2
<1>15. CASE Connected
  BY <1>15, <1>1 DEF Connected, main_vars, retry_vars, history_vars
<1>16. CASE SessionEnds
  BY <1>16, <1>1 DEF SessionEnds, main_vars, retry_vars, history_vars
<1>17. CASE ConnectFails
  BY <1>17, <1>1 DEF ConnectFails, main_vars, retry_vars
<1>18. CASE ResolveFails
  BY <1>18, <1>1 DEF ResolveFails, main_vars, retry_vars
<1>19. CASE Tick
  <2>1. /\ unannounced' = IF unannounced + 1 <= LongSilence
                          THEN unannounced + 1 ELSE LongSilence
        /\ log_wait' = IF log_wait >= 1 THEN log_wait - 1 ELSE 0
    BY <1>19, <1>1, TickTimes DEF Tick
  <2>2. UNCHANGED <<main_pc, log_attempt>>
    BY <1>19 DEF Tick
  <2> QED
    BY <1>1, <2>1, <2>2
<1>20. CASE handle_signal
  BY <1>20, <1>1 DEF handle_signal, main_vars, retry_vars, history_vars
<1>21. CASE KilledEarly
  BY <1>21, <1>1 DEF KilledEarly, retry_vars, history_vars
<1>22. CASE Announced
  BY <1>22, <1>1 DEF Announced, main_vars, retry_vars, history_vars
<1>23. CASE Exited
  BY <1>23, <1>1 DEF Exited, vars, retry_vars, history_vars
<1>24. CASE UNCHANGED vars
  BY <1>24, <1>1 DEF vars, retry_vars, history_vars
<1> QED
  BY <1>2, <1>3, <1>4, <1>5, <1>6, <1>7, <1>8, <1>9, <1>10, <1>11, <1>12,
     <1>13, <1>14, <1>15, <1>16, <1>17, <1>18, <1>19, <1>20, <1>21, <1>22,
     <1>23, <1>24 DEF Next, MainStep

(***************************************************************************)
(* Attempts of the direct loop are announced no more often than            *)
(* reconnect_log_seconds while the radio stays unavailable, for every      *)
(* setting and however the sleeps and the retries fall.                    *)
(***************************************************************************)
THEOREM LogsAreSpaced == Spec => AnnouncedAttemptsAreSpaced
<1>1. Init => TimeTypeOK
  BY SettingsType, BoundsType DEF Init, TimeTypeOK
<1>2. Init => LogInv
  BY SettingsType, BoundsType DEF Init, LogInv
<1>3. TimeTypeOK /\ [Next]_vars => TimeTypeOK'
  BY TimeStep
<1>4. LogInv /\ TimeTypeOK /\ [Next]_vars => LogInv'
  BY LogStep
<1>5. LogInv => (LoopConnects /\ log_attempt =>
                     unannounced >= settings.reconnect_log_seconds)
  BY DEF LogInv, LoopConnects
<1> QED
  BY <1>1, <1>2, <1>3, <1>4, <1>5, PTL DEF Spec, AnnouncedAttemptsAreSpaced

-----------------------------------------------------------------------------
(* The delays of the direct loop.                                          *)

\* The powers of two, up to some number.
Powers(f, m) ==
    /\ f \in [0 .. m -> Nat] /\ f[0] = 1
    /\ \A n \in 1 .. m : f[n] = 2 * f[n - 1]

LEMMA PowersExist == \A m \in Nat : \E f : Powers(f, m)
<1> DEFINE S == {m \in Nat : \E f : Powers(f, m)}
<1>1. 0 \in S
  <2> DEFINE f == [n \in 0 .. 0 |-> 1]
  <2>1. Powers(f, 0)
    BY DEF Powers
  <2> QED
    BY <2>1
<1>2. ASSUME NEW m \in Nat, m \in S
      PROVE  m + 1 \in S
  <2>1. PICK f : Powers(f, m)
    BY <1>2
  <2> DEFINE g == [n \in 0 .. m + 1 |-> IF n = m + 1 THEN 2 * f[m] ELSE f[n]]
  <2>2. f[m] \in Nat /\ \A n \in 0 .. m : f[n] \in Nat
    BY <2>1 DEF Powers
  <2>3. g \in [0 .. m + 1 -> Nat]
    BY <2>2
  <2>4. g[m + 1] = 2 * f[m] /\ \A n \in 0 .. m : g[n] = f[n]
    OBVIOUS
  <2> HIDE DEF g
  <2>5. g[0] = 1
    BY <2>1, <2>4 DEF Powers
  <2>6. ASSUME NEW n \in 1 .. m + 1
        PROVE  g[n] = 2 * g[n - 1]
    <3>1. CASE n = m + 1
      BY <2>4, <3>1
    <3>2. CASE n # m + 1
      <4>1. n \in 1 .. m /\ n - 1 \in 0 .. m /\ n \in 0 .. m
        BY <3>2
      <4> QED
        BY <2>1, <2>4, <4>1 DEF Powers
    <3> QED
      BY <3>1, <3>2
  <2>7. Powers(g, m + 1)
    BY <2>3, <2>5, <2>6 DEF Powers
  <2> QED
    BY <2>7
<1> HIDE DEF S
<1>3. Nat \subseteq S
  BY <1>1, <1>2, NaturalInduction
<1> QED
  BY <1>3 DEF S

\* The recursion of PowerOfTwo has a solution.
LEMMA PowersOfTwo == Powers(PowerOfTwo, MaxFailures)
<1> DEFINE Step(f) == [n \in 0 .. MaxFailures |-> IF n = 0 THEN 1 ELSE 2 * f[n - 1]]
<1>1. MaxFailures \in Nat
  BY BoundsType
<1>2. \A f : Powers(f, MaxFailures) => f = Step(f)
  <2> SUFFICES ASSUME NEW f, Powers(f, MaxFailures) PROVE f = Step(f)
    OBVIOUS
  <2>1. f \in [0 .. MaxFailures -> Nat]
    BY DEF Powers
  <2>2. \A n \in 0 .. MaxFailures : f[n] = IF n = 0 THEN 1 ELSE 2 * f[n - 1]
    BY <1>1 DEF Powers
  <2> QED
    BY <2>1, <2>2
<1>3. \E f : f = Step(f)
  BY <1>1, <1>2, PowersExist
<1>4. PowerOfTwo = CHOOSE f : f = Step(f)
  BY DEF PowerOfTwo
<1>5. PowerOfTwo = Step(PowerOfTwo)
  BY <1>3, <1>4
<1> DEFINE f == PowerOfTwo
           S == {n \in Nat : n <= MaxFailures => f[n] \in Nat}
<1> HIDE DEF f
<1>6. \A n \in 0 .. MaxFailures : f[n] = IF n = 0 THEN 1 ELSE 2 * f[n - 1]
  BY <1>5 DEF f
<1>7. 0 \in S
  BY <1>1, <1>6
<1>8. ASSUME NEW n \in Nat, n \in S
      PROVE  n + 1 \in S
  BY <1>1, <1>6, <1>8
<1>9. Nat \subseteq S
  <2> HIDE DEF S
  <2> QED
    BY <1>7, <1>8, NaturalInduction
<1>10. \A n \in 0 .. MaxFailures : f[n] \in Nat
  BY <1>1, <1>9
<1>11. f = [n \in 0 .. MaxFailures |-> f[n]]
  BY <1>5 DEF f
<1>12. f \in [0 .. MaxFailures -> Nat]
  BY <1>10, <1>11
<1>13. f[0] = 1 /\ \A n \in 1 .. MaxFailures : f[n] = 2 * f[n - 1]
  BY <1>1, <1>6
<1> QED
  BY <1>12, <1>13 DEF Powers, f

\* The delay after some failures, as the README gives it.
Scheduled(n) ==
    Min({settings.reconnect_seconds * PowerOfTwo[n], settings.reconnect_max_seconds})

\* The count of failures is in range and starts from zero; the delay, once it
\* is set, is the scheduled one.
ScheduleInv ==
    /\ failures \in 0 .. MaxFailures
    /\ main_pc \in {"arguments", "config"} => failures = 0
    /\ retry_delay = 0 \/ retry_delay = Scheduled(failures)

LEMMA ScheduledDelay ==
    ASSUME settings \in Settings, NEW n \in 0 .. MaxFailures
    PROVE  LET r == settings.reconnect_seconds
               m == settings.reconnect_max_seconds
           IN  /\ r * PowerOfTwo[n] \in Nat
               /\ Scheduled(n) = IF r * PowerOfTwo[n] <= m THEN r * PowerOfTwo[n] ELSE m
               /\ n < MaxFailures => r * PowerOfTwo[n + 1] = 2 * (r * PowerOfTwo[n])
               /\ r * PowerOfTwo[0] = r /\ r * PowerOfTwo[MaxFailures] >= m
<1> DEFINE r == settings.reconnect_seconds
           m == settings.reconnect_max_seconds
           p == PowerOfTwo[n]
<1>1. r \in Nat /\ m \in Nat /\ MaxFailures \in Nat
  BY SettingsType, BoundsType
<1>2. p \in Nat /\ PowerOfTwo[0] = 1
  BY PowersOfTwo DEF Powers
<1>3. n < MaxFailures => PowerOfTwo[n + 1] = 2 * p
  <2>1. n < MaxFailures => n + 1 \in 1 .. MaxFailures /\ (n + 1) - 1 = n
    BY <1>1
  <2> QED
    BY <2>1, PowersOfTwo DEF Powers
<1>4. r * PowerOfTwo[MaxFailures] >= m
  BY MaxFailuresAssumption
<1> HIDE DEF r, m, p
<1>5. r * p \in Nat /\ r * (2 * p) = 2 * (r * p) /\ r * 1 = r
  BY <1>1, <1>2
<1>6. Min({r * p, m}) = IF r * p <= m THEN r * p ELSE m
  BY <1>1, <1>5, MinOfTwo
<1> QED
  BY <1>2, <1>3, <1>4, <1>5, <1>6 DEF Scheduled, r, m, p

\* The delay after one more failure, which ag_retry_next_delay computes.
LEMMA NextScheduled ==
    ASSUME settings \in Settings, failures \in 0 .. MaxFailures,
           retry_delay = Scheduled(failures)
    PROVE  ag_retry_next_delay(retry_delay, settings.reconnect_max_seconds)
              = Scheduled(Min({failures + 1, MaxFailures}))
<1> DEFINE r == settings.reconnect_seconds
           m == settings.reconnect_max_seconds
           next == ag_retry_next_delay(retry_delay, m)
           q == r * PowerOfTwo[failures]
<1>1. /\ m \in Nat \ {0} /\ m < UnsignedModulus /\ MaxFailures \in Nat
  BY SettingsType, BoundsType
<1>2. /\ q \in Nat /\ retry_delay = IF q <= m THEN q ELSE m
      /\ failures < MaxFailures => r * PowerOfTwo[failures + 1] = 2 * q
      /\ r * PowerOfTwo[MaxFailures] >= m
  BY ScheduledDelay
<1> HIDE DEF q
<1>3. retry_delay \in Nat /\ retry_delay <= m
  BY <1>1, <1>2
<1>4. next = IF 2 * retry_delay <= m THEN 2 * retry_delay ELSE m
  BY <1>1, <1>3, NextDelayIsBounded
<1>5. Min({failures + 1, MaxFailures}) = IF failures + 1 <= MaxFailures THEN failures + 1
                                                                      ELSE MaxFailures
  BY <1>1, MinOfTwo
<1> HIDE DEF next
<1>6. CASE failures < MaxFailures
  <2>1. failures + 1 \in 0 .. MaxFailures
    BY <1>1, <1>6
  <2>2. Scheduled(failures + 1) = IF r * PowerOfTwo[failures + 1] <= m
                                  THEN r * PowerOfTwo[failures + 1] ELSE m
    BY <2>1, ScheduledDelay
  <2>3. Scheduled(failures + 1) = IF 2 * q <= m THEN 2 * q ELSE m
    BY <1>2, <1>6, <2>2
  <2>4. next = Scheduled(failures + 1)
    BY <1>1, <1>2, <1>4, <2>3
  <2>5. Min({failures + 1, MaxFailures}) = failures + 1
    BY <1>1, <1>5, <1>6
  <2> QED
    BY <2>4, <2>5 DEF next
<1>7. CASE failures = MaxFailures
  <2>1. q >= m
    BY <1>2, <1>7 DEF q
  <2>2. retry_delay = m
    BY <1>1, <1>2, <2>1
  <2>3. next = m
    BY <1>1, <1>4, <2>2
  <2>4. Min({failures + 1, MaxFailures}) = failures
    BY <1>1, <1>5, <1>7
  <2> QED
    BY <2>2, <2>3, <2>4 DEF next
<1> QED
  BY <1>1, <1>6, <1>7

\* Every step keeps to the schedule.
LEMMA ScheduleStep ==
    ASSUME ScheduleInv, TimeTypeOK, [Next]_vars
    PROVE  ScheduleInv'
<1>1. /\ settings' = settings /\ settings \in Settings
      /\ settings.reconnect_seconds \in Nat /\ settings.reconnect_max_seconds \in Nat
      /\ settings.reconnect_seconds <= settings.reconnect_max_seconds
      /\ MaxFailures \in Nat /\ 0 \in 0 .. MaxFailures
  BY SettingsStay, SettingsType, BoundsType DEF file_vars, TimeTypeOK
<1>2. Scheduled(0) = settings.reconnect_seconds
  BY <1>1, ScheduledDelay
<1>3. ASSUME UNCHANGED <<failures, retry_delay>>,
             main_pc' \in {"arguments", "config"} => main_pc \in {"arguments", "config"}
      PROVE  ScheduleInv'
  BY <1>1, <1>3 DEF ScheduleInv, Scheduled
<1>4. ASSUME failures' = 0, retry_delay' = settings.reconnect_seconds
      PROVE  ScheduleInv'
  <2>1. Scheduled(failures)' = Scheduled(0)
    BY <1>1, <1>4 DEF Scheduled
  <2> QED
    BY <1>1, <1>2, <1>4, <2>1 DEF ScheduleInv
<1>5. CASE LoadConfig
  <2>1. failures' = failures /\ failures = 0
    BY <1>5 DEF LoadConfig, history_vars, ScheduleInv
  <2>2. CASE retry_delay' = retry_delay
    BY <1>3, <1>5, <2>1, <2>2 DEF LoadConfig
  <2>3. CASE retry_delay' = settings.reconnect_seconds
    BY <1>4, <2>1, <2>3
  <2> QED
    BY <1>5, <2>2, <2>3 DEF LoadConfig
<1>6. CASE ReturnedConnected
  BY <1>4, <1>6 DEF ReturnedConnected
<1>7. CASE BackoffEnds
  <2> DEFINE next == Min({failures + 1, MaxFailures})
  <2>1. /\ retry_delay' = ag_retry_next_delay(retry_delay, settings.reconnect_max_seconds)
        /\ failures' = next /\ main_pc' = "loop"
    BY <1>7 DEF BackoffEnds, SleepEnds
  <2>2. failures \in 0 .. MaxFailures
    BY DEF ScheduleInv
  <2>3. next \in 0 .. MaxFailures
    <3>1. next = IF failures + 1 <= MaxFailures THEN failures + 1 ELSE MaxFailures
      BY <1>1, <2>2, MinOfTwo
    <3> QED
      BY <1>1, <2>2, <3>1
  <2>4. retry_delay' = 0 \/ retry_delay' = Scheduled(next)
    <3>1. CASE retry_delay = 0
      <4>1. ag_retry_next_delay(0, settings.reconnect_max_seconds) = 0
        BY <1>1, SettingsType, NextDelayIsBounded
      <4> QED
        BY <2>1, <3>1, <4>1
    <3>2. CASE retry_delay = Scheduled(failures)
      BY <1>1, <2>1, <2>2, <3>2, NextScheduled
    <3> QED
      BY <3>1, <3>2 DEF ScheduleInv
  <2>5. Scheduled(failures)' = Scheduled(next)
    <3> HIDE DEF next
    <3> QED
      BY <1>1, <2>1 DEF Scheduled
  <2> HIDE DEF next
  <2> QED
    BY <2>1, <2>3, <2>4, <2>5 DEF ScheduleInv
<1>8. CASE ParseArgument
  BY <1>3, <1>8 DEF ParseArgument, Exit, retry_vars, history_vars
<1>9. CASE LoopStops
  BY <1>3, <1>9 DEF LoopStops, Exit, retry_vars, history_vars
<1>10. CASE LoopConnects
  BY <1>3, <1>10 DEF LoopConnects, StartSession, retry_vars
<1>11. CASE LoopWaits
  BY <1>3, <1>11 DEF LoopWaits, retry_vars, history_vars
<1>12. CASE Waits
  BY <1>3, <1>12 DEF Waits, main_vars, retry_vars, history_vars
<1>13. CASE Waited
  BY <1>3, <1>13 DEF Waited, Exit, StartSession, retry_vars, history_vars
<1>14. CASE ReturnedLast
  BY <1>3, <1>14 DEF ReturnedLast, Exit, retry_vars, history_vars
<1>15. CASE ReturnedToDiscovery
  BY <1>3, <1>15 DEF ReturnedToDiscovery, history_vars
<1>16. CASE ReturnedUnavailable
  BY <1>3, <1>16 DEF ReturnedUnavailable
<1>17. CASE PauseEnds
  BY <1>3, <1>17 DEF PauseEnds, SleepEnds
<1>18. CASE Connected
  BY <1>3, <1>18 DEF Connected, main_vars, retry_vars, history_vars
<1>19. CASE SessionEnds
  BY <1>3, <1>19 DEF SessionEnds, main_vars, retry_vars, history_vars
<1>20. CASE ConnectFails
  BY <1>3, <1>20 DEF ConnectFails, main_vars, retry_vars
<1>21. CASE ResolveFails
  BY <1>3, <1>21 DEF ResolveFails, main_vars, retry_vars
<1>22. CASE Tick
  BY <1>3, <1>22 DEF Tick
<1>23. CASE handle_signal
  BY <1>3, <1>23 DEF handle_signal, main_vars, retry_vars, history_vars
<1>24. CASE KilledEarly
  BY <1>3, <1>24 DEF KilledEarly, Exit, retry_vars, history_vars
<1>25. CASE Announced
  BY <1>3, <1>25 DEF Announced, main_vars, retry_vars, history_vars
<1>26. CASE Exited
  BY <1>3, <1>26 DEF Exited, vars, retry_vars, history_vars
<1>27. CASE UNCHANGED vars
  BY <1>3, <1>27 DEF vars, retry_vars, history_vars
<1> QED
  BY <1>5, <1>6, <1>7, <1>8, <1>9, <1>10, <1>11, <1>12, <1>13, <1>14, <1>15,
     <1>16, <1>17, <1>18, <1>19, <1>20, <1>21, <1>22, <1>23, <1>24, <1>25,
     <1>26, <1>27 DEF Next, MainStep

(***************************************************************************)
(* The delay before a retry is the one of the README's schedule: after n   *)
(* failed attempts in a row, reconnect_seconds doubled n times, or         *)
(* reconnect_max_seconds if that is less; for every setting, and although  *)
(* the doubling is unsigned and a sleep may be cut short.                  *)
(***************************************************************************)
THEOREM BackoffAlwaysScheduled == Spec => []BackoffFollowsSchedule
<1>1. Init => TimeTypeOK
  BY SettingsType, BoundsType DEF Init, TimeTypeOK
<1>2. Init => ScheduleInv
  BY BoundsType DEF Init, ScheduleInv
<1>3. TimeTypeOK /\ [Next]_vars => TimeTypeOK'
  BY TimeStep
<1>4. ScheduleInv /\ TimeTypeOK /\ [Next]_vars => ScheduleInv'
  BY ScheduleStep
<1>5. ScheduleInv /\ TimeTypeOK => BackoffFollowsSchedule
  BY DEF ScheduleInv, TimeTypeOK, BackoffFollowsSchedule, Serving, Scheduled
<1> QED
  BY <1>1, <1>2, <1>3, <1>4, <1>5, PTL DEF Spec
=============================================================================
