----------------------------- MODULE Lifecycle -----------------------------
(***************************************************************************)
(* The process: main.c and the back-off of retry.c, around the sessions of *)
(* InterlockGuard and the wait of Discovery.  The thread is always in one  *)
(* of the three; signals arrive between any two steps.                     *)
(*                                                                         *)
(* Time passes in seconds.  The program compares a clock with a time noted *)
(* earlier; the model keeps the difference, which is all it depends on, so *)
(* that no bound on the clock is needed.                                   *)
(***************************************************************************)
EXTENDS Discovery

CONSTANTS
    CommandLines,     \* sequences of the options below
    Settings,         \* the reconnect settings a valid file may have
    UnsignedModulus,  \* 2^32 in the program: the range of unsigned
    MaxFailures,      \* bound: failures are counted up to here
    LongSilence       \* bound: seconds of silence are counted up to here

Options == {"config", "check-config", "observe", "once", "verbose", "version",
            "help", "unknown"}

\* ag_config_load guarantees more: delays of at most an hour; see Config.
ASSUME LifecycleAssumption ==
    /\ Settings \subseteq [reconnect_seconds : Nat \ {0},
                           reconnect_max_seconds : Nat \ {0},
                           reconnect_log_seconds : Nat \ {0}]
    /\ UnsignedModulus \in Nat /\ MaxFailures \in Nat /\ LongSilence \in Nat
    /\ \A s \in Settings : /\ s.reconnect_seconds <= s.reconnect_max_seconds
                          /\ s.reconnect_max_seconds < UnsignedModulus
                          /\ s.reconnect_log_seconds <= LongSilence

ASSUME CommandLinesAssumption == CommandLines \subseteq Seq(Options)

\* How many times the first delay there is after n doublings.
PowerOfTwo[n \in 0 .. MaxFailures] == IF n = 0 THEN 1 ELSE 2 * PowerOfTwo[n - 1]

\* The delay has reached its maximum before the count of failures has.
ASSUME MaxFailuresAssumption ==
    \A s \in Settings :
        s.reconnect_seconds * PowerOfTwo[MaxFailures] >= s.reconnect_max_seconds

VARIABLES
    main_pc,        \* see MainLocations
    arguments,      \* the part of argv that is not parsed yet
    options,        \* the flags set so far
    settings,       \* the loaded reconnect settings
    radio_mode,     \* "DIRECT" or "DISCOVERY"
    retry_delay,
    log_attempt,    \* log_connection_attempt, log_connection in discovery mode
    log_wait,       \* next_unavailable_log minus now, 0 once it is reached
    sleeping,       \* seconds left of sleep_interruptibly
    exit_code,      \* of the process, once it has exited
    phase, told, may_transmit, result, link_up, observe_only,  \* the session
    failures,       \* history: back-offs since the last connected session
    sessions,       \* history: sessions begun, counted up to two
    unannounced,    \* history: seconds since the last message of an announced
                    \* attempt; LongSilence at first and after a session
    wrote           \* history: the current attempt has written a message

Session == INSTANCE InterlockGuard

session_vars == <<phase, told, may_transmit, result, link_up, observe_only>>
retry_vars == <<retry_delay, log_attempt, log_wait, sleeping>>
history_vars == <<failures, sessions, unannounced, wrote>>
file_vars == <<settings, radio_mode>>

vars == <<main_pc, arguments, options, file_vars, retry_vars, exit_code,
          session_vars, history_vars, wait_vars, stop_requested>>

\* loop: at the head of either while; wait: in ag_discovery_wait; session: in
\* ag_flex_run_session; backoff and pause: in sleep_interruptibly, after an
\* attempt that did not connect and after a session that ended.
MainLocations == {"arguments", "config", "loop", "wait", "session", "backoff",
                  "pause", "exited"}

-----------------------------------------------------------------------------
\* Mutant: the test against overflow only, not against the maximum.
ag_retry_next_delay_uncapped(current_seconds, maximum_seconds) ==
    IF current_seconds >= maximum_seconds
    THEN maximum_seconds ELSE (current_seconds * 2) % UnsignedModulus

ag_retry_next_delay(current_seconds, maximum_seconds) ==
    IF \/ current_seconds >= maximum_seconds
       \/ current_seconds > maximum_seconds - current_seconds
    THEN maximum_seconds ELSE (current_seconds * 2) % UnsignedModulus

Init ==
    /\ main_pc = "arguments"
    /\ arguments \in CommandLines
    /\ options = {}
    /\ settings \in Settings
    /\ radio_mode \in {"DIRECT", "DISCOVERY"}
    /\ retry_delay = 0 /\ log_attempt = TRUE /\ log_wait = 0 /\ sleeping = 0
    /\ exit_code = "none"
    /\ Session!Begin /\ stop_requested = FALSE /\ observe_only = FALSE
    /\ failures = 0 /\ sessions = 0 /\ unannounced = LongSilence /\ wrote = FALSE
    /\ WaitInit

Exit(code) ==
    /\ main_pc' = "exited"
    /\ exit_code' = code

\* One argument of the command line, or the end of it.
ParseArgument ==
    /\ main_pc = "arguments"
    /\ UNCHANGED <<file_vars, retry_vars, session_vars, history_vars, wait_vars,
                   stop_requested>>
    /\ \/ /\ arguments = <<>>
          /\ main_pc' = "config"
          /\ UNCHANGED <<arguments, options, exit_code>>
       \/ /\ arguments # <<>>
          /\ arguments' = Tail(arguments)
          /\ options' = options \cup {Head(arguments)}
          /\ \/ Head(arguments) \in {"version", "help"} /\ Exit("0")
             \/ Head(arguments) = "unknown" /\ Exit("2")
             \/ /\ Head(arguments) \notin {"version", "help", "unknown"}
                /\ UNCHANGED <<main_pc, exit_code>>

\* ag_config_load rejects the file, or only this was asked for, or the
\* service starts.
LoadConfig ==
    /\ main_pc = "config"
    /\ UNCHANGED <<arguments, options, file_vars, log_attempt, log_wait, sleeping,
                   phase, told, may_transmit, result, link_up, history_vars,
                   wait_vars, stop_requested>>
    /\ \/ Exit("2") /\ UNCHANGED <<retry_delay, observe_only>>
       \/ /\ "check-config" \in options
          /\ Exit("0") /\ UNCHANGED <<retry_delay, observe_only>>
       \/ /\ "check-config" \notin options
          /\ main_pc' = "loop"
          /\ retry_delay' = settings.reconnect_seconds
          /\ observe_only' = ("observe" \in options)
          /\ UNCHANGED exit_code

-----------------------------------------------------------------------------
(* The loops.                                                              *)

\* ag_flex_run_session is called; it announces the attempt if it may.
StartSession ==
    /\ main_pc' = "session"
    /\ phase' = "connecting" /\ told' = "none" /\ may_transmit' = FALSE
    /\ result' = "none" /\ link_up' = TRUE
    /\ sessions' = Min({sessions + 1, 2})
    /\ wrote' = log_attempt
    /\ unannounced' = IF log_attempt THEN 0 ELSE unannounced
    /\ UNCHANGED <<arguments, options, file_vars, retry_vars, exit_code,
                   observe_only, failures, stop_requested>>

\* The session, or the wait, does not concern these.
main_vars == <<main_pc, arguments, options, file_vars, retry_vars, exit_code>>

LoopStops ==
    /\ main_pc = "loop" /\ stop_requested
    /\ Exit("0")
    /\ UNCHANGED <<arguments, options, file_vars, retry_vars, session_vars,
                   history_vars, wait_vars, stop_requested>>

LoopConnects ==
    /\ main_pc = "loop" /\ ~stop_requested /\ radio_mode = "DIRECT"
    /\ StartSession
    /\ UNCHANGED wait_vars

LoopWaits ==
    /\ main_pc = "loop" /\ ~stop_requested /\ radio_mode = "DISCOVERY"
    /\ main_pc' = "wait"
    /\ CallWait
    /\ UNCHANGED <<arguments, options, file_vars, retry_vars, exit_code,
                   session_vars, history_vars, stop_requested>>

\* Steps of ag_discovery_wait, up to its return.
Waits ==
    /\ main_pc = "wait"
    /\ WaitStep
    /\ UNCHANGED <<main_vars, session_vars, history_vars, stop_requested>>

\* The wait has returned; a stop is looked at before an error.
Waited ==
    /\ main_pc = "wait" /\ wait_pc = "idle"
    /\ UNCHANGED wait_vars
    /\ \/ /\ discovery_result = "STOPPED" \/ stop_requested
          /\ Exit("0")
          /\ UNCHANGED <<arguments, options, file_vars, retry_vars, session_vars,
                         history_vars, stop_requested>>
       \/ /\ discovery_result = "ERROR" /\ ~stop_requested
          /\ Exit("1")
          /\ UNCHANGED <<arguments, options, file_vars, retry_vars, session_vars,
                         history_vars, stop_requested>>
       \/ /\ discovery_result = "MATCHED" /\ ~stop_requested
          /\ StartSession

\* Steps of ag_flex_run_session once it has connected, and connecting.
Connected ==
    /\ main_pc = "session"
    /\ \/ Session!Connects \/ Session!Learns \/ Session!Breaks
       \/ \E command \in {"create", "not_ready", "ready", "remove"} :
             Session!Tells(command)
    /\ UNCHANGED <<main_vars, history_vars, wait_vars>>

SessionEnds ==
    /\ main_pc = "session"
    /\ Session!Ends
    /\ UNCHANGED <<main_vars, history_vars, wait_vars>>

\* No address accepts the connection; a stop keeps it from being logged.
ConnectFails ==
    /\ main_pc = "session"
    /\ Session!Unavailable
    /\ unannounced' = IF log_attempt /\ ~stop_requested THEN 0 ELSE unannounced
    /\ UNCHANGED <<main_vars, failures, sessions, wrote, wait_vars>>

\* getaddrinfo fails: the host of a fixed-host configuration is a name.
ResolveFails ==
    /\ main_pc = "session" /\ radio_mode = "DIRECT"
    /\ Session!Unavailable
    /\ wrote' = TRUE
    /\ unannounced' = IF log_attempt THEN 0 ELSE unannounced
    /\ UNCHANGED <<main_vars, failures, sessions, wait_vars>>

\* The session has returned to the loop.
Returned ==
    /\ main_pc = "session" /\ phase = "ended"
    /\ UNCHANGED <<arguments, options, file_vars, session_vars, wait_vars,
                   stop_requested>>

\* Mutant: a session that --once does not repeat counts as a success.
ReturnedLast_content ==
    /\ Returned
    /\ stop_requested \/ result = "STOPPED" \/ "once" \in options
    /\ Exit("0")
    /\ UNCHANGED <<retry_vars, history_vars>>

\* No session follows: a stop is looked at before --once.
ReturnedLast ==
    /\ Returned
    /\ \/ /\ stop_requested \/ result = "STOPPED"
          /\ Exit("0")
       \/ /\ ~stop_requested /\ result # "STOPPED"
          /\ "once" \in options
          /\ Exit("1")
    /\ UNCHANGED <<retry_vars, history_vars>>

\* Mutant: --once is looked at after the results.
GoesOn_once ==
    /\ Returned
    /\ ~stop_requested /\ result # "STOPPED"
    /\ UNCHANGED exit_code

GoesOn ==
    /\ Returned
    /\ ~stop_requested /\ result # "STOPPED"
    /\ "once" \notin options
    /\ UNCHANGED exit_code

\* The discovery loop: the next announcement is awaited; as long as the
\* announced radio cannot be reached, attempts are not logged.
ReturnedToDiscovery ==
    /\ GoesOn
    /\ radio_mode = "DISCOVERY"
    /\ main_pc' = "loop"
    /\ log_attempt' = (result # "UNAVAILABLE")
    /\ UNCHANGED <<retry_delay, log_wait, sleeping, history_vars>>

\* Mutant: the time of the next message is not set.
ReturnedUnavailable_undated ==
    /\ GoesOn
    /\ radio_mode = "DIRECT" /\ result = "UNAVAILABLE"
    /\ main_pc' = "backoff"
    /\ unannounced' = IF log_attempt THEN 0 ELSE unannounced
    /\ sleeping' = retry_delay
    /\ UNCHANGED <<retry_delay, log_attempt, log_wait, failures, sessions, wrote>>

\* The direct loop: "Radio unavailable" is logged with the attempt, and the
\* time of the next such message is set.
ReturnedUnavailable ==
    /\ GoesOn
    /\ radio_mode = "DIRECT" /\ result = "UNAVAILABLE"
    /\ main_pc' = "backoff"
    /\ log_wait' = IF log_attempt THEN settings.reconnect_log_seconds ELSE log_wait
    /\ unannounced' = IF log_attempt THEN 0 ELSE unannounced
    /\ sleeping' = retry_delay
    /\ UNCHANGED <<retry_delay, log_attempt, failures, sessions, wrote>>

\* Mutant: the back-off is not reset by a session.
ReturnedConnected_weary ==
    /\ GoesOn
    /\ radio_mode = "DIRECT" /\ result # "UNAVAILABLE"
    /\ main_pc' = "pause"
    /\ log_attempt' = TRUE
    /\ sleeping' = settings.reconnect_seconds
    /\ failures' = 0
    /\ unannounced' = LongSilence
    /\ UNCHANGED <<retry_delay, log_wait, sessions, wrote>>

ReturnedConnected ==
    /\ GoesOn
    /\ radio_mode = "DIRECT" /\ result # "UNAVAILABLE"
    /\ main_pc' = "pause"
    /\ retry_delay' = settings.reconnect_seconds
    /\ log_attempt' = TRUE
    /\ sleeping' = settings.reconnect_seconds
    /\ failures' = 0
    /\ unannounced' = LongSilence
    /\ UNCHANGED <<log_wait, sessions, wrote>>

\* sleep_interruptibly returns: the time is up or a stop was requested.
SleepEnds ==
    /\ sleeping = 0 \/ stop_requested
    /\ sleeping' = 0
    /\ main_pc' = "loop"
    /\ UNCHANGED <<arguments, options, file_vars, log_wait, exit_code,
                   session_vars, sessions, unannounced, wrote, wait_vars,
                   stop_requested>>

PauseEnds ==
    /\ main_pc = "pause"
    /\ SleepEnds
    /\ UNCHANGED <<retry_delay, log_attempt, failures>>

BackoffEnds ==
    /\ main_pc = "backoff"
    /\ SleepEnds
    /\ retry_delay' = ag_retry_next_delay(retry_delay, settings.reconnect_max_seconds)
    /\ log_attempt' = (log_wait = 0)
    /\ failures' = Min({failures + 1, MaxFailures})

\* Mutant: the slices that were slept are not counted.
sleep_interruptibly_forever == UNCHANGED sleeping

\* A second of sleep_interruptibly.
sleep_interruptibly ==
    sleeping' = IF main_pc \in {"backoff", "pause"} /\ sleeping > 0
                THEN sleeping - 1 ELSE sleeping

\* A second passes.
Tick ==
    /\ main_pc \notin {"arguments", "config", "exited"}
    /\ log_wait' = Max({log_wait - 1, 0})
    /\ unannounced' = Min({unannounced + 1, LongSilence})
    /\ sleep_interruptibly
    /\ UNCHANGED <<main_pc, arguments, options, file_vars, retry_delay, log_attempt,
                   exit_code, session_vars, failures, sessions, wrote, wait_vars,
                   stop_requested>>

\* SIGINT or SIGTERM: handle_signal, once it is installed.
handle_signal ==
    /\ main_pc \notin {"arguments", "config", "exited"}
    /\ stop_requested' = TRUE
    /\ UNCHANGED <<main_vars, session_vars, history_vars, wait_vars>>

\* Before that a signal ends the process as it ends any other.
KilledEarly ==
    /\ main_pc \in {"arguments", "config"}
    /\ Exit("signal")
    /\ UNCHANGED <<arguments, options, file_vars, retry_vars, session_vars,
                   history_vars, wait_vars, stop_requested>>

Announced ==
    /\ \E p \in Packets : Arrive(p)
    /\ UNCHANGED <<main_vars, session_vars, history_vars, stop_requested>>

Exited == main_pc = "exited" /\ UNCHANGED vars

\* What the thread does by itself outside a session.
MainStep ==
    \/ ParseArgument \/ LoadConfig
    \/ LoopStops \/ LoopConnects \/ LoopWaits \/ Waits \/ Waited
    \/ ReturnedLast \/ ReturnedToDiscovery \/ ReturnedUnavailable
    \/ ReturnedConnected \/ PauseEnds \/ BackoffEnds

Next ==
    \/ MainStep
    \/ Connected \/ SessionEnds \/ ConnectFails \/ ResolveFails
    \/ Tick \/ handle_signal \/ KilledEarly \/ Announced \/ Exited

Spec == Init /\ [][Next]_vars

\* The thread is scheduled, the clock advances, and a session ends after a
\* stop (StopEndsSession of FlexSession).  A session that is not stopped may
\* last for ever, and no radio need ever announce itself.
Fairness ==
    /\ WF_vars(MainStep)
    /\ WF_vars(Tick)
    /\ WF_vars(stop_requested /\ (SessionEnds \/ ConnectFails))

FairSpec == Spec /\ Fairness

-----------------------------------------------------------------------------
(* Safety.                                                                 *)

\* The process' variables have their types, the delay between its bounds.
LifecycleTypeOK ==
    /\ main_pc \in MainLocations
    /\ arguments \in Seq(Options) /\ options \subseteq Options
    /\ settings \in Settings
    /\ radio_mode \in {"DIRECT", "DISCOVERY"}
    /\ retry_delay \in 0 .. settings.reconnect_max_seconds
    /\ log_attempt \in BOOLEAN
    /\ log_wait \in 0 .. settings.reconnect_log_seconds
    /\ sleeping \in 0 .. settings.reconnect_max_seconds
    /\ exit_code \in {"none", "0", "1", "2", "signal"}

\* The process has read its options and its file and runs as a service.
Serving == main_pc \notin {"arguments", "config"} /\ retry_delay > 0

(***************************************************************************)
(* Retry delays double from reconnect_seconds up to reconnect_max_seconds  *)
(* and start again after a session that connected (README: "retries after  *)
(* 3, 6, 12, 24, and then 30 seconds.  A successful connection resets the  *)
(* next retry to the initial delay"), whatever the order of results and    *)
(* however often a sleep is cut short.                                     *)
(***************************************************************************)
BackoffFollowsSchedule ==
    Serving =>
        retry_delay = Min({settings.reconnect_seconds * PowerOfTwo[failures],
                           settings.reconnect_max_seconds})

(***************************************************************************)
(* While the radio stays unavailable, an attempt of the direct loop is     *)
(* announced only if the last message of an announced one, its "Radio      *)
(* unavailable" included, is reconnect_log_seconds old, although the time  *)
(* is noted before the sleep and compared after it.  What attempts write   *)
(* that are not announced is not counted: see QuietAttemptsWriteNothing.   *)
(***************************************************************************)
AnnouncedAttemptsAreSpaced ==
    [][LoopConnects /\ log_attempt =>
          unannounced >= settings.reconnect_log_seconds]_vars

(***************************************************************************)
(* The service manager restarts the guard only after a failure             *)
(* (Restart=on-failure): a process that was asked to guard exits with 0    *)
(* only after a signal, and with 1 only for --once or a listener that      *)
(* failed.                                                                 *)
(***************************************************************************)
CleanExitOnlyOnRequest ==
    /\ exit_code = "0" => \/ stop_requested
                          \/ options \cap {"version", "help", "check-config"} # {}
    /\ exit_code = "1" => "once" \in options \/ discovery_result = "ERROR"

(***************************************************************************)
(* The usage text: --check-config opens no socket, --observe never creates *)
(* an interlock, in no session of the process, and --once makes one        *)
(* attempt, in either mode and whatever that attempt's result.             *)
(***************************************************************************)
OptionsAreKept ==
    /\ "check-config" \in options => sessions = 0 /\ ~socket_open
    /\ "observe" \in options => told = "none"
    /\ "once" \in options => sessions < 2

(***************************************************************************)
(* The listening socket is open only during a wait: on none of its ways    *)
(* out does ag_discovery_wait leave one behind, however many waits the     *)
(* loop makes.                                                             *)
(***************************************************************************)
ListensOnlyWhileWaiting ==
    socket_open => main_pc = "wait" /\ wait_pc \in {"head", "poll"}

-----------------------------------------------------------------------------
(* Liveness, of FairSpec.                                                  *)

(***************************************************************************)
(* A signal ends the process, wherever it finds it: in a session, between  *)
(* two, in a sleep or among announcements that do not match.               *)
(***************************************************************************)
StopEndsProcess == stop_requested ~> main_pc = "exited"

(***************************************************************************)
(* An attempt that failed and a session that ended are followed by another *)
(* attempt, unless the process is stopped.                                 *)
(***************************************************************************)
FailureIsRetried ==
    main_pc \in {"backoff", "pause"} ~> main_pc \in {"session", "exited"}

(***************************************************************************)
(* In discovery mode, an announcement of the configured radio that the     *)
(* listener has received leads to a session, unless the listener fails or  *)
(* the process is stopped.                                                 *)
(***************************************************************************)
AnnouncementStartsSession ==
    (\E i \in DOMAIN queue :
        Announces(queue[i]) /\ matches_selector(Filled(queue[i], NoRadio)))
    ~> main_pc \in {"session", "exited"}

-----------------------------------------------------------------------------
(* A claim of the repository that the process does not keep.               *)

(***************************************************************************)
(* README: "Repeated unavailable-radio messages are suppressed and emitted *)
(* no more often than reconnect_log_seconds, while quiet connection        *)
(* attempts continue in the background."  An attempt that fails because    *)
(* the host's name cannot be resolved says so every time.                  *)
(***************************************************************************)
QuietAttemptsWriteNothing ==
    main_pc = "backoff" /\ ~log_attempt => ~wrote
=============================================================================
