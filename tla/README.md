# AntennaGuardianPiLite in TLA+

AntennaGuardianPiLite is a guard for a FlexRadio: it opens a TCP session to the
radio, creates an interlock of type ANT there, follows the radio's transmit
frequency, antenna and PTT state, and tells the interlock `ready` only when its
allow matrix (antenna by band) permits the transmission. This directory holds
TLA+ modules of that program, the TLC configurations that check them and TLAPS
proofs. Paths such as `flex.c:381` are in `src/src/`.

## The system

| component | state | operations | talks to |
|---|---|---|---|
| policy (`policy.c`) | none: the band catalogue | `band_for_frequency`, `ag_policy_evaluate` | called by the session's handlers |
| radio session (`flex.c`) | `ag_connection`: sequence number, interlock ID, context (frequency, antenna), the one deferred update, the response cache, receive buffer | connect, the initialisation commands, `send_command`, the status handlers, the main loop, `remove_interlock` | the radio over TCP; reads `stop_requested` |
| line framing (`flex.c:149-218`) | the receive buffer | `extract_line`, `read_line` | the socket, the session |
| process life cycle (`main.c`, `retry.c`) | `stop_requested`, retry delay, log times | `handle_signal`, the direct and the discovery loop, back-off, `--once` | sessions, discovery |
| discovery (`discovery.c`) | a UDP socket per wait | `parse_packet`, `matches_selector`, `ag_discovery_wait` | the life cycle |
| configuration (`config.c`) | `ag_config`, constant after loading | `ag_config_load` and its parsers, `ag_config_find_antenna` | all of the above |
| log, cJSON, packaging | - | - | - |

The program has one thread and a signal handler. What makes it hard is that the
radio speaks whenever it likes: a status can be read while a command waits for
its response, and its handler cannot send. `set_interlock` then leaves a note in
one slot (`interlock_update_pending`, `pending_interlock_ready`) which
`send_command` sends when the command is done. The decision in the slot may be
overwritten, may go stale, or may be dropped with a command that fails; a signal
may come at any point, refuses every later command but the cleanup, and yet the
interlock has to be removed; an answer may come after its command was given up.

What makes each component correct:

* policy: the decision is the matrix's, at every band edge and in every letter case;
* session: `ready` is sent only for a PTT request in a context that is permitted
  at that moment; a `ready` that lost its reason is followed by `not_ready` or by
  the end of the session; the commands come in the protocol's order; an armed
  interlock is removed; observing changes nothing; a stop ends the session;
* session with radio: the session's picture of the radio is right once it has read
  everything; a confirmed removal happened; the cache does not fill up;
* framing: the lines the session handles are those of the byte stream, however TCP
  cuts it, and a line that was received is not awaited;
* discovery: a match is one announcement, of the configured radio; no length a
  datagram claims makes the parser read beyond it; the socket is closed on every
  way out;
* life cycle: the retry schedule, the options and the exit codes are the documented
  ones after every sequence of results; a signal ends the process wherever it is; a
  failure is retried;
* configuration: a file is accepted exactly if it is valid, and what the rest of the
  program assumes of a configuration is true of an accepted one.

## Modules

* `Policy` - `policy.c` and the row look-up. Frequencies are integers in Hz;
  names are compared through `CaseFold`, the constant that stands for
  `strcasecmp`. `Permitted` is the matrix as a reader of the configuration
  understands it, stated without the first-match loops.
* `PolicyCall` - one call of `ag_policy_evaluate`: any arguments, then the decision.
* `FlexSession` - one call of `ag_flex_run_session`. `pc` says where the thread is
  (`send`, `await` and `read` are the three parts of `send_command_once`), `step`
  which caller of `send_command` is active. Each place where the program can be
  interrupted or can learn something from outside ends an action: before a frame
  is sent, at the head of the waiting loop, in `read_line`. The environment is
  open: any line of the protocol can be read at any time, any send or read can
  fail. Two history variables: the last interlock command sent, and whether the
  last PTT or UNKEY request read was a PTT.
* `FlexSystem` - the same session (its actions are reused, not copied) with a
  radio and two FIFO channels. The radio is external: it is what `flex.c` and the
  fake radio of `tests/test_fake_radio.py` suggest and is left free otherwise. It
  answers late or never, rejects any command, creates an interlock that may be
  ready, and reports one field of its context or both.
* `InterlockGuard` - the contract of `ag_flex_run_session` towards the operator and
  towards `main`: phases, what the radio was told, whether transmission is asked for
  and permitted, the result. No lines, sequence numbers, deferrals or timeouts.
  `FlexSession` implements it (`ImplementsGuard`, with `Phase` and `MayTransmit` as
  the refinement mapping) and `Lifecycle` uses its actions in place of a session's.
* `LineReader` - `extract_line` and `read_line`: the receive buffer, what is left in
  it between calls, and every outcome of `poll` and `recv`. Checked against the split
  of the whole stream at its newlines.
* `Discovery` - one call of `ag_discovery_wait`: the socket and its queue, the
  arithmetic and the tests of `parse_packet`, the field look-up, the selectors.
* `Config` - `ag_config_load`: the checks in the code's order, each failing with its
  error, over the tree cJSON builds, and the configuration that results. `ValidFile`
  states what a valid file is without any order.
* `Lifecycle` - `main`: arguments, loading, the direct and the discovery loop,
  back-off, log suppression, sleeps, signals, exit codes. It composes `Discovery`
  (extended) with the sessions of `InterlockGuard` (instantiated).
* `MCPolicy`, `MCFlexSession`, `MCFlexSystem`, `MCLineReader`, `MCDiscovery`,
  `MCConfig`, `MCLifecycle` - constants for TLC.
* `PolicyProofs`, `PolicyCallProofs`, `FlexSessionProofs`, `FlexSystemProofs`,
  `LineReaderProofs`, `DiscoveryProofs`, `ConfigProofs`, `LifecycleProofs` - theorems
  about the module of that name (`FlexSessionProofs` also about the refinement of
  `InterlockGuard`).

```
Policy <- FlexSession <- FlexSystem          Policy <- Discovery <- Lifecycle
              | implements                                              | uses
              +------------------> InterlockGuard <---------------------+
Policy <- Config        Policy <- PolicyCall        LineReader
```

Operators whose comment begins with "Mutant" are faulty variants of the operator
that follows. No specification uses them; each one, put in the place of the
original, makes a property fail, which shows that the property depends on it.

### Abstractions

* A response is its sequence number, code and the interlock ID its body yields
  (`NoId`: none, or one that does not fit). A status is the fields the handlers
  look for. Every other line is `other`.
* Time is one flag, `expired`: the four seconds of the command have passed.
* `ReadPartial` is a `recv` that completes no line. The waiting command treats it
  like a failure (`flex.c:343`), the main loop does not.
* `read_line` returning -1 for an overlong line, an error or a hang-up is one
  action; `link_up` becomes false and stays so.
* `snprintf` truncation cannot occur in the commands: the configuration bounds the
  antenna IDs.
* In `FlexSystem` a radio without a transmit slice is one whose antenna is `INVALID`
  (`NoSlice`), in any letter case, as in `handle_transmit`.
* Logging is left out, except that `cleanup_confirmed` records which of the two
  messages of `remove_interlock` is written.

* A byte of the stream is CR, LF or any other; a received line is the sequence of
  its bytes.
* A datagram is its received length, the size its header claims, the header's marks,
  where its text ends and whether a NUL precedes that, and its name=value tokens.
  What `strlen`, `inet_pton` and `strtoul` make of a text are constants.
* A configuration file is the tree cJSON returns for it (or its failure to open, to
  be read or to parse). Numbers are doubled, so that halves show that fractions are
  refused. The constant `Nodes` is a set of nodes closed under membership, `Trees` the
  nodes whose members are in it. Limits that the code writes as numbers have names
  (`MAX_PORT`, `MAX_RECONNECT`, ...). Object keys keep their order and may repeat; the two look-ups of cJSON
  (exact and ignoring case) are modelled separately, because the loader uses both.
* `Lifecycle` keeps differences of times, not times: `log_wait` is the time until the
  next "Radio unavailable" may be logged, `sleeping` what is left of a sleep (in
  seconds, where the code sleeps slices of 200 ms and looks at the stop flag between
  them: a stop ends the sleep at any point). Arguments are tokens; the value of
  `--config` goes with its option.

## Runs

| run | module, configuration | checks |
|---|---|---|
| `policy` | `MCPolicy` | `DecisionMatchesMatrix` for every call with one of 169 configurations, 45 frequencies and 7 names |
| `session` | `MCFlexSession` | type, `ReadyIsJustified`, `ReadyIsNotStale`, `ObserveIsPassive`, `ArmedInterlockIsRemoved`, `InterlockOrder` |
| `session_live` | `MCFlexSessionLive` | `StopEndsSession`, `UnjustifiedReadyIsWithdrawn` |
| `system` | `MCFlexSystem` | `ContextAgrees`, `WithdrawalUnderWay`, `ConfirmedRemovalIsReal`, `CacheHoldsOne` |
| `system_live` | `MCFlexSystemLive` | `ForbiddenIsWithdrawn` |
| `lines` | `MCLineReader` | type (the buffer is not exceeded), `LinesAreTheStream`, `ReceivedLineIsNotAwaited`, `OnlyOverlongIsRefused` |
| `discovery` | `MCDiscovery` | type, `ParserStaysInBounds`, `MatchIsOneAnnouncement` |
| `config` | `MCConfig` | `AcceptedIffValid`, `MatrixIsTheFile`, `LoadedConfigIsUsable`, `AntennaListFits` |
| `lifecycle` | `MCLifecycle` | type, `BackoffFollowsSchedule`, `CleanExitOnlyOnRequest`, `OptionsAreKept`, `ListensOnlyWhileWaiting`, `AnnouncedAttemptsAreSpaced`; `StopEndsProcess`, `FailureIsRetried`, `AnnouncementStartsSession` |
| `stop_orphans_interlock` | `MCStopRemovesInterlock` | `StopRemovesInterlock` is violated |
| `forbidden_not_reasserted` | `MCForbiddenReassertsNotReady` | `ForbiddenReassertsNotReady` is violated |
| `resolver_not_quiet` | `MCQuietAttempts` | `QuietAttemptsWriteNothing` is violated |

The run `session` also checks the refinement `ImplementsGuard`.

Bounds. The open session needs no bound on what the radio sends; its state is
finite because sequence numbers are taken modulo `SequenceModulus` (3: the
program's is 2^32, a wrap happens within a session) and the cache has
`SavedResponses` slots (1: it fills at once). Two antennas and three frequencies
give permitted, forbidden, unknown and overlong contexts. In `FlexSystem` the operator's
events are bounded by `MaxEvents` (3 for safety: PTT, unkey and PTT again, or PTT
and two context changes, around any command; 2 for liveness: the PTT and what
makes it unjustified); the modulus (16) is above the number of commands such a
session sends, so numbers do not wrap there, as in practice.

`LineReader`: every stream of seven bytes through a buffer of four: lines shorter
than, as long as and longer than the buffer, with what one read leaves behind
carried over twice. `Discovery`: lengths at and on both sides of every comparison of
`parse_packet`, every single missing mark, and announcements in which one field is
missing, repeated, malformed or out of range, one after another in any order (the
record a datagram is parsed into is what one leaves to the next; the longer queue is
that of `Lifecycle`). `Config`: every combination of the radio's settings at and
beside their limits, every list of two antennas with every policy of two rows, lists
at the limits of length, and sections that are missing, misplaced or repeated.
`Lifecycle`: settings for which the delay meets its maximum exactly, jumps over it
or cannot grow, and for which a message falls due between, with and after
retries; `LongSilence` and `MaxFailures` cap history counters above the largest value
a property compares them with.

Fairness. `SessionFairness`: the thread takes steps (`OwnStep`) and the clock
advances. Nothing is assumed of the radio, the link or the operator: reads that
return a line are not in `OwnStep`. `SystemFairness` adds that a line sent on a
living connection is read in the end, although one `poll` can miss it (strong
fairness of `SystemRead`; TCP delivers). The radio need not answer.
`Lifecycle`: the thread takes its steps, the clock advances, and a session ends once a
stop is requested, which `StopEndsSession` shows of `FlexSession`. A session that is
not stopped may last for ever, and no radio need ever announce itself.

### What the violated properties show

* `StopRemovesInterlock`: `README.md:25` promises that SIGINT and SIGTERM remove
  the interlock while the connection is available. A signal that arrives while
  the answer to `interlock create` is awaited makes `send_command_once` return
  -1 (`flex.c:328`, or EINTR at `flex.c:343`); the ID is unknown,
  `remove_interlock` does nothing, and the radio keeps the interlock.
* `ForbiddenReassertsNotReady`: `README.md:23` promises that unkey and forbidden
  contexts reassert `not_ready`. If the command in flight is rejected or times
  out, the deferred `not_ready` is dropped (`flex.c:381`) and the interlock is
  removed. While the session lasts the weaker `UnjustifiedReadyIsWithdrawn` and
  `ReadyIsJustified` hold.

* `QuietAttemptsWriteNothing`: `README.md:97` promises that unavailable-radio messages
  are emitted no more often than `reconnect_log_seconds` "while quiet connection
  attempts continue". `connect_socket` does not know that an attempt is to be quiet:
  when the host's name cannot be resolved it logs an error each time (`flex.c:79`).
  Announced attempts do keep their distance (`AnnouncedAttemptsAreSpaced`).

## Proofs

Every invariant and every safety property of the passing runs is also a theorem, for
every value of the constants that satisfies the assumptions.

### Assumptions

* `CaseFoldAssumption`, `PolicyCallAssumption`, `SessionAssumption`,
  `MaxEventsAssumption`, `LineAssumption`, `CommandLinesAssumption`: types of the
  constants. The rows of a configuration name distinct antennas
  (`LoadedConfigIsUsable`); a sequence number is not the only one there is.
* `ShortRowsAssumption`: no row's name equals one of the names that are too long for
  the session's field. `valid_antenna_id` refuses such rows, and names that differ in
  case only are equally long.
* `NoStateAssumption`: the marker of a missing field is not a state.
* `LifecycleAssumption`: the first delay is not above the maximum and the maximum fits
  an `unsigned` (both follow from `LoadedConfigIsUsable`). `MaxFailuresAssumption` and
  the bound on `reconnect_log_seconds`: the caps of the history counters are above
  what a property compares them with.
* `DiscoveryAssumption`: what a datagram is; `inet_pton` and `strtoul` accept no empty
  text.
* `ConfigAssumption`: only the empty text has length 0; `inet_pton` accepts no empty
  text and none longer than 15; the eleven bands differ in more than letter case.
  `FilesAssumption`: a file holds a tree that cJSON can build.

### Arguments

* `PolicyProofs!DecisionIsTheMatrix`: bands do not overlap and rows are distinct, so
  the first match is the only one. `PolicyCallProofs` carries it to `PolicyCall`.
* `FlexSessionProofs`: the inductive invariant is `SessionInv`. `ReadyIsJustified` and
  `ReadyIsNotStale` support each other (a deferred `ready` that is sent must be
  justified when it is sent) but are not inductive: one has to know that a session
  that can be told ready holds an interlock and does not observe, otherwise
  `set_interlock` would ignore the handler (`CallerOK`), and that the main loop is
  never entered with an update left in the slot unless a stop is requested, otherwise
  it would go stale there (`DeferralOK`). `CallerOK` says for each caller of
  `send_command` which commands can be on the wire; it yields `ObserveIsPassive`,
  `ArmedInterlockIsRemoved` and `InterlockOrder`. The proof goes action by action;
  what `Fails`, `Succeeds`, `set_interlock` and the handlers preserve is stated once,
  as lemmas.
* `FlexSessionProofs!SessionImplementsGuard`: `SessionSpec => ImplementsGuard`. The
  invariant is `SessionInv` and `ResultOK`: a session on its way out has a result that
  its state explains (stopped only with a stop, disconnected only with a broken link).
  Each step is then one of the contract's or a stutter: steps inside a session by what
  they change (`InsideUnseen`, `InsideSignal`, `InsideBreaks`, `InsideLearns`), a frame
  by `FrameGuard`, a return by `ReturnEnds`.
* `FlexSystemProofs`: channel types and `SystemSpec => SessionSpec`, and with it all of
  the above for the system. Three invariants say what is in the channels:
  * `ChannelInv`: which commands are unanswered and which answers unread. Until the
    cleanup command at most one command is outstanding, because the session gives up
    with the first that fails; while the cleanup is awaited there is at most one older
    command or answer besides it, and the cleanup's answer comes only after the radio
    has dropped the interlock. `CacheHoldsOne` and `ConfirmedRemovalIsReal` follow,
    for a cache of any size and numbers that wrap around.
  * `ContextInv`: for the frequency, the antenna and the PTT state, either a report
    with the radio's present value is on its way, none after it with another, or the
    session has that value already. It gives `ContextAgrees`.
  * `ReadyInv`: a radio that is ready although it was last told `not_ready` has that
    command before it, or its refusal is on its way to the session. With the other two
    and `SessionInv` it gives `WithdrawalUnderWay`.
* `LineReaderProofs`: `LineInv`. Newlines are numbered by how many there are up to
  them (`Cardinality`); line i of the stream ends at newline i, and the buffer is what
  follows the last line that was handed out (`Framed`). An `extract_line` shifts the
  buffer by one line, a `recv` extends stream and buffer alike.
* `DiscoveryProofs`: `PacketStaysInBounds` is the arithmetic of `parse_packet` for
  every datagram. `MatchOK` says that a match was filled in from the datagram read
  last: `parse_packet` clears the record first, so that an optional field the
  announcement lacks stays empty.
* `ConfigProofs`: `ConfigInv` says that the outcome is the loader's for that file. Each
  parser returns no error exactly if all of its checks pass, whatever their order
  (`RadioAccepted`, `AntennasAccepted`, `PolicyAccepted`, `FileAccepted`). These
  conjunctions are then shown equivalent to the clauses of `ValidFile` (`RadioValid`,
  `AntennasValid`, `PolicyValid`, `FileValid`): a loop that looks for an earlier equal
  key is a statement about cardinalities there. `MatrixOfFile` follows a cell of the
  file to the decision of `ag_policy_evaluate`. `ShortList` bounds the joined list of
  antennas by the number of antennas times the longest ID.
* `LifecycleProofs`: one small inductive invariant for each property. `ListenInv` ties
  the socket to the wait and the wait to `main`; `ExitInv` adds that `STOPPED` is only
  returned after a stop; `OptionsInv` says what the options have come to at each place
  of `main`, and needs `ListenInv` for the socket; `LogInv` is the reason why a time
  noted before a sleep may be compared after it: the time since the last message of an
  announced attempt and the time left always add up to at least
  `reconnect_log_seconds`; `ScheduleInv` says that the delay is the scheduled one for
  the failures counted, and that none are counted before the service starts. `NextDelayIsBounded` is about the arithmetic of `retry.c`.

What recursive functions compute (`PowerOfTwo`, `Offset`) is proved by induction. The
library's induction theorems take an operator as parameter, which the provers cannot
instantiate; `PolicyProofs!LeastNatural` and `NaturalInduction` state the principle for
sets, so that it can be applied to the set of numbers with the property.

Only model-checked: liveness (`StopEndsSession`, `UnjustifiedReadyIsWithdrawn`,
`ForbiddenIsWithdrawn`, `StopEndsProcess`, `FailureIsRetried`,
`AnnouncementStartsSession`). Fairness and `ENABLED` are out of the prover's reach.

## Not modelled

* cJSON: vendored. Its two look-ups and that it stops after the first value are part
  of `Config`; what follows that value in a file is ignored, although the error
  message of `config.c:364` asks for "one JSON object".
* `log.c`, `print_usage`, `print_config_summary`: wording and formatting. Which
  attempts are announced is part of `Lifecycle`.
* The installer, the systemd unit and the packaging scripts.

## Plan

What is left: to prove for the system what is proved for sessions alone and still
matters there (`InterlockOrder` at the radio's end); to prove that an accepted
configuration satisfies the assumptions of the other modules (`ShortRowsAssumption`,
`LifecycleAssumption`, the selectors of `Discovery`), so that the assumptions are
theorems and not comments; and, of the liveness properties, the safety part, that a
stopped thread always has a step to take.
