-------------------------- MODULE FlexSystemProofs --------------------------
(***************************************************************************)
(* With the radio of FlexSystem at the other end, a session is still a     *)
(* session: every step of the system is one of FlexSession's or leaves the *)
(* session alone, so what holds of every session holds in the system.      *)
(* The second part is about the channels: which commands are unanswered    *)
(* and which answers unread.  The third is about what the session knows of *)
(* the radio: once it has read every report, its picture of frequency,     *)
(* antenna and PTT is the radio's, and a radio that is ready without       *)
(* reason is being told so.                                                *)
(***************************************************************************)
EXTENDS FlexSystem, FlexSessionProofs, SequenceTheorems

LEMMA HeadAndTail ==
    ASSUME NEW S, NEW s \in Seq(S), s # <<>>
    PROVE  Head(s) \in S /\ Tail(s) \in Seq(S)
OBVIOUS

LEMMA SequenceTypes ==
    ASSUME NEW S, NEW s \in Seq(S), NEW a \in S, NEW b \in S
    PROVE  /\ <<a>> \in Seq(S) /\ <<a, b>> \in Seq(S)
           /\ Append(s, a) \in Seq(S)
OBVIOUS

LEMMA PrefixType ==
    ASSUME NEW S, NEW s \in Seq(S), NEW n \in 0 .. Len(s)
    PROVE  SubSeq(s, 1, n) \in Seq(S)
OBVIOUS

\* A system step is a step of the session or leaves it alone.
LEMMA SystemStepSimulates ==
    SystemTypeOK /\ [SystemNext]_system_vars => [SessionNext]_vars
<1> SUFFICES ASSUME SystemTypeOK, [SystemNext]_system_vars
             PROVE  [SessionNext]_vars
  OBVIOUS
<1>1. CASE SystemSend
  BY <1>1 DEF SystemSend, SessionNext, OwnStep
<1>2. CASE SystemRead
  <2>1. Head(from_radio) \in Line
    BY <1>2, HeadAndTail DEF SystemRead, SystemTypeOK
  <2> QED
    BY <1>2, <2>1 DEF SystemRead, SessionNext
<1>3. CASE SystemReadPartial
  BY <1>3 DEF SystemReadPartial, SessionNext
<1>4. CASE SystemLoses
  BY <1>4 DEF SystemLoses, SessionNext
<1>5. CASE SystemLocal
  BY <1>5 DEF SystemLocal, SessionNext, OwnStep
<1>6. CASE SystemClock \/ SystemSignal
  BY <1>6 DEF SystemClock, SystemSignal, SessionNext
<1>7. CASE RadioNext
  BY <1>7 DEF RadioNext, RadioAccepts, RadioRejects, OperatorActs, Tune,
              SelectAntenna, SelectSlice, Key, Transmit, Unkey
<1>8. CASE UNCHANGED system_vars
  BY <1>8 DEF system_vars
<1> QED
  BY <1>1, <1>2, <1>3, <1>4, <1>5, <1>6, <1>7, <1>8 DEF SystemNext

-----------------------------------------------------------------------------
(* Types of what the radio sends.                                          *)

LEMMA SuccessIsACode == 0 \in Codes
BY SessionAssumption, Zenon

LEMMA ResponseToType ==
    ASSUME NEW frame \in Frame, NEW code \in Codes, NEW body \in Ids \cup {NoId}
    PROVE  ResponseTo(frame, code, body) \in Line
<1>1. frame.sequence \in 0 .. SequenceModulus - 1
  BY DEF Frame
<1>2. [sequence |-> frame.sequence, code |-> code, body |-> body] \in Response
  BY <1>1 DEF Response
<1>3. ResponseTo(frame, code, body) \in ResponseLine
  BY <1>2 DEF ResponseTo, ResponseLine
<1> QED
  BY <1>3 DEF Line

LEMMA ReportType ==
    /\ \A hz \in Frequencies, antenna \in Names : FullReport(hz, antenna) \in Line
    /\ \A hz \in Frequencies : FrequencyReport(hz) \in Line
    /\ \A antenna \in Names : AntennaReport(antenna) \in Line
    /\ \A state \in InterlockStates : StateReport(state) \in Line
<1>1. \A hz \in Frequencies : [hz |-> hz, clean |-> TRUE] \in FrequencyField
  BY DEF FrequencyField
<1>2. /\ \A hz \in Frequencies, antenna \in Names : FullReport(hz, antenna) \in TransmitLine
      /\ \A hz \in Frequencies : FrequencyReport(hz) \in TransmitLine
      /\ \A antenna \in Names : AntennaReport(antenna) \in TransmitLine
  BY <1>1 DEF FullReport, FrequencyReport, AntennaReport, TransmitLine
<1>3. \A state \in InterlockStates : StateReport(state) \in InterlockLine
  BY DEF StateReport, InterlockLine
<1> QED
  BY <1>2, <1>3 DEF Line, StatusLine

LEMMA DeliverType ==
    ASSUME from_radio \in Seq(Line), NEW lines \in Seq(Line), Deliver(lines)
    PROVE  from_radio' \in Seq(Line)
BY DEF Deliver

-----------------------------------------------------------------------------
(* Type correctness of the system.                                         *)

LEMMA SystemStepType ==
    TypeOK /\ SystemTypeOK /\ [SystemNext]_system_vars => SystemTypeOK'
<1> SUFFICES ASSUME TypeOK, SystemTypeOK, [SystemNext]_system_vars
             PROVE  SystemTypeOK'
  OBVIOUS
<1> USE DEF radio_vars, interlock, radio_context
<1>0. TypeOK'
  BY SystemStepSimulates, StepType
<1>1. CASE SystemSend
  <2>1. [sequence |-> sequence', command |-> command] \in Frame
    BY <1>0 DEF TypeOK, Frame
  <2>2. to_radio' \in Seq(Frame)
    BY <1>1, <2>1, SequenceTypes DEF SystemSend, SystemTypeOK
  <2> QED
    BY <1>1, <2>2 DEF SystemSend, SystemTypeOK
<1>2. CASE SystemRead
  <2>1. from_radio' \in Seq(Line)
    BY <1>2, HeadAndTail DEF SystemRead, SystemTypeOK
  <2> QED
    BY <1>2, <2>1 DEF SystemRead, SystemTypeOK
<1>3. CASE SystemReadPartial \/ SystemLocal \/ SystemClock \/ SystemSignal
  BY <1>3 DEF SystemReadPartial, SystemLocal, SystemClock, SystemSignal, SystemTypeOK
<1>4. CASE SystemLoses
  <2>1. from_radio' \in Seq(Line)
    BY <1>4 DEF SystemLoses
  <2>2. PICK n \in 0 .. Len(to_radio) : to_radio' = SubSeq(to_radio, 1, n)
    BY <1>4 DEF SystemLoses
  <2>3. to_radio' \in Seq(Frame)
    BY <2>2, PrefixType DEF SystemTypeOK
  <2> QED
    BY <1>4, <2>1, <2>3 DEF SystemLoses, SystemTypeOK
<1>5. CASE RadioAccepts
  <2> DEFINE frame == Head(to_radio)
  <2>1. frame \in Frame /\ to_radio' \in Seq(Frame)
    BY <1>5, HeadAndTail DEF RadioAccepts, SystemTypeOK
  <2>2. \A body \in Ids \cup {NoId} : ResponseTo(frame, 0, body) \in Line
    BY <2>1, ResponseToType, SuccessIsACode
  <2>3. FullReport(radio_hz, radio_antenna) \in Line
    BY ReportType DEF SystemTypeOK
  <2>4. PICK lines \in Seq(Line) : Deliver(lines)
    <3>1. \A body \in Ids \cup {NoId} :
            /\ <<ResponseTo(frame, 0, body)>> \in Seq(Line)
            /\ <<ResponseTo(frame, 0, body), FullReport(radio_hz, radio_antenna)>>
                  \in Seq(Line)
      BY <2>2, <2>3, SequenceTypes DEF SystemTypeOK
    <3> QED
      BY <1>5, <3>1, Zenon DEF RadioAccepts
  <2>5. from_radio' \in Seq(Line)
    BY <2>4, DeliverType DEF SystemTypeOK
  <2>6. radio_id' \in Ids \cup {NoId} /\ radio_ready' \in BOOLEAN /\ subscribed' \in BOOLEAN
    BY <1>5 DEF RadioAccepts, SystemTypeOK
  <2> QED
    BY <1>5, <2>1, <2>5, <2>6 DEF RadioAccepts, SystemTypeOK
<1>6. CASE RadioRejects
  <2>1. Head(to_radio) \in Frame /\ to_radio' \in Seq(Frame)
    BY <1>6, HeadAndTail DEF RadioRejects, SystemTypeOK
  <2>2. PICK code \in Codes : Deliver(<<ResponseTo(Head(to_radio), code, NoId)>>)
    BY <1>6 DEF RadioRejects
  <2>3. ResponseTo(Head(to_radio), code, NoId) \in Line
    BY <2>1, ResponseToType
  <2>4. <<ResponseTo(Head(to_radio), code, NoId)>> \in Seq(Line)
    BY <2>3, SequenceTypes DEF SystemTypeOK
  <2>5. from_radio' \in Seq(Line)
    BY <2>2, <2>4, DeliverType DEF SystemTypeOK
  <2> QED
    BY <1>6, <2>1, <2>5 DEF RadioRejects, SystemTypeOK
<1>7. CASE Tune \/ SelectAntenna \/ SelectSlice \/ Key \/ Transmit \/ Unkey
  <2>1. /\ radio_hz' \in Frequencies
        /\ radio_antenna' \in Names \ {""}
        /\ radio_keyed' \in BOOLEAN
    BY <1>7 DEF Tune, SelectAntenna, SelectSlice, Key, Transmit, Unkey, SystemTypeOK
  <2>2. PICK line \in Line : Deliver(<<line>>)
    BY <1>7, <2>1, ReportType
       DEF Tune, SelectAntenna, SelectSlice, Key, Transmit, Unkey, Report, InterlockStates
  <2>3. from_radio' \in Seq(Line)
    <3>1. <<line>> \in Seq(Line)
      BY SequenceTypes DEF SystemTypeOK
    <3> QED
      BY <2>2, <3>1, DeliverType DEF SystemTypeOK
  <2>4. OperatorActs
    BY <1>7 DEF Tune, SelectAntenna, SelectSlice, Key, Transmit, Unkey
  <2>5. events' \in 0 .. MaxEvents
    <3>1. events \in 0 .. MaxEvents
      BY DEF SystemTypeOK
    <3>2. events < MaxEvents /\ events' = events + 1
      BY <2>4 DEF OperatorActs
    <3> QED
      BY <3>1, <3>2, MaxEventsAssumption
  <2> QED
    BY <2>1, <2>3, <2>4, <2>5 DEF OperatorActs, SystemTypeOK
<1>8. CASE UNCHANGED system_vars
  BY <1>8 DEF system_vars, SystemTypeOK
<1> QED
  BY <1>1, <1>2, <1>3, <1>4, <1>5, <1>6, <1>7, <1>8 DEF SystemNext, RadioNext

LEMMA SystemInitType == SystemInit => SystemTypeOK
<1> SUFFICES ASSUME SystemInit PROVE SystemTypeOK
  OBVIOUS
<1>1. to_radio = <<>> /\ from_radio = <<>>
  BY DEF SystemInit
<1>2. events = 0
  BY DEF SystemInit
<1>3. /\ radio_id = NoId /\ radio_hz \in Frequencies
      /\ radio_antenna \in Names \ {""}
  BY DEF SystemInit
<1>4. radio_ready \in BOOLEAN /\ radio_keyed \in BOOLEAN /\ subscribed \in BOOLEAN
  BY DEF SystemInit
<1>5. to_radio \in Seq(Frame) /\ from_radio \in Seq(Line)
  BY <1>1
<1>6. events \in 0 .. MaxEvents
  BY <1>2, MaxEventsAssumption
<1> QED
  BY <1>3, <1>4, <1>5, <1>6 DEF SystemTypeOK

(***************************************************************************)
(* The channels carry only frames and lines, and the radio's state keeps   *)
(* its type.                                                               *)
(***************************************************************************)
THEOREM SystemType == SystemSpec => [](TypeOK /\ SystemTypeOK)
<1>1. SystemInit => TypeOK /\ SystemTypeOK
  BY InitType, SystemInitType DEF SystemInit
<1>2. TypeOK /\ SystemTypeOK /\ [SystemNext]_system_vars
        => TypeOK' /\ SystemTypeOK'
  BY SystemStepSimulates, StepType, SystemStepType
<1> QED
  BY <1>1, <1>2, PTL DEF SystemSpec

(***************************************************************************)
(* The system implements the session: the theorems about SessionSpec hold  *)
(* of it.                                                                  *)
(***************************************************************************)
THEOREM SystemImplementsSession == SystemSpec => SessionSpec
<1>1. SystemInit => SessionInit
  BY DEF SystemInit
<1>2. SystemTypeOK /\ [SystemNext]_system_vars => [SessionNext]_vars
  BY SystemStepSimulates
<1> QED
  BY <1>1, <1>2, SystemType, PTL DEF SystemSpec, SessionSpec

(***************************************************************************)
(* In the system, too, the radio is last told ready only while a PTT in an *)
(* allowed context asks for it or the next command is not_ready.           *)
(***************************************************************************)
THEOREM SystemReadyJustified == SystemSpec => []ReadyIsJustified
BY SystemImplementsSession, ReadyAlwaysJustified, PTL

-----------------------------------------------------------------------------
(* Sequences: which of their elements are in a set.                        *)

\* No element of s is in T.
NoneIn(s, T) == \A i \in 1 .. Len(s) : s[i] \notin T

\* At most one is.
OneIn(s, T) == \A i, j \in 1 .. Len(s) : s[i] \in T /\ s[j] \in T => i = j

\* If one is, the last of them is in G.
LastIn(s, T, G) ==
    \A i \in 1 .. Len(s) :
        s[i] \in T /\ (\A j \in i + 1 .. Len(s) : s[j] \notin T) => s[i] \in G

LEMMA TailAt ==
    ASSUME NEW S, NEW s \in Seq(S), s # <<>>
    PROVE  /\ Tail(s) \in Seq(S)
           /\ Len(Tail(s)) = Len(s) - 1 /\ Len(s) \in Nat \ {0}
           /\ \A i \in 1 .. Len(s) - 1 : Tail(s)[i] = s[i + 1]
           /\ Head(s) = s[1]
OBVIOUS

LEMMA AppendAt ==
    ASSUME NEW S, NEW s \in Seq(S), NEW x \in S
    PROVE  /\ s \o <<x>> \in Seq(S)
           /\ Len(s \o <<x>>) = Len(s) + 1 /\ Len(s) \in Nat
           /\ \A i \in 1 .. Len(s) : (s \o <<x>>)[i] = s[i]
           /\ (s \o <<x>>)[Len(s) + 1] = x
           /\ Append(s, x) = s \o <<x>>
OBVIOUS

\* What the first element of a sequence was, and what remains behind it.
LEMMA TailIn ==
    ASSUME NEW S, NEW s \in Seq(S), s # <<>>, NEW T
    PROVE  /\ NoneIn(s, T) <=> Head(s) \notin T /\ NoneIn(Tail(s), T)
           /\ OneIn(s, T) => OneIn(Tail(s), T)
           /\ OneIn(s, T) /\ Head(s) \in T => NoneIn(Tail(s), T)
<1> DEFINE t == Tail(s)
<1>1. /\ Len(t) = Len(s) - 1 /\ Len(s) \in Nat \ {0}
      /\ \A i \in 1 .. Len(s) - 1 : t[i] = s[i + 1]
      /\ Head(s) = s[1]
  BY TailAt
<1>2. \A j \in 2 .. Len(s) : j - 1 \in 1 .. Len(t) /\ s[j] = t[j - 1]
  BY <1>1
<1>3. \A i \in 1 .. Len(t) : i + 1 \in 1 .. Len(s) /\ t[i] = s[i + 1]
  BY <1>1
<1> HIDE DEF t
<1>4. NoneIn(s, T) <=> Head(s) \notin T /\ NoneIn(t, T)
  <2>1. \A j \in 1 .. Len(s) : j = 1 \/ j \in 2 .. Len(s)
    BY <1>1
  <2>2. 1 \in 1 .. Len(s)
    BY <1>1
  <2> QED
    BY <1>1, <1>2, <1>3, <2>1, <2>2 DEF NoneIn
<1>5. OneIn(s, T) => OneIn(t, T)
  <2> SUFFICES ASSUME OneIn(s, T), NEW i \in 1 .. Len(t), NEW j \in 1 .. Len(t),
                      t[i] \in T, t[j] \in T
               PROVE  i = j
    BY DEF OneIn
  <2>1. i + 1 = j + 1
    BY <1>3 DEF OneIn
  <2> QED
    BY <2>1, <1>1
<1>6. OneIn(s, T) /\ Head(s) \in T => NoneIn(t, T)
  <2> SUFFICES ASSUME OneIn(s, T), s[1] \in T, NEW i \in 1 .. Len(t), t[i] \in T
               PROVE  FALSE
    BY <1>1 DEF NoneIn
  <2>1. 1 = i + 1
    BY <1>1, <1>3 DEF OneIn
  <2> QED
    BY <2>1, <1>1
<1> QED
  BY <1>4, <1>5, <1>6 DEF t

LEMMA TailLast ==
    ASSUME NEW S, NEW s \in Seq(S), s # <<>>, NEW T, NEW G
    PROVE  /\ LastIn(s, T, G) => LastIn(Tail(s), T, G)
           /\ LastIn(s, T, G) /\ Head(s) \in T /\ NoneIn(Tail(s), T) => Head(s) \in G
<1> DEFINE t == Tail(s)
<1>1. /\ Len(t) = Len(s) - 1 /\ Len(s) \in Nat \ {0}
      /\ \A i \in 1 .. Len(s) - 1 : t[i] = s[i + 1]
      /\ Head(s) = s[1]
  BY TailAt
<1>2. \A j \in 2 .. Len(s) : j - 1 \in 1 .. Len(t) /\ s[j] = t[j - 1]
  BY <1>1
<1>3. \A i \in 1 .. Len(t) : i + 1 \in 1 .. Len(s) /\ t[i] = s[i + 1]
  BY <1>1
<1> HIDE DEF t
<1>4. LastIn(s, T, G) => LastIn(t, T, G)
  <2> SUFFICES ASSUME LastIn(s, T, G), NEW i \in 1 .. Len(t), t[i] \in T,
                      \A j \in i + 1 .. Len(t) : t[j] \notin T
               PROVE  t[i] \in G
    BY DEF LastIn
  <2>1. ASSUME NEW j \in (i + 1) + 1 .. Len(s) PROVE s[j] \notin T
    <3>1. j - 1 \in i + 1 .. Len(t) /\ s[j] = t[j - 1]
      BY <1>1, <1>2
    <3> QED
      BY <3>1
  <2> QED
    BY <1>3, <2>1 DEF LastIn
<1>5. LastIn(s, T, G) /\ Head(s) \in T /\ NoneIn(t, T) => Head(s) \in G
  <2> SUFFICES ASSUME LastIn(s, T, G), s[1] \in T, NoneIn(t, T) PROVE s[1] \in G
    BY <1>1
  <2>1. \A j \in 1 + 1 .. Len(s) : s[j] \notin T
    BY <1>1, <1>2 DEF NoneIn
  <2> QED
    BY <1>1, <2>1 DEF LastIn
<1> QED
  BY <1>4, <1>5 DEF t

\* What one more element changes.
LEMMA AppendIn ==
    ASSUME NEW S, NEW s \in Seq(S), NEW x \in S, NEW T
    PROVE  /\ NoneIn(s \o <<x>>, T) <=> x \notin T /\ NoneIn(s, T)
           /\ NoneIn(s, T) => OneIn(s \o <<x>>, T)
           /\ OneIn(s, T) /\ x \notin T => OneIn(s \o <<x>>, T)
<1> DEFINE t == s \o <<x>>
<1>1. /\ Len(t) = Len(s) + 1 /\ Len(s) \in Nat
      /\ \A i \in 1 .. Len(s) : t[i] = s[i]
      /\ t[Len(s) + 1] = x
  BY AppendAt
<1> HIDE DEF t
<1>2. \A i \in 1 .. Len(t) : i = Len(t) \/ i \in 1 .. Len(s)
  BY <1>1
<1>3. Len(t) \in 1 .. Len(t) /\ \A i \in 1 .. Len(s) : i \in 1 .. Len(t)
  BY <1>1
<1>4. NoneIn(t, T) <=> x \notin T /\ NoneIn(s, T)
  BY <1>1, <1>2, <1>3 DEF NoneIn
<1>5. NoneIn(s, T) => OneIn(t, T)
  BY <1>1, <1>2 DEF NoneIn, OneIn
<1>6. OneIn(s, T) /\ x \notin T => OneIn(t, T)
  BY <1>1, <1>2 DEF OneIn
<1> QED
  BY <1>4, <1>5, <1>6 DEF t

LEMMA AppendLast ==
    ASSUME NEW S, NEW s \in Seq(S), NEW x \in S, NEW T, NEW G
    PROVE  /\ x \in T /\ x \in G => LastIn(s \o <<x>>, T, G)
           /\ LastIn(s, T, G) /\ x \notin T => LastIn(s \o <<x>>, T, G)
<1> DEFINE t == s \o <<x>>
<1>1. /\ Len(t) = Len(s) + 1 /\ Len(s) \in Nat
      /\ \A i \in 1 .. Len(s) : t[i] = s[i]
      /\ t[Len(s) + 1] = x
  BY AppendAt
<1> HIDE DEF t
<1>2. \A i \in 1 .. Len(t) : i = Len(t) \/ i \in 1 .. Len(s)
  BY <1>1
<1>3. x \in T /\ x \in G => LastIn(t, T, G)
  <2> SUFFICES ASSUME x \in T, x \in G, NEW i \in 1 .. Len(t),
                      \A j \in i + 1 .. Len(t) : t[j] \notin T
               PROVE  t[i] \in G
    BY DEF LastIn
  <2>1. i \in 1 .. Len(s) => Len(t) \in i + 1 .. Len(t)
    BY <1>1
  <2> QED
    BY <1>1, <1>2, <2>1
<1>4. LastIn(s, T, G) /\ x \notin T => LastIn(t, T, G)
  <2> SUFFICES ASSUME LastIn(s, T, G), x \notin T, NEW i \in 1 .. Len(t), t[i] \in T,
                      \A j \in i + 1 .. Len(t) : t[j] \notin T
               PROVE  t[i] \in G
    BY DEF LastIn
  <2>1. i \in 1 .. Len(s) /\ t[i] = s[i]
    BY <1>1, <1>2
  <2>2. \A j \in i + 1 .. Len(s) : j \in i + 1 .. Len(t) /\ t[j] = s[j]
    BY <1>1, <2>1
  <2> QED
    BY <2>1, <2>2 DEF LastIn
<1> QED
  BY <1>3, <1>4 DEF t

\* A prefix has fewer elements.
LEMMA PrefixIn ==
    ASSUME NEW S, NEW s \in Seq(S), NEW n \in 0 .. Len(s), NEW T
    PROVE  /\ Len(SubSeq(s, 1, n)) = n
           /\ \A i \in 1 .. n : i \in 1 .. Len(s) /\ SubSeq(s, 1, n)[i] = s[i]
           /\ NoneIn(s, T) => NoneIn(SubSeq(s, 1, n), T)
           /\ OneIn(s, T) => OneIn(SubSeq(s, 1, n), T)
<1> DEFINE t == SubSeq(s, 1, n)
<1>1. Len(t) = n /\ \A i \in 1 .. n : i \in 1 .. Len(s) /\ t[i] = s[i]
  OBVIOUS
<1> HIDE DEF t
<1>2. NoneIn(s, T) => NoneIn(t, T)
  BY <1>1 DEF NoneIn
<1>3. OneIn(s, T) => OneIn(t, T)
  BY <1>1 DEF OneIn
<1> QED
  BY <1>1, <1>2, <1>3 DEF t

-----------------------------------------------------------------------------
(* The commands in the channels.                                           *)

\* Frames and responses of the command that is sent or awaited, and of one
\* that was given up before it.
CurrentFrames == {f \in Frame : f.sequence = sequence}
OldFrames == {f \in Frame : f.sequence # sequence}

CurrentLines == {l \in ResponseLine : l.response.sequence = sequence}
OldLines == {l \in ResponseLine : l.response.sequence # sequence}

AcceptingLines == {l \in CurrentLines : l.response.code = 0}

Occupied == Slots \ FreeSlots

Awaiting == pc \in {"await", "read"}

\* Nothing that was sent is unanswered, and no answer unread.
Quiet == to_radio = <<>> /\ NoneIn(from_radio, ResponseLine)

LinkOK == ~link_up => from_radio = <<>>

\* send_command_once returns only with the answer, or with a failure.
QuietOK ==
    pc \in {"connect", "loop", "poll"} \/ (pc = "send" /\ step # "remove") => Quiet

\* The channels hold one frame or one response, of the last command, and
\* the cache holds nothing.
OneOutstanding ==
    /\ Occupied = {}
    /\ NoneIn(to_radio, OldFrames) /\ NoneIn(from_radio, OldLines)
    /\ OneIn(to_radio, Frame) /\ OneIn(from_radio, ResponseLine)
    /\ to_radio = <<>> \/ NoneIn(from_radio, ResponseLine)

\* So it is until the cleanup command is sent.
OutstandingOK == step # "remove" \/ pc = "send" => OneOutstanding

FrameOK ==
    step # "remove" =>
        \A i \in 1 .. Len(to_radio) : to_radio[i].command = command

\* The command that was given up before the cleanup command has left one
\* frame, or one response, or one response in the cache.
OneOld ==
    /\ OneIn(to_radio, OldFrames)
    /\ OneIn(from_radio, OldLines)
    /\ NoneIn(to_radio, OldFrames) \/ NoneIn(from_radio, OldLines)
    /\ NoneIn(to_radio, OldFrames) \/ Occupied = {}
    /\ NoneIn(from_radio, OldLines) \/ Occupied = {}

\* The cleanup command comes behind it and is answered last.
RemovalLast ==
    /\ \A i \in 1 .. Len(to_radio) :
          to_radio[i] \in CurrentFrames =>
             i = Len(to_radio) /\ to_radio[i].command = "remove"
    /\ to_radio = <<>> \/ NoneIn(from_radio, CurrentLines)
    /\ radio_id = NoId \/ NoneIn(from_radio, AcceptingLines)

RemovalOK == step = "remove" /\ Awaiting => OneOld /\ RemovalLast

CacheOK == MatchingSlots = {} /\ CacheHoldsOne

ConfirmedOK ==
    cleanup_confirmed => pc = "closed" /\ to_radio = <<>> /\ radio_id = NoId

ChannelInv ==
    /\ LinkOK /\ QuietOK /\ OutstandingOK /\ FrameOK /\ RemovalOK
    /\ CacheOK /\ ConfirmedOK

\* An empty sequence has no element in any set.
LEMMA EmptyIn ==
    ASSUME NEW T
    PROVE  NoneIn(<<>>, T) /\ OneIn(<<>>, T)
BY DEF NoneIn, OneIn

\* What is in no set is in no part of it, and at most once.
LEMMA NoneInPart ==
    ASSUME NEW s, NEW T, NEW U, U \subseteq T
    PROVE  /\ NoneIn(s, T) => NoneIn(s, U) /\ OneIn(s, U)
           /\ OneIn(s, T) => OneIn(s, U)
BY DEF NoneIn, OneIn

LEMMA ResponseParts ==
    /\ CurrentLines \subseteq ResponseLine /\ OldLines \subseteq ResponseLine
    /\ AcceptingLines \subseteq CurrentLines
    /\ CurrentFrames \subseteq Frame /\ OldFrames \subseteq Frame
BY DEF CurrentLines, OldLines, AcceptingLines, CurrentFrames, OldFrames

\* With nothing outstanding every description of the channels holds.
LEMMA QuietSuffices ==
    Quiet /\ Occupied = {} => OneOutstanding /\ OneOld /\ RemovalLast /\ CacheOK
<1> SUFFICES ASSUME Quiet, Occupied = {}
             PROVE  OneOutstanding /\ OneOld /\ RemovalLast /\ CacheOK
  OBVIOUS
<1>1. to_radio = <<>> /\ NoneIn(from_radio, ResponseLine)
  BY DEF Quiet
<1>2. /\ NoneIn(to_radio, OldFrames) /\ OneIn(to_radio, OldFrames)
      /\ OneIn(to_radio, Frame)
  BY <1>1, EmptyIn
<1>3. /\ NoneIn(from_radio, OldLines) /\ OneIn(from_radio, OldLines)
      /\ OneIn(from_radio, ResponseLine)
      /\ NoneIn(from_radio, CurrentLines) /\ NoneIn(from_radio, AcceptingLines)
  BY <1>1, NoneInPart, ResponseParts
<1>4. Len(to_radio) = 0
  BY <1>1
<1>5. MatchingSlots = {} /\ CacheHoldsOne
  BY DEF Occupied, MatchingSlots, FreeSlots, CacheHoldsOne
<1> QED
  BY <1>1, <1>2, <1>3, <1>4, <1>5
     DEF OneOutstanding, OneOld, RemovalLast, CacheOK

LEMMA QuietSufficesNext ==
    Quiet' /\ Occupied' = {}
        => OneOutstanding' /\ OneOld' /\ RemovalLast' /\ CacheOK'
<1>1. (Quiet /\ Occupied = {} => OneOutstanding /\ OneOld /\ RemovalLast /\ CacheOK)'
  BY QuietSuffices, PTL
<1> QED
  BY <1>1

LEMMA OccupiedNext == UNCHANGED saved_responses => Occupied' = Occupied
BY DEF Occupied, FreeSlots, Slots

\* Where the channels stay as they are, only what the thread's place says of
\* them is to be shown.
LEMMA ChannelStays ==
    ASSUME ChannelInv,
           UNCHANGED <<to_radio, from_radio, sequence, saved_responses, radio_id>>,
           link_up' = link_up,
           \/ pc' \in {"connect", "loop", "poll"}
           \/ pc' = "send" /\ step' # "remove"
           => Quiet,
           step' # "remove" \/ pc' = "send" => step # "remove" \/ pc = "send",
           step' # "remove" => step # "remove" /\ (command' = command \/ to_radio = <<>>),
           step' = "remove" /\ Awaiting' => step = "remove" /\ Awaiting,
           cleanup_confirmed' =>
              \/ cleanup_confirmed /\ pc' = pc
              \/ pc' = "closed" /\ to_radio = <<>> /\ radio_id = NoId
    PROVE  ChannelInv'
<1>1. LinkOK' /\ QuietOK'
  BY DEF ChannelInv, LinkOK, QuietOK, Quiet, NoneIn
<1>2. Occupied' = Occupied /\ MatchingSlots' = MatchingSlots /\ (CacheHoldsOne <=> CacheHoldsOne')
  BY OccupiedNext DEF MatchingSlots, CacheHoldsOne, FreeSlots
<1>3. /\ OldFrames' = OldFrames /\ CurrentFrames' = CurrentFrames
      /\ OldLines' = OldLines /\ CurrentLines' = CurrentLines
      /\ AcceptingLines' = AcceptingLines
  BY DEF OldFrames, CurrentFrames, OldLines, CurrentLines, AcceptingLines
<1>4. OutstandingOK'
  BY <1>2, <1>3 DEF ChannelInv, OutstandingOK, OneOutstanding, NoneIn, OneIn
<1>5. FrameOK'
  <2>1. to_radio = <<>> => Len(to_radio) = 0
    OBVIOUS
  <2> QED
    BY <2>1 DEF ChannelInv, FrameOK
<1>6. RemovalOK'
  BY <1>2, <1>3 DEF ChannelInv, RemovalOK, OneOld, RemovalLast, NoneIn, OneIn
<1>7. CacheOK' /\ ConfirmedOK'
  BY <1>2 DEF ChannelInv, CacheOK, ConfirmedOK
<1> QED
  BY <1>1, <1>4, <1>5, <1>6, <1>7 DEF ChannelInv

\* A command that fails: the thread goes to the cleanup label or returns.
LEMMA FailsPlace ==
    ASSUME Fails
    PROVE  /\ UNCHANGED <<step, command, cleanup_confirmed>>
           /\ pc' \in {"cleanup", "closed"}
           /\ pc' = "cleanup" <=> step # "remove"
BY DEF Fails, cleanup_command

LEMMA FailsChannel ==
    ASSUME ChannelInv, Fails, pc # "closed",
           UNCHANGED <<to_radio, from_radio, sequence, saved_responses, radio_id>>,
           link_up' = link_up
    PROVE  ChannelInv'
BY FailsPlace, ChannelStays DEF Awaiting, ChannelInv, ConfirmedOK

LEMMA LocalChannel ==
    ASSUME TypeOK, ControlOK, ChannelInv, SystemLocal
    PROVE  ChannelInv'
<1> USE DEF radio_vars, interlock
<1>0. UNCHANGED <<to_radio, from_radio, radio_id>>
  BY DEF SystemLocal
<1>00. cleanup_confirmed => pc = "closed"
  BY DEF ChannelInv, ConfirmedOK
<1>1. CASE Connect \/ ConnectFails
  <2>1. /\ pc = "connect" /\ pc' \in {"send", "closed"}
        /\ UNCHANGED <<step, command, cleanup_confirmed, sequence, saved_responses,
                       link_up>>
    BY <1>1 DEF Connect, ConnectFails
  <2>2. Quiet
    BY <2>1 DEF ChannelInv, QuietOK
  <2>3. step = "name"
    BY <2>1 DEF ControlOK, LocationOK
  <2> QED
    BY <1>0, <1>00, <2>1, <2>2, <2>3, ChannelStays DEF Awaiting
<1>2. CASE SendRefused
  <2>1. /\ pc = "send" /\ step # "remove" /\ Fails
        /\ UNCHANGED <<saved_responses, link_up>>
    BY <1>2 DEF SendRefused, StartCommand, cleanup_command
  <2>2. pc' = "cleanup" /\ UNCHANGED <<step, command, cleanup_confirmed>>
    BY <2>1, FailsPlace
  <2>3. Quiet /\ Occupied = {}
    BY <2>1 DEF ChannelInv, QuietOK, OutstandingOK, OneOutstanding
  <2>4. Quiet' /\ Occupied' = {}
    BY <1>0, <2>1, <2>3, OccupiedNext DEF Quiet, NoneIn
  <2>5. OneOutstanding' /\ CacheOK'
    BY <2>4, QuietSufficesNext
  <2> QED
    BY <1>0, <1>00, <2>1, <2>2, <2>4, <2>5
       DEF ChannelInv, LinkOK, QuietOK, OutstandingOK, FrameOK, RemovalOK,
           ConfirmedOK
<1>3. CASE AwaitStopped \/ AwaitExpired
  BY <1>0, <1>3, FailsChannel DEF AwaitStopped, AwaitExpired, Await
<1>4. CASE AwaitSaved
  BY <1>4 DEF AwaitSaved, ChannelInv, CacheOK
<1>5. CASE ReadTimesOut
  BY <1>0, <1>5, FailsChannel DEF ReadTimesOut, ReadNothing
<1>6. CASE AwaitRead
  <2>1. /\ pc = "await" /\ pc' = "read"
        /\ UNCHANGED <<step, command, cleanup_confirmed, sequence, saved_responses,
                       link_up>>
    BY <1>6 DEF AwaitRead, Await
  <2> QED
    BY <1>0, <1>00, <2>1, ChannelStays DEF Awaiting
<1>7. CASE LoopReads \/ LoopStops \/ PollNothing
  <2>1. /\ pc \in {"loop", "poll"} /\ pc' \in {"loop", "poll", "cleanup"}
        /\ UNCHANGED <<step, command, cleanup_confirmed, sequence, saved_responses,
                       link_up>>
    BY <1>7 DEF LoopReads, LoopStops, PollNothing
  <2>2. Quiet
    BY <2>1 DEF ChannelInv, QuietOK
  <2>3. step # "remove"
    BY <2>1 DEF ControlOK, LocationOK
  <2> QED
    BY <1>0, <1>00, <2>1, <2>2, <2>3, ChannelStays DEF Awaiting
<1>8. CASE remove_interlock
  <2>1. /\ pc = "cleanup"
        /\ \/ pc' = "closed" /\ UNCHANGED <<step, command>>
           \/ pc' = "send" /\ step' = "remove"
        /\ UNCHANGED <<cleanup_confirmed, sequence, saved_responses, link_up>>
    BY <1>8 DEF remove_interlock
  <2>2. step # "remove"
    BY <2>1 DEF ControlOK, CallerOK
  <2> QED
    BY <1>0, <1>00, <2>1, <2>2, ChannelStays DEF Awaiting
<1> QED
  BY <1>1, <1>2, <1>3, <1>4, <1>5, <1>6, <1>7, <1>8 DEF SystemLocal

\* Steps of the clock, of a signal, and of a line that is not complete.
LEMMA OutsideChannel ==
    ASSUME ChannelInv, SystemReadPartial \/ SystemClock \/ SystemSignal
    PROVE  ChannelInv'
<1> USE DEF radio_vars, interlock
<1>0. UNCHANGED <<to_radio, from_radio, radio_id>>
  BY DEF SystemReadPartial, SystemClock, SystemSignal
<1>1. CASE ReadNothing
  BY <1>0, <1>1, FailsChannel DEF ReadNothing
<1>2. CASE UNCHANGED <<pc, step, command, cleanup_confirmed, sequence,
                       saved_responses, link_up>>
  <2>1. /\ pc' \in {"connect", "loop", "poll"} \/ (pc' = "send" /\ step' # "remove")
              => Quiet
        /\ cleanup_confirmed => pc = "closed"
    BY <1>2 DEF ChannelInv, QuietOK, ConfirmedOK
  <2> QED
    BY <1>0, <1>2, <2>1, ChannelStays DEF Awaiting
<1> QED
  BY <1>1, <1>2 DEF SystemReadPartial, SystemClock, SystemSignal, ReadPartial,
                    ReadInterrupted, DeadlinePasses, Signal

\* Two commands in a row have different sequence numbers.
LEMMA SequenceChanges ==
    ASSUME TypeOK, StartCommand
    PROVE  sequence' # sequence
<1>1. SequenceModulus \in Nat \ {0, 1} /\ sequence \in 0 .. SequenceModulus - 1
  BY ModulusType DEF TypeOK
<1>2. CASE sequence + 1 = SequenceModulus
  <2>1. SequenceModulus % SequenceModulus = 0
    BY <1>1
  <2> QED
    BY <1>1, <1>2, <2>1 DEF StartCommand
<1>3. CASE sequence + 1 < SequenceModulus
  <2>1. (sequence + 1) % SequenceModulus = sequence + 1
    BY <1>1, <1>3
  <2> QED
    BY <1>1, <2>1 DEF StartCommand
<1> QED
  BY <1>1, <1>2, <1>3

\* A sequence of which every element is in T has none that is not.
LEMMA NoneElse ==
    ASSUME NEW S, NEW s \in Seq(S), NEW T, NEW U, NoneIn(s, T), S \subseteq T \cup U
    PROVE  \A i \in 1 .. Len(s) : s[i] \in U
<1>1. \A i \in 1 .. Len(s) : s[i] \in S
  OBVIOUS
<1> QED
  BY <1>1 DEF NoneIn

LEMMA SendChannel ==
    ASSUME TypeOK, TypeOK', ControlOK, SystemTypeOK, ChannelInv, SystemSend
    PROVE  ChannelInv'
<1> USE DEF radio_vars, interlock
<1> DEFINE frame == [sequence |-> sequence', command |-> command]
<1>1. /\ pc = "send" /\ pc' = "await"
      /\ to_radio' = IF link_up THEN Append(to_radio, frame) ELSE to_radio
      /\ UNCHANGED <<step, command, cleanup_confirmed, saved_responses, link_up,
                     from_radio, radio_id>>
  BY DEF SystemSend, SendFrame, StartCommand
<1>2. frame \in Frame /\ frame.sequence = sequence' /\ frame.command = command
  BY DEF Frame, TypeOK
<1> HIDE DEF frame
<1>3. to_radio \in Seq(Frame)
  BY DEF SystemTypeOK
<1>4. OneOutstanding /\ ~cleanup_confirmed
  BY <1>1 DEF ChannelInv, OutstandingOK, ConfirmedOK
<1>5. LinkOK' /\ QuietOK' /\ ConfirmedOK'
  BY <1>1, <1>4 DEF ChannelInv, LinkOK, QuietOK, ConfirmedOK
<1>6. Occupied' = {}
  BY <1>1, <1>4, OccupiedNext DEF OneOutstanding
<1>7. CacheOK'
  BY <1>6 DEF CacheOK, CacheHoldsOne, MatchingSlots, Occupied, FreeSlots
<1>8. \/ to_radio' = to_radio
      \/ to_radio' = to_radio \o <<frame>>
  BY <1>1, <1>2, <1>3, AppendAt
<1>9. \A T : frame \notin T =>
           /\ NoneIn(to_radio, T) => NoneIn(to_radio', T)
           /\ OneIn(to_radio, T) => OneIn(to_radio', T)
  <2> TAKE T
  <2>1. frame \notin T =>
           /\ NoneIn(to_radio, T) => NoneIn(to_radio \o <<frame>>, T)
           /\ OneIn(to_radio, T) => OneIn(to_radio \o <<frame>>, T)
    BY <1>2, <1>3, AppendIn
  <2> QED
    BY <1>8, <2>1
<1>10. NoneIn(to_radio, Frame) => OneIn(to_radio', Frame)
  BY <1>2, <1>3, <1>8, AppendIn, NoneInPart
<1>11. CASE step # "remove"
  <2>1. Quiet
    BY <1>1, <1>11 DEF ChannelInv, QuietOK
  <2>2. NoneIn(from_radio', ResponseLine)
    BY <1>1, <2>1 DEF Quiet
  <2>3. NoneIn(from_radio', OldLines') /\ OneIn(from_radio', ResponseLine)
    <3>1. OldLines' \subseteq ResponseLine
      BY DEF OldLines
    <3> QED
      BY <2>2, <3>1, NoneInPart
  <2>4. NoneIn(to_radio, OldFrames') /\ NoneIn(to_radio, Frame) /\ OneIn(to_radio, Frame)
    BY <2>1, EmptyIn DEF Quiet
  <2>5. frame \notin OldFrames'
    BY <1>2 DEF OldFrames
  <2>6. NoneIn(to_radio', OldFrames') /\ OneIn(to_radio', Frame)
    BY <1>9, <1>10, <2>4, <2>5
  <2>7. OneOutstanding'
    BY <1>6, <2>2, <2>3, <2>6 DEF OneOutstanding
  <2>8. FrameOK'
    <3>1. \A i \in 1 .. Len(to_radio') : to_radio'[i] = frame
      <4>1. Len(to_radio) = 0
        BY <2>1 DEF Quiet
      <4>2. CASE to_radio' = to_radio
        BY <4>1, <4>2
      <4>3. CASE to_radio' = to_radio \o <<frame>>
        <5>1. Len(to_radio') = 1 /\ to_radio'[1] = frame
          BY <1>2, <1>3, <4>1, <4>3, AppendAt
        <5> QED
          BY <5>1
      <4> QED
        BY <1>8, <4>2, <4>3
    <3> QED
      BY <1>1, <1>2, <3>1 DEF FrameOK
  <2> QED
    BY <1>1, <1>5, <1>7, <1>11, <2>7, <2>8
       DEF ChannelInv, OutstandingOK, RemovalOK
<1>12. CASE step = "remove"
  <2>1. command = "remove"
    BY <1>12 DEF ControlOK, CallerOK
  <2>2. sequence' # sequence
    BY SequenceChanges DEF SystemSend, SendFrame
  <2>3. \A i \in 1 .. Len(to_radio) : to_radio[i] \in CurrentFrames
    <3>1. Frame \subseteq OldFrames \cup CurrentFrames
      BY DEF OldFrames, CurrentFrames
    <3> QED
      BY <1>3, <1>4, <3>1, NoneElse DEF OneOutstanding
  <2>4. NoneIn(to_radio, CurrentFrames')
    BY <2>2, <2>3 DEF NoneIn, CurrentFrames
  <2>5. OneIn(to_radio, OldFrames')
    <3>1. OldFrames' \subseteq Frame
      BY DEF OldFrames
    <3> QED
      BY <1>4, <3>1, NoneInPart DEF OneOutstanding
  <2>6. frame \in CurrentFrames' /\ frame \notin OldFrames'
    BY <1>2 DEF OldFrames, CurrentFrames
  <2>7. OneIn(to_radio', OldFrames')
    BY <1>9, <2>5, <2>6
  <2>8. OldLines' \subseteq ResponseLine
    BY DEF OldLines
  <2>9. OneIn(from_radio', OldLines')
    BY <1>1, <1>4, <2>8, NoneInPart DEF OneOutstanding
  <2>10. NoneIn(to_radio', OldFrames') \/ NoneIn(from_radio', OldLines')
    <3>1. CASE to_radio = <<>>
      <4>1. NoneIn(to_radio, OldFrames')
        BY <3>1, EmptyIn
      <4> QED
        BY <1>9, <2>6, <4>1
    <3>2. CASE NoneIn(from_radio, ResponseLine)
      BY <1>1, <3>2, <2>8, NoneInPart
    <3> QED
      BY <1>4, <3>1, <3>2 DEF OneOutstanding
  <2>11. OneOld'
    BY <1>6, <2>7, <2>9, <2>10 DEF OneOld
  <2>12. NoneIn(from_radio', CurrentLines')
    <3>1. CurrentLines' \subseteq OldLines
      BY <2>2 DEF CurrentLines, OldLines
    <3> QED
      BY <1>1, <1>4, <3>1, NoneInPart DEF OneOutstanding
  <2>13. NoneIn(from_radio', AcceptingLines')
    <3>1. AcceptingLines' \subseteq CurrentLines'
      BY DEF AcceptingLines
    <3> QED
      BY <2>12, <3>1, NoneInPart
  <2>14. \A i \in 1 .. Len(to_radio') :
            to_radio'[i] \in CurrentFrames' =>
               i = Len(to_radio') /\ to_radio'[i].command = "remove"
    <3>1. CASE to_radio' = to_radio
      BY <2>4, <3>1 DEF NoneIn
    <3>2. CASE to_radio' = to_radio \o <<frame>>
      <4>1. /\ Len(to_radio') = Len(to_radio) + 1 /\ Len(to_radio) \in Nat
            /\ \A i \in 1 .. Len(to_radio) : to_radio'[i] = to_radio[i]
            /\ to_radio'[Len(to_radio')] = frame
        BY <1>2, <1>3, <3>2, AppendAt
      <4>2. \A i \in 1 .. Len(to_radio') : i = Len(to_radio') \/ i \in 1 .. Len(to_radio)
        BY <4>1
      <4> QED
        BY <1>2, <2>1, <2>4, <4>1, <4>2 DEF NoneIn
    <3> QED
      BY <1>8, <3>1, <3>2
  <2> QED
    BY <1>1, <1>5, <1>7, <1>12, <2>11, <2>12, <2>13, <2>14
       DEF ChannelInv, OutstandingOK, FrameOK, RemovalOK, RemovalLast
<1> QED
  BY <1>11, <1>12

\* The connection fails: what the radio still receives is a prefix.
LEMMA LosesChannel ==
    ASSUME TypeOK, ControlOK, SystemTypeOK, ChannelInv, SystemLoses
    PROVE  ChannelInv'
<1> USE DEF radio_vars, interlock
<1>1. from_radio' = <<>> /\ UNCHANGED <<radio_id, saved_responses>> /\ link_up' = FALSE
  BY DEF SystemLoses, SendFails, StartCommand, ReadFails, PollFails
<1>2. PICK n \in 0 .. Len(to_radio) : to_radio' = SubSeq(to_radio, 1, n)
  BY DEF SystemLoses
<1>3. to_radio \in Seq(Frame)
  BY DEF SystemTypeOK
<1>4. /\ Len(to_radio') = n
      /\ \A i \in 1 .. n : i \in 1 .. Len(to_radio) /\ to_radio'[i] = to_radio[i]
  BY <1>2, <1>3, PrefixIn
<1>5. \A T : /\ NoneIn(to_radio, T) => NoneIn(to_radio', T)
             /\ OneIn(to_radio, T) => OneIn(to_radio', T)
  BY <1>2, <1>3, PrefixIn
<1>6. \A T : NoneIn(from_radio', T) /\ OneIn(from_radio', T)
  BY <1>1, EmptyIn
<1>7. /\ pc \in {"send", "read", "poll"} /\ pc' \in {"cleanup", "closed"}
      /\ pc' = "cleanup" <=> step # "remove"
      /\ UNCHANGED <<step, command, cleanup_confirmed>>
  BY FailsPlace DEF SystemLoses, SendFails, StartCommand, ReadFails, PollFails,
                    ControlOK, LocationOK
<1>8. Occupied' = Occupied
  BY <1>1, OccupiedNext
<1>9. ~cleanup_confirmed
  BY <1>7 DEF ChannelInv, ConfirmedOK
<1>10. LinkOK' /\ QuietOK' /\ RemovalOK' /\ ConfirmedOK'
  BY <1>1, <1>7, <1>9 DEF LinkOK, QuietOK, RemovalOK, ConfirmedOK, Awaiting
<1>11. FrameOK'
  BY <1>4, <1>7 DEF ChannelInv, FrameOK
<1>12. CacheOK'
  <2>1. CASE pc = "send"
    <3>1. Occupied' = {}
      BY <1>8, <2>1 DEF ChannelInv, OutstandingOK, OneOutstanding
    <3> QED
      BY <3>1 DEF CacheOK, CacheHoldsOne, MatchingSlots, Occupied, FreeSlots
  <2>2. CASE pc # "send"
    <3>1. UNCHANGED sequence
      BY <2>2 DEF SystemLoses, SendFails, StartCommand, ReadFails, PollFails
    <3> QED
      BY <1>1, <3>1 DEF ChannelInv, CacheOK, CacheHoldsOne, MatchingSlots, FreeSlots
  <2> QED
    BY <2>1, <2>2
<1>13. OutstandingOK'
  <2> SUFFICES ASSUME step # "remove" PROVE OneOutstanding'
    BY <1>7 DEF OutstandingOK
  <2>1. OneOutstanding
    BY DEF ChannelInv, OutstandingOK
  <2>2. NoneIn(to_radio', OldFrames')
    <3>1. CASE pc = "send"
      <4>1. to_radio = <<>>
        BY <3>1 DEF ChannelInv, QuietOK, Quiet
      <4> QED
        BY <1>5, <4>1, EmptyIn
    <3>2. CASE pc # "send"
      <4>1. UNCHANGED sequence
        BY <3>2 DEF SystemLoses, SendFails, StartCommand, ReadFails, PollFails
      <4>2. OldFrames' = OldFrames
        BY <4>1 DEF OldFrames
      <4> QED
        BY <1>5, <2>1, <4>2 DEF OneOutstanding
    <3> QED
      BY <3>1, <3>2
  <2> QED
    BY <1>5, <1>6, <1>8, <2>1, <2>2 DEF OneOutstanding
<1> QED
  BY <1>10, <1>11, <1>12, <1>13 DEF ChannelInv

\* A status is handled at once: a waiting command goes on waiting.
LEMMA StatusPlace ==
    ASSUME NEW line, handle_status(line), pc \in {"read", "poll"}
    PROVE  /\ pc = "read" => pc' = "await" /\ command' = command
           /\ pc = "poll" => pc' \in {"loop", "send"}
BY DEF handle_status, handle_transmit, handle_interlock, set_interlock, NoUpdate,
       command_in_progress

LEMMA KindOfLine ==
    ASSUME NEW line \in Line
    PROVE  line \in ResponseLine <=> line.kind = "response"
BY DEF Line, ResponseLine, StatusLine, TransmitLine, InterlockLine, OtherLine

\* A line other than a response is read.
LEMMA StatusChannel ==
    ASSUME ControlOK, SystemTypeOK, ChannelInv, from_radio # <<>>,
           from_radio' = Tail(from_radio), handle_status(Head(from_radio)),
           Head(from_radio) \notin ResponseLine, pc \in {"read", "poll"},
           UNCHANGED <<to_radio, radio_id, step, sequence, saved_responses,
                       cleanup_confirmed, link_up>>
    PROVE  ChannelInv'
<1>1. /\ pc = "read" => pc' = "await" /\ command' = command
      /\ pc = "poll" => pc' \in {"loop", "send"}
  BY StatusPlace
<1>2. \A T : /\ NoneIn(from_radio, T) => NoneIn(from_radio', T)
             /\ OneIn(from_radio, T) => OneIn(from_radio', T)
  BY TailIn DEF SystemTypeOK
<1>3. pc = "poll" => Quiet /\ step = "run"
  BY DEF ChannelInv, QuietOK, ControlOK, LocationOK
<1>4. /\ OldFrames' = OldFrames /\ CurrentFrames' = CurrentFrames
      /\ OldLines' = OldLines /\ CurrentLines' = CurrentLines
      /\ AcceptingLines' = AcceptingLines
  BY DEF OldFrames, CurrentFrames, OldLines, CurrentLines, AcceptingLines
<1>5. Occupied' = Occupied /\ MatchingSlots' = MatchingSlots /\ (CacheHoldsOne <=> CacheHoldsOne')
  BY OccupiedNext DEF MatchingSlots, CacheHoldsOne, FreeSlots
<1>6. ~cleanup_confirmed
  BY DEF ChannelInv, ConfirmedOK
<1>7. LinkOK' /\ QuietOK' /\ ConfirmedOK' /\ CacheOK'
  <2>1. link_up
    BY DEF ChannelInv, LinkOK
  <2> QED
    BY <1>1, <1>2, <1>3, <1>5, <1>6, <2>1
       DEF ChannelInv, LinkOK, QuietOK, Quiet, ConfirmedOK, CacheOK
<1>8. FrameOK'
  <2>1. to_radio = <<>> => Len(to_radio) = 0
    OBVIOUS
  <2> QED
    BY <1>1, <1>3, <2>1 DEF ChannelInv, FrameOK, Quiet
<1>9. OutstandingOK'
  BY <1>1, <1>2, <1>3, <1>4, <1>5
     DEF ChannelInv, OutstandingOK, OneOutstanding
<1>10. RemovalOK'
  <2> SUFFICES ASSUME step = "remove" PROVE OneOld' /\ RemovalLast'
    BY DEF RemovalOK
  <2>1. pc = "read" /\ OneOld /\ RemovalLast
    BY <1>3 DEF ChannelInv, RemovalOK, Awaiting
  <2>2. OneOld'
    BY <1>2, <1>4, <1>5, <2>1 DEF OneOld
  <2>3. RemovalLast'
    BY <1>2, <1>4, <2>1 DEF RemovalLast
  <2> QED
    BY <2>2, <2>3
<1> QED
  BY <1>7, <1>8, <1>9, <1>10 DEF ChannelInv

\* Where an answer takes the thread.
LEMMA AcceptPlace ==
    ASSUME NEW r, accept_response(r)
    PROVE  /\ step # "remove" => step' # "remove" /\ UNCHANGED cleanup_confirmed
           /\ step = "remove" => /\ pc' = "closed" /\ step' = step
                                 /\ \/ UNCHANGED cleanup_confirmed
                                    \/ r.code = 0
<1>1. CASE Fails
  BY <1>1, FailsPlace
<1>2. CASE r.code = 0 /\ Succeeds(r.body)
  <2>1. initialize_session(r.body) \/ ReturnToLoop \/ SendDeferred
          => step' # "remove" \/ step' = step
    BY NextStepValue DEF initialize_session, SendNext, Created, EnterLoop,
                         ReturnToLoop, SendDeferred, Subscribing
  <2>2. initialize_session(r.body) \/ ReturnToLoop \/ SendDeferred
          => UNCHANGED cleanup_confirmed
    BY DEF initialize_session, ReturnToLoop, SendDeferred
  <2> QED
    BY <1>2, <2>1, <2>2 DEF Succeeds, Removed, SendDeferred, cleanup_command
<1> QED
  BY <1>1, <1>2 DEF accept_response

\* The answer to the awaited command is read.
LEMMA AnswerChannel ==
    ASSUME ControlOK, SystemTypeOK, ChannelInv, from_radio # <<>>,
           from_radio' = Tail(from_radio), Head(from_radio) \in CurrentLines,
           accept_response(Head(from_radio).response), pc = "read",
           UNCHANGED <<to_radio, radio_id, sequence, saved_responses, link_up>>
    PROVE  ChannelInv'
<1> DEFINE line == Head(from_radio)
<1>1. /\ \A T : NoneIn(from_radio, T) => line \notin T
      /\ \A T : OneIn(from_radio, T) /\ line \in T => NoneIn(from_radio', T)
  BY TailIn DEF SystemTypeOK
<1>2. link_up /\ ~cleanup_confirmed
  BY DEF ChannelInv, LinkOK, ConfirmedOK
<1>3. Occupied' = Occupied /\ MatchingSlots' = MatchingSlots /\ (CacheHoldsOne <=> CacheHoldsOne')
  BY OccupiedNext DEF MatchingSlots, CacheHoldsOne, FreeSlots
<1>4. line \in ResponseLine
  BY DEF CurrentLines
<1>5. CASE step # "remove"
  <2>1. OneOutstanding
    BY <1>5 DEF ChannelInv, OutstandingOK
  <2>2. Quiet' /\ Occupied' = {}
    BY <1>1, <1>3, <1>4, <2>1 DEF OneOutstanding, Quiet
  <2>3. OneOutstanding' /\ OneOld' /\ RemovalLast' /\ CacheOK'
    BY <2>2, QuietSufficesNext
  <2>4. step' # "remove" /\ ~cleanup_confirmed'
    BY <1>2, <1>5, AcceptPlace
  <2>5. FrameOK'
    <3>1. Len(to_radio') = 0
      BY <2>2 DEF Quiet
    <3> QED
      BY <3>1 DEF FrameOK
  <2> QED
    BY <1>2, <2>2, <2>3, <2>4, <2>5
       DEF ChannelInv, LinkOK, QuietOK, OutstandingOK, RemovalOK, ConfirmedOK
<1>6. CASE step = "remove"
  <2>1. pc' = "closed" /\ step' = step
    BY <1>6, AcceptPlace
  <2>2. RemovalLast
    BY <1>6 DEF ChannelInv, RemovalOK, Awaiting
  <2>3. to_radio = <<>>
    BY <1>1, <2>2 DEF RemovalLast
  <2>4. line.response.code = 0 => radio_id = NoId
    <3>1. line.response.code = 0 => line \in AcceptingLines
      BY DEF AcceptingLines
    <3> QED
      BY <1>1, <2>2, <3>1 DEF RemovalLast
  <2>5. ConfirmedOK'
    BY <1>2, <1>6, <2>1, <2>3, <2>4, AcceptPlace DEF ConfirmedOK
  <2> QED
    BY <1>2, <1>3, <1>6, <2>1, <2>5
       DEF ChannelInv, LinkOK, QuietOK, OutstandingOK, FrameOK, RemovalOK, Awaiting,
           CacheOK
<1> QED
  BY <1>5, <1>6

\* A late answer, to the command before the cleanup command, is read.
LEMMA LateChannel ==
    ASSUME TypeOK, SystemTypeOK, ChannelInv, from_radio # <<>>,
           from_radio' = Tail(from_radio), Head(from_radio) \in OldLines,
           save_response(Head(from_radio).response), pc = "read", pc' = "await",
           UNCHANGED <<to_radio, radio_id, step, command, cleanup_confirmed,
                       sequence, link_up>>
    PROVE  ChannelInv'
<1> DEFINE line == Head(from_radio)
<1>1. /\ \A T : NoneIn(from_radio, T) => line \notin T /\ NoneIn(from_radio', T)
      /\ \A T : OneIn(from_radio, T) /\ line \in T => NoneIn(from_radio', T)
  BY TailIn DEF SystemTypeOK
<1>2. link_up /\ ~cleanup_confirmed
  BY DEF ChannelInv, LinkOK, ConfirmedOK
<1>3. step = "remove"
  BY <1>1 DEF ChannelInv, OutstandingOK, OneOutstanding
<1>4. OneOld /\ RemovalLast
  BY <1>3 DEF ChannelInv, RemovalOK, Awaiting
<1>5. Occupied = {} /\ NoneIn(to_radio, OldFrames) /\ NoneIn(from_radio', OldLines)
  BY <1>1, <1>4 DEF OneOld
<1>6. CacheOK'
  <2>1. line.response.sequence # sequence
    BY DEF OldLines
  <2>2. \A i \in Slots : saved_responses[i] = <<>>
    BY <1>5 DEF Occupied, FreeSlots
  <2>3. CASE UNCHANGED saved_responses
    BY <2>2, <2>3 DEF CacheOK, CacheHoldsOne, MatchingSlots, FreeSlots
  <2>4. CASE \E slot \in FreeSlots :
               saved_responses' = [saved_responses EXCEPT ![slot] = <<line.response>>]
    <3>1. PICK slot \in Slots :
             saved_responses' = [saved_responses EXCEPT ![slot] = <<line.response>>]
      BY <2>4 DEF FreeSlots
    <3>2. DOMAIN saved_responses = Slots
      BY DEF TypeOK
    <3>3. \A i \in Slots : i # slot => saved_responses'[i] = <<>>
      BY <2>2, <3>1, <3>2
    <3>4. saved_responses'[slot] = <<line.response>>
      BY <3>1, <3>2
    <3>5. MatchingSlots' = {}
      BY <2>1, <3>3, <3>4 DEF MatchingSlots
    <3>6. CacheHoldsOne'
      BY <3>3 DEF CacheHoldsOne, FreeSlots
    <3> QED
      BY <3>5, <3>6 DEF CacheOK
  <2> QED
    BY <2>3, <2>4 DEF save_response
<1>7. /\ OldFrames' = OldFrames /\ CurrentFrames' = CurrentFrames
      /\ OldLines' = OldLines /\ CurrentLines' = CurrentLines
      /\ AcceptingLines' = AcceptingLines
  BY DEF OldFrames, CurrentFrames, OldLines, CurrentLines, AcceptingLines
<1>8. OneOld'
  <2>1. OneIn(to_radio', OldFrames') /\ OneIn(from_radio', OldLines')
    BY <1>4, <1>5, <1>7, NoneInPart DEF OneOld
  <2> QED
    BY <1>5, <1>7, <2>1 DEF OneOld
<1>9. RemovalLast'
  BY <1>1, <1>4, <1>7 DEF RemovalLast
<1> QED
  BY <1>2, <1>3, <1>6, <1>8, <1>9
     DEF ChannelInv, LinkOK, QuietOK, OutstandingOK, FrameOK, RemovalOK, ConfirmedOK

LEMMA ReadChannel ==
    ASSUME TypeOK, ControlOK, SystemTypeOK, ChannelInv, SystemRead
    PROVE  ChannelInv'
<1> USE DEF radio_vars, interlock
<1> DEFINE line == Head(from_radio)
<1>1. /\ from_radio # <<>> /\ from_radio' = Tail(from_radio)
      /\ UNCHANGED <<to_radio, radio_id>>
  BY DEF SystemRead
<1>2. line \in Line
  BY <1>1, HeadAndTail DEF SystemTypeOK
<1>3. line \in ResponseLine <=> line.kind = "response"
  BY <1>2, KindOfLine
<1>4. CASE PollLine(line)
  <2>1. line \notin ResponseLine
    <3>1. NoneIn(from_radio, ResponseLine)
      BY <1>4 DEF PollLine, ChannelInv, QuietOK, Quiet
    <3> QED
      BY <1>1, <3>1, TailIn DEF SystemTypeOK
  <2> QED
    BY <1>1, <1>4, <2>1, StatusChannel DEF PollLine
<1>5. CASE ReadLine(line) /\ line \notin ResponseLine
  BY <1>1, <1>3, <1>5, StatusChannel DEF ReadLine
<1>6. CASE ReadLine(line) /\ line \in CurrentLines
  <2>1. line.kind = "response" /\ line.response.sequence = sequence
    BY <1>3, <1>6 DEF CurrentLines
  <2> QED
    BY <1>1, <1>6, <2>1, AnswerChannel DEF ReadLine
<1>7. CASE ReadLine(line) /\ line \in OldLines
  <2>1. line.kind = "response" /\ line.response.sequence # sequence
    BY <1>3, <1>7 DEF OldLines
  <2> QED
    BY <1>1, <1>7, <2>1, LateChannel DEF ReadLine
<1>8. line \in ResponseLine => line \in CurrentLines \/ line \in OldLines
  BY DEF CurrentLines, OldLines
<1> QED
  BY <1>4, <1>5, <1>6, <1>7, <1>8 DEF SystemRead

-----------------------------------------------------------------------------
(* The radio.                                                              *)

\* The line answers the first frame: what an accepted command did, and what
\* reaches the session.
Answers(line) ==
    /\ line \in ResponseLine
    /\ line.response.sequence = Head(to_radio).sequence
    /\ line.response.code = 0 =>
          /\ Head(to_radio).command = "remove" => radio_id' = NoId
          /\ Head(to_radio).command = "not_ready" => ~radio_ready'
          /\ Head(to_radio).command = "sub tx" => subscribed'
    /\ \/ ~link_up /\ from_radio' = from_radio
       \/ /\ link_up /\ from_radio' = from_radio \o <<line>>
          /\ UNCHANGED subscribed
       \/ /\ link_up
          /\ from_radio' = (from_radio \o <<line>>)
                              \o <<FullReport(radio_hz, radio_antenna)>>

LEMMA AppendTwo ==
    ASSUME NEW S, NEW s \in Seq(S), NEW a \in S, NEW b \in S
    PROVE  s \o <<a, b>> = (s \o <<a>>) \o <<b>>
<1>1. <<a>> \in Seq(S) /\ <<b>> \in Seq(S) /\ <<a, b>> \in Seq(S)
  OBVIOUS
<1>2. <<a>> \o <<b>> \in Seq(S) /\ Len(<<a>> \o <<b>>) = 2
  OBVIOUS
<1>3. (<<a>> \o <<b>>)[1] = a /\ (<<a>> \o <<b>>)[2] = b
  OBVIOUS
<1>4. Len(<<a, b>>) = 2 /\ <<a, b>>[1] = a /\ <<a, b>>[2] = b
  OBVIOUS
<1>5. \A i \in 1 .. Len(<<a, b>>) : i = 1 \/ i = 2
  BY <1>4
<1>6. \A i \in 1 .. Len(<<a, b>>) : <<a, b>>[i] = (<<a>> \o <<b>>)[i]
  BY <1>3, <1>4, <1>5
<1>7. <<a, b>> = <<a>> \o <<b>>
  BY <1>1, <1>2, <1>4, <1>6, SeqEqual
<1> QED
  BY <1>1, <1>7, ConcatAssociative

LEMMA RadioAnswers ==
    ASSUME SystemTypeOK, RadioAccepts \/ RadioRejects
    PROVE  \E line \in Line : Answers(line)
<1> DEFINE frame == Head(to_radio)
<1>1. frame \in Frame
  BY HeadAndTail DEF RadioAccepts, RadioRejects, SystemTypeOK
<1>2. \A code \in Codes, body \in Ids \cup {NoId} :
        LET line == ResponseTo(frame, code, body)
        IN  /\ line \in Line /\ line \in ResponseLine
            /\ line.response.sequence = frame.sequence
            /\ line.response.code = code
  <2> SUFFICES ASSUME NEW code \in Codes, NEW body \in Ids \cup {NoId}
               PROVE  LET line == ResponseTo(frame, code, body)
                      IN  /\ line \in Line /\ line \in ResponseLine
                          /\ line.response.sequence = frame.sequence
                          /\ line.response.code = code
    OBVIOUS
  <2>1. ResponseTo(frame, code, body) \in Line
    BY <1>1, ResponseToType
  <2>2. /\ ResponseTo(frame, code, body).kind = "response"
        /\ ResponseTo(frame, code, body).response.sequence = frame.sequence
        /\ ResponseTo(frame, code, body).response.code = code
    BY DEF ResponseTo
  <2> QED
    BY <2>1, <2>2, KindOfLine
<1>3. from_radio \in Seq(Line)
  BY DEF SystemTypeOK
<1>4. ASSUME NEW code \in Codes, NEW body \in Ids \cup {NoId},
             Deliver(<<ResponseTo(frame, code, body)>>), UNCHANGED subscribed,
             code = 0 => /\ frame.command = "remove" => radio_id' = NoId
                         /\ frame.command = "not_ready" => ~radio_ready'
                         /\ frame.command # "sub tx"
      PROVE  \E line \in Line : Answers(line)
  <2> DEFINE line == ResponseTo(frame, code, body)
  <2>1. /\ line \in Line /\ line \in ResponseLine
        /\ line.response.sequence = frame.sequence
        /\ line.response.code = code
    BY <1>2
  <2>2. from_radio' = IF link_up THEN from_radio \o <<line>> ELSE from_radio
    BY <1>4 DEF Deliver
  <2> HIDE DEF line
  <2>3. Answers(line)
    BY <1>4, <2>1, <2>2 DEF Answers
  <2> QED
    BY <2>1, <2>3
<1>5. CASE RadioRejects
  <2>1. PICK code \in Codes \ {0} : Deliver(<<ResponseTo(frame, code, NoId)>>)
    BY <1>5 DEF RadioRejects
  <2> QED
    BY <1>4, <1>5, <2>1 DEF RadioRejects, radio_vars
<1>6. CASE RadioAccepts /\ frame.command = "sub tx"
  <2> DEFINE line == ResponseTo(frame, 0, NoId)
             report == FullReport(radio_hz, radio_antenna)
  <2>1. /\ line \in Line /\ line \in ResponseLine
        /\ line.response.sequence = frame.sequence
    BY <1>2, SuccessIsACode
  <2>2. report \in Line
    BY ReportType DEF SystemTypeOK
  <2>3. subscribed' = TRUE /\ Deliver(<<line, report>>)
    BY <1>6 DEF RadioAccepts
  <2>4. from_radio' = IF link_up THEN (from_radio \o <<line>>) \o <<report>>
                                 ELSE from_radio
    <3>1. from_radio \o <<line, report>> = (from_radio \o <<line>>) \o <<report>>
      BY <1>3, <2>1, <2>2, AppendTwo
    <3> QED
      BY <2>3, <3>1 DEF Deliver
  <2> HIDE DEF line
  <2>5. Answers(line)
    BY <1>6, <2>1, <2>3, <2>4 DEF Answers
  <2> QED
    BY <2>1, <2>5
<1>7. CASE RadioAccepts /\ frame.command # "sub tx"
  <2>1. PICK body \in Ids \cup {NoId} : Deliver(<<ResponseTo(frame, 0, body)>>)
    BY <1>7, Zenon DEF RadioAccepts
  <2>2. /\ UNCHANGED subscribed
        /\ frame.command = "remove" => radio_id' = NoId
        /\ frame.command = "not_ready" => ~radio_ready'
    BY <1>7 DEF RadioAccepts
  <2> QED
    BY <1>4, <1>7, <2>1, <2>2, SuccessIsACode
<1> QED
  BY <1>5, <1>6, <1>7

\* A status is no response.
LEMMA ReportIsStatus ==
    /\ \A hz \in Frequencies, antenna \in Names :
          FullReport(hz, antenna) \notin ResponseLine
    /\ \A hz \in Frequencies : FrequencyReport(hz) \notin ResponseLine
    /\ \A antenna \in Names : AntennaReport(antenna) \notin ResponseLine
    /\ \A state \in InterlockStates : StateReport(state) \notin ResponseLine
BY DEF FullReport, FrequencyReport, AntennaReport, StateReport, ResponseLine

\* An answer adds one response to the unread lines, at most.
LEMMA AnswerAdds ==
    ASSUME SystemTypeOK, NEW line \in Line, Answers(line)
    PROVE  \A T : T \subseteq ResponseLine =>
              /\ NoneIn(from_radio, T) => OneIn(from_radio', T)
              /\ NoneIn(from_radio, T) /\ line \notin T => NoneIn(from_radio', T)
              /\ OneIn(from_radio, T) /\ line \notin T => OneIn(from_radio', T)
<1> SUFFICES ASSUME NEW T, T \subseteq ResponseLine
             PROVE  /\ NoneIn(from_radio, T) => OneIn(from_radio', T)
                    /\ NoneIn(from_radio, T) /\ line \notin T => NoneIn(from_radio', T)
                    /\ OneIn(from_radio, T) /\ line \notin T => OneIn(from_radio', T)
  OBVIOUS
<1> DEFINE one == from_radio \o <<line>>
           report == FullReport(radio_hz, radio_antenna)
<1>1. /\ NoneIn(from_radio, T) => OneIn(one, T)
      /\ NoneIn(from_radio, T) /\ line \notin T => NoneIn(one, T)
      /\ OneIn(from_radio, T) /\ line \notin T => OneIn(one, T)
  BY AppendIn DEF SystemTypeOK
<1>2. report \in Line /\ report \notin T
  BY ReportType, ReportIsStatus DEF SystemTypeOK
<1>3. one \in Seq(Line)
  BY AppendAt DEF SystemTypeOK
<1> HIDE DEF one, report
<1>4. /\ NoneIn(one, T) => NoneIn(one \o <<report>>, T)
      /\ OneIn(one, T) => OneIn(one \o <<report>>, T)
  BY <1>2, <1>3, AppendIn
<1>5. NoneIn(from_radio, T) => OneIn(from_radio, T)
  BY NoneInPart
<1>6. from_radio' = from_radio \/ from_radio' = one \/ from_radio' = one \o <<report>>
  BY DEF Answers, one, report
<1> QED
  BY <1>1, <1>4, <1>5, <1>6

LEMMA AnswersChannel ==
    ASSUME SystemTypeOK, ChannelInv, RadioAccepts \/ RadioRejects
    PROVE  ChannelInv'
<1> DEFINE frame == Head(to_radio)
<1>1. /\ to_radio # <<>> /\ to_radio' = Tail(to_radio)
      /\ UNCHANGED <<pc, step, command, sequence, saved_responses, cleanup_confirmed,
                     link_up>>
  BY DEF RadioAccepts, RadioRejects, vars
<1>2. /\ to_radio \in Seq(Frame) /\ frame \in Frame /\ frame = to_radio[1]
      /\ to_radio' \in Seq(Frame)
      /\ Len(to_radio') = Len(to_radio) - 1 /\ Len(to_radio) \in Nat \ {0}
      /\ \A i \in 1 .. Len(to_radio) - 1 : to_radio'[i] = to_radio[i + 1]
  BY <1>1, TailAt, HeadAndTail DEF SystemTypeOK
<1>3. PICK line \in Line : Answers(line)
  BY RadioAnswers
<1>4. /\ line \in ResponseLine /\ line.response.sequence = frame.sequence
      /\ line.response.code = 0 /\ frame.command = "remove" => radio_id' = NoId
      /\ ~link_up => from_radio' = from_radio
  BY <1>3 DEF Answers
<1>5. \A T : /\ NoneIn(to_radio, T) => frame \notin T /\ NoneIn(to_radio', T)
             /\ OneIn(to_radio, T) => OneIn(to_radio', T)
             /\ OneIn(to_radio, T) /\ frame \in T => NoneIn(to_radio', T)
  BY <1>1, <1>2, TailIn
<1>6. \A T : T \subseteq ResponseLine =>
              /\ NoneIn(from_radio, T) => OneIn(from_radio', T)
              /\ NoneIn(from_radio, T) /\ line \notin T => NoneIn(from_radio', T)
              /\ OneIn(from_radio, T) /\ line \notin T => OneIn(from_radio', T)
  BY <1>3, AnswerAdds
<1>7. /\ OldFrames' = OldFrames /\ CurrentFrames' = CurrentFrames
      /\ OldLines' = OldLines /\ CurrentLines' = CurrentLines
      /\ AcceptingLines' = AcceptingLines
  BY <1>1 DEF OldFrames, CurrentFrames, OldLines, CurrentLines, AcceptingLines
<1>8. Occupied' = Occupied /\ MatchingSlots' = MatchingSlots /\ (CacheHoldsOne <=> CacheHoldsOne')
  BY <1>1, OccupiedNext DEF MatchingSlots, CacheHoldsOne, FreeSlots
<1>9. /\ frame \in CurrentFrames <=> frame \notin OldFrames
      /\ frame \in CurrentFrames => line \notin OldLines
      /\ frame \in OldFrames => line \notin CurrentLines /\ line \notin AcceptingLines
  BY <1>2, <1>4
     DEF CurrentFrames, OldFrames, CurrentLines, OldLines, AcceptingLines
<1>10. LinkOK' /\ QuietOK' /\ CacheOK' /\ ConfirmedOK'
  BY <1>1, <1>4, <1>8
     DEF ChannelInv, LinkOK, QuietOK, Quiet, CacheOK, ConfirmedOK
<1>11. FrameOK'
  BY <1>1, <1>2 DEF ChannelInv, FrameOK
<1>12. OutstandingOK'
  <2> SUFFICES ASSUME step # "remove" \/ pc = "send" PROVE OneOutstanding'
    BY <1>1 DEF OutstandingOK
  <2>1. OneOutstanding /\ NoneIn(from_radio, ResponseLine)
    BY <1>1 DEF ChannelInv, OutstandingOK, OneOutstanding
  <2>2. frame \in CurrentFrames
    BY <1>5, <1>9, <2>1 DEF OneOutstanding
  <2>3. to_radio' = <<>>
    <3>1. NoneIn(to_radio', Frame)
      BY <1>2, <1>5, <2>1 DEF OneOutstanding
    <3>2. Len(to_radio') = 0
      <4>1. \A i \in 1 .. Len(to_radio') : to_radio'[i] \in Frame
        BY <1>2
      <4>2. ~(1 \in 1 .. Len(to_radio'))
        BY <3>1, <4>1 DEF NoneIn
      <4> QED
        BY <1>2, <4>2
    <3> QED
      BY <1>2, <3>2
  <2>4. OneIn(from_radio', ResponseLine)
    BY <1>6, <2>1
  <2>5. NoneIn(from_radio', OldLines')
    BY <1>6, <1>7, <1>9, <2>1, <2>2, ResponseParts DEF OneOutstanding
  <2>6. NoneIn(to_radio', OldFrames') /\ OneIn(to_radio', Frame)
    BY <2>3, EmptyIn
  <2> QED
    BY <1>8, <2>1, <2>3, <2>4, <2>5, <2>6 DEF OneOutstanding
<1>13. RemovalOK'
  <2> SUFFICES ASSUME step = "remove", Awaiting PROVE OneOld' /\ RemovalLast'
    BY <1>1 DEF RemovalOK, Awaiting
  <2>1. OneOld /\ RemovalLast /\ NoneIn(from_radio, CurrentLines)
    BY <1>1 DEF ChannelInv, RemovalOK, RemovalLast
  <2>2. NoneIn(from_radio, AcceptingLines)
    BY <2>1, ResponseParts, NoneInPart
  <2>3. AcceptingLines \subseteq ResponseLine
    BY ResponseParts
  <2>4. \A i \in 1 .. Len(to_radio') :
           to_radio'[i] \in CurrentFrames' =>
              i = Len(to_radio') /\ to_radio'[i].command = "remove"
    <3> SUFFICES ASSUME NEW i \in 1 .. Len(to_radio'), to_radio'[i] \in CurrentFrames
                 PROVE  i = Len(to_radio') /\ to_radio'[i].command = "remove"
      BY <1>7
    <3>1. i + 1 \in 1 .. Len(to_radio) /\ to_radio'[i] = to_radio[i + 1]
      BY <1>2
    <3>2. i + 1 = Len(to_radio) /\ to_radio[i + 1].command = "remove"
      BY <2>1, <3>1 DEF RemovalLast
    <3> QED
      BY <1>2, <3>1, <3>2
  <2>5. CASE frame \in OldFrames
    <3>1. /\ NoneIn(to_radio', OldFrames) /\ OneIn(to_radio', OldFrames)
          /\ Occupied = {} /\ NoneIn(from_radio, OldLines)
      BY <1>5, <2>1, <2>5 DEF OneOld
    <3>2. OneIn(from_radio', OldLines)
      BY <1>6, <3>1, ResponseParts
    <3>3. OneOld'
      BY <1>7, <1>8, <3>1, <3>2 DEF OneOld
    <3>4. NoneIn(from_radio', CurrentLines) /\ NoneIn(from_radio', AcceptingLines)
      BY <1>6, <1>9, <2>1, <2>2, <2>3, <2>5, ResponseParts
    <3> QED
      BY <1>7, <2>4, <3>3, <3>4 DEF RemovalLast
  <2>6. CASE frame \in CurrentFrames
    <3>1. Len(to_radio) = 1 /\ frame.command = "remove"
      <4>1. 1 \in 1 .. Len(to_radio)
        BY <1>2
      <4> QED
        BY <1>2, <2>1, <2>6, <4>1 DEF RemovalLast
    <3>2. to_radio' = <<>>
      BY <1>2, <3>1
    <3>3. NoneIn(to_radio', OldFrames') /\ OneIn(to_radio', OldFrames')
      BY <3>2, EmptyIn
    <3>4. /\ OneIn(from_radio', OldLines)
          /\ NoneIn(from_radio, OldLines) => NoneIn(from_radio', OldLines)
      BY <1>6, <1>9, <2>1, <2>6, ResponseParts DEF OneOld
    <3>5. OneOld'
      BY <1>7, <1>8, <2>1, <3>3, <3>4 DEF OneOld
    <3>6. radio_id' = NoId \/ NoneIn(from_radio', AcceptingLines)
      <4>1. line \in AcceptingLines => line.response.code = 0
        BY DEF AcceptingLines
      <4> QED
        BY <1>4, <1>6, <2>2, <2>3, <3>1, <4>1
    <3> QED
      BY <1>7, <2>4, <3>2, <3>5, <3>6 DEF RemovalLast
  <2> QED
    BY <1>9, <2>5, <2>6
<1> QED
  BY <1>10, <1>11, <1>12, <1>13 DEF ChannelInv

\* What the operator does is reported by one status line.
LEMMA OperatorReports ==
    ASSUME SystemTypeOK', Tune \/ SelectAntenna \/ SelectSlice \/ Key \/ Transmit \/ Unkey
    PROVE  /\ UNCHANGED <<vars, to_radio, radio_id, radio_ready, subscribed>>
           /\ link_up /\ subscribed /\ pc # "closed"
           /\ \E line \in Line : /\ line \notin ResponseLine
                                 /\ from_radio' = from_radio \o <<line>>
<1>1. OperatorActs
  BY DEF Tune, SelectAntenna, SelectSlice, Key, Transmit, Unkey
<1>2. radio_hz' \in Frequencies /\ radio_antenna' \in Names
  BY DEF SystemTypeOK
<1>3. \E line \in Line : line \notin ResponseLine /\ Report(line)
  BY <1>2, ReportType, ReportIsStatus
     DEF Tune, SelectAntenna, SelectSlice, Key, Transmit, Unkey, InterlockStates
<1> QED
  BY <1>1, <1>3 DEF OperatorActs, Report, Deliver, interlock

LEMMA OperatorChannel ==
    ASSUME SystemTypeOK, SystemTypeOK', ChannelInv,
           Tune \/ SelectAntenna \/ SelectSlice \/ Key \/ Transmit \/ Unkey
    PROVE  ChannelInv'
<1>1. /\ UNCHANGED <<vars, to_radio, radio_id>> /\ link_up
      /\ \E line \in Line : line \notin ResponseLine /\ from_radio' = from_radio \o <<line>>
  BY OperatorReports
<1>2. PICK line \in Line : line \notin ResponseLine /\ from_radio' = from_radio \o <<line>>
  BY <1>1
<1>3. \A T : T \subseteq ResponseLine =>
        /\ NoneIn(from_radio, T) => NoneIn(from_radio', T)
        /\ OneIn(from_radio, T) => OneIn(from_radio', T)
  BY <1>2, AppendIn DEF SystemTypeOK
<1>4. /\ OldFrames' = OldFrames /\ CurrentFrames' = CurrentFrames
      /\ OldLines' = OldLines /\ CurrentLines' = CurrentLines
      /\ AcceptingLines' = AcceptingLines
  BY <1>1 DEF vars, OldFrames, CurrentFrames, OldLines, CurrentLines, AcceptingLines
<1>5. Occupied' = Occupied /\ MatchingSlots' = MatchingSlots /\ (CacheHoldsOne <=> CacheHoldsOne')
  BY <1>1, OccupiedNext DEF vars, MatchingSlots, CacheHoldsOne, FreeSlots
<1>6. LinkOK' /\ FrameOK' /\ CacheOK' /\ ConfirmedOK'
  BY <1>1, <1>5 DEF vars, ChannelInv, LinkOK, FrameOK, CacheOK, ConfirmedOK
<1>7. QuietOK' /\ OutstandingOK'
  BY <1>1, <1>3, <1>4, <1>5, ResponseParts
     DEF vars, ChannelInv, QuietOK, Quiet, OutstandingOK, OneOutstanding
<1>8. RemovalOK'
  <2>1. AcceptingLines \subseteq ResponseLine
    BY ResponseParts
  <2> QED
    BY <1>1, <1>3, <1>4, <1>5, <2>1, ResponseParts
       DEF vars, ChannelInv, RemovalOK, Awaiting, OneOld, RemovalLast
<1> QED
  BY <1>6, <1>7, <1>8 DEF ChannelInv

LEMMA InitChannel == SystemInit => ChannelInv
<1> SUFFICES ASSUME SystemInit PROVE ChannelInv
  OBVIOUS
<1>1. /\ to_radio = <<>> /\ from_radio = <<>> /\ ~cleanup_confirmed
      /\ step = "name" /\ pc = "connect" /\ link_up
  BY DEF SystemInit, SessionInit
<1>2. Quiet /\ Occupied = {}
  BY <1>1, EmptyIn DEF Quiet, Occupied, FreeSlots, SystemInit, SessionInit
<1>3. OneOutstanding /\ CacheOK
  BY <1>2, QuietSuffices
<1>4. FrameOK
  <2>1. Len(to_radio) = 0
    BY <1>1
  <2> QED
    BY <2>1 DEF FrameOK
<1> QED
  BY <1>1, <1>2, <1>3, <1>4
     DEF ChannelInv, LinkOK, QuietOK, OutstandingOK, RemovalOK, ConfirmedOK

\* The invariants of the session and the types, which every step may use.
SystemInv == SessionInv /\ SystemTypeOK

LEMMA StepSystemInv == SystemInv /\ [SystemNext]_system_vars => SystemInv'
BY SystemStepSimulates, SystemStepType, StepType, StepControl, StepReady
   DEF SystemInv, SessionInv

LEMMA StepChannel ==
    SystemInv /\ ChannelInv /\ [SystemNext]_system_vars => ChannelInv'
<1> SUFFICES ASSUME SystemInv, ChannelInv, [SystemNext]_system_vars PROVE ChannelInv'
  OBVIOUS
<1>0. TypeOK /\ ControlOK /\ SystemTypeOK /\ TypeOK' /\ SystemTypeOK'
  BY StepSystemInv DEF SystemInv, SessionInv
<1>1. CASE SystemSend
  BY <1>0, <1>1, SendChannel
<1>2. CASE SystemRead
  BY <1>0, <1>2, ReadChannel
<1>3. CASE SystemReadPartial \/ SystemClock \/ SystemSignal
  BY <1>3, OutsideChannel
<1>4. CASE SystemLoses
  BY <1>0, <1>4, LosesChannel
<1>5. CASE SystemLocal
  BY <1>0, <1>5, LocalChannel
<1>6. CASE RadioAccepts \/ RadioRejects
  BY <1>0, <1>6, AnswersChannel
<1>7. CASE Tune \/ SelectAntenna \/ SelectSlice \/ Key \/ Transmit \/ Unkey
  BY <1>0, <1>7, OperatorChannel
<1>8. CASE UNCHANGED system_vars
  <2>1. UNCHANGED <<to_radio, from_radio, sequence, saved_responses, radio_id,
                    link_up, pc, step, command, cleanup_confirmed>>
    BY <1>8 DEF system_vars, vars, radio_vars, interlock
  <2>2. /\ pc' \in {"connect", "loop", "poll"} \/ (pc' = "send" /\ step' # "remove")
              => Quiet
        /\ Awaiting' = Awaiting
    BY <2>1 DEF ChannelInv, QuietOK, Awaiting
  <2> QED
    BY <2>1, <2>2, ChannelStays
<1> QED
  BY <1>1, <1>2, <1>3, <1>4, <1>5, <1>6, <1>7, <1>8 DEF SystemNext, RadioNext

LEMMA ChannelInvHolds == SystemSpec => [](SystemInv /\ ChannelInv)
<1>1. SystemInit => SystemInv
  <2>1. SessionInit => ReadyOK
    BY DEF SessionInit, ReadyOK, ReadyIsJustified, ReadyIsNotStale
  <2> QED
    BY <2>1, InitType, InitControl, SystemInitType DEF SystemInit, SystemInv, SessionInv
<1>2. SystemInv /\ ChannelInv /\ [SystemNext]_system_vars => SystemInv' /\ ChannelInv'
  BY StepSystemInv, StepChannel
<1> QED
  BY <1>1, <1>2, InitChannel, PTL DEF SystemSpec

(***************************************************************************)
(* The response cache never overflows: with a radio that answers each      *)
(* command once, at most one response waits in it, however many slots it   *)
(* has and however late the answers are.                                   *)
(***************************************************************************)
THEOREM CacheNeverFills == SystemSpec => []CacheHoldsOne
<1>1. ChannelInv => CacheHoldsOne
  BY DEF ChannelInv, CacheOK
<1> QED
  BY <1>1, ChannelInvHolds, PTL

(***************************************************************************)
(* "Removed interlock" is logged only if the radio removed it: an answer   *)
(* that comes after its command was given up is never taken for the answer *)
(* to the cleanup command.                                                 *)
(***************************************************************************)
THEOREM RemovalIsReal == SystemSpec => []ConfirmedRemovalIsReal
<1>1. ChannelInv => ConfirmedRemovalIsReal
  BY DEF ChannelInv, ConfirmedOK, ConfirmedRemovalIsReal
<1> QED
  BY <1>1, ChannelInvHolds, PTL

-----------------------------------------------------------------------------
(* What a sequence of reports says.                                        *)

\* The last report in T is in G, or else, with no such report, K holds.
Told(s, T, G, K) == LastIn(s, T, G) /\ (NoneIn(s, T) => K)

LEMMA ToldAppend ==
    ASSUME NEW S, NEW s \in Seq(S), NEW x \in S, NEW T, NEW G, NEW K
    PROVE  /\ x \in T /\ x \in G => Told(s \o <<x>>, T, G, K)
           /\ Told(s, T, G, K) /\ x \notin T => Told(s \o <<x>>, T, G, K)
<1>1. /\ x \in T /\ x \in G => LastIn(s \o <<x>>, T, G)
      /\ LastIn(s, T, G) /\ x \notin T => LastIn(s \o <<x>>, T, G)
  BY AppendLast
<1>2. NoneIn(s \o <<x>>, T) <=> x \notin T /\ NoneIn(s, T)
  BY AppendIn
<1> QED
  BY <1>1, <1>2 DEF Told

LEMMA ToldRead ==
    ASSUME NEW S, NEW s \in Seq(S), s # <<>>, NEW T, NEW G, NEW K, NEW L,
           Told(s, T, G, K),
           Head(s) \in T /\ Head(s) \in G => L,
           Head(s) \notin T /\ K => L
    PROVE  Told(Tail(s), T, G, L)
<1>1. /\ LastIn(s, T, G) => LastIn(Tail(s), T, G)
      /\ LastIn(s, T, G) /\ Head(s) \in T /\ NoneIn(Tail(s), T) => Head(s) \in G
  BY TailLast
<1>2. NoneIn(s, T) <=> Head(s) \notin T /\ NoneIn(Tail(s), T)
  BY TailIn
<1> QED
  BY <1>1, <1>2 DEF Told

-----------------------------------------------------------------------------
(* The reports in the channel.                                             *)

\* The lines that say something of the antenna, of the frequency, of the PTT.
AntennaLines == {l \in TransmitLine : l.tx_antenna # NoField}

FrequencyLines == {l \in TransmitLine : l.freq # NoField \/ SaysInvalid(l)}

KeyLines ==
    {l \in InterlockLine : l.state \in {"PTT_REQUESTED", "UNKEY_REQUESTED"}}

\* Those of them that say what is so at the radio.
TrueAntenna == {l \in TransmitLine : l.tx_antenna = radio_antenna}

TrueFrequency ==
    {l \in TransmitLine : /\ l.freq = [hz |-> radio_hz, clean |-> TRUE]
                          /\ ~SaysInvalid(l)}

TrueKey == {l \in InterlockLine : l.state = "PTT_REQUESTED" => radio_keyed}

\* What handle_transmit makes of the radio's antenna.
KnownAntenna ==
    IF NoSlice \/ radio_antenna \in LongNames THEN "" ELSE radio_antenna

AntennaTold ==
    Told(from_radio, AntennaLines, TrueAntenna, tx_antenna = KnownAntenna)

FrequencyTold ==
    ~NoSlice => Told(from_radio, FrequencyLines, TrueFrequency,
                     has_frequency /\ frequency_mhz = radio_hz)

KeyTold == Told(from_radio, KeyLines, TrueKey, keyed => radio_keyed)

Listening == link_up /\ pc # "closed"

ContextInv ==
    /\ subscribed /\ Listening => AntennaTold /\ FrequencyTold
    /\ Listening => KeyTold

\* Steps that neither read nor report.
LEMMA ContextStays ==
    ASSUME ContextInv, Listening' => Listening,
           UNCHANGED <<from_radio, context, keyed, radio_context, radio_keyed, subscribed>>
    PROVE  ContextInv'
<1>1. UNCHANGED <<has_frequency, frequency_mhz, tx_antenna, radio_hz, radio_antenna>>
  BY DEF context, radio_context
<1>2. /\ NoSlice' = NoSlice /\ KnownAntenna' = KnownAntenna
      /\ TrueAntenna' = TrueAntenna /\ TrueFrequency' = TrueFrequency
      /\ TrueKey' = TrueKey
  BY <1>1 DEF NoSlice, KnownAntenna, TrueAntenna, TrueFrequency, TrueKey
<1>3. AntennaTold => AntennaTold'
  BY <1>1, <1>2 DEF AntennaTold
<1>4. FrequencyTold => FrequencyTold'
  BY <1>1, <1>2 DEF FrequencyTold
<1>5. KeyTold => KeyTold'
  BY DEF KeyTold, TrueKey
<1> QED
  BY <1>3, <1>4, <1>5 DEF ContextInv

\* No report is a response, and each is of one kind.
LEMMA KindsOfReport ==
    /\ \A l \in ResponseLine : l \notin TransmitLine /\ l \notin InterlockLine
    /\ \A l \in InterlockLine : l \notin TransmitLine
    /\ \A l \in Line : /\ l \in TransmitLine <=> l.kind = "transmit"
                       /\ l \in InterlockLine <=> l.kind = "interlock"
BY DEF Line, ResponseLine, StatusLine, TransmitLine, InterlockLine, OtherLine

\* The radio answers a command: its response reports nothing, and the full
\* report that follows the subscription reports everything.
LEMMA AnswersContext ==
    ASSUME SystemTypeOK, ContextInv, RadioAccepts \/ RadioRejects
    PROVE  ContextInv'
<1>1. UNCHANGED <<link_up, pc, has_frequency, frequency_mhz, tx_antenna, keyed,
                  radio_hz, radio_antenna, radio_keyed>>
  BY DEF RadioAccepts, RadioRejects, vars, radio_vars, radio_context
<1>2. PICK line \in Line : Answers(line)
  BY RadioAnswers
<1>3. /\ line \notin AntennaLines /\ line \notin FrequencyLines /\ line \notin KeyLines
  BY <1>2, KindsOfReport DEF Answers, AntennaLines, FrequencyLines, KeyLines
<1>4. /\ NoSlice' = NoSlice /\ KnownAntenna' = KnownAntenna
      /\ TrueAntenna' = TrueAntenna /\ TrueFrequency' = TrueFrequency
      /\ TrueKey' = TrueKey
  BY <1>1 DEF NoSlice, KnownAntenna, TrueAntenna, TrueFrequency, TrueKey
<1> DEFINE one == from_radio \o <<line>>
           report == FullReport(radio_hz, radio_antenna)
           AT(s) == Told(s, AntennaLines, TrueAntenna, tx_antenna = KnownAntenna)
           FT(s) == Told(s, FrequencyLines, TrueFrequency,
                         has_frequency /\ frequency_mhz = radio_hz)
           KT(s) == Told(s, KeyLines, TrueKey, keyed => radio_keyed)
<1>5. /\ AT(from_radio) => AT(one)
      /\ FT(from_radio) => FT(one)
      /\ KT(from_radio) => KT(one)
  BY <1>3, ToldAppend DEF SystemTypeOK
<1>6. one \in Seq(Line) /\ report \in Line
  BY AppendAt, ReportType DEF SystemTypeOK
<1>7. report \in TransmitLine
  BY <1>6, KindsOfReport DEF FullReport
<1>8. /\ report \in AntennaLines /\ report \in TrueAntenna
      /\ ~NoSlice => report \in FrequencyLines /\ report \in TrueFrequency
      /\ report \notin KeyLines
  <2>1. report.tx_antenna = radio_antenna /\ report.freq = [hz |-> radio_hz, clean |-> TRUE]
    BY DEF FullReport
  <2>2. radio_antenna # NoField /\ [hz |-> radio_hz, clean |-> TRUE] # NoField
    <3>1. radio_antenna \in Names /\ [hz |-> radio_hz, clean |-> TRUE] \in [hz : Frequencies, clean : BOOLEAN]
      BY DEF SystemTypeOK
    <3>2. NoField \notin Names /\ NoField \notin [hz : Frequencies, clean : BOOLEAN]
      BY SessionAssumption, Zenon
    <3> QED
      BY <3>1, <3>2
  <2> HIDE DEF report
  <2>3. SaysInvalid(report) <=> NoSlice
    BY <2>1, <2>2 DEF SaysInvalid, NoSlice
  <2> QED
    BY <1>7, <2>1, <2>2, <2>3, KindsOfReport
       DEF AntennaLines, TrueAntenna, FrequencyLines, TrueFrequency, KeyLines
<1>9. /\ AT(one \o <<report>>)
      /\ ~NoSlice => FT(one \o <<report>>)
      /\ KT(one) => KT(one \o <<report>>)
  <2> HIDE DEF one, report
  <2> QED
    BY <1>6, <1>8, ToldAppend
<1>10. /\ AntennaTold <=> AT(from_radio)
       /\ FrequencyTold <=> (~NoSlice => FT(from_radio))
       /\ KeyTold <=> KT(from_radio)
       /\ AntennaTold' <=> AT(from_radio')
       /\ FrequencyTold' <=> (~NoSlice => FT(from_radio'))
       /\ KeyTold' <=> KT(from_radio')
  BY <1>1, <1>4 DEF AntennaTold, FrequencyTold, KeyTold
<1> HIDE DEF AT, FT, KT, one, report
<1>11. CASE ~link_up
  BY <1>1, <1>11 DEF ContextInv, Listening
<1>12. CASE from_radio' = one /\ UNCHANGED subscribed
  BY <1>1, <1>5, <1>10, <1>12 DEF ContextInv, Listening
<1>13. CASE from_radio' = one \o <<report>>
  BY <1>1, <1>5, <1>9, <1>10, <1>13 DEF ContextInv, Listening
<1> QED
  BY <1>2, <1>11, <1>12, <1>13 DEF Answers, one, report

\* What the session makes of a status line.
LEMMA StatusContext ==
    ASSUME NEW line \in Line, handle_status(line)
    PROVE  /\ line \in TransmitLine => ReportedContext(line) /\ UNCHANGED keyed
           /\ line \notin TransmitLine => UNCHANGED context
           /\ line \in KeyLines => (keyed' => line.state = "PTT_REQUESTED")
           /\ line \notin KeyLines => keyed' = keyed
<1>1. /\ line \in TransmitLine <=> line.kind = "transmit"
      /\ line \in InterlockLine <=> line.kind = "interlock"
  BY KindsOfReport
<1>2. line \in KeyLines <=> /\ line \in InterlockLine
                            /\ line.state \in {"PTT_REQUESTED", "UNKEY_REQUESTED"}
  BY DEF KeyLines
<1>3. CASE line.kind = "transmit" /\ handle_transmit(line)
  BY <1>1, <1>2, <1>3 DEF handle_transmit
<1>4. CASE line.kind = "interlock" /\ handle_interlock(line)
  <2>1. NoField \notin {"PTT_REQUESTED", "UNKEY_REQUESTED"}
    BY NoStateAssumption DEF InterlockStates
  <2> QED
    BY <1>1, <1>2, <1>4, <2>1 DEF handle_interlock
<1>5. CASE /\ line.kind \in {"response", "other"}
           /\ UNCHANGED <<context, keyed>>
  BY <1>1, <1>2, <1>5
<1> QED
  BY <1>3, <1>4, <1>5 DEF handle_status

\* A transmit report that is read brings the session up to it.
LEMMA ReportRead ==
    ASSUME TypeOK, SystemTypeOK, NEW line \in TransmitLine, ReportedContext(line)
    PROVE  /\ line \in TrueAntenna => tx_antenna' = KnownAntenna
           /\ line \notin AntennaLines => UNCHANGED tx_antenna
           /\ line \in TrueFrequency => has_frequency' /\ frequency_mhz' = radio_hz
           /\ line \notin FrequencyLines =>
                 has_frequency' = has_frequency /\ UNCHANGED frequency_mhz
<1> DEFINE field == [hz |-> radio_hz, clean |-> TRUE]
<1>1. radio_antenna # NoField /\ field # NoField
  <2>1. radio_antenna \in Names /\ field \in [hz : Frequencies, clean : BOOLEAN]
    BY DEF SystemTypeOK
  <2>2. NoField \notin Names /\ NoField \notin [hz : Frequencies, clean : BOOLEAN]
    BY SessionAssumption, Zenon
  <2> QED
    BY <2>1, <2>2
<1>2. line \in TrueAntenna => tx_antenna' = KnownAntenna
  BY <1>1 DEF ReportedContext, TrueAntenna, KnownAntenna, SaysInvalid, NoSlice
<1>3. line \notin AntennaLines => UNCHANGED tx_antenna
  BY DEF ReportedContext, AntennaLines
<1>4. line \in TrueFrequency => has_frequency' /\ frequency_mhz' = radio_hz
  <2>1. field.clean = TRUE /\ field.hz = radio_hz
    OBVIOUS
  <2>2. line \in TrueFrequency => line.freq = field /\ ~SaysInvalid(line)
    BY DEF TrueFrequency
  <2> HIDE DEF field
  <2> QED
    BY <1>1, <2>1, <2>2 DEF ReportedContext
<1>5. line \notin FrequencyLines =>
        has_frequency' = has_frequency /\ UNCHANGED frequency_mhz
  BY DEF ReportedContext, FrequencyLines, TypeOK
<1> QED
  BY <1>2, <1>3, <1>4, <1>5

LEMMA ReadContext ==
    ASSUME TypeOK, SystemTypeOK, ContextInv, SystemRead
    PROVE  ContextInv'
<1> DEFINE line == Head(from_radio)
<1>1. /\ from_radio # <<>> /\ from_radio' = Tail(from_radio)
      /\ UNCHANGED <<radio_hz, radio_antenna, radio_keyed, subscribed>>
      /\ ReadLine(line) \/ PollLine(line)
  BY DEF SystemRead, radio_vars, radio_context
<1>2. line \in Line /\ from_radio \in Seq(Line)
  BY <1>1, HeadAndTail DEF SystemTypeOK
<1>3. pc \in {"read", "poll"} /\ link_up' = link_up
  BY <1>1 DEF ReadLine, PollLine
<1>4. /\ NoSlice' = NoSlice /\ KnownAntenna' = KnownAntenna
      /\ TrueAntenna' = TrueAntenna /\ TrueFrequency' = TrueFrequency
      /\ TrueKey' = TrueKey
  BY <1>1 DEF NoSlice, KnownAntenna, TrueAntenna, TrueFrequency, TrueKey
<1> HIDE DEF line
<1>5. \/ handle_status(line)
      \/ line \in ResponseLine /\ UNCHANGED <<context, keyed>>
  BY <1>1, <1>2, KindOfLine DEF ReadLine, PollLine
<1>6. /\ line \in TransmitLine => ReportedContext(line)
      /\ line \notin TransmitLine => UNCHANGED context
      /\ line \in KeyLines => (keyed' => line.state = "PTT_REQUESTED")
      /\ line \notin KeyLines => keyed' = keyed
  BY <1>2, <1>5, StatusContext, KindsOfReport DEF KeyLines
<1>7. /\ line \in AntennaLines /\ line \in TrueAntenna => tx_antenna' = KnownAntenna
      /\ line \notin AntennaLines /\ tx_antenna = KnownAntenna
            => tx_antenna' = KnownAntenna
  BY <1>6, ReportRead DEF AntennaLines, context
<1>8. /\ line \in FrequencyLines /\ line \in TrueFrequency
            => has_frequency' /\ frequency_mhz' = radio_hz
      /\ line \notin FrequencyLines /\ has_frequency /\ frequency_mhz = radio_hz
            => has_frequency' /\ frequency_mhz' = radio_hz
  BY <1>6, ReportRead DEF FrequencyLines, context
<1>9. /\ line \in KeyLines /\ line \in TrueKey => (keyed' => radio_keyed)
      /\ line \notin KeyLines /\ (keyed => radio_keyed) => (keyed' => radio_keyed)
  <2>1. line \in TrueKey => (line.state = "PTT_REQUESTED" => radio_keyed)
    BY DEF TrueKey
  <2>2. line \notin KeyLines => (keyed' => keyed)
    BY <1>6
  <2> QED
    BY <1>6, <2>1, <2>2, Zenon
<1>10. AntennaTold => AntennaTold'
  <2> SUFFICES ASSUME AntennaTold
               PROVE  Told(Tail(from_radio), AntennaLines, TrueAntenna, tx_antenna' = KnownAntenna)
    BY <1>1, <1>4 DEF AntennaTold
  <2> DEFINE K == tx_antenna = KnownAntenna
             L == tx_antenna' = KnownAntenna
  <2>1. Told(from_radio, AntennaLines, TrueAntenna, K)
    BY DEF AntennaTold
  <2>2. /\ Head(from_radio) \in AntennaLines /\ Head(from_radio) \in TrueAntenna => L
        /\ Head(from_radio) \notin AntennaLines /\ K => L
    BY <1>7 DEF line
  <2> HIDE DEF K, L
  <2>3. Told(Tail(from_radio), AntennaLines, TrueAntenna, L)
    BY <1>1, <1>2, <2>1, <2>2, ToldRead
  <2> QED
    BY <2>3 DEF L
<1>11. FrequencyTold => FrequencyTold'
  <2> SUFFICES ASSUME FrequencyTold, ~NoSlice
               PROVE  Told(Tail(from_radio), FrequencyLines, TrueFrequency,
                           has_frequency' /\ frequency_mhz' = radio_hz)
    BY <1>1, <1>4 DEF FrequencyTold
  <2> DEFINE K == has_frequency /\ frequency_mhz = radio_hz
             L == has_frequency' /\ frequency_mhz' = radio_hz
  <2>1. Told(from_radio, FrequencyLines, TrueFrequency, K)
    BY DEF FrequencyTold
  <2>2. /\ Head(from_radio) \in FrequencyLines /\ Head(from_radio) \in TrueFrequency => L
        /\ Head(from_radio) \notin FrequencyLines /\ K => L
    BY <1>8 DEF line
  <2> HIDE DEF K, L
  <2>3. Told(Tail(from_radio), FrequencyLines, TrueFrequency, L)
    BY <1>1, <1>2, <2>1, <2>2, ToldRead
  <2> QED
    BY <2>3 DEF L
<1>12. KeyTold => KeyTold'
  <2> SUFFICES ASSUME KeyTold
               PROVE  Told(Tail(from_radio), KeyLines, TrueKey, keyed' => radio_keyed)
    BY <1>1, <1>4 DEF KeyTold
  <2> DEFINE K == keyed => radio_keyed
             L == keyed' => radio_keyed
  <2>1. Told(from_radio, KeyLines, TrueKey, K)
    BY DEF KeyTold
  <2>2. /\ Head(from_radio) \in KeyLines /\ Head(from_radio) \in TrueKey => L
        /\ Head(from_radio) \notin KeyLines /\ K => L
    BY <1>9 DEF line
  <2> HIDE DEF K, L
  <2>3. Told(Tail(from_radio), KeyLines, TrueKey, L)
    BY <1>1, <1>2, <2>1, <2>2, ToldRead
  <2> QED
    BY <2>3 DEF L
<1> QED
  BY <1>1, <1>3, <1>10, <1>11, <1>12 DEF ContextInv, Listening

\* What the operator does is reported by a line that says how it is now, of
\* everything that has changed.
LEMMA OperatorTells ==
    ASSUME SystemTypeOK, SystemTypeOK',
           Tune \/ SelectAntenna \/ SelectSlice \/ Key \/ Transmit \/ Unkey
    PROVE  \E line \in Line :
              /\ from_radio' = from_radio \o <<line>>
              /\ \/ line \in AntennaLines /\ line \in TrueAntenna'
                 \/ line \notin AntennaLines /\ UNCHANGED radio_antenna
              /\ \/ NoSlice'
                 \/ line \in FrequencyLines /\ line \in TrueFrequency'
                 \/ line \notin FrequencyLines /\ UNCHANGED radio_hz /\ ~NoSlice
              /\ \/ line \in KeyLines /\ line \in TrueKey'
                 \/ line \notin KeyLines /\ UNCHANGED radio_keyed
<1> DEFINE field == [hz |-> radio_hz', clean |-> TRUE]
<1>1. link_up /\ radio_hz' \in Frequencies /\ radio_antenna' \in Names
  BY DEF Tune, SelectAntenna, SelectSlice, Key, Transmit, Unkey, OperatorActs, SystemTypeOK
<1>2. \A line : Report(line) => from_radio' = from_radio \o <<line>>
  BY <1>1 DEF Report, Deliver
<1>3. radio_antenna' # NoField /\ field # NoField
  <2>1. field \in [hz : Frequencies, clean : BOOLEAN]
    BY <1>1
  <2>2. NoField \notin Names /\ NoField \notin [hz : Frequencies, clean : BOOLEAN]
    BY SessionAssumption, Zenon
  <2> QED
    BY <1>1, <2>1, <2>2
<1>4. NoSlice' <=> SameName(radio_antenna', "INVALID")
  BY DEF NoSlice
<1>5. UNCHANGED radio_antenna => (NoSlice <=> NoSlice')
  BY DEF NoSlice
<1>6. CASE Tune
  <2> DEFINE line == FrequencyReport(radio_hz')
  <2>1. line \in Line /\ line.kind = "transmit" /\ line.freq = field /\ line.tx_antenna = NoField
    BY <1>1, ReportType DEF FrequencyReport
  <2>2. /\ from_radio' = from_radio \o <<line>>
        /\ UNCHANGED <<radio_antenna, radio_keyed>>
    BY <1>2, <1>6 DEF Tune
  <2> HIDE DEF line, field
  <2>3. line \in TransmitLine /\ line \notin InterlockLine
    BY <2>1, KindsOfReport
  <2>4. line \in FrequencyLines /\ line \in TrueFrequency' /\ line \notin AntennaLines
    BY <1>3, <2>1, <2>3 DEF FrequencyLines, TrueFrequency, AntennaLines, SaysInvalid, field
  <2> QED
    BY <2>1, <2>2, <2>3, <2>4 DEF KeyLines
<1>7. CASE SelectAntenna
  <2> DEFINE line == AntennaReport(radio_antenna')
  <2>1. /\ line \in Line /\ line.kind = "transmit" /\ line.freq = NoField
        /\ line.tx_antenna = radio_antenna'
    BY <1>1, ReportType DEF AntennaReport
  <2>2. /\ from_radio' = from_radio \o <<line>>
        /\ UNCHANGED <<radio_hz, radio_keyed>> /\ ~NoSlice
    BY <1>2, <1>7 DEF SelectAntenna
  <2> HIDE DEF line, field
  <2>3. line \in TransmitLine /\ line \notin InterlockLine
    BY <2>1, KindsOfReport
  <2>4. line \in AntennaLines /\ line \in TrueAntenna'
    BY <1>3, <2>1, <2>3 DEF AntennaLines, TrueAntenna
  <2>5. line \in FrequencyLines => NoSlice'
    BY <1>4, <2>1 DEF FrequencyLines, SaysInvalid
  <2> QED
    BY <2>1, <2>2, <2>3, <2>4, <2>5 DEF KeyLines
<1>8. CASE SelectSlice
  <2> DEFINE line == FullReport(radio_hz', radio_antenna')
  <2>1. /\ line \in Line /\ line.kind = "transmit" /\ line.freq = field
        /\ line.tx_antenna = radio_antenna'
    BY <1>1, ReportType DEF FullReport
  <2>2. /\ from_radio' = from_radio \o <<line>>
        /\ UNCHANGED radio_keyed /\ ~NoSlice'
    BY <1>2, <1>8 DEF SelectSlice
  <2> HIDE DEF line, field
  <2>3. line \in TransmitLine /\ line \notin InterlockLine
    BY <2>1, KindsOfReport
  <2>4. line \in AntennaLines /\ line \in TrueAntenna'
    BY <1>3, <2>1, <2>3 DEF AntennaLines, TrueAntenna
  <2>5. ~SaysInvalid(line)
    BY <1>4, <2>1, <2>2 DEF SaysInvalid
  <2>6. line \in FrequencyLines /\ line \in TrueFrequency'
    BY <1>3, <2>1, <2>3, <2>5 DEF FrequencyLines, TrueFrequency, field
  <2> QED
    BY <2>1, <2>2, <2>3, <2>4, <2>6 DEF KeyLines
<1>9. CASE Key \/ Transmit \/ Unkey
  <2>1. PICK state \in InterlockStates :
          /\ from_radio' = from_radio \o <<StateReport(state)>>
          /\ \/ state = "PTT_REQUESTED" /\ radio_keyed'
             \/ state = "UNKEY_REQUESTED"
             \/ state = "TRANSMITTING" /\ UNCHANGED radio_keyed
    BY <1>2, <1>9 DEF Key, Transmit, Unkey, InterlockStates
  <2>2. UNCHANGED <<radio_hz, radio_antenna>>
    BY <1>9 DEF Key, Transmit, Unkey, radio_context
  <2> DEFINE line == StateReport(state)
  <2>3. line \in Line /\ line.kind = "interlock" /\ line.state = state
    BY ReportType DEF StateReport
  <2>4. from_radio' = from_radio \o <<line>>
    BY <2>1
  <2> HIDE DEF line, field
  <2>5. line \in InterlockLine /\ line \notin TransmitLine
    BY <2>3, KindsOfReport
  <2>6. line \notin AntennaLines /\ line \notin FrequencyLines
    BY <2>5 DEF AntennaLines, FrequencyLines
  <2>7. \/ line \in KeyLines /\ line \in TrueKey'
        \/ line \notin KeyLines /\ UNCHANGED radio_keyed
    BY <2>1, <2>3, <2>5 DEF KeyLines, TrueKey
  <2> QED
    BY <1>5, <2>2, <2>3, <2>4, <2>6, <2>7
<1> QED
  BY <1>6, <1>7, <1>8, <1>9

LEMMA OperatorContext ==
    ASSUME SystemTypeOK, SystemTypeOK', ContextInv,
           Tune \/ SelectAntenna \/ SelectSlice \/ Key \/ Transmit \/ Unkey
    PROVE  ContextInv'
<1>1. /\ UNCHANGED <<pc, link_up, has_frequency, frequency_mhz, tx_antenna, keyed,
                     subscribed>>
      /\ subscribed /\ Listening
  BY OperatorReports DEF vars, Listening
<1>2. PICK line \in Line :
        /\ from_radio' = from_radio \o <<line>>
        /\ \/ line \in AntennaLines /\ line \in TrueAntenna'
           \/ line \notin AntennaLines /\ UNCHANGED radio_antenna
        /\ \/ NoSlice'
           \/ line \in FrequencyLines /\ line \in TrueFrequency'
           \/ line \notin FrequencyLines /\ UNCHANGED radio_hz /\ ~NoSlice
        /\ \/ line \in KeyLines /\ line \in TrueKey'
           \/ line \notin KeyLines /\ UNCHANGED radio_keyed
  BY OperatorTells
<1>3. from_radio \in Seq(Line)
  BY DEF SystemTypeOK
<1>4. AntennaTold /\ FrequencyTold /\ KeyTold
  BY <1>1 DEF ContextInv
<1>5. AntennaTold'
  <2> DEFINE K == (tx_antenna = KnownAntenna)'
  <2>1. AntennaTold' <=> Told(from_radio \o <<line>>, AntennaLines, TrueAntenna', K)
    BY <1>2 DEF AntennaTold
  <2>2. CASE line \in AntennaLines /\ line \in TrueAntenna'
    <3> HIDE DEF K
    <3> QED
      BY <1>3, <2>1, <2>2, ToldAppend
  <2>3. CASE line \notin AntennaLines /\ UNCHANGED radio_antenna
    <3>1. /\ TrueAntenna' = TrueAntenna
          /\ K <=> tx_antenna = KnownAntenna
      BY <1>1, <2>3 DEF TrueAntenna, KnownAntenna, NoSlice
    <3>2. Told(from_radio, AntennaLines, TrueAntenna, K)
      BY <1>4, <3>1 DEF AntennaTold, Told
    <3> HIDE DEF K
    <3> QED
      BY <1>3, <2>1, <2>3, <3>1, <3>2, ToldAppend
  <2> QED
    BY <1>2, <2>2, <2>3
<1>6. FrequencyTold'
  <2> DEFINE K == (has_frequency /\ frequency_mhz = radio_hz)'
  <2>1. FrequencyTold' <=>
          (~NoSlice' => Told(from_radio \o <<line>>, FrequencyLines, TrueFrequency', K))
    BY <1>2 DEF FrequencyTold
  <2>2. CASE line \in FrequencyLines /\ line \in TrueFrequency'
    <3> HIDE DEF K
    <3> QED
      BY <1>3, <2>1, <2>2, ToldAppend
  <2>3. CASE line \notin FrequencyLines /\ UNCHANGED radio_hz /\ ~NoSlice
    <3>1. /\ TrueFrequency' = TrueFrequency
          /\ K <=> has_frequency /\ frequency_mhz = radio_hz
      BY <1>1, <2>3 DEF TrueFrequency
    <3>2. Told(from_radio, FrequencyLines, TrueFrequency, K)
      BY <1>4, <2>3, <3>1 DEF FrequencyTold, Told
    <3> HIDE DEF K
    <3> QED
      BY <1>3, <2>1, <2>3, <3>1, <3>2, ToldAppend
  <2> QED
    BY <1>2, <2>1, <2>2, <2>3
<1>7. KeyTold'
  <2> DEFINE K == (keyed => radio_keyed)'
  <2>1. KeyTold' <=> Told(from_radio \o <<line>>, KeyLines, TrueKey', K)
    BY <1>2 DEF KeyTold
  <2>2. CASE line \in KeyLines /\ line \in TrueKey'
    <3> HIDE DEF K
    <3> QED
      BY <1>3, <2>1, <2>2, ToldAppend
  <2>3. CASE line \notin KeyLines /\ UNCHANGED radio_keyed
    <3>1. /\ TrueKey' = TrueKey
          /\ K <=> (keyed => radio_keyed)
      BY <1>1, <2>3 DEF TrueKey
    <3>2. Told(from_radio, KeyLines, TrueKey, K)
      BY <1>4, <3>1 DEF KeyTold, Told
    <3> HIDE DEF K
    <3> QED
      BY <1>3, <2>1, <2>3, <3>1, <3>2, ToldAppend
  <2> QED
    BY <1>2, <2>2, <2>3
<1> QED
  BY <1>5, <1>6, <1>7 DEF ContextInv

\* The session's own steps read nothing.
LEMMA OwnContext ==
    ASSUME ContextInv, ChannelInv,
           SystemSend \/ SystemReadPartial \/ SystemLoses \/ SystemLocal
              \/ SystemClock \/ SystemSignal
    PROVE  ContextInv'
<1>1. UNCHANGED <<radio_context, radio_keyed, subscribed>>
  BY DEF SystemSend, SystemReadPartial, SystemLoses, SystemLocal, SystemClock,
         SystemSignal, radio_vars
<1>2. CASE SystemLoses
  BY <1>2 DEF SystemLoses, SendFails, ReadFails, PollFails, ContextInv, Listening
<1>3. CASE SystemSend \/ SystemReadPartial \/ SystemClock \/ SystemSignal
  <2>1. /\ pc # "closed" /\ UNCHANGED <<from_radio, link_up, context, keyed>>
    BY <1>3 DEF SystemSend, SendFrame, StartCommand, SystemReadPartial, ReadPartial,
                ReadNothing, SystemClock, DeadlinePasses, SystemSignal, Signal,
                ReadInterrupted, UnreadVars
  <2> QED
    BY <1>1, <2>1, ContextStays DEF Listening
<1>4. CASE SystemLocal
  <2>1. ~AwaitSaved
    BY DEF AwaitSaved, ChannelInv, CacheOK
  <2>2. /\ pc # "closed" /\ UNCHANGED <<from_radio, link_up, context, keyed>>
    BY <1>4, <2>1
       DEF SystemLocal, Connect, ConnectFails, SendRefused, StartCommand,
           AwaitStopped, AwaitExpired, AwaitRead, Await, ReadTimesOut, ReadNothing,
           LoopReads, LoopStops, PollNothing, remove_interlock, UnreadVars
  <2> QED
    BY <1>1, <2>2, ContextStays DEF Listening
<1> QED
  BY <1>2, <1>3, <1>4

LEMMA StepContext ==
    SystemInv /\ ChannelInv /\ ContextInv /\ [SystemNext]_system_vars => ContextInv'
<1> SUFFICES ASSUME SystemInv, ChannelInv, ContextInv, [SystemNext]_system_vars
             PROVE  ContextInv'
  OBVIOUS
<1>0. TypeOK /\ SystemTypeOK /\ SystemTypeOK'
  BY StepSystemInv DEF SystemInv, SessionInv
<1>1. CASE SystemRead
  BY <1>0, <1>1, ReadContext
<1>2. CASE SystemSend \/ SystemReadPartial \/ SystemLoses \/ SystemLocal
              \/ SystemClock \/ SystemSignal
  BY <1>2, OwnContext
<1>3. CASE RadioAccepts \/ RadioRejects
  BY <1>0, <1>3, AnswersContext
<1>4. CASE Tune \/ SelectAntenna \/ SelectSlice \/ Key \/ Transmit \/ Unkey
  BY <1>0, <1>4, OperatorContext
<1>5. CASE UNCHANGED system_vars
  <2>1. UNCHANGED <<from_radio, context, keyed, radio_context, radio_keyed, subscribed,
                    pc, link_up>>
    BY <1>5 DEF system_vars, vars, radio_vars, context
  <2> QED
    BY <2>1, ContextStays DEF Listening
<1> QED
  BY <1>1, <1>2, <1>3, <1>4, <1>5 DEF SystemNext, RadioNext

LEMMA InitContext == SystemInit => ContextInv
<1> SUFFICES ASSUME SystemInit PROVE ContextInv
  OBVIOUS
<1>1. from_radio = <<>> /\ ~subscribed /\ ~keyed
  BY DEF SystemInit, SessionInit
<1>2. Len(from_radio) = 0
  BY <1>1
<1>3. KeyTold
  BY <1>1, <1>2 DEF KeyTold, Told, LastIn
<1> QED
  BY <1>1, <1>3 DEF ContextInv

LEMMA ContextInvHolds == SystemSpec => []ContextInv
<1>1. SystemInv /\ ChannelInv /\ ContextInv /\ [SystemNext]_system_vars => ContextInv'
  BY StepContext
<1> QED
  BY <1>1, InitContext, ChannelInvHolds, PTL DEF SystemSpec

LEMMA NoReportsLeft ==
    ASSUME SystemTypeOK, LinesOfKind("transmit") = {}
    PROVE  NoneIn(from_radio, AntennaLines) /\ NoneIn(from_radio, FrequencyLines)
<1> SUFFICES ASSUME NEW i \in 1 .. Len(from_radio)
             PROVE  from_radio[i] \notin AntennaLines /\ from_radio[i] \notin FrequencyLines
  BY DEF NoneIn
<1>1. from_radio[i].kind # "transmit"
  BY DEF LinesOfKind
<1>2. from_radio[i] \notin TransmitLine
  BY <1>1 DEF TransmitLine
<1> QED
  BY <1>2 DEF AntennaLines, FrequencyLines

\* What the session knows is judged as what it knows it of.
LEMMA KnownIsJudged ==
    ASSUME TypeOK, tx_antenna = KnownAntenna,
           ~NoSlice => has_frequency /\ frequency_mhz = radio_hz
    PROVE  Allowed <=> RadioPermits
<1>1. Allowed <=> Permitted(config, has_frequency, frequency_mhz, tx_antenna)
  BY AllowedIsPermitted
<1>2. CASE NoSlice
  BY <1>1, <1>2 DEF KnownAntenna, Permitted, RadioPermits
<1>3. CASE ~NoSlice /\ radio_antenna \in LongNames
  <2>1. \A i \in Rows(config) : ~SameName(config.antennas[i].id, radio_antenna)
    BY <1>3, ShortRowsAssumption, Zenon
  <2> QED
    BY <1>1, <1>3, <2>1 DEF KnownAntenna, Permitted, RadioPermits
<1>4. CASE ~NoSlice /\ radio_antenna \notin LongNames
  <2>1. tx_antenna = radio_antenna /\ frequency_mhz = radio_hz /\ has_frequency = TRUE /\ ~NoSlice = TRUE
    BY <1>4 DEF KnownAntenna, TypeOK
  <2> QED
    BY <1>1, <2>1 DEF RadioPermits
<1> QED
  BY <1>2, <1>3, <1>4

(***************************************************************************)
(* The session's judgement is the radio's own state judged by the matrix,  *)
(* once every transmit report is read: no order of partial reports, slice  *)
(* removals and overlong names leaves it with a stale field.               *)
(***************************************************************************)
THEOREM ContextNeverStale == SystemSpec => []ContextAgrees
<1>1. SystemInv /\ ContextInv => ContextAgrees
  <2> SUFFICES ASSUME SystemInv, ContextInv, subscribed, link_up, pc # "closed",
                      LinesOfKind("transmit") = {}
               PROVE  Allowed <=> RadioPermits
    BY DEF ContextAgrees
  <2>1. TypeOK /\ SystemTypeOK
    BY DEF SystemInv, SessionInv
  <2>2. NoneIn(from_radio, AntennaLines) /\ NoneIn(from_radio, FrequencyLines)
    BY <2>1, NoReportsLeft
  <2>3. /\ tx_antenna = KnownAntenna
        /\ ~NoSlice => has_frequency /\ frequency_mhz = radio_hz
    BY <2>2 DEF ContextInv, Listening, AntennaTold, FrequencyTold, Told
  <2> QED
    BY <2>1, <2>3, KnownIsJudged
<1> QED
  BY <1>1, ChannelInvHolds, ContextInvHolds, PTL

-----------------------------------------------------------------------------
(* A radio that is ready.                                                  *)

InterlockFrames == {f \in Frame : f.command \in InterlockCommands}

NotReadyFrames == {f \in Frame : f.command = "not_ready"}

RejectingLines == {l \in ResponseLine : l.response.code # 0}

\* A radio that was told nothing has no interlock that is ready.
UntoldOK ==
    last_interlock_command = "none" =>
        ~radio_ready /\ NoneIn(to_radio, InterlockFrames)

\* The interlock is created when the subscription has been accepted.
SubscribedOK ==
    /\ step \in {"create", "arm", "run"} => subscribed
    /\ step = "sub tx" /\ Awaiting => subscribed \/ NoneIn(from_radio, AcceptingLines)

\* The command that is awaited was sent.
SentOK ==
    Awaiting /\ command \in InterlockCommands => last_interlock_command = command

Armed == step \in {"arm", "run"} /\ link_up /\ ~Ending

\* A radio that was last told not_ready and is ready has not executed it, or
\* has refused to.
RefusedOK ==
    Armed /\ last_interlock_command = "not_ready" /\ radio_ready
        => ~NoneIn(to_radio, NotReadyFrames) \/ ~NoneIn(from_radio, RejectingLines)

ReadyInv == UntoldOK /\ SubscribedOK /\ SentOK /\ RefusedOK

\* Steps of the thread that neither send nor read.
LEMMA ReadyStays ==
    ASSUME ReadyInv,
           UNCHANGED <<to_radio, from_radio, radio_ready, subscribed, sequence,
                       last_interlock_command, step, command, link_up>>,
           Awaiting' => Awaiting, Ending => Ending'
    PROVE  ReadyInv'
<1>1. AcceptingLines' = AcceptingLines
  BY DEF AcceptingLines, CurrentLines
<1>2. UntoldOK' /\ SentOK'
  BY DEF ReadyInv, UntoldOK, SentOK
<1>3. SubscribedOK'
  BY <1>1 DEF ReadyInv, SubscribedOK
<1>4. RefusedOK'
  BY DEF ReadyInv, RefusedOK, Armed
<1> QED
  BY <1>2, <1>3, <1>4 DEF ReadyInv

\* A step to the end of the session.
LEMMA ReadyEnds ==
    ASSUME ReadyInv, ChannelInv,
           UNCHANGED <<to_radio, radio_ready, subscribed, last_interlock_command>>,
           ~Awaiting', Ending', step' = step \/ step' = "remove"
    PROVE  ReadyInv'
<1>1. UntoldOK' /\ SentOK'
  BY DEF ReadyInv, UntoldOK, SentOK
<1>2. SubscribedOK'
  BY DEF ReadyInv, SubscribedOK
<1>3. RefusedOK'
  BY DEF RefusedOK, Armed
<1> QED
  BY <1>1, <1>2, <1>3 DEF ReadyInv

LEMMA LocalReady ==
    ASSUME ReadyInv, ControlOK, ChannelInv,
           SystemReadPartial \/ SystemLocal \/ SystemClock \/ SystemSignal
    PROVE  ReadyInv'
<1>1. UNCHANGED <<to_radio, from_radio, radio_ready, subscribed>>
  BY DEF SystemReadPartial, SystemLocal, SystemClock, SystemSignal, radio_vars, interlock
<1>2. ~AwaitSaved
  BY DEF AwaitSaved, ChannelInv, CacheOK
<1>3. CASE \/ SendRefused \/ AwaitStopped \/ AwaitExpired \/ ReadNothing
  <2>1. Fails /\ UNCHANGED last_interlock_command
    BY <1>3 DEF SendRefused, AwaitStopped, AwaitExpired, Await, ReadNothing
  <2> QED
    BY <1>1, <2>1, FailsPlace, ReadyEnds DEF Ending, Awaiting
<1>4. CASE ConnectFails \/ LoopStops \/ remove_interlock
  <2>1. /\ UNCHANGED last_interlock_command
        /\ \/ pc' \in {"closed", "cleanup"} /\ step' = step
           \/ pc' = "send" /\ step' = "remove"
    BY <1>4 DEF ConnectFails, LoopStops, remove_interlock
  <2> QED
    BY <1>1, <2>1, ReadyEnds DEF Ending, Awaiting
<1>5. CASE Connect \/ AwaitRead \/ LoopReads \/ PollNothing \/ DeadlinePasses \/ Signal
  <2>1. UNCHANGED <<sequence, last_interlock_command, step, command, link_up>>
    BY <1>5 DEF Connect, AwaitRead, Await, LoopReads, PollNothing, DeadlinePasses, Signal
  <2>2. \/ pc' = pc
        \/ pc \in {"connect", "loop", "poll"} /\ pc' \in {"send", "poll", "loop"}
        \/ pc = "await" /\ pc' = "read"
    BY <1>5 DEF Connect, AwaitRead, Await, LoopReads, PollNothing, DeadlinePasses, Signal
  <2> QED
    BY <1>1, <2>1, <2>2, ReadyStays DEF Ending, Awaiting
<1> QED
  BY <1>2, <1>3, <1>4, <1>5
     DEF SystemReadPartial, ReadPartial, SystemLocal, ReadTimesOut, SystemClock,
         SystemSignal, ReadInterrupted

\* The connection fails.
LEMMA LosesReady ==
    ASSUME ReadyInv, SystemTypeOK, SystemLoses
    PROVE  ReadyInv'
<1>1. /\ UNCHANGED <<radio_ready, subscribed, last_interlock_command, step>>
      /\ ~link_up' /\ pc' \in {"cleanup", "closed"}
  BY FailsPlace DEF SystemLoses, SendFails, ReadFails, PollFails, radio_vars, interlock
<1>2. NoneIn(to_radio, InterlockFrames) => NoneIn(to_radio', InterlockFrames)
  <2>1. PICK n \in 0 .. Len(to_radio) : to_radio' = SubSeq(to_radio, 1, n)
    BY DEF SystemLoses
  <2> QED
    BY <2>1, PrefixIn DEF SystemTypeOK
<1> QED
  BY <1>1, <1>2 DEF ReadyInv, UntoldOK, SubscribedOK, SentOK, RefusedOK, Armed, Awaiting

LEMMA SendReady ==
    ASSUME ReadyInv, TypeOK, TypeOK', ControlOK, SystemTypeOK, ChannelInv, SystemSend
    PROVE  ReadyInv'
<1> DEFINE frame == [sequence |-> sequence', command |-> command]
<1>1. /\ pc = "send" /\ pc' = "await"
      /\ to_radio' = IF link_up THEN Append(to_radio, frame) ELSE to_radio
      /\ last_interlock_command' = IF command \in InterlockCommands
                                   THEN command ELSE last_interlock_command
      /\ UNCHANGED <<step, command, link_up, from_radio, radio_ready, subscribed>>
  BY DEF SystemSend, SendFrame, StartCommand, radio_vars, interlock
<1>2. frame \in Frame /\ frame.command = command
  BY DEF Frame, TypeOK
<1> HIDE DEF frame
<1>3. to_radio \in Seq(Frame)
  BY DEF SystemTypeOK
<1>4. \/ to_radio' = to_radio /\ ~link_up
      \/ to_radio' = to_radio \o <<frame>>
  BY <1>1, <1>2, <1>3, AppendAt
<1>5. UntoldOK'
  <2> SUFFICES ASSUME last_interlock_command' = "none"
               PROVE  ~radio_ready' /\ NoneIn(to_radio', InterlockFrames)
    BY DEF UntoldOK
  <2>1. command \notin InterlockCommands /\ last_interlock_command = "none"
    BY <1>1 DEF InterlockCommands
  <2>2. ~radio_ready /\ NoneIn(to_radio, InterlockFrames)
    BY <2>1 DEF ReadyInv, UntoldOK
  <2>3. frame \notin InterlockFrames
    BY <1>2, <2>1 DEF InterlockFrames
  <2>4. NoneIn(to_radio \o <<frame>>, InterlockFrames)
    BY <1>2, <1>3, <2>2, <2>3, AppendIn
  <2> QED
    BY <1>1, <1>4, <2>2, <2>4
<1>6. SubscribedOK'
  <2>1. step = "sub tx" => NoneIn(from_radio, ResponseLine)
    BY <1>1 DEF ChannelInv, QuietOK, Quiet
  <2>2. AcceptingLines' \subseteq ResponseLine
    BY DEF AcceptingLines, CurrentLines
  <2>3. step = "sub tx" => NoneIn(from_radio, AcceptingLines')
    BY <2>1, <2>2, NoneInPart
  <2> QED
    BY <1>1, <2>3 DEF ReadyInv, SubscribedOK
<1>7. SentOK'
  BY <1>1 DEF SentOK
<1>8. RefusedOK'
  <2> SUFFICES ASSUME Armed', last_interlock_command' = "not_ready"
               PROVE  ~NoneIn(to_radio', NotReadyFrames)
    BY DEF RefusedOK
  <2>1. step \in {"arm", "run"} /\ link_up
    BY <1>1 DEF Armed
  <2>2. command \in {"ready", "not_ready"}
    BY <1>1, <2>1 DEF ControlOK, CallerOK, TypeOK
  <2>3. command = "not_ready"
    BY <1>1, <2>2 DEF InterlockCommands
  <2>4. frame \in NotReadyFrames
    BY <1>2, <2>3 DEF NotReadyFrames
  <2>5. ~NoneIn(to_radio \o <<frame>>, NotReadyFrames)
    BY <1>2, <1>3, <2>4, AppendIn
  <2> QED
    BY <1>4, <2>1, <2>5
<1> QED
  BY <1>5, <1>6, <1>7, <1>8 DEF ReadyInv

\* Where an answer takes the caller of send_command.
LEMMA AcceptMoves ==
    ASSUME NEW r, accept_response(r)
    PROVE  /\ pc' \in {"send", "loop", "cleanup", "closed"}
           /\ r.code # 0 => pc' \in {"cleanup", "closed"} /\ step' = step
           /\ step' \in {"create", "arm", "run"} /\ step' # step
                => step \in {"create", "arm", "run"} \/ (step = "sub tx" /\ r.code = 0)
<1>1. CASE r.code # 0 /\ Fails
  BY <1>1, FailsPlace
<1>2. CASE r.code = 0 /\ Succeeds(r.body)
  <2>1. /\ initialize_session(r.body) => pc' \in {"send", "loop", "cleanup"}
        /\ initialize_session(r.body) /\ step' \in {"create", "arm", "run"}
              => step \in {"create", "arm", "run", "sub tx"}
    BY NextStepValue DEF initialize_session, SendNext, Created, EnterLoop, Subscribing, NextStep
  <2> QED
    BY <1>2, <2>1 DEF Succeeds, Removed, SendDeferred, ReturnToLoop
<1> QED
  BY <1>1, <1>2 DEF accept_response

LEMMA ReadReady ==
    ASSUME ReadyInv, TypeOK, ControlOK, SystemTypeOK, ChannelInv, SystemRead
    PROVE  ReadyInv'
<1> DEFINE line == Head(from_radio)
<1>1. /\ from_radio # <<>> /\ from_radio' = Tail(from_radio)
      /\ UNCHANGED <<to_radio, radio_ready, subscribed>>
      /\ ReadLine(line) \/ PollLine(line)
  BY DEF SystemRead, radio_vars, interlock
<1>2. line \in Line /\ from_radio \in Seq(Line)
  BY <1>1, HeadAndTail DEF SystemTypeOK
<1>3. /\ pc \in {"read", "poll"}
      /\ UNCHANGED <<sequence, link_up, last_interlock_command>>
  BY <1>1 DEF ReadLine, PollLine
<1>4. line \in ResponseLine <=> line.kind = "response"
  BY <1>2, KindOfLine
<1>5. \A T : NoneIn(from_radio, T) <=> line \notin T /\ NoneIn(from_radio', T)
  BY <1>1, <1>2, TailIn
<1>6. AcceptingLines' = AcceptingLines
  BY <1>3 DEF AcceptingLines, CurrentLines
<1> HIDE DEF line
<1>7. UntoldOK'
  BY <1>1, <1>3 DEF ReadyInv, UntoldOK
<1>8. CASE line \notin ResponseLine
  <2>1. /\ handle_status(line) /\ step' = step
    BY <1>1, <1>4, <1>8 DEF ReadLine, PollLine
  <2>2. /\ pc = "read" => pc' = "await" /\ command' = command
        /\ pc = "poll" => pc' \in {"loop", "send"}
    BY <1>3, <2>1, StatusPlace
  <2>3. /\ NoneIn(from_radio, AcceptingLines) => NoneIn(from_radio', AcceptingLines)
        /\ ~NoneIn(from_radio, RejectingLines) => ~NoneIn(from_radio', RejectingLines)
    BY <1>5, <1>8 DEF RejectingLines
  <2>4. SubscribedOK'
    BY <1>1, <1>3, <1>6, <2>1, <2>2, <2>3 DEF ReadyInv, SubscribedOK, Awaiting
  <2>5. SentOK'
    BY <1>3, <2>2 DEF ReadyInv, SentOK, Awaiting
  <2>6. RefusedOK'
    BY <1>1, <1>3, <2>1, <2>2, <2>3 DEF ReadyInv, RefusedOK, Armed, Ending
  <2> QED
    BY <1>7, <2>4, <2>5, <2>6 DEF ReadyInv
<1>9. line \in ResponseLine => pc = "read" /\ ReadLine(line)
  <2>1. pc = "poll" => NoneIn(from_radio, ResponseLine)
    BY DEF ChannelInv, QuietOK, Quiet
  <2> QED
    BY <1>1, <1>3, <1>5, <2>1 DEF ReadLine, PollLine
<1>10. CASE line \in CurrentLines
  <2>1. line \in ResponseLine /\ line.response.sequence = sequence
    BY <1>10 DEF CurrentLines
  <2>2. accept_response(line.response)
    BY <1>4, <1>9, <2>1 DEF ReadLine
  <2> DEFINE r == line.response
  <2>3. /\ pc' \in {"send", "loop", "cleanup", "closed"}
        /\ r.code # 0 => pc' \in {"cleanup", "closed"} /\ step' = step
        /\ step' \in {"create", "arm", "run"} /\ step' # step
             => step \in {"create", "arm", "run"} \/ (step = "sub tx" /\ r.code = 0)
        /\ step = "remove" => step' = "remove"
    BY <2>2, AcceptMoves, AcceptPlace
  <2>4. r.code = 0 => line \in AcceptingLines /\ line \notin RejectingLines
    BY <1>10 DEF AcceptingLines, RejectingLines
  <2> HIDE DEF r
  <2>5. ~Awaiting'
    BY <2>3 DEF Awaiting
  <2>6. SubscribedOK'
    <3>1. step = "sub tx" /\ r.code = 0 => subscribed
      BY <1>5, <1>9, <2>1, <2>4 DEF ReadyInv, SubscribedOK, Awaiting
    <3> QED
      BY <1>1, <2>3, <2>5, <3>1 DEF ReadyInv, SubscribedOK
  <2>7. SentOK'
    BY <2>5 DEF SentOK
  <2>8. RefusedOK'
    <3> SUFFICES ASSUME Armed', last_interlock_command' = "not_ready", radio_ready'
                 PROVE  \/ ~NoneIn(to_radio', NotReadyFrames)
                        \/ ~NoneIn(from_radio', RejectingLines)
      BY DEF RefusedOK
    <3>1. step' \in {"arm", "run"} /\ r.code = 0 /\ link_up
      BY <1>3, <2>3 DEF Armed, Ending
    <3>2. step \in {"arm", "run"}
      BY <1>3, <2>3, <3>1 DEF ControlOK, CallerOK, TypeOK, Steps, Subscribing
    <3>3. Armed
      BY <1>9, <2>1, <3>1, <3>2 DEF Armed, Ending
    <3> QED
      BY <1>1, <1>3, <1>5, <2>4, <3>1, <3>3 DEF ReadyInv, RefusedOK
  <2> QED
    BY <1>7, <2>6, <2>7, <2>8 DEF ReadyInv
<1>11. CASE line \in OldLines
  <2>1. line \in ResponseLine /\ line.response.sequence # sequence
    BY <1>11 DEF OldLines
  <2>2. pc = "read" /\ pc' = "await" /\ UNCHANGED <<step, command>>
    BY <1>4, <1>9, <2>1 DEF ReadLine
  <2>3. ~NoneIn(from_radio, OldLines)
    BY <1>5, <1>11
  <2>4. step = "remove"
    BY <2>3 DEF ChannelInv, OutstandingOK, OneOutstanding
  <2> QED
    BY <1>3, <1>7, <2>2, <2>4
       DEF ReadyInv, SubscribedOK, SentOK, RefusedOK, Armed, Awaiting
<1> QED
  BY <1>8, <1>10, <1>11 DEF CurrentLines, OldLines

LEMMA AnswersReady ==
    ASSUME ReadyInv, TypeOK, ControlOK, SystemTypeOK, ChannelInv,
           RadioAccepts \/ RadioRejects
    PROVE  ReadyInv'
<1> DEFINE frame == Head(to_radio)
<1>1. /\ to_radio # <<>> /\ to_radio' = Tail(to_radio)
      /\ UNCHANGED <<pc, step, command, sequence, link_up, last_interlock_command>>
  BY DEF RadioAccepts, RadioRejects, vars
<1>2. /\ subscribed => subscribed'
      /\ frame.command \notin InterlockCommands => UNCHANGED radio_ready
  <2>1. CASE RadioRejects
    BY <2>1 DEF RadioRejects, radio_vars, interlock
  <2>2. CASE RadioAccepts
    <3>1. UNCHANGED subscribed \/ subscribed' = TRUE
      BY <2>2 DEF RadioAccepts
    <3>2. frame.command \notin InterlockCommands => UNCHANGED interlock
      BY <2>2 DEF RadioAccepts, InterlockCommands
    <3> QED
      BY <3>1, <3>2 DEF interlock
  <2> QED
    BY <2>1, <2>2
<1>3. PICK line \in Line : Answers(line)
  BY RadioAnswers
<1>4. /\ line \in ResponseLine
      /\ line.response.code = 0 =>
            /\ frame.command = "not_ready" => ~radio_ready'
            /\ frame.command = "sub tx" => subscribed'
  BY <1>3 DEF Answers
<1>5. to_radio \in Seq(Frame) /\ frame \in Frame
  BY <1>1, HeadAndTail DEF SystemTypeOK
<1>6. step # "remove" => frame.command = command
  <2>1. Len(to_radio) \in Nat \ {0} /\ frame = to_radio[1]
    BY <1>1, <1>5, TailAt
  <2>2. 1 \in 1 .. Len(to_radio)
    BY <2>1
  <2> QED
    BY <2>1, <2>2 DEF ChannelInv, FrameOK
<1> HIDE DEF frame
<1>7. UntoldOK'
  <2> SUFFICES ASSUME last_interlock_command = "none"
               PROVE  ~radio_ready' /\ NoneIn(to_radio', InterlockFrames)
    BY <1>1 DEF UntoldOK
  <2>1. ~radio_ready /\ NoneIn(to_radio, InterlockFrames)
    BY DEF ReadyInv, UntoldOK
  <2>2. frame \notin InterlockFrames /\ NoneIn(to_radio', InterlockFrames)
    BY <1>1, <1>5, <2>1, TailIn DEF frame
  <2> QED
    BY <1>2, <1>5, <2>1, <2>2 DEF InterlockFrames
<1>8. SubscribedOK'
  <2>1. step = "sub tx" => frame.command = "sub tx"
    BY <1>6 DEF ControlOK, CallerOK, Subscribing
  <2>2. AcceptingLines' = AcceptingLines
    BY <1>1 DEF AcceptingLines, CurrentLines
  <2>3. AcceptingLines \subseteq ResponseLine
    BY DEF AcceptingLines, CurrentLines
  <2>4. NoneIn(from_radio, AcceptingLines) /\ line \notin AcceptingLines
           => NoneIn(from_radio', AcceptingLines)
    BY <1>3, <2>3, AnswerAdds
  <2>5. line \in AcceptingLines => line.response.code = 0
    BY DEF AcceptingLines
  <2> QED
    BY <1>1, <1>2, <1>4, <2>1, <2>2, <2>4, <2>5 DEF ReadyInv, SubscribedOK, Awaiting
<1>9. SentOK'
  BY <1>1 DEF ReadyInv, SentOK, Awaiting
<1>10. RefusedOK'
  <2> SUFFICES ASSUME Armed, last_interlock_command = "not_ready", radio_ready'
               PROVE  ~NoneIn(from_radio', RejectingLines)
    BY <1>1 DEF RefusedOK, Armed, Ending
  <2>1. step \in {"arm", "run"} /\ link_up /\ pc \notin {"cleanup", "closed"}
    BY DEF Armed, Ending
  <2>2. Awaiting
    BY <1>1, <2>1 DEF ChannelInv, QuietOK, Quiet, TypeOK, Locations, Awaiting
  <2>3. command \in {"ready", "not_ready"}
    BY <2>1, <2>2 DEF ControlOK, CallerOK, TypeOK, Awaiting
  <2>4. frame.command = "not_ready"
    BY <1>6, <2>1, <2>2, <2>3 DEF ReadyInv, SentOK, InterlockCommands
  <2>5. line \in RejectingLines
    BY <1>4, <2>4 DEF RejectingLines
  <2> DEFINE one == from_radio \o <<line>>
             report == FullReport(radio_hz, radio_antenna)
  <2>6. from_radio' = one \/ from_radio' = one \o <<report>>
    BY <1>3, <2>1 DEF Answers
  <2>7. one \in Seq(Line) /\ report \in Line /\ ~NoneIn(one, RejectingLines)
    BY <2>5, AppendAt, AppendIn, ReportType DEF SystemTypeOK
  <2> HIDE DEF one, report
  <2>8. ~NoneIn(one \o <<report>>, RejectingLines)
    BY <2>7, AppendIn
  <2> QED
    BY <2>6, <2>7, <2>8
<1> QED
  BY <1>7, <1>8, <1>9, <1>10 DEF ReadyInv

LEMMA OperatorReady ==
    ASSUME ReadyInv, SystemTypeOK, SystemTypeOK',
           Tune \/ SelectAntenna \/ SelectSlice \/ Key \/ Transmit \/ Unkey
    PROVE  ReadyInv'
<1>1. /\ UNCHANGED <<pc, step, command, sequence, link_up, last_interlock_command,
                     to_radio, radio_ready, subscribed>>
      /\ subscribed
  BY OperatorReports DEF vars
<1>2. ~NoneIn(from_radio, RejectingLines) => ~NoneIn(from_radio', RejectingLines)
  <2>1. PICK line \in Line : from_radio' = from_radio \o <<line>>
    BY OperatorReports
  <2> QED
    BY <2>1, AppendIn DEF SystemTypeOK
<1>3. UntoldOK' /\ SubscribedOK' /\ SentOK'
  BY <1>1 DEF ReadyInv, UntoldOK, SubscribedOK, SentOK, Awaiting
<1>4. RefusedOK'
  BY <1>1, <1>2 DEF ReadyInv, RefusedOK, Armed, Ending
<1> QED
  BY <1>3, <1>4 DEF ReadyInv

LEMMA StepReadyInv ==
    SystemInv /\ ChannelInv /\ ReadyInv /\ [SystemNext]_system_vars => ReadyInv'
<1> SUFFICES ASSUME SystemInv, ChannelInv, ReadyInv, [SystemNext]_system_vars
             PROVE  ReadyInv'
  OBVIOUS
<1>0. TypeOK /\ TypeOK' /\ ControlOK /\ SystemTypeOK /\ SystemTypeOK'
  BY StepSystemInv DEF SystemInv, SessionInv
<1>1. CASE SystemSend
  BY <1>0, <1>1, SendReady
<1>2. CASE SystemRead
  BY <1>0, <1>2, ReadReady
<1>3. CASE SystemReadPartial \/ SystemLocal \/ SystemClock \/ SystemSignal
  BY <1>0, <1>3, LocalReady
<1>4. CASE SystemLoses
  BY <1>0, <1>4, LosesReady
<1>5. CASE RadioAccepts \/ RadioRejects
  BY <1>0, <1>5, AnswersReady
<1>6. CASE Tune \/ SelectAntenna \/ SelectSlice \/ Key \/ Transmit \/ Unkey
  BY <1>0, <1>6, OperatorReady
<1>7. CASE UNCHANGED system_vars
  <2>1. UNCHANGED <<to_radio, from_radio, radio_ready, subscribed, sequence,
                    last_interlock_command, step, command, link_up, pc>>
    BY <1>7 DEF system_vars, vars, radio_vars, interlock
  <2> QED
    BY <2>1, ReadyStays DEF Awaiting, Ending
<1> QED
  BY <1>1, <1>2, <1>3, <1>4, <1>5, <1>6, <1>7 DEF SystemNext, RadioNext

LEMMA ReadyInvHolds == SystemSpec => []ReadyInv
<1>1. SystemInit => ReadyInv
  BY EmptyIn DEF SystemInit, SessionInit, ReadyInv, UntoldOK, SubscribedOK, SentOK,
                 RefusedOK, Armed, Awaiting
<1>2. SystemInv /\ ChannelInv /\ ReadyInv /\ [SystemNext]_system_vars => ReadyInv'
  BY StepReadyInv
<1> QED
  BY <1>1, <1>2, ChannelInvHolds, PTL DEF SystemSpec

(***************************************************************************)
(* A radio whose interlock is ready without an allowed PTT is about to be  *)
(* told not_ready, or has lost the session: whatever the radio rejects, in *)
(* whatever order its reports and answers reach the session.               *)
(***************************************************************************)
THEOREM WithdrawalAlwaysUnderWay == SystemSpec => []WithdrawalUnderWay
<1>1. SystemInv /\ ContextInv /\ ReadyInv => WithdrawalUnderWay
  <2> SUFFICES ASSUME SystemInv, ContextInv, ReadyInv, radio_ready, link_up, ~Ending,
                      ~NotReadyComing, from_radio = <<>>, step # "create",
                      \A i \in 1 .. Len(to_radio) : to_radio[i].command # "not_ready"
               PROVE  RadioMayTransmit
    BY DEF WithdrawalUnderWay
  <2>1. TypeOK /\ ControlOK /\ SystemTypeOK /\ ReadyIsJustified
    BY DEF SystemInv, SessionInv, ReadyOK
  <2>2. last_interlock_command # "none"
    BY DEF ReadyInv, UntoldOK
  <2>3. step \in {"arm", "run"}
    BY <2>1, <2>2 DEF ControlOK, CallerOK, Subscribing, TypeOK, Steps, Ending
  <2>4. last_interlock_command \in {"create", "not_ready", "ready"}
    BY <2>1, <2>2, <2>3 DEF ControlOK, CallerOK, TypeOK
  <2>5. last_interlock_command # "create"
    BY <2>1, <2>3 DEF ControlOK, CallerOK, TypeOK, Ending, NotReadyComing
  <2>6. \A T : NoneIn(from_radio, T)
    BY EmptyIn
  <2>7. last_interlock_command # "not_ready"
    <3>1. NoneIn(to_radio, NotReadyFrames)
      BY DEF NoneIn, NotReadyFrames
    <3> QED
      BY <2>3, <2>6, <3>1 DEF ReadyInv, RefusedOK, Armed
  <2>8. MayTransmit
    BY <2>1, <2>4, <2>5, <2>7 DEF ReadyIsJustified
  <2>9. subscribed /\ Listening
    BY <2>3 DEF ReadyInv, SubscribedOK, Listening, Ending
  <2>10. /\ tx_antenna = KnownAntenna
         /\ ~NoSlice => has_frequency /\ frequency_mhz = radio_hz
         /\ keyed => radio_keyed
    BY <2>6, <2>9 DEF ContextInv, AntennaTold, FrequencyTold, KeyTold, Told
  <2>11. Allowed <=> RadioPermits
    BY <2>1, <2>10, KnownIsJudged
  <2>12. Allowed <=> Permitted(config, has_frequency, frequency_mhz, tx_antenna)
    BY <2>1, AllowedIsPermitted
  <2> QED
    BY <2>8, <2>10, <2>11, <2>12 DEF MayTransmit, RadioMayTransmit
<1> QED
  BY <1>1, ChannelInvHolds, ContextInvHolds, ReadyInvHolds, PTL
=============================================================================
