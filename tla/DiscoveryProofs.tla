-------------------------- MODULE DiscoveryProofs --------------------------
(***************************************************************************)
(* The wait for an announcement, for every set of datagrams and every      *)
(* configured selector.                                                    *)
(***************************************************************************)
EXTENDS Discovery, PolicyProofs

LEMMA MinOfNaturals ==
    ASSUME NEW S, S \subseteq Nat, S # {}
    PROVE  Min(S) \in S /\ \A y \in S : Min(S) <= y
BY LeastNatural DEF Min

-----------------------------------------------------------------------------
(* parse_packet.                                                           *)

\* What is known of the constants.
LEMMA TextsType ==
    /\ Length \in [Texts -> Nat] /\ "" \in Texts
    /\ IPv4 \subseteq Texts \ {""} /\ QueueLimit \in Nat \ {0}
    /\ "" \notin DOMAIN PortNumber
BY DiscoveryAssumption

LEMMA PacketType ==
    ASSUME NEW p \in Packets
    PROVE  /\ p.received \in 0 .. AG_DISCOVERY_PACKET_MAX /\ p.words \in 0 .. UINT16_MAX
           /\ p.text_end \in Nat /\ p.text_end <= 4 * p.words
           /\ p.fields \in Seq([name : STRING, value : Texts])
<1>1. p \in Packet /\ p.text_end <= 4 * p.words
  BY DiscoveryAssumption
<1> QED
  BY <1>1 DEF Packet

LEMMA ElementType ==
    ASSUME NEW S, NEW s \in Seq(S)
    PROVE  \A i \in DOMAIN s : i \in Nat /\ s[i] \in S
OBVIOUS

\* The value of a field is one that the datagram gives to it, or "".
LEMMA FieldIsSaid ==
    ASSUME NEW p \in Packets, NEW field, NEW size
    PROVE  /\ field_value(p, field, size) \in Says(p, field) \cup {""}
           /\ field_value(p, field, size) \in Texts
<1> DEFINE Token == [name : STRING, value : Texts]
           fields == p.fields
           tokens == {i \in DOMAIN fields : fields[i].name = field}
           value == fields[Min(tokens)].value
<1>1. \A token \in Token : token.value \in Texts
  OBVIOUS
<1>2. fields \in Seq(Token)
  BY PacketType
<1> HIDE DEF Token, fields
<1>3. \A i \in DOMAIN fields : i \in Nat /\ fields[i] \in Token
  BY <1>2, ElementType
<1>4. CASE tokens # {}
  <2>1. Min(tokens) \in tokens
    <3>1. tokens \subseteq Nat
      BY <1>3
    <3> HIDE DEF tokens
    <3> QED
      BY <1>4, <3>1, MinOfNaturals
  <2>2. Min(tokens) \in DOMAIN fields /\ fields[Min(tokens)].name = field
    BY <2>1
  <2>3. value \in Texts
    BY <1>1, <1>3, <2>2
  <2>4. value \in Says(p, field)
    BY <2>2 DEF Says, fields
  <2>5. field_value(p, field, size) = value \/ field_value(p, field, size) = ""
    BY DEF field_value, fields
  <2> HIDE DEF value
  <2> QED
    BY <2>3, <2>4, <2>5, TextsType
<1>5. CASE tokens = {}
  <2>1. field_value(p, field, size) = ""
    BY <1>5 DEF field_value, fields
  <2> QED
    BY <2>1, TextsType
<1> QED
  BY <1>4, <1>5

\* A port is 0 or within the range of ports, and the datagram says it.
LEMMA PortIsSaid ==
    ASSUME NEW p \in Packets
    PROVE  /\ AnnouncedPort(p) = 0 \/ AnnouncedPort(p) \in 1 .. UINT16_MAX
           /\ AnnouncedPort(p) # 0 =>
                 \E text \in Says(p, "port") \cap DOMAIN PortNumber :
                    AnnouncedPort(p) = PortNumber[text]
<1> DEFINE text == field_value(p, "port", 16)
<1>1. text \in Says(p, "port") \cup {""} /\ "" \notin DOMAIN PortNumber
  BY FieldIsSaid, TextsType
<1>2. AnnouncedPort(p) = IF text \in DOMAIN PortNumber /\ PortNumber[text] \in 1 .. UINT16_MAX
                         THEN PortNumber[text] ELSE 0
  BY DEF AnnouncedPort
<1> HIDE DEF text
<1> QED
  BY <1>1, <1>2

(***************************************************************************)
(* For every datagram, whatever its header claims: parse_packet reads no   *)
(* byte beyond those received and copies no byte beyond its packet.        *)
(***************************************************************************)
THEOREM PacketStaysInBounds ==
    ASSUME NEW p \in Packets
    PROVE  /\ BytesRead(p) <= p.received
           /\ PayloadAccepted(p) => PayloadOffset(p) + PayloadSize(p) <= p.received
<1> DEFINE offset == PayloadOffset(p)
           words == p.words
           received == p.received
           end == p.text_end
<1>1. received \in Nat /\ words \in Nat /\ end \in Nat /\ end <= 4 * words
  <2>1. AG_DISCOVERY_PACKET_MAX \in Nat
    BY DEF AG_DISCOVERY_PACKET_MAX
  <2>2. \A m : m \in 0 .. UINT16_MAX => m \in Nat
    BY DEF UINT16_MAX
  <2> QED
    BY <2>1, <2>2, PacketType
<1>2. offset \in {16, 20, 24, 28}
  BY DEF PayloadOffset
<1>3. PacketSize(p) = 4 * words
  BY <1>1 DEF PacketSize
<1>4. HeaderAccepted(p) => received >= 16 /\ 4 * words <= received
  BY <1>1, <1>3 DEF HeaderAccepted
<1>5. ReadsPayload(p) => HeaderAccepted(p) /\ offset < 4 * words
  BY <1>3 DEF ReadsPayload
<1>6. PayloadSize(p) = (IF offset >= end THEN offset ELSE end) - offset
  BY <1>1, <1>2 DEF PayloadSize, Max
<1>7. /\ BytesRead(p) = IF ReadsPayload(p) THEN 4 * words
                        ELSE IF received >= 16 THEN 16 ELSE 0
      /\ PayloadAccepted(p) => ReadsPayload(p)
  BY <1>3 DEF BytesRead, PayloadAccepted
<1> HIDE DEF offset, words, received, end
<1>8. BytesRead(p) <= received
  BY <1>1, <1>4, <1>5, <1>7
<1>9. PayloadAccepted(p) => offset + PayloadSize(p) <= received
  BY <1>1, <1>2, <1>4, <1>5, <1>6, <1>7
<1> QED
  BY <1>8, <1>9 DEF offset, received

-----------------------------------------------------------------------------
(* ag_discovery_wait.                                                      *)

RadioType == [serial : Texts, host : Texts, port : 0 .. UINT16_MAX,
              model : Texts, name : Texts]

LEMMA NoRadioType == NoRadio \in RadioType
<1>1. 0 \in 0 .. UINT16_MAX
  BY DEF UINT16_MAX
<1> QED
  BY <1>1, TextsType DEF NoRadio, RadioType

\* What parse_packet leaves in *radio.
LEMMA ParsedType ==
    ASSUME NEW p \in Packets, NEW old \in RadioType
    PROVE  Filled(p, old) \in RadioType /\ Abandoned(p, old) \in RadioType
<1>1. \A field, size : field_value(p, field, size) \in Texts
  BY FieldIsSaid
<1>2. AnnouncedPort(p) \in 0 .. UINT16_MAX /\ 0 \in 0 .. UINT16_MAX
  <2>1. \A m : m = 0 \/ m \in 1 .. UINT16_MAX => m \in 0 .. UINT16_MAX
    BY DEF UINT16_MAX
  <2> QED
    BY <2>1, PortIsSaid
<1>3. Filled(p, old) \in RadioType
  BY <1>1, <1>2 DEF Filled, RadioType
<1>4. ASSUME NEW serial \in Texts, NEW host \in Texts
      PROVE  [NoRadio EXCEPT !.serial = serial, !.host = host] \in RadioType
  BY <1>2, TextsType DEF NoRadio, RadioType
<1>5. Abandoned(p, old) \in RadioType
  <2> DEFINE serial == field_value(p, "serial", 64)
             host == IF serial = "" THEN "" ELSE field_value(p, "ip", 16)
  <2>1. serial \in Texts /\ host \in Texts
    BY <1>1, TextsType
  <2>2. Abandoned(p, old) = IF PayloadAccepted(p)
                            THEN [NoRadio EXCEPT !.serial = serial, !.host = host]
                            ELSE old
    BY DEF Abandoned
  <2> HIDE DEF serial, host
  <2> QED
    BY <1>4, <2>1, <2>2
<1> QED
  BY <1>3, <1>5

\* The radio of a match, and the datagram it was read from.
MatchOK ==
    /\ wait_pc # "idle" => discovery_result = "none"
    /\ discovery_result = "MATCHED" =>
          /\ Len(heard) = 1 /\ Announces(heard[1])
          /\ radio = Filled(heard[1], radio)
          /\ matches_selector(radio)

\* Filled does not depend on what was in *radio.
LEMMA FilledAlone ==
    ASSUME NEW p, NEW a, NEW b
    PROVE  Filled(p, a) = Filled(p, b)
BY DEF Filled

\* Facts about short queues.
LEMMA QueueEmpty ==
    ASSUME NEW S, NEW s, s = <<>>, NEW n \in Nat
    PROVE  s \in Seq(S) /\ Len(s) <= n
<1>1. s \in Seq(S) /\ Len(s) = 0
  OBVIOUS
<1> QED
  BY <1>1

LEMMA QueueTail ==
    ASSUME NEW S, NEW s \in Seq(S), s # <<>>
    PROVE  /\ Head(s) \in S /\ Tail(s) \in Seq(S)
           /\ Len(Tail(s)) = Len(s) - 1 /\ Len(s) \in Nat
OBVIOUS

LEMMA QueueAppend ==
    ASSUME NEW S, NEW s \in Seq(S), NEW x \in S, NEW n \in Nat, Len(s) < n
    PROVE  Append(s, x) \in Seq(S) /\ Len(Append(s, x)) <= n
<1>1. Append(s, x) \in Seq(S) /\ Len(Append(s, x)) = Len(s) + 1 /\ Len(s) \in Nat
  OBVIOUS
<1> QED
  BY <1>1

LEMMA ReceiveKeeps ==
    ASSUME WaitTypeOK, MatchOK, Receive
    PROVE  WaitTypeOK' /\ MatchOK'
<1> DEFINE p == Head(queue)
<1>1. p \in Packets /\ queue \in Seq(Packets) /\ QueueLimit \in Nat
  BY QueueTail, TextsType DEF WaitTypeOK, Receive
<1>2. Tail(queue) \in Seq(Packets) /\ Len(Tail(queue)) <= QueueLimit
  <2>1. /\ Tail(queue) \in Seq(Packets) /\ Len(Tail(queue)) = Len(queue) - 1
        /\ Len(queue) \in Nat /\ Len(queue) <= QueueLimit
    BY QueueTail DEF WaitTypeOK, Receive
  <2> QED
    BY <1>1, <2>1
<1>3. /\ heard' = <<p>>
      /\ radio' = IF Announces(p) THEN Filled(p, radio) ELSE Abandoned(p, radio)
      /\ \/ Announces(p) /\ matches_selector(radio') /\ Returns("MATCHED")
         \/ Ignore
      /\ wait_pc = "poll"
  BY DEF Receive
<1> HIDE DEF p
<1>4. heard' \in Seq(Packets) /\ Len(heard') = 1 /\ heard'[1] = p
  BY <1>1, <1>3
<1>5. radio' \in RadioType
  BY <1>1, <1>3, ParsedType DEF WaitTypeOK, RadioType
<1>6. /\ wait_pc' \in {"idle", "head"} /\ socket_open' \in BOOLEAN
      /\ queue' \in Seq(Packets) /\ Len(queue') <= QueueLimit
      /\ discovery_result' \in {"none", "STOPPED", "MATCHED", "ERROR"}
  <2>1. CASE Returns("MATCHED")
    <3>1. queue' = <<>>
      BY <2>1 DEF Returns
    <3>2. queue' \in Seq(Packets) /\ Len(queue') <= QueueLimit
      BY <1>1, <3>1, QueueEmpty
    <3> QED
      BY <2>1, <3>2 DEF Returns
  <2>2. CASE Ignore
    BY <1>2, <2>2 DEF Ignore, WaitTypeOK
  <2> QED
    BY <1>3, <2>1, <2>2
<1>7. WaitTypeOK'
  BY <1>4, <1>5, <1>6 DEF WaitTypeOK, RadioType, WaitLocations
<1>8. MatchOK'
  <2>1. CASE Ignore
    BY <1>3, <2>1 DEF Ignore, MatchOK
  <2>2. CASE Announces(p) /\ matches_selector(radio') /\ Returns("MATCHED")
    <3>1. radio' = Filled(heard'[1], radio')
      BY <1>3, <1>4, <2>2, FilledAlone
    <3> QED
      BY <1>4, <2>2, <3>1 DEF Returns, MatchOK
  <2> QED
    BY <1>3, <2>1, <2>2
<1> QED
  BY <1>7, <1>8

LEMMA WaitKeeps ==
    WaitTypeOK /\ MatchOK /\ [DiscoveryNext]_discovery_vars => WaitTypeOK' /\ MatchOK'
<1> SUFFICES ASSUME WaitTypeOK, MatchOK, [DiscoveryNext]_discovery_vars
             PROVE  WaitTypeOK' /\ MatchOK'
  OBVIOUS
<1>1. CASE Receive
  BY <1>1, ReceiveKeeps
<1>2. CASE \E p \in Packets : Arrive(p)
  <2>1. PICK p \in Packets : Arrive(p)
    BY <1>2
  <2>2. queue' \in Seq(Packets) /\ Len(queue') <= QueueLimit
    <3>1. queue \in Seq(Packets) /\ Len(queue) < QueueLimit /\ queue' = Append(queue, p)
      BY <2>1 DEF Arrive, WaitTypeOK
    <3> QED
      BY <3>1, QueueAppend, TextsType
  <2>3. UNCHANGED <<wait_pc, socket_open, radio, discovery_result, heard>>
    BY <2>1 DEF Arrive
  <2> QED
    BY <2>2, <2>3 DEF WaitTypeOK, MatchOK
<1>3. CASE CallWait \/ OpenSocket \/ WaitPolls \/ PollsNothing
  <2>1. /\ UNCHANGED <<queue, radio>> /\ socket_open' \in BOOLEAN
        /\ wait_pc' \in {"open", "head", "poll"} /\ discovery_result' = "none"
        /\ heard' = heard \/ heard' = <<>>
    BY <1>3 DEF CallWait, OpenSocket, WaitPolls, PollsNothing, MatchOK, WaitTypeOK
  <2>2. heard' \in Seq(Packets) /\ Len(heard') <= 1
    BY <2>1, QueueEmpty DEF WaitTypeOK
  <2> QED
    BY <2>1, <2>2 DEF WaitTypeOK, MatchOK, WaitLocations
<1>4. CASE OpenFails \/ WaitStops \/ PollError
  <2>1. /\ UNCHANGED <<radio, heard>> /\ queue' = <<>> /\ socket_open' = FALSE
        /\ wait_pc' = "idle" /\ discovery_result' \in {"STOPPED", "ERROR"}
    BY <1>4 DEF OpenFails, WaitStops, PollError, Returns
  <2>2. queue' \in Seq(Packets) /\ Len(queue') <= QueueLimit
    BY <2>1, QueueEmpty, TextsType
  <2> QED
    BY <2>1, <2>2 DEF WaitTypeOK, MatchOK, WaitLocations
<1>5. CASE UNCHANGED wait_vars
  BY <1>5 DEF wait_vars, WaitTypeOK, MatchOK
<1> QED
  BY <1>1, <1>2, <1>3, <1>4, <1>5 DEF DiscoveryNext, WaitStep, discovery_vars

LEMMA WaitInvHolds == DiscoverySpec => [](WaitTypeOK /\ MatchOK)
<1>1. DiscoveryInit => WaitTypeOK /\ MatchOK
  <2> SUFFICES ASSUME WaitInit PROVE WaitTypeOK /\ MatchOK
    BY DEF DiscoveryInit
  <2>1. queue \in Seq(Packets) /\ Len(queue) <= QueueLimit
    BY QueueEmpty, TextsType DEF WaitInit
  <2>2. heard \in Seq(Packets) /\ Len(heard) <= 1
    BY QueueEmpty DEF WaitInit
  <2> QED
    BY <2>1, <2>2, NoRadioType DEF WaitInit, WaitTypeOK, MatchOK, WaitLocations, RadioType
<1> QED
  BY <1>1, WaitKeeps, PTL DEF DiscoverySpec

(***************************************************************************)
(* The state of ag_discovery_wait keeps its type, whatever datagrams       *)
(* arrive: the queue its bound, the radio fields that are texts and a port *)
(* in range.                                                               *)
(***************************************************************************)
THEOREM DiscoveryType == DiscoverySpec => []WaitTypeOK
BY WaitInvHolds, PTL

(***************************************************************************)
(* parse_packet stays within the bytes it was given, for every datagram    *)
(* the wait reads.                                                         *)
(***************************************************************************)
THEOREM ParserAlwaysInBounds == DiscoverySpec => []ParserStaysInBounds
<1>1. WaitTypeOK => ParserStaysInBounds
  <2> SUFFICES ASSUME WaitTypeOK, NEW i \in DOMAIN heard
               PROVE  /\ BytesRead(heard[i]) <= heard[i].received
                      /\ PayloadAccepted(heard[i]) =>
                            PayloadOffset(heard[i]) + PayloadSize(heard[i])
                               <= heard[i].received
    BY DEF ParserStaysInBounds
  <2>1. heard[i] \in Packets
    BY ElementType DEF WaitTypeOK
  <2> QED
    BY <2>1, PacketStaysInBounds
<1> QED
  BY <1>1, WaitInvHolds, PTL

(***************************************************************************)
(* A match describes one announcement that both selectors accept: serial,  *)
(* address and port stand in the datagram that was read last, and nothing  *)
(* is left over from one that was rejected.                                *)
(***************************************************************************)
THEOREM MatchAlwaysOneAnnouncement == DiscoverySpec => []MatchIsOneAnnouncement
<1>1. WaitTypeOK /\ MatchOK => MatchIsOneAnnouncement
  <2> SUFFICES ASSUME WaitTypeOK, MatchOK, discovery_result = "MATCHED"
               PROVE  LET p == heard[1]
                      IN  /\ radio.serial \in Says(p, "serial")
                          /\ radio.host \in Says(p, "ip") \cap IPv4
                          /\ \E text \in Says(p, "port") \cap DOMAIN PortNumber :
                                radio.port = PortNumber[text]
                          /\ radio.model \in Says(p, "model") \cup {""}
                          /\ radio.name \in Says(p, "nickname") \cup Says(p, "name") \cup {""}
                          /\ radio_serial # "" => SameName(radio.serial, radio_serial)
                          /\ discovery_ip # "" => radio.host = discovery_ip
    BY DEF MatchIsOneAnnouncement
  <2> DEFINE p == heard[1]
  <2>1. p \in Packets /\ Announces(p) /\ matches_selector(radio)
    <3>1. 1 \in DOMAIN heard
      BY DEF MatchOK, WaitTypeOK
    <3> QED
      BY <3>1, ElementType DEF MatchOK, WaitTypeOK
  <2>2. radio = Filled(p, radio)
    BY DEF MatchOK
  <2> HIDE DEF p
  <2>3. /\ radio.serial = field_value(p, "serial", 64)
        /\ radio.host = field_value(p, "ip", 16)
        /\ radio.port = AnnouncedPort(p)
        /\ radio.model = field_value(p, "model", 64)
        /\ \/ radio.name = field_value(p, "nickname", 64)
           \/ radio.name = field_value(p, "name", 64)
    <3>1. /\ Filled(p, radio).serial = field_value(p, "serial", 64)
          /\ Filled(p, radio).host = field_value(p, "ip", 16)
          /\ Filled(p, radio).port = AnnouncedPort(p)
          /\ Filled(p, radio).model = field_value(p, "model", 64)
          /\ \/ Filled(p, radio).name = field_value(p, "nickname", 64)
             \/ Filled(p, radio).name = field_value(p, "name", 64)
      BY DEF Filled
    <3> QED
      BY <2>2, <3>1
  <2>4. \A field, size : field_value(p, field, size) \in Says(p, field) \cup {""}
    BY <2>1, FieldIsSaid
  <2>5. radio.serial # "" /\ radio.host \in IPv4 /\ radio.port # 0
    BY <2>1, <2>3 DEF Announces
  <2>6. radio.serial \in Says(p, "serial") /\ radio.host \in Says(p, "ip") \cap IPv4
    <3>1. /\ radio.serial \in Says(p, "serial") \cup {""}
          /\ radio.host \in Says(p, "ip") \cup {""}
      BY <2>3, <2>4, Zenon
    <3>2. "" \notin IPv4
      BY TextsType
    <3> QED
      BY <2>5, <3>1, <3>2, Zenon
  <2>7. \E text \in Says(p, "port") \cap DOMAIN PortNumber : radio.port = PortNumber[text]
    BY <2>1, <2>3, <2>5, PortIsSaid
  <2>8. /\ radio.model \in Says(p, "model") \cup {""}
        /\ radio.name \in Says(p, "nickname") \cup Says(p, "name") \cup {""}
    <3>1. /\ field_value(p, "model", 64) \in Says(p, "model") \cup {""}
          /\ field_value(p, "nickname", 64) \in Says(p, "nickname") \cup {""}
          /\ field_value(p, "name", 64) \in Says(p, "name") \cup {""}
      BY <2>4, Zenon
    <3>2. radio.model \in Says(p, "model") \cup {""}
      BY <2>3, <3>1, Zenon
    <3>3. \/ radio.name \in Says(p, "nickname") \cup {""}
          \/ radio.name \in Says(p, "name") \cup {""}
      BY <2>3, <3>1, Zenon
    <3> QED
      BY <3>2, <3>3, Zenon
  <2>9. /\ radio_serial # "" => SameName(radio.serial, radio_serial)
        /\ discovery_ip # "" => radio.host = discovery_ip
    BY <2>1 DEF matches_selector, SameName
  <2> QED
    BY <2>6, <2>7, <2>8, <2>9 DEF p
<1> QED
  BY <1>1, WaitInvHolds, PTL

=============================================================================
