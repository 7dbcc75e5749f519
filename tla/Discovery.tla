----------------------------- MODULE Discovery -----------------------------
(***************************************************************************)
(* One call of ag_discovery_wait (discovery.c): a UDP socket is opened,    *)
(* datagrams are parsed until one announces the configured radio, and the  *)
(* socket is closed.  The stop flag and the thread that calls are those of *)
(* module Lifecycle; here both are open.                                   *)
(*                                                                         *)
(* A datagram keeps its lengths and the few header bits the parser tests;  *)
(* its payload is the sequence of its name=value tokens.  Texts are        *)
(* strings, with what the parser asks of them given by the constants.      *)
(***************************************************************************)
EXTENDS Policy, FiniteSetsExt

CONSTANTS
    Packets,        \* the datagrams that may arrive
    Length,         \* strlen of each text
    IPv4,           \* the texts inet_pton accepts
    PortNumber,     \* what strtoul makes of a text it consumes entirely
    radio_serial,   \* the configured selectors, "" if not configured
    discovery_ip,
    QueueLimit      \* datagrams the socket's receive buffer holds

Texts == DOMAIN Length

AG_DISCOVERY_PACKET_MAX == 4096

\* The range of the packet size in the header, and of a port.
UINT16_MAX == 65535

\* What the header of a Flex announcement must say.
Marks == {"extension data with stream", "class present", "discovery stream",
          "discovery class"}

\* A datagram: bytes received; the packet's size in words; the marks and
\* time stamps its header has; for the bytes of the packet, the offset after
\* the last one that is not NUL and whether a NUL precedes it in the payload;
\* the payload's tokens.
Packet == [received : 0 .. AG_DISCOVERY_PACKET_MAX, words : 0 .. UINT16_MAX,
           marks : SUBSET Marks, tsi : BOOLEAN, tsf : BOOLEAN,
           text_end : Nat, inner_nul : BOOLEAN,
           fields : Seq([name : STRING, value : Texts])]

ASSUME DiscoveryAssumption ==
    /\ Packets \subseteq Packet
    /\ \A p \in Packets : p.text_end <= 4 * p.words
    /\ Length \in [Texts -> Nat] /\ "" \in Texts
    /\ IPv4 \subseteq Texts \ {""}
    /\ PortNumber \in [DOMAIN PortNumber -> Nat]
    /\ "" \notin DOMAIN PortNumber
    /\ {radio_serial, discovery_ip} \subseteq Texts
    /\ Texts \subseteq Names
    /\ QueueLimit \in Nat \ {0}

VARIABLES
    wait_pc,           \* see WaitLocations
    socket_open,       \* the UDP socket
    queue,             \* datagrams received by the socket and not read
    radio,             \* *radio, the caller's ag_discovered_radio
    discovery_result,  \* "none" until the call returns
    heard,             \* history: the datagram read last, as <<p>>
    stop_requested

wait_vars == <<wait_pc, socket_open, queue, radio, discovery_result, heard>>

\* open: before socket(); head: at the while; poll: in poll and recv.
WaitLocations == {"idle", "open", "head", "poll"}

-----------------------------------------------------------------------------
(* parse_packet.                                                           *)

NoRadio == [serial |-> "", host |-> "", port |-> 0, model |-> "", name |-> ""]

\* The first token of that name decides, even if its value does not fit.
field_value(p, field, size) ==
    LET tokens == {i \in DOMAIN p.fields : p.fields[i].name = field}
        value  == p.fields[Min(tokens)].value
    IN  IF tokens # {} /\ Length[value] \in 1 .. size - 1 THEN value ELSE ""

PacketSize(p) == p.words * 4

\* Mutant: the header's size is not compared with what was received.
HeaderAccepted_trusting(p) ==
    /\ p.received >= 16
    /\ PacketSize(p) >= 16
    /\ p.marks = Marks

HeaderAccepted(p) ==
    /\ p.received >= 16
    /\ PacketSize(p) \in 16 .. p.received
    /\ p.marks = Marks

\* Header word, stream, class words and the optional time stamps.
PayloadOffset(p) ==
    16 + (IF p.tsi THEN 4 ELSE 0) + (IF p.tsf THEN 8 ELSE 0)

\* What is left when the NULs at the end are dropped.
PayloadSize(p) == Max({PayloadOffset(p), p.text_end}) - PayloadOffset(p)

\* The parser goes on to read the payload.
ReadsPayload(p) == HeaderAccepted(p) /\ PayloadOffset(p) < PacketSize(p)

\* How far into the datagram the parser reads.
BytesRead(p) ==
    IF ReadsPayload(p) THEN PacketSize(p)
    ELSE IF p.received >= 16 THEN 16 ELSE 0

PayloadAccepted(p) ==
    /\ ReadsPayload(p)
    /\ PayloadSize(p) \in 1 .. AG_DISCOVERY_PACKET_MAX
    /\ ~p.inner_nul

\* Mutant: the upper limit of a port is not tested.
AnnouncedPort_unbounded(p) ==
    LET text == field_value(p, "port", 16)
    IN  IF text \in DOMAIN PortNumber THEN PortNumber[text] ELSE 0

\* The port, or 0 if it is missing, malformed or out of range.
AnnouncedPort(p) ==
    LET text == field_value(p, "port", 16)
    IN  IF text \in DOMAIN PortNumber /\ PortNumber[text] \in 1 .. UINT16_MAX
        THEN PortNumber[text] ELSE 0

\* parse_packet returns true.
Announces(p) ==
    /\ PayloadAccepted(p)
    /\ field_value(p, "serial", 64) # ""
    /\ field_value(p, "ip", 16) \in IPv4
    /\ AnnouncedPort(p) # 0

\* Mutant: the radio is not zeroed before it is filled.
Filled_over(p, old) ==
    [serial |-> field_value(p, "serial", 64),
     host   |-> field_value(p, "ip", 16),
     port   |-> AnnouncedPort(p),
     model  |-> IF field_value(p, "model", 64) = "" THEN old.model
                ELSE field_value(p, "model", 64),
     name   |-> IF field_value(p, "nickname", 64) # ""
                THEN field_value(p, "nickname", 64)
                ELSE IF field_value(p, "name", 64) = "" THEN old.name
                ELSE field_value(p, "name", 64)]

\* *radio after a parse that returned true.
Filled(p, old) ==
    [serial |-> field_value(p, "serial", 64),
     host   |-> field_value(p, "ip", 16),
     port   |-> AnnouncedPort(p),
     model  |-> field_value(p, "model", 64),
     name   |-> IF field_value(p, "nickname", 64) # ""
                THEN field_value(p, "nickname", 64)
                ELSE field_value(p, "name", 64)]

\* *radio after a parse that gave up: the serial and then the address may
\* have been written.
Abandoned(p, old) ==
    LET serial == field_value(p, "serial", 64)
    IN  IF PayloadAccepted(p)
        THEN [NoRadio EXCEPT !.serial = serial,
                             !.host = IF serial = "" THEN ""
                                      ELSE field_value(p, "ip", 16)]
        ELSE old

\* Mutant: one selector that matches is enough.
matches_selector_either(r) ==
    \/ radio_serial # "" /\ SameName(radio_serial, r.serial)
    \/ discovery_ip # "" /\ discovery_ip = r.host

matches_selector(r) ==
    /\ radio_serial = "" \/ SameName(radio_serial, r.serial)
    /\ discovery_ip = "" \/ discovery_ip = r.host

-----------------------------------------------------------------------------
(* ag_discovery_wait.                                                      *)

WaitInit ==
    /\ wait_pc = "idle"
    /\ socket_open = FALSE
    /\ queue = <<>>
    /\ radio = NoRadio
    /\ discovery_result = "none"
    /\ heard = <<>>

\* The caller's ag_discovered_radio is a fresh, uninitialised local: any
\* earlier content.
CallWait ==
    /\ wait_pc = "idle"
    /\ wait_pc' = "open"
    /\ discovery_result' = "none"
    /\ heard' = <<>>
    /\ UNCHANGED <<socket_open, queue, radio>>

\* Mutant: a match leaves the socket open.
Returns_leaking(value) ==
    /\ wait_pc' = "idle"
    /\ discovery_result' = value
    /\ socket_open' = (value = "MATCHED")
    /\ queue' = <<>>

\* close(socket_fd): what the socket had not delivered is gone.
Returns(value) ==
    /\ wait_pc' = "idle"
    /\ discovery_result' = value
    /\ socket_open' = FALSE
    /\ queue' = <<>>

\* socket, setsockopt and bind succeed.
OpenSocket ==
    /\ wait_pc = "open"
    /\ wait_pc' = "head"
    /\ socket_open' = TRUE
    /\ UNCHANGED <<queue, radio, discovery_result, heard>>

OpenFails ==
    /\ wait_pc = "open"
    /\ Returns("ERROR")
    /\ UNCHANGED <<radio, heard>>

WaitStops ==
    /\ wait_pc = "head" /\ stop_requested
    /\ Returns("STOPPED")
    /\ UNCHANGED <<radio, heard>>

\* Mutant: the loop does not test the stop flag.
WaitPolls_unstoppable ==
    /\ wait_pc = "head"
    /\ wait_pc' = "poll"
    /\ UNCHANGED <<socket_open, queue, radio, discovery_result, heard>>

WaitPolls ==
    /\ wait_pc = "head" /\ ~stop_requested
    /\ wait_pc' = "poll"
    /\ UNCHANGED <<socket_open, queue, radio, discovery_result, heard>>

\* Nothing for a second, or a signal.
PollsNothing ==
    /\ wait_pc = "poll" /\ queue = <<>>
    /\ wait_pc' = "head"
    /\ UNCHANGED <<socket_open, queue, radio, discovery_result, heard>>

PollError ==
    /\ wait_pc = "poll"
    /\ Returns("ERROR")
    /\ UNCHANGED <<radio, heard>>

\* Mutant: everything the socket holds is dropped.
Ignore_all ==
    /\ wait_pc' = "head"
    /\ queue' = <<>>
    /\ UNCHANGED <<socket_open, discovery_result>>

\* The datagram does not end the wait.
Ignore ==
    /\ wait_pc' = "head"
    /\ queue' = Tail(queue)
    /\ UNCHANGED <<socket_open, discovery_result>>

\* recv takes the oldest datagram; a match ends the wait.
Receive ==
    /\ wait_pc = "poll" /\ queue # <<>>
    /\ LET p == Head(queue)
       IN  /\ heard' = <<p>>
           /\ radio' = IF Announces(p) THEN Filled(p, radio)
                                       ELSE Abandoned(p, radio)
           /\ IF Announces(p) /\ matches_selector(radio')
              THEN Returns("MATCHED") ELSE Ignore

\* A datagram arrives; without a socket, or with a full one, it is lost.
Arrive(p) ==
    /\ socket_open /\ Len(queue) < QueueLimit
    /\ queue' = Append(queue, p)
    /\ UNCHANGED <<wait_pc, socket_open, radio, discovery_result, heard>>

WaitStep ==
    \/ OpenSocket \/ OpenFails
    \/ WaitStops \/ WaitPolls \/ PollsNothing \/ PollError \/ Receive

-----------------------------------------------------------------------------
(* The wait alone: called again and again, stopped at any time.            *)

DiscoveryInit == WaitInit /\ stop_requested = FALSE

DiscoveryNext ==
    \/ (CallWait \/ WaitStep) /\ UNCHANGED stop_requested
    \/ (\E p \in Packets : Arrive(p)) /\ UNCHANGED stop_requested
    \/ stop_requested' = TRUE /\ UNCHANGED wait_vars

discovery_vars == <<wait_vars, stop_requested>>

DiscoverySpec == DiscoveryInit /\ [][DiscoveryNext]_discovery_vars

\* The state of the wait has its type.
WaitTypeOK ==
    /\ wait_pc \in WaitLocations
    /\ socket_open \in BOOLEAN
    /\ queue \in Seq(Packets) /\ Len(queue) <= QueueLimit
    /\ radio \in [serial : Texts, host : Texts, port : 0 .. UINT16_MAX,
                  model : Texts, name : Texts]
    /\ discovery_result \in {"none", "STOPPED", "MATCHED", "ERROR"}
    /\ heard \in Seq(Packets) /\ Len(heard) <= 1

(***************************************************************************)
(* Whatever a datagram's header claims about its size and time stamps,     *)
(* parse_packet reads no byte beyond those that were received, and what it *)
(* copies fits its payload buffer with the terminating NUL.                *)
(***************************************************************************)
ParserStaysInBounds ==
    \A i \in DOMAIN heard :
        /\ BytesRead(heard[i]) <= heard[i].received
        /\ PayloadAccepted(heard[i]) =>
              PayloadOffset(heard[i]) + PayloadSize(heard[i]) <= heard[i].received

\* The values a datagram gives to a field, however often it names it.
Says(p, field) ==
    {p.fields[i].value : i \in {j \in DOMAIN p.fields : p.fields[j].name = field}}

(***************************************************************************)
(* A match describes one announcement: everything ag_discovery_wait hands  *)
(* out stands in the datagram that was read last, nothing is left over     *)
(* from an earlier one, and both configured selectors agree with it        *)
(* (README: "both must match the same announcement").                      *)
(***************************************************************************)
MatchIsOneAnnouncement ==
    discovery_result = "MATCHED" =>
        LET p == heard[1]
        IN  /\ radio.serial \in Says(p, "serial")
            /\ radio.host \in Says(p, "ip") \cap IPv4
            /\ \E text \in Says(p, "port") \cap DOMAIN PortNumber :
                  radio.port = PortNumber[text]
            /\ radio.model \in Says(p, "model") \cup {""}
            /\ radio.name \in Says(p, "nickname") \cup Says(p, "name") \cup {""}
            /\ radio_serial # "" => SameName(radio.serial, radio_serial)
            /\ discovery_ip # "" => radio.host = discovery_ip
=============================================================================
