----------------------------- MODULE LineReader -----------------------------
(***************************************************************************)
(* read_line and extract_line of flex.c: how the bytes of the radio's      *)
(* connection become the lines of FlexSession.  TCP keeps the bytes in     *)
(* order and cuts them anywhere; a call of read_line ends with a line,     *)
(* with none so far, or with an error, and its callers call it again.      *)
(***************************************************************************)
EXTENDS Integers, Sequences, FiniteSetsExt

CONSTANTS
    AG_LINE_BUFFER,  \* 8192 in the program: the receive buffer and each line
    OtherBytes,      \* the bytes that are not CR or LF
    MaxStream        \* bound: bytes the radio sends

ASSUME LineAssumption ==
    /\ AG_LINE_BUFFER \in Nat \ {0}
    /\ OtherBytes \cap {"CR", "LF"} = {}
    /\ MaxStream \in Nat

Bytes == OtherBytes \cup {"CR", "LF"}

VARIABLES
    read_pc,         \* "called": read_line begins; "poll": in its loop
    receive_buffer,  \* the bytes received and not yet returned
    returned,        \* what the last call returned
    stream,          \* history: everything recv has delivered
    lines            \* history: every line returned, without its end

line_vars == <<read_pc, receive_buffer, returned, stream, lines>>

Init ==
    /\ read_pc = "called"
    /\ receive_buffer = <<>>
    /\ returned = "nothing"
    /\ stream = <<>>
    /\ lines = <<>>

-----------------------------------------------------------------------------
(* extract_line.                                                           *)

Newlines(bytes) == {i \in DOMAIN bytes : bytes[i] = "LF"}

\* Mutant: a CR is dropped only if something precedes it.
Chomped_keeping(bytes) ==
    IF Len(bytes) > 1 /\ bytes[Len(bytes)] = "CR"
    THEN SubSeq(bytes, 1, Len(bytes) - 1) ELSE bytes

\* A line without the CR before its newline.
Chomped(bytes) ==
    IF Len(bytes) > 0 /\ bytes[Len(bytes)] = "CR"
    THEN SubSeq(bytes, 1, Len(bytes) - 1) ELSE bytes

\* The first line of a buffer, and what memmove leaves.
FirstLine(buffer) == Chomped(SubSeq(buffer, 1, Min(Newlines(buffer)) - 1))
AfterFirst(buffer) == SubSeq(buffer, Min(Newlines(buffer)) + 1, Len(buffer))

\* A line that does not fit the caller's stays where it is.
ReturnLine(buffer) ==
    IF Len(FirstLine(buffer)) + 1 > AG_LINE_BUFFER
    THEN receive_buffer' = buffer /\ returned' = "too long" /\ UNCHANGED lines
    ELSE /\ receive_buffer' = AfterFirst(buffer)
         /\ lines' = Append(lines, FirstLine(buffer))
         /\ returned' = "line"

extract_line(buffer) ==
    \/ Newlines(buffer) # {} /\ ReturnLine(buffer)
    \/ /\ Newlines(buffer) = {}
       /\ receive_buffer' = buffer
       /\ returned' = "nothing"
       /\ UNCHANGED lines

-----------------------------------------------------------------------------
(* read_line.                                                              *)

\* A line is left from an earlier recv.
ReadBuffered ==
    /\ read_pc = "called" /\ Newlines(receive_buffer) # {}
    /\ extract_line(receive_buffer)
    /\ UNCHANGED <<read_pc, stream>>

\* Mutant: a byte of the buffer is kept for a NUL.
ReadFull_early ==
    /\ read_pc = "called" /\ Newlines(receive_buffer) = {}
    /\ Len(receive_buffer) >= AG_LINE_BUFFER - 1
    /\ returned' = "unterminated"
    /\ UNCHANGED <<read_pc, receive_buffer, stream, lines>>

\* The buffer is full and holds no line: no call will ever get past this.
ReadFull ==
    /\ read_pc = "called" /\ Newlines(receive_buffer) = {}
    /\ Len(receive_buffer) = AG_LINE_BUFFER
    /\ returned' = "unterminated"
    /\ UNCHANGED <<read_pc, receive_buffer, stream, lines>>

ReadPolls ==
    /\ read_pc = "called" /\ Newlines(receive_buffer) = {}
    /\ Len(receive_buffer) # AG_LINE_BUFFER
    /\ read_pc' = "poll"
    /\ UNCHANGED <<receive_buffer, returned, stream, lines>>

\* The time is up or a signal arrived, before or in recv.
PollNothing ==
    /\ read_pc = "poll"
    /\ read_pc' = "called"
    /\ returned' = "nothing"
    /\ UNCHANGED <<receive_buffer, stream, lines>>

\* The radio closed or reset the connection, or poll or recv failed.
PollFails ==
    /\ read_pc = "poll"
    /\ read_pc' = "called"
    /\ returned' = "failed"
    /\ UNCHANGED <<receive_buffer, stream, lines>>

\* Mutant: a line that recv completed is left to the next call.
Received_unsearched(buffer) ==
    /\ receive_buffer' = buffer
    /\ returned' = "nothing"
    /\ UNCHANGED lines

Received(buffer) == extract_line(buffer)

\* Mutant: one byte more than the buffer has.
Room_over == AG_LINE_BUFFER + 1 - Len(receive_buffer)

\* What recv is told that the buffer can take.
Room == AG_LINE_BUFFER - Len(receive_buffer)

\* recv delivers some of the bytes that have arrived, at least one.
Recv(chunk) ==
    /\ read_pc = "poll"
    /\ Len(chunk) \in 1 .. Room
    /\ stream' = stream \o chunk
    /\ Received(receive_buffer \o chunk)
    /\ read_pc' = "called"

Next ==
    \/ ReadBuffered \/ ReadFull \/ ReadPolls \/ PollNothing \/ PollFails
    \/ \E n \in 1 .. MaxStream - Len(stream) :
          \E chunk \in [1 .. n -> Bytes] : Recv(chunk)

Spec == Init /\ [][Next]_line_vars

-----------------------------------------------------------------------------
\* The buffer never holds more than it can, nor does a line with its NUL.
LineTypeOK ==
    /\ read_pc \in {"called", "poll"}
    /\ receive_buffer \in Seq(Bytes) /\ Len(receive_buffer) <= AG_LINE_BUFFER
    /\ returned \in {"line", "nothing", "failed", "too long", "unterminated"}
    /\ stream \in Seq(Bytes)
    /\ lines \in Seq(Seq(Bytes))
    /\ \A i \in DOMAIN lines : Len(lines[i]) < AG_LINE_BUFFER

\* Where the k-th newline of a text is; 0 before the first one.
NewlineAt(text, k) ==
    IF k = 0 THEN 0
    ELSE CHOOSE i \in Newlines(text) :
            Cardinality({j \in Newlines(text) : j <= i}) = k

(***************************************************************************)
(* However TCP cuts the radio's bytes, whatever of a line one recv leaves  *)
(* to the next, and whatever fails in between, the lines returned are the  *)
(* first lines of the stream, each once, in order and without its CR LF,   *)
(* and the buffer holds exactly the bytes after them.                      *)
(***************************************************************************)
LinesAreTheStream ==
    /\ Len(lines) <= Cardinality(Newlines(stream))
    /\ \A k \in DOMAIN lines :
          LET from == NewlineAt(stream, k - 1) + 1
              to   == NewlineAt(stream, k) - 1
              sent == SubSeq(stream, from, to)
          IN  \/ sent = lines[k] /\ (sent = <<>> \/ sent[Len(sent)] # "CR")
              \/ sent = Append(lines[k], "CR")
    /\ receive_buffer = SubSeq(stream, NewlineAt(stream, Len(lines)) + 1, Len(stream))

(***************************************************************************)
(* A line that has been received completely is never waited for: read_line *)
(* neither polls nor reports that there is nothing while the buffer holds  *)
(* one.  (After a signal or a time-out "nothing" is said with at most a    *)
(* part of a line in the buffer.)                                          *)
(***************************************************************************)
ReceivedLineIsNotAwaited ==
    read_pc = "poll" \/ returned = "nothing" => Newlines(receive_buffer) = {}

(***************************************************************************)
(* A session is given up for the length of a line only if a line really is *)
(* longer than the buffer: one that fills it to the last byte with its     *)
(* newline is returned, and the limit of the caller's line is never met.   *)
(***************************************************************************)
OnlyOverlongIsRefused ==
    /\ returned # "too long"
    /\ returned = "unterminated" =>
          /\ Len(receive_buffer) = AG_LINE_BUFFER
          /\ Newlines(receive_buffer) = {}
=============================================================================
