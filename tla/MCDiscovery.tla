---------------------------- MODULE MCDiscovery ----------------------------
(***************************************************************************)
(* Datagrams for checking Discovery: the announcement of the wanted radio  *)
(* with every length around the header's boundaries, and announcements     *)
(* that fail or differ in one field.                                       *)
(***************************************************************************)
EXTENDS Discovery

MCCaseFold ==
    [n \in {"", "INVALID", "abc", "ABC", "other", "10.0.0.1", "10.0.0.2",
            "10.0", "4992", "0", "65536", "x", "model", "name", "long"} |->
        IF n = "abc" THEN "ABC" ELSE n]

MCLength ==
    [n \in DOMAIN MCCaseFold \ {"INVALID"} |->
        CASE n = "" -> 0 [] n = "long" -> 64 [] OTHER -> 5]

MCIPv4 == {"10.0.0.1", "10.0.0.2"}

MCPortNumber ==
    [t \in {"0", "4992", "65536"} |->
        CASE t = "0" -> 0 [] t = "4992" -> 4992 [] t = "65536" -> 65536]

Token(name, value) == [name |-> name, value |-> value]

Wanted == <<Token("serial", "abc"), Token("ip", "10.0.0.1"), Token("port", "4992")>>

Announcement(fields) ==
    [received |-> 64, words |-> 16, marks |-> Marks, tsi |-> TRUE, tsf |-> TRUE,
     text_end |-> 61, inner_nul |-> FALSE, fields |-> fields]

\* Sizes on both sides of the header's end, with and without time stamps; a
\* payload that is empty, ends with the packet or before it.
SizedPackets ==
    {p \in [received : {15, 16, 20, 31, 32}, words : {3, 4, 5, 8},
            marks : {Marks}, tsi : BOOLEAN, tsf : BOOLEAN,
            text_end : {0, 17, 32}, inner_nul : {FALSE},
            fields : {Wanted}] :
        p.text_end <= 4 * p.words}

\* One mark missing, and a NUL in the text.
SpoiltPackets ==
    {[Announcement(Wanted) EXCEPT !.marks = Marks \ {m}] : m \in Marks}
        \cup {[Announcement(Wanted) EXCEPT !.inner_nul = TRUE]}

\* Another radio, with and without the details, and the wanted one with a
\* field that is missing, empty, repeated, malformed or out of range.
FieldPackets ==
    {Announcement(fields) : fields \in
        {Wanted,
         Wanted \o <<Token("model", "model"), Token("nickname", "name")>>,
         Wanted \o <<Token("nickname", "long"), Token("name", "name")>>,
         <<Token("serial", "other"), Token("model", "model")>> \o Tail(Wanted),
         <<Token("serial", ""), Token("serial", "abc")>> \o Tail(Wanted),
         <<Token("serial", "long")>> \o Tail(Wanted),
         Tail(Wanted), SubSeq(Wanted, 1, 2),
         <<Token("serial", "ABC"), Token("ip", "10.0.0.2"), Token("port", "4992")>>,
         <<Token("serial", "abc"), Token("ip", "10.0"), Token("port", "4992")>>,
         <<Token("serial", "abc"), Token("ip", "10.0.0.1"), Token("port", "0")>>,
         <<Token("serial", "abc"), Token("ip", "10.0.0.1"), Token("port", "65536")>>,
         <<Token("serial", "abc"), Token("ip", "10.0.0.1"), Token("port", "x")>>}}

MCPackets == FieldPackets \cup SizedPackets \cup SpoiltPackets
=============================================================================
