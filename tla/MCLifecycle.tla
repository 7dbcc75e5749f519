---------------------------- MODULE MCLifecycle ----------------------------
(***************************************************************************)
(* Constants for checking Lifecycle: delays that double twice and then     *)
(* meet their maximum exactly or not, that cannot grow, and messages that  *)
(* are due between, with and long after the retries.                       *)
(***************************************************************************)
EXTENDS Lifecycle

MCCaseFold ==
    [n \in {"", "INVALID", "abc", "ABC", "other", "10.0.0.1", "4992", "model"} |->
        IF n = "abc" THEN "ABC" ELSE n]

MCLength == [n \in DOMAIN MCCaseFold \ {"INVALID"} |-> IF n = "" THEN 0 ELSE 5]

MCPortNumber == [t \in {"4992"} |-> 4992]

Token(name, value) == [name |-> name, value |-> value]

Announcement(serial) ==
    [received |-> 64, words |-> 16, marks |-> Marks, tsi |-> TRUE, tsf |-> TRUE,
     text_end |-> 61, inner_nul |-> FALSE,
     fields |-> <<Token("serial", serial), Token("ip", "10.0.0.1"),
                  Token("port", "4992")>>]

\* The configured radio and another one.
MCPackets == {Announcement("abc"), Announcement("other")}

MCCommandLines ==
    {<<>>, <<"observe">>, <<"once">>, <<"config", "once", "observe">>,
     <<"verbose", "check-config">>, <<"version">>, <<"help">>, <<"once", "unknown">>}

Setting(seconds, maximum, log) ==
    [reconnect_seconds |-> seconds, reconnect_max_seconds |-> maximum,
     reconnect_log_seconds |-> log]

MCSettings == {Setting(1, 4, 3), Setting(1, 5, 6), Setting(2, 2, 1)}
=============================================================================
