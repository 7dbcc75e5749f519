------------------------------ MODULE MCConfig ------------------------------
(***************************************************************************)
(* Files around a valid one: every combination of radio settings at and    *)
(* beside their limits; every list of two antennas with every policy of    *)
(* two rows, from names that differ, agree or agree up to letter case and  *)
(* rows that are valid or not; lists at the limits of length; sections     *)
(* that are missing, misplaced or repeated; files that cannot be read.     *)
(***************************************************************************)
EXTENDS Config

\* IDs of the greatest length allowed, and what lies beyond the limits.
LongIds == {"long1", "long2", "long3", "long4", "long5", "long6", "long7",
            "long8", "long9"}
Lengths == [n \in {"id32", "host255", "host256", "serial63", "serial64"} |->
    CASE n = "id32" -> 32 [] n = "host255" -> 255 [] n = "host256" -> 256
      [] n = "serial63" -> 63 [] n = "serial64" -> 64]

MCWordTexts == LongIds \cup DOMAIN Lengths \cup
    {"ANT1", "ant1", "ANT2", "INVALID", "radio", "host", "serial", "port",
     "discovery_ip", "reconnect_seconds", "reconnect_max_seconds",
     "reconnect_log_seconds", "interlock", "antennas", "policy", "2m", "40M", "20M"}
     \cup {BANDS[b].name : b \in BandIndex}
MCSerialTexts == MCWordTexts \cup {"10.0.0.1", "10.0.0.256"}
MCNames == MCSerialTexts \cup {"", "bad id"}

MCCaseFold == [n \in MCNames |->
    CASE n = "ant1" -> "ANT1" [] n = "40M" -> "40m" [] n = "20M" -> "20m"
      [] OTHER -> n]
MCLength == [n \in MCNames |->
    CASE n = "" -> 0 [] n \in LongIds -> 31 [] n \in DOMAIN Lengths -> Lengths[n]
      [] OTHER -> 8]

S(text) == Node("string", text, 0, <<>>)
N(n) == Node("number", "", 2 * n, <<>>)
Half(n) == Node("number", "", 2 * n + 1, <<>>)
Null == Node("null", "", 0, <<>>)
Object(members) ==
    Node("object", "", 0, SelectSeq(members, LAMBDA m : m.value # None))
Array(items) == Node("array", "", 0, [i \in DOMAIN items |-> Member("", items[i])])

RadioObject(host, serial, ip, port, reconnect, max, log) ==
    Object(<<Member("host", host), Member("serial", serial),
             Member("discovery_ip", ip), Member("port", port),
             Member("reconnect_seconds", reconnect),
             Member("reconnect_max_seconds", max),
             Member("reconnect_log_seconds", log)>>)

Selectors ==
    {RadioObject(host, serial, ip, port, reconnect, max, log) :
        host \in {None, S(""), S("host255"), S("host256"), Null},
        serial \in {None, S("serial63"), S("serial64"), S("bad id"), N(1)},
        ip \in {None, S("10.0.0.1"), S("10.0.0.256"), Null},
        port \in {None, N(1)}, reconnect \in {None, N(31)}, max \in {None, N(30)},
        log \in {None, N(0)}}

Numbers ==
    {RadioObject(S("10.0.0.1"), None, None, port, reconnect, max, log) :
        port \in {None, N(0), N(1), N(65535), Half(65535), N(65536), S("radio")},
        reconnect \in {None, Half(0), N(1), Half(1), N(40), N(300), N(301), Null},
        max \in {None, N(0), N(1), N(2), N(39), N(40), N(3600), N(3601), Null},
        log \in {None, N(0), N(1), N(86400), N(86401), Null}}

Host == Member("host", S("10.0.0.1"))
MCRadios == Selectors \cup Numbers \cup
    {Null, Array(<<S("10.0.0.1")>>), Object(<<Host, Host>>),
     Object(<<Host, Member("policy", Null)>>)}

Ids == {S("ANT1"), S("ant1"), S("ANT2"), S("id32"), S("bad id"), Null}
Lists(items, n) == UNION {[1 .. k -> items] : k \in 0 .. n}
LongList(n) == [i \in 1 .. n |-> S(<<"long1", "long2", "long3", "long4", "long5",
                                    "long6", "long7", "long8", "long9">>[i])]
Bands == {Array(<<>>), Array(<<S("40m")>>), Array(<<S("40M"), S("20m")>>),
          Array(<<S("20m"), S("20M")>>), Array(<<S("6m"), S("2m")>>),
          Array(<<Null>>), Null}
Row == {Member(key, bands) : key \in {"ANT1", "ant1", "ANT2"}, bands \in Bands}

Root(radio, interlock, policy) ==
    Object(<<Member("policy", policy), Member("radio", radio),
             Member("interlock", interlock)>>)
Interlock(ids) == Object(<<Member("antennas", Array(ids))>>)
PolicyFor(ids) ==
    Object([i \in DOMAIN ids |-> Member(ids[i].text, Array(<<S("160m")>>))])

AnyRadio == RadioObject(S("10.0.0.1"), None, None, None, None, None, None)
AnyInterlock == Interlock(<<S("ANT1")>>)
AnyPolicy == Object(<<Member("ant1", Array(<<S("40m")>>))>>)

OtherRoots ==
    {Root(AnyRadio, Interlock(ids), PolicyFor(ids)) :
        ids \in {LongList(8), LongList(9), Append(LongList(7), S("id32"))}}
    \cup {Root(AnyRadio, interlock, AnyPolicy) :
             interlock \in {None, Null, Object(<<>>), Object(<<Host>>), S("ANT1"),
                            Object(<<Member("antennas", S("ANT1"))>>)}}
    \cup {Root(AnyRadio, AnyInterlock, policy) : policy \in {None, Null, Array(<<>>)}}
    \cup {None, Null, Array(<<AnyRadio>>), Object(<<Host>>),
          Object(<<Member("radio", AnyRadio), Member("radio", AnyRadio)>>)}

MCRoots ==
    {Root(radio, AnyInterlock, AnyPolicy) : radio \in MCRadios}
    \cup {Root(AnyRadio, Interlock(ids), Object(rows)) :
             ids \in Lists(Ids, 2), rows \in Lists(Row, 2)}
    \cup OtherRoots

File(opens, size, complete, root) ==
    [opens |-> opens, size |-> size, complete |-> complete, root |-> root]

GoodRoot == Root(AnyRadio, AnyInterlock, AnyPolicy)

\* The sections of the files, what is in them, and the items of that.
Below(nodes) == UNION {{node.members[i].value : i \in DOMAIN node.members} : node \in nodes}
Sections ==
    MCRadios \cup {Object(rows) : rows \in Lists(Row, 2)}
    \cup {Interlock(ids) : ids \in Lists(Ids, 2)}
    \cup Below({root \in OtherRoots : root.type # "none"})
MCNodes == Sections \cup Below(Sections) \cup Below(Below(Sections))

MCFiles ==
    {File(TRUE, 500, TRUE, root) : root \in MCRoots}
    \cup {File(opens, size, complete, GoodRoot) :
             opens, complete \in BOOLEAN, size \in {1048576, 1048577}}
=============================================================================
