---------------------------- MODULE ConfigProofs ----------------------------
(***************************************************************************)
(* ag_config_load, for every set of files.                                 *)
(***************************************************************************)
EXTENDS Config, PolicyProofs, FiniteSetTheorems, SequenceTheorems

-----------------------------------------------------------------------------
(* Nodes and their members.                                                *)

MemberType == [key : Names, value : Nodes]

\* What a look-up gives: a node of the file, or None.
Found == Trees \cup {None}

LEMMA LeastIsMin ==
    ASSUME NEW S, S \subseteq Nat, S # {}
    PROVE  Min(S) \in S /\ \A y \in S : Min(S) <= y
BY LeastNatural DEF Min

LEMMA FoundType ==
    ASSUME NEW o \in Found
    PROVE  /\ o.text \in Names /\ o.twice \in Int
           /\ o.members \in Seq(MemberType)
           /\ o.type = "none" <=> o = None
           /\ o = None => o.text = ""
<1>1. CASE o \in Trees
  <2>1. /\ o.text \in Names /\ o.twice \in Int
        /\ o.members \in Seq(MemberType) /\ o.type # "none"
    BY <1>1 DEF Trees, MemberType
  <2>2. None.type = "none"
    BY DEF None, Node
  <2> QED
    BY <2>1, <2>2
<1>2. CASE o = None
  <2>1. "" \in Names
    BY CaseFoldAssumption
  <2>2. <<>> \in Seq(MemberType)
    OBVIOUS
  <2>3. /\ None.text = "" /\ None.twice = 0 /\ None.members = <<>> /\ None.type = "none"
    BY DEF None, Node
  <2> QED
    <3>1. o.text \in Names
      BY <1>2, <2>1, <2>3, Zenon
    <3>2. o.twice \in Int
      <4>1. o.twice = 0
        BY <1>2, <2>3, Zenon
      <4> QED
        BY <4>1
    <3> QED
      BY <1>2, <2>2, <2>3, <3>1, <3>2
<1> QED
  BY <1>1, <1>2 DEF Found

LEMMA NodesFound == Nodes \subseteq Found /\ None \in Found /\ None \notin Nodes
<1>1. Nodes \subseteq Trees
  BY FilesAssumption
<1>2. None \notin Trees
  BY DEF None, Node, Trees
<1> QED
  BY <1>1, <1>2 DEF Found

\* The members of a node.
LEMMA MembersType ==
    ASSUME NEW o \in Found
    PROVE  /\ Len(o.members) \in Nat /\ Members(o) = 1 .. Len(o.members)
           /\ \A i \in Members(o) : /\ i \in Nat
                                    /\ o.members[i].key \in Names
                                    /\ Value(o, i) \in Nodes
<1>1. o.members \in Seq(MemberType)
  BY FoundType
<1>2. /\ Len(o.members) \in Nat /\ DOMAIN o.members = 1 .. Len(o.members)
      /\ \A i \in 1 .. Len(o.members) : o.members[i] \in MemberType
  BY <1>1
<1>3. \A m \in MemberType : m.key \in Names /\ m.value \in Nodes
  BY DEF MemberType
<1> QED
  BY <1>2, <1>3 DEF Members, Value

\* A look-up that finds something finds the first such member.
LEMMA ItemFound ==
    ASSUME NEW o \in Found, NEW name
    PROVE  LET item == cJSON_GetObjectItemCaseSensitive(o, name)
           IN  /\ item \in Found
               /\ item # None => \E i \in Members(o) : /\ o.members[i].key = name
                                                       /\ item = Value(o, i)
               /\ item = None => \A i \in Members(o) : o.members[i].key # name
<1> DEFINE found == {i \in Members(o) : o.members[i].key = name}
           item == cJSON_GetObjectItemCaseSensitive(o, name)
<1>1. item = IF found = {} THEN None ELSE Value(o, Min(found))
  BY DEF cJSON_GetObjectItemCaseSensitive
<1>2. found \subseteq Nat /\ found \subseteq Members(o)
  BY MembersType
<1>3. found # {} => Min(found) \in found
  <2> HIDE DEF found
  <2> QED
    BY <1>2, LeastIsMin
<1>4. \A i \in Members(o) : Value(o, i) \in Found /\ Value(o, i) # None
  BY MembersType, NodesFound
<1>5. CASE found = {}
  BY <1>1, <1>5, NodesFound
<1>6. CASE found # {}
  BY <1>1, <1>3, <1>4, <1>6
<1> QED
  BY <1>5, <1>6

LEMMA NoCaseItemFound ==
    ASSUME NEW o \in Found, NEW name
    PROVE  LET item == cJSON_GetObjectItem(o, name)
           IN  /\ item \in Found
               /\ item # None => \E i \in Members(o) : /\ SameName(o.members[i].key, name)
                                                       /\ item = Value(o, i)
               /\ item = None => \A i \in Members(o) : ~SameName(o.members[i].key, name)
<1> DEFINE found == {i \in Members(o) : SameName(o.members[i].key, name)}
           item == cJSON_GetObjectItem(o, name)
<1>1. item = IF found = {} THEN None ELSE Value(o, Min(found))
  BY DEF cJSON_GetObjectItem
<1>2. found \subseteq Nat /\ found \subseteq Members(o)
  BY MembersType
<1>3. found # {} => Min(found) \in found
  <2> HIDE DEF found
  <2> QED
    BY <1>2, LeastIsMin
<1>4. \A i \in Members(o) : Value(o, i) \in Found /\ Value(o, i) # None
  BY MembersType, NodesFound
<1>5. CASE found = {}
  BY <1>1, <1>5, NodesFound
<1>6. CASE found # {}
  BY <1>1, <1>3, <1>4, <1>6
<1> QED
  BY <1>5, <1>6

-----------------------------------------------------------------------------
(* Ordered checks.                                                         *)

\* A list of checks reports nothing just when all of them pass.
LEMMA NoError ==
    ASSUME NEW checks, DOMAIN checks \subseteq Nat,
           \A i \in DOMAIN checks : checks[i][1] => checks[i][2] # "none"
    PROVE  FirstError(checks) = "none" <=> \A i \in DOMAIN checks : ~checks[i][1]
<1> DEFINE failed == {i \in DOMAIN checks : checks[i][1]}
<1>1. FirstError(checks) = IF failed = {} THEN "none" ELSE checks[Min(failed)][2]
  BY DEF FirstError
<1>2. CASE failed = {}
  BY <1>1, <1>2
<1>3. CASE failed # {}
  <2>1. failed \subseteq Nat
    OBVIOUS
  <2>2. Min(failed) \in failed
    <3> HIDE DEF failed
    <3> QED
      BY <1>3, <2>1, LeastIsMin
  <2> QED
    BY <1>1, <1>3, <2>2
<1> QED
  BY <1>2, <1>3

\* read_file.
LEMMA FileRead ==
    ASSUME NEW f
    PROVE  read_file(f) = "none" <=> f.opens /\ ~(f.size > AG_MAX_CONFIG_BYTES) /\ f.complete
<1> DEFINE checks == << <<~f.opens, "cannot open">>,
                        <<f.size > AG_MAX_CONFIG_BYTES, "too large">>,
                        <<~f.complete, "not read">> >>
<1>1. DOMAIN checks = {1, 2, 3}
  OBVIOUS
<1>2. /\ checks[1][2] = "cannot open" /\ checks[2][2] = "too large"
      /\ checks[3][2] = "not read"
  OBVIOUS
<1>3. /\ checks[1][1] <=> ~f.opens
      /\ checks[2][1] <=> f.size > AG_MAX_CONFIG_BYTES
      /\ checks[3][1] <=> ~f.complete
  OBVIOUS
<1>4. read_file(f) = FirstError(checks)
  BY DEF read_file
<1> HIDE DEF checks
<1>5. FirstError(checks) = "none" <=> ~checks[1][1] /\ ~checks[2][1] /\ ~checks[3][1]
  <2>1. DOMAIN checks \subseteq Nat
    BY <1>1
  <2>2. \A i \in DOMAIN checks : checks[i][2] # "none"
    BY <1>1, <1>2
  <2>3. FirstError(checks) = "none" <=> \A i \in DOMAIN checks : ~checks[i][1]
    BY <2>1, <2>2, NoError
  <2> QED
    BY <1>1, <2>3
<1> QED
  BY <1>3, <1>4, <1>5

\* A setting that is given must be a string of its kind.
BadHost(item) ==
    /\ item.type # "none"
    /\ item.type # "string" \/ ~(Length[item.text] \in 1 .. AG_MAX_HOST)
BadSerial(item) ==
    /\ item.type # "none"
    /\ item.type # "string" \/ ~valid_radio_serial(item.text)
BadAddress(item) ==
    /\ item.type # "none"
    /\ \/ item.type # "string"
       \/ ~(Length[item.text] <= AG_MAX_IPV4_TEXT /\ item.text \in IPv4)

\* parse_radio.
LEMMA RadioAccepted ==
    ASSUME NEW root
    PROVE  LET radio == cJSON_GetObjectItemCaseSensitive(root, "radio")
               Item(key) == RadioItem(root, key)
               Absent(keys) == \A key \in keys : Item(key).type = "none"
           IN  parse_radio(root) = "none" <=>
                  /\ ~(radio.type # "object")
                  /\ ~(reject_unknown_keys(radio, RadioKeys))
                  /\ ~(Absent({"host", "serial", "discovery_ip"}))
                  /\ ~(~Absent({"host"}) /\ ~Absent({"serial", "discovery_ip"}))
                  /\ ~(BadHost(Item("host")))
                  /\ ~(BadSerial(Item("serial")))
                  /\ ~(BadAddress(Item("discovery_ip")))
                  /\ ~(BadNumber(Item("port"), MAX_PORT))
                  /\ ~(BadNumber(Item("reconnect_seconds"), MAX_RECONNECT))
                  /\ ~(BadNumber(Item("reconnect_max_seconds"), MAX_RECONNECT_MAX))
                  /\ ~(DelaysReversed(root))
                  /\ ~(Absent({"host"}) /\ ~Absent(RadioKeys \ {"host", "serial", "discovery_ip"}))
                  /\ ~(BadNumber(Item("reconnect_log_seconds"), MAX_RECONNECT_LOG))
<1> DEFINE radio == cJSON_GetObjectItemCaseSensitive(root, "radio")
           Item(key) == RadioItem(root, key)
           Absent(keys) == \A key \in keys : Item(key).type = "none"
           checks ==
             << <<radio.type # "object", "radio">>,
                <<reject_unknown_keys(radio, RadioKeys), "radio key">>,
                <<Absent({"host", "serial", "discovery_ip"}), "no selector">>,
                <<~Absent({"host"}) /\ ~Absent({"serial", "discovery_ip"}), "both modes">>,
                <<BadHost(Item("host")), "host">>,
                <<BadSerial(Item("serial")), "serial">>,
                <<BadAddress(Item("discovery_ip")), "discovery_ip">>,
                <<BadNumber(Item("port"), MAX_PORT), "port">>,
                <<BadNumber(Item("reconnect_seconds"), MAX_RECONNECT), "reconnect">>,
                <<BadNumber(Item("reconnect_max_seconds"), MAX_RECONNECT_MAX), "reconnect_max">>,
                <<DelaysReversed(root), "delays reversed">>,
                <<Absent({"host"}) /\ ~Absent(RadioKeys \ {"host", "serial", "discovery_ip"}),
                  "settings of the other mode">>,
                <<BadNumber(Item("reconnect_log_seconds"), MAX_RECONNECT_LOG), "reconnect_log">> >>
<1>1. DOMAIN checks = {1, 2, 3, 4, 5, 6, 7, 8, 9, 10, 11, 12, 13}
  OBVIOUS
<1>2. /\ checks[1][2] = "radio"
      /\ checks[2][2] = "radio key"
      /\ checks[3][2] = "no selector"
      /\ checks[4][2] = "both modes"
      /\ checks[5][2] = "host"
      /\ checks[6][2] = "serial"
      /\ checks[7][2] = "discovery_ip"
      /\ checks[8][2] = "port"
      /\ checks[9][2] = "reconnect"
      /\ checks[10][2] = "reconnect_max"
      /\ checks[11][2] = "delays reversed"
      /\ checks[12][2] = "settings of the other mode"
      /\ checks[13][2] = "reconnect_log"
  OBVIOUS
<1>3. /\ checks[1][1] <=> radio.type # "object"
      /\ checks[2][1] <=> reject_unknown_keys(radio, RadioKeys)
      /\ checks[3][1] <=> Absent({"host", "serial", "discovery_ip"})
      /\ checks[4][1] <=> ~Absent({"host"}) /\ ~Absent({"serial", "discovery_ip"})
      /\ checks[5][1] <=> BadHost(Item("host"))
      /\ checks[6][1] <=> BadSerial(Item("serial"))
      /\ checks[7][1] <=> BadAddress(Item("discovery_ip"))
      /\ checks[8][1] <=> BadNumber(Item("port"), MAX_PORT)
      /\ checks[9][1] <=> BadNumber(Item("reconnect_seconds"), MAX_RECONNECT)
      /\ checks[10][1] <=> BadNumber(Item("reconnect_max_seconds"), MAX_RECONNECT_MAX)
      /\ checks[11][1] <=> DelaysReversed(root)
      /\ checks[12][1] <=> Absent({"host"}) /\ ~Absent(RadioKeys \ {"host", "serial", "discovery_ip"})
      /\ checks[13][1] <=> BadNumber(Item("reconnect_log_seconds"), MAX_RECONNECT_LOG)
  <2>1. checks[1][1] <=> radio.type # "object"
    OBVIOUS
  <2>2. checks[2][1] <=> reject_unknown_keys(radio, RadioKeys)
    OBVIOUS
  <2>3. checks[3][1] <=> Absent({"host", "serial", "discovery_ip"})
    OBVIOUS
  <2>4. checks[4][1] <=> ~Absent({"host"}) /\ ~Absent({"serial", "discovery_ip"})
    OBVIOUS
  <2>5. checks[5][1] <=> BadHost(Item("host"))
    OBVIOUS
  <2>6. checks[6][1] <=> BadSerial(Item("serial"))
    OBVIOUS
  <2>7. checks[7][1] <=> BadAddress(Item("discovery_ip"))
    OBVIOUS
  <2>8. checks[8][1] <=> BadNumber(Item("port"), MAX_PORT)
    OBVIOUS
  <2>9. checks[9][1] <=> BadNumber(Item("reconnect_seconds"), MAX_RECONNECT)
    OBVIOUS
  <2>10. checks[10][1] <=> BadNumber(Item("reconnect_max_seconds"), MAX_RECONNECT_MAX)
    OBVIOUS
  <2>11. checks[11][1] <=> DelaysReversed(root)
    OBVIOUS
  <2>12. checks[12][1] <=> Absent({"host"}) /\ ~Absent(RadioKeys \ {"host", "serial", "discovery_ip"})
    OBVIOUS
  <2>13. checks[13][1] <=> BadNumber(Item("reconnect_log_seconds"), MAX_RECONNECT_LOG)
    OBVIOUS
  <2> QED
    BY <2>1, <2>2, <2>3, <2>4, <2>5, <2>6, <2>7, <2>8, <2>9, <2>10, <2>11, <2>12, <2>13
<1>4. parse_radio(root) = FirstError(checks)
  BY DEF parse_radio, BadHost, BadSerial, BadAddress
<1> HIDE DEF checks
<1>5. FirstError(checks) = "none" <=>
         /\ ~checks[1][1] /\ ~checks[2][1] /\ ~checks[3][1] /\ ~checks[4][1]
         /\ ~checks[5][1] /\ ~checks[6][1] /\ ~checks[7][1] /\ ~checks[8][1]
         /\ ~checks[9][1] /\ ~checks[10][1] /\ ~checks[11][1] /\ ~checks[12][1]
         /\ ~checks[13][1]
  <2>1. DOMAIN checks \subseteq Nat
    BY <1>1
  <2>2. \A i \in DOMAIN checks : checks[i][1] => checks[i][2] # "none"
    BY <1>1, <1>2, <1>3
  <2>3. FirstError(checks) = "none" <=> \A i \in DOMAIN checks : ~checks[i][1]
    BY <2>1, <2>2, NoError
  <2> QED
    BY <1>1, <2>3
<1> QED
  BY <1>3, <1>4, <1>5

\* parse_antennas.  An item of the list that is rejected for its own sake, and one
\* that repeats an earlier one.
MalformedId(root, i) ==
    \/ Value(AntennaArray(root), i).type # "string"
    \/ ~valid_antenna_id(Antenna(root, i))
RepeatedId(root, i) ==
    \E j \in 1 .. i - 1 : SameName(Antenna(root, i), Antenna(root, j))
RejectedIds(root) ==
    {i \in Members(AntennaArray(root)) : MalformedId(root, i) \/ RepeatedId(root, i)}

LEMMA AntennasAccepted ==
    ASSUME NEW root
    PROVE  LET interlock == cJSON_GetObjectItemCaseSensitive(root, "interlock")
               array == AntennaArray(root)
           IN  parse_antennas(root) = "none" <=>
                  /\ ~(interlock.type # "object")
                  /\ ~(reject_unknown_keys(interlock, {"antennas"}))
                  /\ ~(array.type # "array" \/ Len(array.members) \notin 1 .. AG_MAX_ANTENNAS)
                  /\ ~(RejectedIds(root) # {} /\ MalformedId(root, Min(RejectedIds(root))))
                  /\ ~(RejectedIds(root) # {})
<1> DEFINE interlock == cJSON_GetObjectItemCaseSensitive(root, "interlock")
           array == AntennaArray(root)
           checks ==
             << <<interlock.type # "object", "interlock">>,
                <<reject_unknown_keys(interlock, {"antennas"}), "interlock key">>,
                <<array.type # "array" \/ Len(array.members) \notin 1 .. AG_MAX_ANTENNAS, "antennas">>,
                <<RejectedIds(root) # {} /\ MalformedId(root, Min(RejectedIds(root))), "antenna ID">>,
                <<RejectedIds(root) # {}, "duplicate antenna">> >>
<1>1. DOMAIN checks = {1, 2, 3, 4, 5}
  OBVIOUS
<1>2. /\ checks[1][2] = "interlock"
      /\ checks[2][2] = "interlock key"
      /\ checks[3][2] = "antennas"
      /\ checks[4][2] = "antenna ID"
      /\ checks[5][2] = "duplicate antenna"
  OBVIOUS
<1>3. /\ checks[1][1] <=> interlock.type # "object"
      /\ checks[2][1] <=> reject_unknown_keys(interlock, {"antennas"})
      /\ checks[3][1] <=> array.type # "array" \/ Len(array.members) \notin 1 .. AG_MAX_ANTENNAS
      /\ checks[4][1] <=> RejectedIds(root) # {} /\ MalformedId(root, Min(RejectedIds(root)))
      /\ checks[5][1] <=> RejectedIds(root) # {}
  <2>1. checks[1][1] <=> interlock.type # "object"
    OBVIOUS
  <2>2. checks[2][1] <=> reject_unknown_keys(interlock, {"antennas"})
    OBVIOUS
  <2>3. checks[3][1] <=> array.type # "array" \/ Len(array.members) \notin 1 .. AG_MAX_ANTENNAS
    OBVIOUS
  <2>4. checks[4][1] <=> RejectedIds(root) # {} /\ MalformedId(root, Min(RejectedIds(root)))
    OBVIOUS
  <2>5. checks[5][1] <=> RejectedIds(root) # {}
    OBVIOUS
  <2> QED
    BY <2>1, <2>2, <2>3, <2>4, <2>5
<1>4. parse_antennas(root) = FirstError(checks)
  BY DEF parse_antennas, RejectedIds, MalformedId, RepeatedId
<1> HIDE DEF checks
<1>5. FirstError(checks) = "none" <=>
         ~checks[1][1] /\ ~checks[2][1] /\ ~checks[3][1] /\ ~checks[4][1] /\ ~checks[5][1]
  <2>1. DOMAIN checks \subseteq Nat
    BY <1>1
  <2>2. \A i \in DOMAIN checks : checks[i][1] => checks[i][2] # "none"
    BY <1>1, <1>2, <1>3
  <2>3. FirstError(checks) = "none" <=> \A i \in DOMAIN checks : ~checks[i][1]
    BY <2>1, <2>2, NoError
  <2> QED
    BY <1>1, <2>3
<1> QED
  BY <1>3, <1>4, <1>5

\* One row of the policy.
RepeatedBand(row, k) == \E l \in 1 .. k - 1 : BandOf(row, l) = BandOf(row, k)
RejectedBands(row) ==
    {k \in Members(row) : BandOf(row, k) = NotFound \/ RepeatedBand(row, k)}

LEMMA RowAccepted ==
    ASSUME NEW row
    PROVE  RowError(row) = "none" <=>
                  /\ ~(row.type # "array")
                  /\ ~(RejectedBands(row) # {} /\ BandOf(row, Min(RejectedBands(row))) = NotFound)
                  /\ ~(RejectedBands(row) # {})
<1> DEFINE checks ==
             << <<row.type # "array", "row">>,
                <<RejectedBands(row) # {} /\ BandOf(row, Min(RejectedBands(row))) = NotFound,
                  "unknown band">>,
                <<RejectedBands(row) # {}, "duplicate band">> >>
<1>1. DOMAIN checks = {1, 2, 3}
  OBVIOUS
<1>2. /\ checks[1][2] = "row"
      /\ checks[2][2] = "unknown band"
      /\ checks[3][2] = "duplicate band"
  OBVIOUS
<1>3. /\ checks[1][1] <=> row.type # "array"
      /\ checks[2][1] <=> RejectedBands(row) # {} /\ BandOf(row, Min(RejectedBands(row))) = NotFound
      /\ checks[3][1] <=> RejectedBands(row) # {}
  <2>1. checks[1][1] <=> row.type # "array"
    OBVIOUS
  <2>2. checks[2][1] <=> RejectedBands(row) # {} /\ BandOf(row, Min(RejectedBands(row))) = NotFound
    OBVIOUS
  <2>3. checks[3][1] <=> RejectedBands(row) # {}
    OBVIOUS
  <2> QED
    BY <2>1, <2>2, <2>3
<1>4. RowError(row) = FirstError(checks)
  BY DEF RowError, RejectedBands, RepeatedBand
<1> HIDE DEF checks
<1>5. FirstError(checks) = "none" <=>
         ~checks[1][1] /\ ~checks[2][1] /\ ~checks[3][1]
  <2>1. DOMAIN checks \subseteq Nat
    BY <1>1
  <2>2. \A i \in DOMAIN checks : checks[i][1] => checks[i][2] # "none"
    BY <1>1, <1>2, <1>3
  <2>3. FirstError(checks) = "none" <=> \A i \in DOMAIN checks : ~checks[i][1]
    BY <2>1, <2>2, NoError
  <2> QED
    BY <1>1, <2>3
<1> QED
  BY <1>3, <1>4, <1>5

\* parse_policy.  A row whose name is not listed, and one whose name is repeated.
RowKey(root, i) == PolicyObject(root).members[i].key
UnlistedRow(root, i) ==
    \A j \in Members(AntennaArray(root)) : ~SameName(Antenna(root, j), RowKey(root, i))
RepeatedRow(root, i) ==
    \E j \in Members(PolicyObject(root)) :
        i < j /\ SameName(RowKey(root, i), RowKey(root, j))
RejectedRows(root) ==
    {i \in Members(PolicyObject(root)) : UnlistedRow(root, i) \/ RepeatedRow(root, i)}
BadRows(root) ==
    {i \in Members(AntennaArray(root)) : RowError(RowOf(root, i)) # "none"}
BadRow(root) == IF BadRows(root) = {} THEN None ELSE RowOf(root, Min(BadRows(root)))

LEMMA BadRowReported ==
    ASSUME NEW root, BadRows(root) \subseteq Nat, BadRows(root) # {}
    PROVE  RowError(BadRow(root)) # "none"
<1>1. Min(BadRows(root)) \in BadRows(root)
  BY LeastIsMin
<1> QED
  BY <1>1 DEF BadRow, BadRows

LEMMA PolicyAccepted ==
    ASSUME NEW root, BadRows(root) \subseteq Nat
    PROVE  parse_policy(root) = "none" <=>
                  /\ ~(PolicyObject(root).type # "object")
                  /\ ~(RejectedRows(root) # {} /\ UnlistedRow(root, Min(RejectedRows(root))))
                  /\ ~(RejectedRows(root) # {})
                  /\ ~(BadRows(root) # {})
<1> DEFINE checks ==
             << <<PolicyObject(root).type # "object", "policy">>,
                <<RejectedRows(root) # {} /\ UnlistedRow(root, Min(RejectedRows(root))),
                  "antenna not listed">>,
                <<RejectedRows(root) # {}, "duplicate row">>,
                <<BadRows(root) # {}, RowError(BadRow(root))>> >>
<1>1. DOMAIN checks = {1, 2, 3, 4}
  OBVIOUS
<1>2. /\ checks[1][2] = "policy"
      /\ checks[2][2] = "antenna not listed"
      /\ checks[3][2] = "duplicate row"
      /\ checks[4][2] = RowError(BadRow(root))
  OBVIOUS
<1>3. /\ checks[1][1] <=> PolicyObject(root).type # "object"
      /\ checks[2][1] <=> RejectedRows(root) # {} /\ UnlistedRow(root, Min(RejectedRows(root)))
      /\ checks[3][1] <=> RejectedRows(root) # {}
      /\ checks[4][1] <=> BadRows(root) # {}
  <2>1. checks[1][1] <=> PolicyObject(root).type # "object"
    OBVIOUS
  <2>2. checks[2][1] <=> RejectedRows(root) # {} /\ UnlistedRow(root, Min(RejectedRows(root)))
    OBVIOUS
  <2>3. checks[3][1] <=> RejectedRows(root) # {}
    OBVIOUS
  <2>4. checks[4][1] <=> BadRows(root) # {}
    OBVIOUS
  <2> QED
    BY <2>1, <2>2, <2>3, <2>4
<1>4. parse_policy(root) = FirstError(checks)
  BY DEF parse_policy, RejectedRows, UnlistedRow, RepeatedRow, BadRows, BadRow, RowKey
<1> HIDE DEF checks
<1>5. FirstError(checks) = "none" <=>
         ~checks[1][1] /\ ~checks[2][1] /\ ~checks[3][1] /\ ~checks[4][1]
  <2>1. DOMAIN checks \subseteq Nat
    BY <1>1
  <2>2. \A i \in DOMAIN checks : checks[i][1] => checks[i][2] # "none"
    BY <1>1, <1>2, <1>3, BadRowReported
  <2>3. FirstError(checks) = "none" <=> \A i \in DOMAIN checks : ~checks[i][1]
    BY <2>1, <2>2, NoError
  <2> QED
    BY <1>1, <2>3
<1> QED
  BY <1>3, <1>4, <1>5

\* ag_config_load.
LEMMA FileAccepted ==
    ASSUME NEW f
    PROVE  ag_config_load(f) = "none" <=>
                  /\ ~(read_file(f) # "none")
                  /\ ~(f.root.type # "object")
                  /\ ~(reject_unknown_keys(f.root, {"radio", "interlock", "policy"}))
                  /\ ~(parse_radio(f.root) # "none")
                  /\ ~(parse_antennas(f.root) # "none")
                  /\ ~(parse_policy(f.root) # "none")
<1> DEFINE checks ==
             << <<read_file(f) # "none", read_file(f)>>,
                <<f.root.type # "object", "no object">>,
                <<reject_unknown_keys(f.root, {"radio", "interlock", "policy"}), "root key">>,
                <<parse_radio(f.root) # "none", parse_radio(f.root)>>,
                <<parse_antennas(f.root) # "none", parse_antennas(f.root)>>,
                <<parse_policy(f.root) # "none", parse_policy(f.root)>> >>
<1>1. DOMAIN checks = {1, 2, 3, 4, 5, 6}
  OBVIOUS
<1>2. /\ checks[1][2] = read_file(f)
      /\ checks[2][2] = "no object"
      /\ checks[3][2] = "root key"
      /\ checks[4][2] = parse_radio(f.root)
      /\ checks[5][2] = parse_antennas(f.root)
      /\ checks[6][2] = parse_policy(f.root)
  OBVIOUS
<1>3. /\ checks[1][1] <=> read_file(f) # "none"
      /\ checks[2][1] <=> f.root.type # "object"
      /\ checks[3][1] <=> reject_unknown_keys(f.root, {"radio", "interlock", "policy"})
      /\ checks[4][1] <=> parse_radio(f.root) # "none"
      /\ checks[5][1] <=> parse_antennas(f.root) # "none"
      /\ checks[6][1] <=> parse_policy(f.root) # "none"
  <2>1. checks[1][1] <=> read_file(f) # "none"
    OBVIOUS
  <2>2. checks[2][1] <=> f.root.type # "object"
    OBVIOUS
  <2>3. checks[3][1] <=> reject_unknown_keys(f.root, {"radio", "interlock", "policy"})
    OBVIOUS
  <2>4. checks[4][1] <=> parse_radio(f.root) # "none"
    OBVIOUS
  <2>5. checks[5][1] <=> parse_antennas(f.root) # "none"
    OBVIOUS
  <2>6. checks[6][1] <=> parse_policy(f.root) # "none"
    OBVIOUS
  <2> QED
    BY <2>1, <2>2, <2>3, <2>4, <2>5, <2>6
<1>4. ag_config_load(f) = FirstError(checks)
  BY DEF ag_config_load
<1> HIDE DEF checks
<1>5. FirstError(checks) = "none" <=>
         ~checks[1][1] /\ ~checks[2][1] /\ ~checks[3][1] /\ ~checks[4][1] /\ ~checks[5][1] /\ ~checks[6][1]
  <2>1. DOMAIN checks \subseteq Nat
    BY <1>1
  <2>2. \A i \in DOMAIN checks : checks[i][1] => checks[i][2] # "none"
    BY <1>1, <1>2, <1>3
  <2>3. FirstError(checks) = "none" <=> \A i \in DOMAIN checks : ~checks[i][1]
    BY <2>1, <2>2, NoError
  <2> QED
    BY <1>1, <2>3
<1> QED
  BY <1>3, <1>4, <1>5

-----------------------------------------------------------------------------
(* What an accepted file gives.                                            *)

LEMMA NumberInRange ==
    ASSUME NEW node \in Found, NEW maximum \in Nat, ~BadNumber(node, maximum),
           NEW default \in 1 .. maximum
    PROVE  NumberOr(node, default) \in 1 .. maximum
<1> DEFINE twice == node.twice
           k == twice \div 2
<1>1. twice \in Int
  BY FoundType
<1>2. CASE node.type = "none"
  BY <1>2 DEF NumberOr
<1>3. CASE node.type # "none"
  <2>1. ~(twice < 2) /\ ~(twice > 2 * maximum) /\ twice = 2 * k /\ NumberOr(node, default) = k
    BY <1>3 DEF BadNumber, NumberOr, Integer
  <2>2. k \in Int
    BY <1>1
  <2> HIDE DEF twice, k
  <2>3. k \in 1 .. maximum
    BY <1>1, <2>1, <2>2
  <2> QED
    BY <2>1, <2>3
<1> QED
  BY <1>2, <1>3

LEMMA Limits ==
    /\ MAX_PORT \in Nat /\ DEFAULT_PORT \in 1 .. MAX_PORT
    /\ MAX_RECONNECT \in Nat /\ 3 \in 1 .. MAX_RECONNECT
    /\ MAX_RECONNECT_MAX \in Nat
    /\ \A n \in 1 .. MAX_RECONNECT : n \in Nat /\ Max({n, 30}) \in 1 .. MAX_RECONNECT_MAX
    /\ MAX_RECONNECT_LOG \in Nat /\ 300 \in 1 .. MAX_RECONNECT_LOG
<1>1. MAX_PORT \in Nat /\ DEFAULT_PORT \in 1 .. MAX_PORT
  BY DEF MAX_PORT, DEFAULT_PORT
<1>2. MAX_RECONNECT \in Nat /\ 3 \in 1 .. MAX_RECONNECT /\ MAX_RECONNECT_MAX \in Nat
  BY DEF MAX_RECONNECT, MAX_RECONNECT_MAX
<1>3. ASSUME NEW n \in 1 .. MAX_RECONNECT
      PROVE  n \in Nat /\ Max({n, 30}) \in 1 .. MAX_RECONNECT_MAX
  <2>1. n \in Int /\ 1 <= n /\ n <= 300
    BY DEF MAX_RECONNECT
  <2>2. Max({n, 30}) = IF n >= 30 THEN n ELSE 30
    BY <2>1 DEF Max
  <2> QED
    BY <2>1, <2>2 DEF MAX_RECONNECT_MAX
<1>4. MAX_RECONNECT_LOG \in Nat /\ 300 \in 1 .. MAX_RECONNECT_LOG
  BY DEF MAX_RECONNECT_LOG
<1> QED
  BY <1>1, <1>2, <1>3, <1>4

LEMMA RadioItemFound ==
    ASSUME NEW root \in Found, NEW key
    PROVE  RadioItem(root, key) \in Found
BY ItemFound DEF RadioItem

\* The delays and the port of an accepted radio section.
LEMMA RadioNumbers ==
    ASSUME NEW root \in Found, parse_radio(root) = "none"
    PROVE  /\ Radio(root).reconnect_seconds \in 1 .. Radio(root).reconnect_max_seconds
           /\ Radio(root).reconnect_max_seconds \in 1 .. MAX_RECONNECT_MAX
           /\ Radio(root).reconnect_log_seconds \in 1 .. MAX_RECONNECT_LOG
           /\ Radio(root).port \in 1 .. MAX_PORT
<1> DEFINE Item(key) == RadioItem(root, key)
           reconnect == NumberOr(Item("reconnect_seconds"), 3)
           longest == NumberOr(Item("reconnect_max_seconds"), Max({reconnect, 30}))
           log == NumberOr(Item("reconnect_log_seconds"), 300)
           port == NumberOr(Item("port"), DEFAULT_PORT)
<1>1. /\ ~BadNumber(Item("port"), MAX_PORT)
      /\ ~BadNumber(Item("reconnect_seconds"), MAX_RECONNECT)
      /\ ~BadNumber(Item("reconnect_max_seconds"), MAX_RECONNECT_MAX)
      /\ ~DelaysReversed(root)
      /\ ~BadNumber(Item("reconnect_log_seconds"), MAX_RECONNECT_LOG)
  BY RadioAccepted
<1>2. \A key : Item(key) \in Found
  BY RadioItemFound
<1>3. /\ Radio(root).reconnect_seconds = reconnect
      /\ Radio(root).reconnect_max_seconds = longest
      /\ Radio(root).reconnect_log_seconds = log
      /\ Radio(root).port = port
  BY DEF Radio
<1> HIDE DEF Item
<1>4. reconnect \in 1 .. MAX_RECONNECT
  BY <1>1, <1>2, Limits, NumberInRange
<1> HIDE DEF reconnect
<1>5. longest \in 1 .. MAX_RECONNECT_MAX
  <2>1. Max({reconnect, 30}) \in 1 .. MAX_RECONNECT_MAX /\ MAX_RECONNECT_MAX \in Nat
    BY <1>4, Limits
  <2> QED
    BY <1>1, <1>2, <2>1, NumberInRange
<1>6. log \in 1 .. MAX_RECONNECT_LOG
  BY <1>1, <1>2, Limits, NumberInRange
<1>7. port \in 1 .. MAX_PORT
  BY <1>1, <1>2, Limits, NumberInRange
<1>8. ~(longest < reconnect)
  BY <1>1, <1>3 DEF DelaysReversed
<1> HIDE DEF longest, log, port
<1>9. reconnect \in 1 .. longest
  <2>1. reconnect \in Nat /\ 1 <= reconnect /\ longest \in Int
    BY <1>4, <1>5, Limits
  <2> QED
    BY <1>8, <2>1
<1> QED
  BY <1>3, <1>5, <1>6, <1>7, <1>9

\* A text of at least one character is not the empty one.
LEMMA NotEmpty ==
    ASSUME NEW text \in Names, NEW n \in Nat, Length[text] \in 1 .. n
    PROVE  text # ""
<1>1. Length[text] = 0 <=> text = ""
  BY ConfigAssumption, Zenon
<1>2. Length[text] # 0
  OBVIOUS
<1> QED
  BY <1>1, <1>2

LEMMA TextLimits ==
    AG_MAX_HOST \in Nat /\ AG_MAX_RADIO_SERIAL \in Nat /\ AG_MAX_ANTENNA_ID \in Nat
BY DEF AG_MAX_HOST, AG_MAX_RADIO_SERIAL, AG_MAX_ANTENNA_ID

LEMMA RadioSelector ==
    ASSUME NEW root \in Found, parse_radio(root) = "none"
    PROVE  /\ Radio(root).radio_mode = "DIRECT" <=> Radio(root).host # ""
           /\ Radio(root).radio_mode = "DISCOVERY" <=>
                 Radio(root).radio_serial # "" \/ Radio(root).discovery_ip # ""
<1> DEFINE host == RadioItem(root, "host")
           serial == RadioItem(root, "serial")
           address == RadioItem(root, "discovery_ip")
<1>1. host \in Found /\ serial \in Found /\ address \in Found
  BY RadioItemFound
<1>2. /\ ~(\A key \in {"host", "serial", "discovery_ip"} : RadioItem(root, key).type = "none")
      /\ ~(/\ ~(\A key \in {"host"} : RadioItem(root, key).type = "none")
           /\ ~(\A key \in {"serial", "discovery_ip"} : RadioItem(root, key).type = "none"))
      /\ ~BadHost(host) /\ ~BadSerial(serial) /\ ~BadAddress(address)
  BY RadioAccepted
<1>3. /\ host.type # "none" \/ serial.type # "none" \/ address.type # "none"
      /\ host.type = "none" \/ (serial.type = "none" /\ address.type = "none")
  BY <1>2
<1>4. /\ Radio(root).radio_mode = IF host.type = "none" THEN "DISCOVERY" ELSE "DIRECT"
      /\ Radio(root).host = host.text /\ Radio(root).radio_serial = serial.text
      /\ Radio(root).discovery_ip = address.text
  BY DEF Radio
<1> HIDE DEF host, serial, address
<1>5. /\ host.type = "none" => host.text = ""
      /\ serial.type = "none" => serial.text = ""
      /\ address.type = "none" => address.text = ""
      /\ host.text \in Names /\ serial.text \in Names
  BY <1>1, FoundType
<1>6. host.type # "none" => host.text # ""
  BY <1>2, <1>5, NotEmpty, TextLimits DEF BadHost
<1>7. serial.type # "none" => serial.text # ""
  BY <1>2, <1>5, NotEmpty, TextLimits DEF BadSerial, valid_radio_serial
<1>8. address.type # "none" => address.text # ""
  BY <1>2, ConfigAssumption DEF BadAddress
<1> QED
  BY <1>3, <1>4, <1>5, <1>6, <1>7, <1>8

-----------------------------------------------------------------------------
(* The matrix of an accepted file.                                         *)

\* ag_band_index knows a band by its name, in any letter case.
LEMMA BandIndexFound ==
    ASSUME NEW name
    PROVE  /\ ag_band_index(name) \in BandIndex \cup {NotFound}
           /\ \A b \in BandIndex :
                 SameName(name, BANDS[b].name) <=> ag_band_index(name) = b
<1> DEFINE found == {i \in BandIndex : SameName(name, BANDS[i].name)}
<1>1. ag_band_index(name) = IF found = {} THEN NotFound ELSE Min(found)
  BY DEF ag_band_index
<1>2. BandIndex \subseteq Nat /\ NotFound \notin BandIndex
  BY DEF BandIndex, NotFound
<1>3. \A i, j \in found : i = j
  <2>1. \A i, j \in BandIndex : SameName(BANDS[i].name, BANDS[j].name) => i = j
    BY ConfigAssumption
  <2> QED
    BY <2>1 DEF SameName
<1>4. found # {} => Min(found) \in found
  <2>1. found \subseteq Nat
    BY <1>2
  <2> HIDE DEF found
  <2> QED
    BY <2>1, LeastIsMin
<1> QED
  BY <1>1, <1>2, <1>3, <1>4

\* An accepted row: every item is a string that names a band.
LEMMA RowBands ==
    ASSUME NEW row \in Found, RowError(row) = "none"
    PROVE  \A k \in Members(row) :
              /\ BandOf(row, k) \in BandIndex
              /\ \A b \in BandIndex :
                    SameName(Value(row, k).text, BANDS[b].name) <=> BandOf(row, k) = b
<1>1. RejectedBands(row) = {}
  BY RowAccepted
<1> SUFFICES ASSUME NEW k \in Members(row)
             PROVE  /\ BandOf(row, k) \in BandIndex
                    /\ \A b \in BandIndex :
                          SameName(Value(row, k).text, BANDS[b].name) <=> BandOf(row, k) = b
  OBVIOUS
<1>2. BandOf(row, k) # NotFound
  BY <1>1 DEF RejectedBands
<1>3. BandOf(row, k) = ag_band_index(Value(row, k).text)
  BY <1>2 DEF BandOf
<1> QED
  BY <1>2, <1>3, BandIndexFound

LEMMA AntennaArrayFound ==
    ASSUME NEW root \in Found
    PROVE  AntennaArray(root) \in Found /\ PolicyObject(root) \in Found
BY ItemFound DEF AntennaArray, PolicyObject

\* The antennas of an accepted list.
LEMMA AntennaIds ==
    ASSUME NEW root \in Found, parse_antennas(root) = "none"
    PROVE  /\ \A i \in Members(AntennaArray(root)) : Antenna(root, i) \in Names \ {""}
           /\ \A i, j \in Members(AntennaArray(root)) :
                 SameName(Antenna(root, i), Antenna(root, j)) => i = j
<1>1. RejectedIds(root) = {}
  BY AntennasAccepted
<1>2. ASSUME NEW i \in Members(AntennaArray(root))
      PROVE  Antenna(root, i) \in Names \ {""}
  <2>1. Length[Antenna(root, i)] \in 1 .. AG_MAX_ANTENNA_ID /\ Antenna(root, i) \in WordTexts
    BY <1>1 DEF RejectedIds, MalformedId, valid_antenna_id
  <2>2. Antenna(root, i) \in Names
    BY <2>1, ConfigAssumption
  <2> QED
    BY <2>1, <2>2, NotEmpty, TextLimits
<1>3. ASSUME NEW i \in Members(AntennaArray(root)), NEW j \in Members(AntennaArray(root)),
             SameName(Antenna(root, i), Antenna(root, j)), j < i
      PROVE  FALSE
  <2>1. i \in Nat /\ j \in Nat /\ 1 <= j
    BY AntennaArrayFound, MembersType
  <2>2. j \in 1 .. i - 1
    BY <1>3, <2>1
  <2>3. RepeatedId(root, i)
    BY <1>3, <2>2 DEF RepeatedId
  <2> QED
    BY <1>1, <2>3 DEF RejectedIds
<1>4. ASSUME NEW i \in Members(AntennaArray(root)), NEW j \in Members(AntennaArray(root)),
             SameName(Antenna(root, i), Antenna(root, j))
      PROVE  i = j
  <2>1. ~(j < i)
    BY <1>3, <1>4
  <2>2. ~(i < j)
    BY <1>3, <1>4 DEF SameName
  <2>3. i \in Nat /\ j \in Nat
    BY AntennaArrayFound, MembersType
  <2> QED
    BY <2>1, <2>2, <2>3
<1> QED
  BY <1>2, <1>4

\* The rows of an accepted policy.
LEMMA PolicyRows ==
    ASSUME NEW root \in Found, parse_policy(root) = "none"
    PROVE  /\ \A i \in Members(AntennaArray(root)) :
                 RowOf(root, i) \in Found /\ RowError(RowOf(root, i)) = "none"
           /\ RejectedRows(root) = {}
<1>1. BadRows(root) \subseteq Nat
  BY AntennaArrayFound, MembersType DEF BadRows
<1>2. BadRows(root) = {} /\ RejectedRows(root) = {}
  BY <1>1, PolicyAccepted
<1>3. \A i : RowOf(root, i) \in Found
  BY AntennaArrayFound, NoCaseItemFound DEF RowOf
<1> QED
  BY <1>2, <1>3 DEF BadRows

\* The loaded rows are rows of a policy, with distinct names.
LEMMA LoadedRows ==
    ASSUME NEW root \in Found, parse_antennas(root) = "none", parse_policy(root) = "none",
           NEW c, c.antennas = Antennas(root)
    PROVE  /\ c.antennas \in Seq(AntennaPolicy) /\ DistinctRows(c)
           /\ Rows(c) = Members(AntennaArray(root))
           /\ \A i \in Rows(c) :
                 /\ c.antennas[i].id = Antenna(root, i)
                 /\ c.antennas[i].allowed_bands =
                       {BandOf(RowOf(root, i), k) : k \in Members(RowOf(root, i))}
<1> DEFINE n == Len(AntennaArray(root).members)
           bands(i) == {BandOf(RowOf(root, i), k) : k \in Members(RowOf(root, i))}
           row(i) == [id |-> Antenna(root, i), allowed_bands |-> bands(i)]
<1>1. n \in Nat /\ Members(AntennaArray(root)) = 1 .. n
  BY AntennaArrayFound, MembersType
<1> HIDE DEF n
<1>2. \A i \in 1 .. n : bands(i) \in SUBSET BandIndex
  BY <1>1, PolicyRows, RowBands
<1>3. \A i \in 1 .. n : Antenna(root, i) \in Names \ {""}
  BY <1>1, AntennaIds
<1>4. c.antennas = [i \in 1 .. n |-> row(i)]
  BY <1>1 DEF Antennas
<1> HIDE DEF bands
<1>5. \A i \in 1 .. n : row(i) \in AntennaPolicy
  BY <1>2, <1>3 DEF AntennaPolicy
<1>6. /\ \A i \in 1 .. n : row(i).id = Antenna(root, i) /\ row(i).allowed_bands = bands(i)
  OBVIOUS
<1> HIDE DEF row
<1>7. c.antennas \in [1 .. n -> AntennaPolicy]
  BY <1>4, <1>5
<1>8. c.antennas \in Seq(AntennaPolicy) /\ Len(c.antennas) = n
  BY <1>1, <1>7
<1>9. \A i \in 1 .. n : c.antennas[i].id = Antenna(root, i) /\ c.antennas[i].allowed_bands = bands(i)
  BY <1>4, <1>6
<1>10. DistinctRows(c)
  <2>1. \A i, j \in 1 .. n : SameName(Antenna(root, i), Antenna(root, j)) => i = j
    BY <1>1, AntennaIds
  <2>2. Rows(c) = 1 .. n
    BY <1>8 DEF Rows
  <2>3. ASSUME NEW i \in 1 .. n, NEW j \in 1 .. n,
               SameName(c.antennas[i].id, c.antennas[j].id)
        PROVE  i = j
    <3>1. SameName(Antenna(root, i), Antenna(root, j))
      BY <1>9, <2>3
    <3> QED
      BY <2>1, <3>1
  <2> QED
    BY <2>2, <2>3 DEF DistinctRows
<1> QED
  BY <1>1, <1>8, <1>9, <1>10 DEF Rows, bands

\* A row of the file is the row of every antenna it names; there is one for
\* each antenna.
LEMMA RowOfKey ==
    ASSUME NEW root \in Found, parse_policy(root) = "none",
           NEW i \in Members(AntennaArray(root))
    PROVE  /\ \A m \in Members(PolicyObject(root)) :
                 SameName(RowKey(root, m), Antenna(root, i)) =>
                    RowOf(root, i) = Value(PolicyObject(root), m)
           /\ \E m \in Members(PolicyObject(root)) :
                 /\ SameName(RowKey(root, m), Antenna(root, i))
                 /\ RowOf(root, i) = Value(PolicyObject(root), m)
<1> DEFINE policy == PolicyObject(root)
           row == RowOf(root, i)
<1>1. policy \in Found /\ row = cJSON_GetObjectItem(policy, Antenna(root, i))
  BY AntennaArrayFound DEF RowOf
<1>2. row # None
  <2>1. row.type = "array"
    BY PolicyRows, RowAccepted
  <2>2. None.type = "none"
    BY DEF None, Node
  <2> HIDE DEF row
  <2> QED
    BY <2>1, <2>2
<1>3. PICK m \in Members(policy) : SameName(policy.members[m].key, Antenna(root, i)) /\ row = Value(policy, m)
  BY <1>1, <1>2, NoCaseItemFound
<1>4. ASSUME NEW l \in Members(policy), SameName(RowKey(root, l), Antenna(root, i))
      PROVE  l = m
  <2>1. SameName(RowKey(root, l), RowKey(root, m)) /\ SameName(RowKey(root, m), RowKey(root, l))
    BY <1>3, <1>4 DEF SameName, RowKey
  <2>2. ~(l < m) /\ ~(m < l)
    BY <2>1, PolicyRows DEF RejectedRows, RepeatedRow
  <2>3. l \in Nat /\ m \in Nat
    BY <1>1, MembersType
  <2> QED
    BY <2>2, <2>3
<1> QED
  BY <1>3, <1>4 DEF RowKey

LEMMA KeyIsListed ==
    ASSUME NEW root \in Found, parse_policy(root) = "none",
           NEW m \in Members(PolicyObject(root))
    PROVE  \E i \in Members(AntennaArray(root)) : SameName(Antenna(root, i), RowKey(root, m))
BY PolicyRows DEF RejectedRows, UnlistedRow

\* Only the antennas of a configuration matter to the policy.
LEMMA OnlyAntennasMatter ==
    ASSUME NEW c, NEW known, NEW f, NEW name
    PROVE  LET d == [antennas |-> c.antennas]
           IN  /\ ag_policy_evaluate(c, known, f, name) = ag_policy_evaluate(d, known, f, name)
               /\ Rows(c) = Rows(d) /\ d.antennas = c.antennas
               /\ DistinctRows(c) <=> DistinctRows(d)
<1> DEFINE d == [antennas |-> c.antennas]
<1>1. d.antennas = c.antennas
  OBVIOUS
<1> HIDE DEF d
<1>2. Rows(d) = Rows(c)
  BY <1>1 DEF Rows
<1>3. ag_config_find_antenna(c, name) = ag_config_find_antenna(d, name)
  BY <1>1, <1>2 DEF ag_config_find_antenna
<1>4. DistinctRows(c) <=> DistinctRows(d)
  BY <1>1, <1>2 DEF DistinctRows
<1>5. ag_policy_evaluate(c, known, f, name) = ag_policy_evaluate(d, known, f, name)
  BY <1>1, <1>3, Zenon DEF ag_policy_evaluate
<1> QED
  BY <1>1, <1>2, <1>4, <1>5 DEF d

\* A frequency at the lower edge of a band is in that band alone.
LEMMA LowerEdge ==
    ASSUME NEW b \in BandIndex, NEW a \in BandIndex
    PROVE  /\ BANDS[b].lower \in Int
           /\ BANDS[b].lower \in BANDS[a].lower .. BANDS[a].upper <=> a = b
<1>1. BANDS[b].lower \in Int /\ BANDS[b].upper \in Int
  BY BandsAreApart
<1>2. BANDS[a].lower \in Int /\ BANDS[a].upper \in Int
  BY BandsAreApart
<1>3. InBand(b, BANDS[b].lower)
  BY <1>1, BandsAreApart DEF InBand
<1>4. InBand(a, BANDS[b].lower) <=> a = b
  BY <1>1, <1>3, BandsAreDisjoint
<1> QED
  BY <1>1, <1>2, <1>4 DEF InBand

\* The policy that is enforced is the one in the file.
LEMMA MatrixOfFile ==
    ASSUME NEW root \in Found, parse_antennas(root) = "none", parse_policy(root) = "none",
           NEW c, c.antennas = Antennas(root),
           NEW antenna \in Names \ {""}, NEW b \in BandIndex
    PROVE  ag_policy_evaluate(c, TRUE, BANDS[b].lower, antenna).allowed
           <=> \E m \in Members(PolicyObject(root)) :
                  /\ SameName(RowKey(root, m), antenna)
                  /\ \E text \in TextsOf(Value(PolicyObject(root), m)) :
                        SameName(text, BANDS[b].name)
<1> DEFINE d == [antennas |-> c.antennas]
           lower == BANDS[b].lower
           Names_band(row) == \E k \in Members(row) : SameName(Value(row, k).text, BANDS[b].name)
<1>1. /\ c.antennas \in Seq(AntennaPolicy) /\ DistinctRows(c)
      /\ Rows(c) = Members(AntennaArray(root))
      /\ \A i \in Rows(c) :
            /\ c.antennas[i].id = Antenna(root, i)
            /\ c.antennas[i].allowed_bands =
                  {BandOf(RowOf(root, i), k) : k \in Members(RowOf(root, i))}
  BY LoadedRows
<1>2. /\ ag_policy_evaluate(c, TRUE, lower, antenna) = ag_policy_evaluate(d, TRUE, lower, antenna)
      /\ Rows(c) = Rows(d) /\ d.antennas = c.antennas
      /\ DistinctRows(c) <=> DistinctRows(d)
  BY OnlyAntennasMatter
<1>3. d \in Configs
  BY <1>1 DEF Configs
<1> HIDE DEF d
<1>4. lower \in Int /\ \A a \in BandIndex : lower \in BANDS[a].lower .. BANDS[a].upper <=> a = b
  BY LowerEdge
<1> HIDE DEF lower
<1>5. ag_policy_evaluate(c, TRUE, lower, antenna).allowed <=> Permitted(d, TRUE, lower, antenna)
  BY <1>1, <1>2, <1>3, <1>4, DecisionIsTheMatrix
<1>6. Permitted(d, TRUE, lower, antenna) <=>
         \E i \in Rows(c) : /\ SameName(Antenna(root, i), antenna)
                            /\ b \in c.antennas[i].allowed_bands
  <2>1. \A i \in Rows(c) : c.antennas[i].allowed_bands \subseteq BandIndex
    <3> TAKE i \in Rows(c)
    <3>1. \A k \in Members(RowOf(root, i)) : BandOf(RowOf(root, i), k) \in BandIndex
      BY <1>1, PolicyRows, RowBands
    <3>2. c.antennas[i].allowed_bands = {BandOf(RowOf(root, i), k) : k \in Members(RowOf(root, i))}
      BY <1>1
    <3> QED
      BY <3>1, <3>2
  <2>2. \A i \in Rows(c) :
           (\E a \in c.antennas[i].allowed_bands : lower \in BANDS[a].lower .. BANDS[a].upper)
              <=> b \in c.antennas[i].allowed_bands
    BY <1>4, <2>1
  <2>3. antenna # ""
    OBVIOUS
  <2>4. \A i \in Rows(c) : c.antennas[i].id = Antenna(root, i)
    BY <1>1
  <2> QED
    BY <1>2, <2>2, <2>3, <2>4, Zenon DEF Permitted
<1>7. \A i \in Rows(c) : b \in c.antennas[i].allowed_bands <=> Names_band(RowOf(root, i))
  <2> TAKE i \in Rows(c)
  <2>1. c.antennas[i].allowed_bands = {BandOf(RowOf(root, i), k) : k \in Members(RowOf(root, i))}
    BY <1>1
  <2>2. \A k \in Members(RowOf(root, i)) :
           SameName(Value(RowOf(root, i), k).text, BANDS[b].name) <=> BandOf(RowOf(root, i), k) = b
    BY <1>1, PolicyRows, RowBands
  <2> QED
    BY <2>1, <2>2
<1>8. \A row : Names_band(row) <=> \E text \in TextsOf(row) : SameName(text, BANDS[b].name)
  BY DEF TextsOf
<1> HIDE DEF Names_band
<1>9. (\E i \in Rows(c) : SameName(Antenna(root, i), antenna) /\ Names_band(RowOf(root, i)))
      <=> \E m \in Members(PolicyObject(root)) :
             SameName(RowKey(root, m), antenna) /\ Names_band(Value(PolicyObject(root), m))
  <2>1. ASSUME NEW i \in Rows(c), SameName(Antenna(root, i), antenna), Names_band(RowOf(root, i))
        PROVE  \E m \in Members(PolicyObject(root)) :
                  SameName(RowKey(root, m), antenna) /\ Names_band(Value(PolicyObject(root), m))
    <3>1. PICK m \in Members(PolicyObject(root)) :
                  /\ SameName(RowKey(root, m), Antenna(root, i))
                  /\ RowOf(root, i) = Value(PolicyObject(root), m)
      BY <1>1, RowOfKey
    <3>2. SameName(RowKey(root, m), antenna)
      BY <2>1, <3>1 DEF SameName
    <3> QED
      BY <2>1, <3>1, <3>2
  <2>2. ASSUME NEW m \in Members(PolicyObject(root)), SameName(RowKey(root, m), antenna),
               Names_band(Value(PolicyObject(root), m))
        PROVE  \E i \in Rows(c) : SameName(Antenna(root, i), antenna) /\ Names_band(RowOf(root, i))
    <3>1. PICK i \in Rows(c) : SameName(Antenna(root, i), RowKey(root, m))
      BY <1>1, KeyIsListed
    <3>2. SameName(RowKey(root, m), Antenna(root, i)) /\ SameName(Antenna(root, i), antenna)
      BY <2>2, <3>1 DEF SameName
    <3>3. RowOf(root, i) = Value(PolicyObject(root), m)
      BY <1>1, <3>2, RowOfKey
    <3> QED
      BY <2>2, <3>2, <3>3
  <2> QED
    BY <2>1, <2>2
<1>10. ag_policy_evaluate(c, TRUE, lower, antenna).allowed
         <=> \E m \in Members(PolicyObject(root)) :
                SameName(RowKey(root, m), antenna) /\ Names_band(Value(PolicyObject(root), m))
  BY <1>5, <1>6, <1>7, <1>9
<1> QED
  BY <1>8, <1>10 DEF lower

-----------------------------------------------------------------------------
(* One call of ag_config_load.                                             *)

ConfigInv ==
    /\ file \in Files
    /\ error = "pending" \/ error = ag_config_load(file)
    /\ error = "none" => config = <<Loaded(file)>>


LEMMA ConfigInvHolds == ConfigSpec => []ConfigInv
<1>1. ConfigInit => ConfigInv
  BY DEF ConfigInit, ConfigInv
<1>2. ConfigInv /\ [Load]_config_vars => ConfigInv'
  BY DEF ConfigInv, Load, config_vars
<1> QED
  BY <1>1, <1>2, PTL DEF ConfigSpec

\* A file that was accepted, and what was loaded from it.
LEMMA AcceptedFile ==
    ASSUME ConfigInv, error = "none"
    PROVE  /\ config[1].radio = Radio(file.root) /\ config[1].antennas = Antennas(file.root)
           /\ file.root \in Found /\ parse_radio(file.root) = "none"
           /\ parse_antennas(file.root) = "none" /\ parse_policy(file.root) = "none"
<1>1. file \in Files /\ ag_config_load(file) = "none" /\ config = <<Loaded(file)>>
  BY DEF ConfigInv
<1>2. file.root \in Found
  BY <1>1, FilesAssumption DEF Found
<1>3. /\ parse_radio(file.root) = "none" /\ parse_antennas(file.root) = "none"
      /\ parse_policy(file.root) = "none"
  BY <1>1, FileAccepted
<1>4. Loaded(file).radio = Radio(file.root) /\ Loaded(file).antennas = Antennas(file.root)
  BY DEF Loaded
<1>5. config[1] = Loaded(file)
  BY <1>1
<1> QED
  BY <1>2, <1>3, <1>4, <1>5

(***************************************************************************)
(* What the rest of the program takes for granted about a configuration    *)
(* holds of every one that ag_config_load accepts.                         *)
(***************************************************************************)
THEOREM LoadedAlwaysUsable == ConfigSpec => []LoadedConfigIsUsable
<1>1. ConfigInv => LoadedConfigIsUsable
  <2> SUFFICES ASSUME ConfigInv, error = "none"
               PROVE  LoadedConfigIsUsable
    BY DEF LoadedConfigIsUsable
  <2> DEFINE root == file.root
  <2>1. /\ root \in Found /\ parse_radio(root) = "none"
        /\ parse_antennas(root) = "none" /\ parse_policy(root) = "none"
    BY AcceptedFile
  <2>2. config[1].radio = Radio(root) /\ config[1].antennas = Antennas(root)
    BY AcceptedFile
  <2> HIDE DEF root
  <2>3. config[1].antennas \in Seq(AntennaPolicy) /\ DistinctRows(config[1])
    BY <2>1, <2>2, LoadedRows
  <2>4. /\ Radio(root).reconnect_seconds \in 1 .. Radio(root).reconnect_max_seconds
        /\ Radio(root).reconnect_max_seconds <= MAX_RECONNECT_MAX
        /\ Radio(root).reconnect_log_seconds \in 1 .. MAX_RECONNECT_LOG
        /\ Radio(root).port \in 1 .. MAX_PORT
    BY <2>1, RadioNumbers, Limits
  <2>5. /\ Radio(root).radio_mode = "DIRECT" <=> Radio(root).host # ""
        /\ Radio(root).radio_mode = "DISCOVERY" <=>
              Radio(root).radio_serial # "" \/ Radio(root).discovery_ip # ""
    BY <2>1, RadioSelector
  <2> QED
    BY <2>2, <2>3, <2>4, <2>5 DEF LoadedConfigIsUsable
<1> QED
  BY <1>1, ConfigInvHolds, PTL

(***************************************************************************)
(* The policy that is enforced is the one in the file: ag_policy_evaluate  *)
(* over what was loaded allows an antenna on a band just when the file's   *)
(* row for that antenna names that band.                                   *)
(***************************************************************************)
THEOREM MatrixAlwaysTheFile == ConfigSpec => []MatrixIsTheFile
<1>1. ConfigInv => MatrixIsTheFile
  <2> SUFFICES ASSUME ConfigInv, error = "none",
                      NEW antenna \in Names \ {""}, NEW b \in BandIndex
               PROVE  ag_policy_evaluate(config[1], TRUE, BANDS[b].lower, antenna).allowed
                      <=> \E i \in Members(PolicyObject(file.root)) :
                             /\ SameName(PolicyObject(file.root).members[i].key, antenna)
                             /\ \E text \in TextsOf(Value(PolicyObject(file.root), i)) :
                                   SameName(text, BANDS[b].name)
    BY DEF MatrixIsTheFile
  <2> DEFINE root == file.root
  <2>1. /\ config[1].antennas = Antennas(root) /\ root \in Found
        /\ parse_antennas(root) = "none" /\ parse_policy(root) = "none"
    BY AcceptedFile
  <2> QED
    BY <2>1, MatrixOfFile DEF RowKey
<1> QED
  BY <1>1, ConfigInvHolds, PTL

-----------------------------------------------------------------------------
(* What is accepted is what is valid: keys.                                *)

\* As many values as places: no two are the same.
LEMMA AllDistinct ==
    ASSUME NEW n \in Nat, NEW F, DOMAIN F = 1 .. n, F = [i \in 1 .. n |-> F[i]]
    PROVE  Cardinality({F[i] : i \in 1 .. n}) = n
              <=> \A i, j \in 1 .. n : F[i] = F[j] => i = j
<1> DEFINE S == 1 .. n
           T == {F[i] : i \in 1 .. n}
<1>1. IsFiniteSet(S) /\ Cardinality(S) = n
  BY FS_Interval
<1>2. F \in [S -> T]
  OBVIOUS
<1>3. F \in Surjection(S, T)
  BY <1>2 DEF Surjection
<1>4. Cardinality(T) = Cardinality(S) <=> F \in Injection(S, T)
  <2> HIDE DEF S, T
  <2> QED
    BY <1>1, <1>3, FS_Surjection
<1>5. F \in Injection(S, T) <=> \A i, j \in S : F[i] = F[j] => i = j
  <2>1. DOMAIN F = S
    OBVIOUS
  <2> HIDE DEF S, T
  <2> QED
    BY <1>2, <2>1 DEF Injection, IsInjective
<1> QED
  BY <1>1, <1>4, <1>5

LEMMA KeysOnce ==
    ASSUME NEW o \in Found
    PROVE  OnceEach(o) <=>
              \A i, j \in Members(o) : o.members[i].key = o.members[j].key => i = j
<1> DEFINE n == Len(o.members)
           F == [i \in 1 .. n |-> o.members[i].key]
<1>1. n \in Nat /\ Members(o) = 1 .. n
  BY MembersType
<1>2. KeysOf(o) = {F[i] : i \in 1 .. n}
  BY <1>1 DEF KeysOf
<1>3. DOMAIN F = 1 .. n /\ F = [i \in 1 .. n |-> F[i]] /\ \A i \in 1 .. n : F[i] = o.members[i].key
  OBVIOUS
<1>4. OnceEach(o) <=> Cardinality(KeysOf(o)) = n
  BY DEF OnceEach
<1> HIDE DEF F, n
<1>5. Cardinality({F[i] : i \in 1 .. n}) = n <=> \A i, j \in 1 .. n : F[i] = F[j] => i = j
  BY <1>1, <1>3, AllDistinct
<1> QED
  BY <1>1, <1>2, <1>3, <1>4, <1>5

LEMMA KeysAccepted ==
    ASSUME NEW o \in Found, NEW allowed
    PROVE  ~reject_unknown_keys(o, allowed) <=> KeysOf(o) \subseteq allowed /\ OnceEach(o)
<1> DEFINE Key(i) == o.members[i].key
<1>1. ~reject_unknown_keys(o, allowed) <=>
         /\ \A i \in Members(o) : Key(i) \in allowed
         /\ \A i, j \in Members(o) : ~(i < j /\ Key(i) = Key(j))
  BY DEF reject_unknown_keys
<1>2. KeysOf(o) \subseteq allowed <=> \A i \in Members(o) : Key(i) \in allowed
  BY DEF KeysOf
<1> HIDE DEF Key
<1>3. \A i \in Members(o) : i \in Nat
  BY MembersType
<1>4. (\A i, j \in Members(o) : ~(i < j /\ Key(i) = Key(j)))
      <=> \A i, j \in Members(o) : Key(i) = Key(j) => i = j
  <2>1. ASSUME \A i, j \in Members(o) : ~(i < j /\ Key(i) = Key(j)),
               NEW i \in Members(o), NEW j \in Members(o), Key(i) = Key(j)
        PROVE  i = j
    <3>1. ~(i < j) /\ ~(j < i)
      BY <2>1
    <3> QED
      BY <1>3, <3>1
  <2>2. ASSUME \A i, j \in Members(o) : Key(i) = Key(j) => i = j,
               NEW i \in Members(o), NEW j \in Members(o), i < j, Key(i) = Key(j)
        PROVE  FALSE
    <3>1. i = j
      BY <2>2
    <3> QED
      BY <1>3, <2>2, <3>1
  <2> QED
    BY <2>1, <2>2
<1>5. OnceEach(o) <=> \A i, j \in Members(o) : Key(i) = Key(j) => i = j
  BY KeysOnce DEF Key
<1> QED
  BY <1>1, <1>2, <1>4, <1>5

\* A setting is given just when its key is there; the key's member has it.
LEMMA ItemGiven ==
    ASSUME NEW o \in Found, NEW name
    PROVE  LET item == cJSON_GetObjectItemCaseSensitive(o, name)
           IN  /\ item \in Found
               /\ item.type # "none" <=> name \in KeysOf(o)
               /\ OnceEach(o) => \A i \in Members(o) :
                                    o.members[i].key = name => item = Value(o, i)
<1> DEFINE item == cJSON_GetObjectItemCaseSensitive(o, name)
<1>1. /\ item \in Found
      /\ item # None => \E i \in Members(o) : /\ o.members[i].key = name
                                              /\ item = Value(o, i)
      /\ item = None => \A i \in Members(o) : o.members[i].key # name
  BY ItemFound
<1> HIDE DEF item
<1>2. item.type # "none" <=> item # None
  BY <1>1, FoundType
<1>3. item # None <=> name \in KeysOf(o)
  BY <1>1 DEF KeysOf
<1>4. ASSUME OnceEach(o), NEW i \in Members(o), o.members[i].key = name
      PROVE  item = Value(o, i)
  <2>1. item # None
    BY <1>1, <1>4
  <2>2. PICK j \in Members(o) : o.members[j].key = name /\ item = Value(o, j)
    BY <1>1, <2>1
  <2>3. i = j
    BY <1>4, <2>2, KeysOnce
  <2> QED
    BY <2>2, <2>3
<1> QED
  BY <1>1, <1>2, <1>3, <1>4 DEF item

-----------------------------------------------------------------------------
(* What is accepted is what is valid: the radio section.                   *)

LEMMA NumberValid ==
    ASSUME NEW node \in Found, NEW maximum \in Nat, node.type # "none"
    PROVE  /\ ~BadNumber(node, maximum) <=> WholeNumber(node, 1 .. maximum)
           /\ ~BadNumber(node, maximum) => node.twice = 2 * Integer(node)
<1> DEFINE twice == node.twice
           k == twice \div 2
<1>1. twice \in Int
  BY FoundType
<1>2. k \in Int /\ (twice % 2 = 0 <=> twice = 2 * k)
  BY <1>1
<1>3. ~BadNumber(node, maximum) <=> /\ node.type = "number"
                                    /\ ~(twice < 2) /\ ~(twice > 2 * maximum) /\ twice = 2 * k
  BY DEF BadNumber, Integer
<1>4. WholeNumber(node, 1 .. maximum) <=> /\ node.type = "number"
                                          /\ twice % 2 = 0 /\ k \in 1 .. maximum
  BY DEF WholeNumber
<1>5. Integer(node) = k
  BY DEF Integer
<1> HIDE DEF twice, k
<1>6. twice = 2 * k => (~(twice < 2) /\ ~(twice > 2 * maximum) <=> k \in 1 .. maximum)
  BY <1>1, <1>2
<1>7. ~BadNumber(node, maximum) <=> WholeNumber(node, 1 .. maximum)
  BY <1>2, <1>3, <1>4, <1>6
<1>8. ~BadNumber(node, maximum) => twice = 2 * Integer(node)
  BY <1>3, <1>5
<1> QED
  BY <1>7, <1>8 DEF twice

\* The order of the delays.
LEMMA DelaysValid ==
    ASSUME NEW root \in Found,
           ~BadNumber(RadioItem(root, "reconnect_seconds"), MAX_RECONNECT),
           ~BadNumber(RadioItem(root, "reconnect_max_seconds"), MAX_RECONNECT_MAX)
    PROVE  LET first == RadioItem(root, "reconnect_seconds")
               last  == RadioItem(root, "reconnect_max_seconds")
               twice == IF first.type # "none" THEN first.twice ELSE 6
           IN  ~DelaysReversed(root) <=> (last.type # "none" => twice <= last.twice)
<1> DEFINE first == RadioItem(root, "reconnect_seconds")
           last == RadioItem(root, "reconnect_max_seconds")
           twice == IF first.type # "none" THEN first.twice ELSE 6
           reconnect == NumberOr(first, 3)
           default == Max({reconnect, 30})
           longest == NumberOr(last, default)
<1>1. first \in Found /\ last \in Found
  BY RadioItemFound
<1>2. DelaysReversed(root) <=> longest < reconnect
  BY DEF DelaysReversed, Radio
<1>3. reconnect \in 1 .. MAX_RECONNECT
  BY <1>1, Limits, NumberInRange
<1>4. twice = 2 * reconnect
  <2>1. CASE first.type = "none"
    BY <2>1 DEF NumberOr
  <2>2. CASE first.type # "none"
    BY <1>1, <2>2, Limits, NumberValid DEF NumberOr
  <2> QED
    BY <2>1, <2>2
<1>5. last.type # "none" => last.twice = 2 * longest /\ longest = Integer(last)
  BY <1>1, Limits, NumberValid DEF NumberOr
<1>6. last.type = "none" => longest = default
  BY DEF NumberOr
<1>7. last.twice \in Int
  BY <1>1, FoundType
<1> HIDE DEF first, last, twice, reconnect, longest
<1>8. reconnect \in Int
  BY <1>3, Limits
<1>9. ~(default < reconnect)
  <2>1. default = IF reconnect >= 30 THEN reconnect ELSE 30
    BY <1>8 DEF Max
  <2> QED
    BY <1>8, <2>1
<1>10. CASE last.type = "none"
  BY <1>2, <1>6, <1>9, <1>10 DEF last, first, twice
<1>11. CASE last.type # "none"
  <2>1. longest \in Int
    BY <1>5, <1>7, <1>11 DEF Integer
  <2>2. ~(longest < reconnect) <=> twice <= last.twice
    BY <1>4, <1>5, <1>8, <1>11, <2>1
  <2>3. ~DelaysReversed(root) <=> (last.type # "none" => twice <= last.twice)
    BY <1>2, <1>11, <2>2
  <2> QED
    BY <2>3 DEF last, first, twice
<1> QED
  BY <1>10, <1>11

\* ValidDirect with the limits by name.
Direct(radio) ==
    LET Item(key)  == cJSON_GetObjectItemCaseSensitive(radio, key)
        Given(key) == key \in KeysOf(radio)
        reconnect  == IF Given("reconnect_seconds")
                      THEN Item("reconnect_seconds").twice ELSE 6
    IN  /\ Given("host") /\ KeysOf(radio) \cap {"serial", "discovery_ip"} = {}
        /\ Item("host").type = "string" /\ Length[Item("host").text] \in 1 .. AG_MAX_HOST
        /\ Given("port") => WholeNumber(Item("port"), 1 .. MAX_PORT)
        /\ Given("reconnect_seconds") =>
              WholeNumber(Item("reconnect_seconds"), 1 .. MAX_RECONNECT)
        /\ Given("reconnect_max_seconds") =>
              /\ WholeNumber(Item("reconnect_max_seconds"), 1 .. MAX_RECONNECT_MAX)
              /\ reconnect <= Item("reconnect_max_seconds").twice
        /\ Given("reconnect_log_seconds") =>
              WholeNumber(Item("reconnect_log_seconds"), 1 .. MAX_RECONNECT_LOG)

LEMMA DirectIsValid ==
    ASSUME NEW radio
    PROVE  Direct(radio) <=> ValidDirect(radio)
BY SMT DEF Direct, ValidDirect, MAX_PORT, MAX_RECONNECT, MAX_RECONNECT_MAX, MAX_RECONNECT_LOG

\* The checks of parse_radio that come after those of the keys.
SettingsPass(root) ==
    LET Item(key) == RadioItem(root, key)
        Absent(keys) == \A key \in keys : Item(key).type = "none"
    IN  /\ ~Absent({"host", "serial", "discovery_ip"})
        /\ ~(~Absent({"host"}) /\ ~Absent({"serial", "discovery_ip"}))
        /\ ~BadHost(Item("host"))
        /\ ~BadSerial(Item("serial"))
        /\ ~BadAddress(Item("discovery_ip"))
        /\ ~BadNumber(Item("port"), MAX_PORT)
        /\ ~BadNumber(Item("reconnect_seconds"), MAX_RECONNECT)
        /\ ~BadNumber(Item("reconnect_max_seconds"), MAX_RECONNECT_MAX)
        /\ ~DelaysReversed(root)
        /\ ~(Absent({"host"}) /\ ~Absent(RadioKeys \ {"host", "serial", "discovery_ip"}))
        /\ ~BadNumber(Item("reconnect_log_seconds"), MAX_RECONNECT_LOG)

RadioObject(root) == cJSON_GetObjectItemCaseSensitive(root, "radio")

\* An item of the radio section is there just when its key is.
LEMMA RadioItemGiven ==
    ASSUME NEW root \in Found, NEW key
    PROVE  /\ RadioItem(root, key) \in Found
           /\ RadioItem(root, key) = cJSON_GetObjectItemCaseSensitive(RadioObject(root), key)
           /\ RadioItem(root, key).type # "none" <=> key \in KeysOf(RadioObject(root))
<1>1. RadioObject(root) \in Found
  BY ItemFound DEF RadioObject
<1>2. RadioItem(root, key) = cJSON_GetObjectItemCaseSensitive(RadioObject(root), key)
  BY DEF RadioItem, RadioObject
<1> QED
  BY <1>1, <1>2, ItemGiven

\* A number that is left out is not bad.
LEMMA NumberGiven ==
    ASSUME NEW node \in Found, NEW maximum \in Nat
    PROVE  ~BadNumber(node, maximum)
              <=> (node.type # "none" => WholeNumber(node, 1 .. maximum))
<1>1. CASE node.type = "none"
  BY <1>1 DEF BadNumber
<1>2. CASE node.type # "none"
  BY <1>2, NumberValid
<1> QED
  BY <1>1, <1>2

\* With a host, the settings pass just when they are those of a direct radio.
LEMMA DirectAccepted ==
    ASSUME NEW root \in Found, "host" \in KeysOf(RadioObject(root))
    PROVE  SettingsPass(root) <=> Direct(RadioObject(root))
<1> DEFINE radio == RadioObject(root)
           Item(key) == RadioItem(root, key)
           Given(key) == key \in KeysOf(radio)
           reconnect == IF Given("reconnect_seconds")
                        THEN Item("reconnect_seconds").twice ELSE 6
           Numbers == /\ Given("port") => WholeNumber(Item("port"), 1 .. MAX_PORT)
                      /\ Given("reconnect_seconds") =>
                            WholeNumber(Item("reconnect_seconds"), 1 .. MAX_RECONNECT)
                      /\ Given("reconnect_max_seconds") =>
                            WholeNumber(Item("reconnect_max_seconds"), 1 .. MAX_RECONNECT_MAX)
                      /\ Given("reconnect_log_seconds") =>
                            WholeNumber(Item("reconnect_log_seconds"), 1 .. MAX_RECONNECT_LOG)
           NotBad == /\ ~BadNumber(Item("port"), MAX_PORT)
                     /\ ~BadNumber(Item("reconnect_seconds"), MAX_RECONNECT)
                     /\ ~BadNumber(Item("reconnect_max_seconds"), MAX_RECONNECT_MAX)
                     /\ ~BadNumber(Item("reconnect_log_seconds"), MAX_RECONNECT_LOG)
           InOrder == Given("reconnect_max_seconds") =>
                         reconnect <= Item("reconnect_max_seconds").twice
           HostOnly == /\ KeysOf(radio) \cap {"serial", "discovery_ip"} = {}
                       /\ Item("host").type = "string"
                       /\ Length[Item("host").text] \in 1 .. AG_MAX_HOST
<1>1. \A key : /\ Item(key) \in Found
               /\ Item(key) = cJSON_GetObjectItemCaseSensitive(radio, key)
               /\ Item(key).type # "none" <=> Given(key)
  BY RadioItemGiven
<1>2. Direct(radio) <=> HostOnly /\ Numbers /\ InOrder
  <2>1. Direct(radio) <=>
          /\ Given("host") /\ KeysOf(radio) \cap {"serial", "discovery_ip"} = {}
          /\ Item("host").type = "string" /\ Length[Item("host").text] \in 1 .. AG_MAX_HOST
          /\ Given("port") => WholeNumber(Item("port"), 1 .. MAX_PORT)
          /\ Given("reconnect_seconds") =>
                WholeNumber(Item("reconnect_seconds"), 1 .. MAX_RECONNECT)
          /\ Given("reconnect_max_seconds") =>
                /\ WholeNumber(Item("reconnect_max_seconds"), 1 .. MAX_RECONNECT_MAX)
                /\ reconnect <= Item("reconnect_max_seconds").twice
          /\ Given("reconnect_log_seconds") =>
                WholeNumber(Item("reconnect_log_seconds"), 1 .. MAX_RECONNECT_LOG)
    BY DEF Direct, RadioItem, RadioObject
  <2> QED
    BY <2>1, Zenon
<1>3. NotBad <=> Numbers
  <2>1. ~BadNumber(Item("port"), MAX_PORT)
          <=> (Given("port") => WholeNumber(Item("port"), 1 .. MAX_PORT))
    BY <1>1, Limits, NumberGiven
  <2>2. ~BadNumber(Item("reconnect_seconds"), MAX_RECONNECT)
          <=> (Given("reconnect_seconds") =>
                 WholeNumber(Item("reconnect_seconds"), 1 .. MAX_RECONNECT))
    BY <1>1, Limits, NumberGiven
  <2>3. ~BadNumber(Item("reconnect_max_seconds"), MAX_RECONNECT_MAX)
          <=> (Given("reconnect_max_seconds") =>
                 WholeNumber(Item("reconnect_max_seconds"), 1 .. MAX_RECONNECT_MAX))
    BY <1>1, Limits, NumberGiven
  <2>4. ~BadNumber(Item("reconnect_log_seconds"), MAX_RECONNECT_LOG)
          <=> (Given("reconnect_log_seconds") =>
                 WholeNumber(Item("reconnect_log_seconds"), 1 .. MAX_RECONNECT_LOG))
    BY <1>1, Limits, NumberGiven
  <2> QED
    BY <2>1, <2>2, <2>3, <2>4, Zenon
<1>4. NotBad => (~DelaysReversed(root) <=> InOrder)
  <2> SUFFICES ASSUME NotBad PROVE ~DelaysReversed(root) <=> InOrder
    OBVIOUS
  <2> DEFINE twice == IF Item("reconnect_seconds").type # "none"
                      THEN Item("reconnect_seconds").twice ELSE 6
  <2>1. ~DelaysReversed(root)
          <=> (Item("reconnect_max_seconds").type # "none" =>
                 twice <= Item("reconnect_max_seconds").twice)
    BY DelaysValid
  <2>2. Item("reconnect_max_seconds").type # "none" <=> Given("reconnect_max_seconds")
    BY <1>1
  <2>3. twice = reconnect
    BY <1>1
  <2> HIDE DEF twice, reconnect
  <2> QED
    BY <2>1, <2>2, <2>3, Zenon
<1>5. Item("host").type # "none"
  BY <1>1
<1>6. ~BadHost(Item("host")) <=> /\ Item("host").type = "string"
                                 /\ Length[Item("host").text] \in 1 .. AG_MAX_HOST
  BY <1>5 DEF BadHost
<1>7. KeysOf(radio) \cap {"serial", "discovery_ip"} = {}
        <=> Item("serial").type = "none" /\ Item("discovery_ip").type = "none"
  BY <1>1
<1>8. SettingsPass(root) <=>
         /\ Item("serial").type = "none" /\ Item("discovery_ip").type = "none"
         /\ ~BadHost(Item("host"))
         /\ ~BadSerial(Item("serial")) /\ ~BadAddress(Item("discovery_ip"))
         /\ NotBad /\ ~DelaysReversed(root)
  BY <1>5 DEF SettingsPass
<1>9. /\ Item("serial").type = "none" => ~BadSerial(Item("serial"))
      /\ Item("discovery_ip").type = "none" => ~BadAddress(Item("discovery_ip"))
  BY DEF BadSerial, BadAddress
<1> HIDE DEF Numbers, NotBad, InOrder
<1> QED
  BY <1>2, <1>3, <1>4, <1>6, <1>7, <1>8, <1>9

\* An address that inet_pton accepts is short enough.
LEMMA AddressValid ==
    ASSUME NEW item \in Found, item.type # "none"
    PROVE  ~BadAddress(item) <=> item.type = "string" /\ item.text \in IPv4
<1>1. item.text \in IPv4 => Length[item.text] <= AG_MAX_IPV4_TEXT
  BY ConfigAssumption
<1> QED
  BY <1>1 DEF BadAddress

\* The members of a section that has only a serial, an address or both.
LEMMA SelectorsValid ==
    ASSUME NEW radio \in Found, OnceEach(radio),
           KeysOf(radio) \subseteq {"serial", "discovery_ip"}
    PROVE  (/\ ~BadSerial(cJSON_GetObjectItemCaseSensitive(radio, "serial"))
            /\ ~BadAddress(cJSON_GetObjectItemCaseSensitive(radio, "discovery_ip")))
           <=> \A i \in Members(radio) :
                  /\ Value(radio, i).type = "string"
                  /\ radio.members[i].key = "serial" =>
                        Value(radio, i).text \in SerialTexts
                        /\ Length[Value(radio, i).text] \in 1 .. AG_MAX_RADIO_SERIAL
                  /\ radio.members[i].key = "discovery_ip" => Value(radio, i).text \in IPv4
<1> DEFINE serial == cJSON_GetObjectItemCaseSensitive(radio, "serial")
           address == cJSON_GetObjectItemCaseSensitive(radio, "discovery_ip")
           SerialOK(node) == /\ node.type = "string" /\ node.text \in SerialTexts
                             /\ Length[node.text] \in 1 .. AG_MAX_RADIO_SERIAL
           AddressOK(node) == node.type = "string" /\ node.text \in IPv4
           Key(i) == radio.members[i].key
<1>1. /\ serial \in Found
      /\ serial.type # "none" <=> "serial" \in KeysOf(radio)
      /\ \A i \in Members(radio) : Key(i) = "serial" => serial = Value(radio, i)
  BY ItemGiven
<1>2. /\ address \in Found
      /\ address.type # "none" <=> "discovery_ip" \in KeysOf(radio)
      /\ \A i \in Members(radio) : Key(i) = "discovery_ip" => address = Value(radio, i)
  BY ItemGiven
<1>3. \A i \in Members(radio) : Key(i) = "serial" \/ Key(i) = "discovery_ip"
  BY DEF KeysOf
<1>4. /\ "serial" \in KeysOf(radio) <=> \E i \in Members(radio) : Key(i) = "serial"
      /\ "discovery_ip" \in KeysOf(radio) <=> \E i \in Members(radio) : Key(i) = "discovery_ip"
  BY DEF KeysOf
<1> HIDE DEF serial, address
<1>5. ~BadSerial(serial) <=> (serial.type # "none" => SerialOK(serial))
  BY DEF BadSerial, valid_radio_serial
<1>6. ~BadAddress(address) <=> (address.type # "none" => AddressOK(address))
  <2>1. address.type = "none" => ~BadAddress(address)
    BY DEF BadAddress
  <2> QED
    BY <1>2, <2>1, AddressValid
<1>7. (\A i \in Members(radio) :
          /\ Value(radio, i).type = "string"
          /\ Key(i) = "serial" =>
                Value(radio, i).text \in SerialTexts
                /\ Length[Value(radio, i).text] \in 1 .. AG_MAX_RADIO_SERIAL
          /\ Key(i) = "discovery_ip" => Value(radio, i).text \in IPv4)
      <=> \A i \in Members(radio) : /\ Key(i) = "serial" => SerialOK(Value(radio, i))
                                    /\ Key(i) = "discovery_ip" => AddressOK(Value(radio, i))
  BY <1>3, Zenon
<1> HIDE DEF SerialOK, AddressOK, Key
<1>8. (\A i \in Members(radio) : /\ Key(i) = "serial" => SerialOK(Value(radio, i))
                                 /\ Key(i) = "discovery_ip" => AddressOK(Value(radio, i)))
      <=> /\ serial.type # "none" => SerialOK(serial)
          /\ address.type # "none" => AddressOK(address)
  <2>1. (\A i \in Members(radio) : Key(i) = "serial" => SerialOK(Value(radio, i)))
        <=> (serial.type # "none" => SerialOK(serial))
    BY <1>1, <1>4
  <2>2. (\A i \in Members(radio) : Key(i) = "discovery_ip" => AddressOK(Value(radio, i)))
        <=> (address.type # "none" => AddressOK(address))
    BY <1>2, <1>4
  <2> QED
    BY <2>1, <2>2, Zenon
<1> QED
  BY <1>5, <1>6, <1>7, <1>8 DEF serial, address, Key

\* Without a host, the settings pass just when they are those of a discovery.
LEMMA DiscoveryAccepted ==
    ASSUME NEW root \in Found, "host" \notin KeysOf(RadioObject(root)),
           OnceEach(RadioObject(root)), KeysOf(RadioObject(root)) \subseteq RadioKeys
    PROVE  SettingsPass(root) <=> ValidDiscovery(RadioObject(root))
<1> DEFINE radio == RadioObject(root)
           Item(key) == RadioItem(root, key)
           Given(key) == key \in KeysOf(radio)
           Others == RadioKeys \ {"host", "serial", "discovery_ip"}
           NotBad == /\ ~BadNumber(Item("port"), MAX_PORT)
                     /\ ~BadNumber(Item("reconnect_seconds"), MAX_RECONNECT)
                     /\ ~BadNumber(Item("reconnect_max_seconds"), MAX_RECONNECT_MAX)
                     /\ ~BadNumber(Item("reconnect_log_seconds"), MAX_RECONNECT_LOG)
<1>1. \A key : /\ Item(key) \in Found
               /\ Item(key) = cJSON_GetObjectItemCaseSensitive(radio, key)
               /\ Item(key).type # "none" <=> Given(key)
  BY RadioItemGiven
<1>2. radio \in Found
  BY ItemFound DEF RadioObject
<1>3. Item("host").type = "none" /\ ~BadHost(Item("host"))
  BY <1>1 DEF BadHost
<1>4. SettingsPass(root) <=>
         /\ Given("serial") \/ Given("discovery_ip")
         /\ ~BadSerial(Item("serial")) /\ ~BadAddress(Item("discovery_ip"))
         /\ NotBad /\ ~DelaysReversed(root)
         /\ \A key \in Others : ~Given(key)
  <2>1. SettingsPass(root) <=>
         /\ ~(Item("serial").type = "none" /\ Item("discovery_ip").type = "none")
         /\ ~BadSerial(Item("serial")) /\ ~BadAddress(Item("discovery_ip"))
         /\ NotBad /\ ~DelaysReversed(root)
         /\ \A key \in Others : Item(key).type = "none"
    BY <1>3 DEF SettingsPass
  <2> HIDE DEF NotBad, Others
  <2> QED
    BY <1>1, <2>1
<1>5. (\A key \in Others : ~Given(key)) => NotBad /\ ~DelaysReversed(root)
  <2> SUFFICES ASSUME \A key \in Others : ~Given(key)
               PROVE  NotBad /\ ~DelaysReversed(root)
    OBVIOUS
  <2>1. /\ Item("port").type = "none" /\ Item("reconnect_seconds").type = "none"
        /\ Item("reconnect_max_seconds").type = "none"
        /\ Item("reconnect_log_seconds").type = "none"
    BY <1>1 DEF RadioKeys
  <2>2. NotBad
    BY <2>1 DEF BadNumber
  <2> QED
    BY <2>1, <2>2, DelaysValid
<1>6. KeysOf(radio) # {} /\ KeysOf(radio) \subseteq {"serial", "discovery_ip"}
        <=> /\ Given("serial") \/ Given("discovery_ip")
            /\ \A key \in Others : ~Given(key)
  BY DEF RadioKeys
<1>7. KeysOf(radio) \subseteq {"serial", "discovery_ip"} =>
         ((~BadSerial(Item("serial")) /\ ~BadAddress(Item("discovery_ip")))
          <=> \A i \in Members(radio) :
                  /\ Value(radio, i).type = "string"
                  /\ radio.members[i].key = "serial" =>
                        Value(radio, i).text \in SerialTexts
                        /\ Length[Value(radio, i).text] \in 1 .. AG_MAX_RADIO_SERIAL
                  /\ radio.members[i].key = "discovery_ip" => Value(radio, i).text \in IPv4)
  BY <1>2, SelectorsValid DEF RadioItem, RadioObject
<1> HIDE DEF NotBad, Others, Given
<1> QED
  BY <1>4, <1>5, <1>6, <1>7 DEF ValidDiscovery

\* parse_radio accepts the radio sections that are valid.
LEMMA RadioValid ==
    ASSUME NEW root \in Found
    PROVE  parse_radio(root) = "none" <=> ValidRadio(RadioObject(root))
<1> DEFINE radio == RadioObject(root)
           KeysOK == OnceEach(radio) /\ KeysOf(radio) \subseteq RadioKeys
<1>1. radio \in Found
  BY ItemFound DEF RadioObject
<1>2. ~reject_unknown_keys(radio, RadioKeys) <=> KeysOK
  BY <1>1, KeysAccepted
<1>3. parse_radio(root) = "none" <=> radio.type = "object" /\ KeysOK /\ SettingsPass(root)
  <2>1. parse_radio(root) = "none" <=>
           /\ radio.type = "object" /\ ~reject_unknown_keys(radio, RadioKeys)
           /\ SettingsPass(root)
    BY RadioAccepted DEF SettingsPass, RadioObject
  <2> QED
    BY <1>2, <2>1
<1>4. KeysOK => (SettingsPass(root) <=> ValidDirect(radio) \/ ValidDiscovery(radio))
  <2> SUFFICES ASSUME KeysOK
               PROVE  SettingsPass(root) <=> ValidDirect(radio) \/ ValidDiscovery(radio)
    OBVIOUS
  <2>1. CASE "host" \in KeysOf(radio)
    <3>1. ~ValidDiscovery(radio)
      BY <2>1 DEF ValidDiscovery
    <3> QED
      BY <2>1, <3>1, DirectAccepted, DirectIsValid
  <2>2. CASE "host" \notin KeysOf(radio)
    <3>1. ~Direct(radio)
      BY <2>2 DEF Direct
    <3> QED
      BY <2>2, <3>1, DiscoveryAccepted, DirectIsValid
  <2> QED
    BY <2>1, <2>2
<1> QED
  BY <1>3, <1>4 DEF ValidRadio

-----------------------------------------------------------------------------
(* What is accepted is what is valid: the matrix.                          *)

\* As many folded texts as items: no two are equal in any letter case.
LEMMA TextsOnce ==
    ASSUME NEW array \in Found
    PROVE  Cardinality(Folded(TextsOf(array))) = Len(array.members) <=>
              \A i, j \in Members(array) :
                 SameName(Value(array, i).text, Value(array, j).text) => i = j
<1> DEFINE n == Len(array.members)
           F == [i \in 1 .. n |-> CaseFold[Value(array, i).text]]
<1>1. n \in Nat /\ Members(array) = 1 .. n
  BY MembersType
<1>2. Folded(TextsOf(array)) = {F[i] : i \in 1 .. n}
  BY <1>1 DEF Folded, TextsOf
<1>3. /\ DOMAIN F = 1 .. n /\ F = [i \in 1 .. n |-> F[i]]
      /\ \A i \in 1 .. n : F[i] = CaseFold[Value(array, i).text]
  OBVIOUS
<1> HIDE DEF F
<1>4. Cardinality({F[i] : i \in 1 .. n}) = n <=> \A i, j \in 1 .. n : F[i] = F[j] => i = j
  <2> HIDE DEF n
  <2> QED
    BY <1>1, <1>3, AllDistinct
<1>5. \A i, j \in 1 .. n : F[i] = F[j] <=> SameName(Value(array, i).text, Value(array, j).text)
  BY <1>3 DEF SameName
<1> HIDE DEF n
<1>6. (\A i, j \in 1 .. n : F[i] = F[j] => i = j) <=>
         \A i, j \in 1 .. n : SameName(Value(array, i).text, Value(array, j).text) => i = j
  BY <1>5, Zenon
<1> QED
  BY <1>1, <1>2, <1>4, <1>6 DEF n

\* No earlier item that is related: no two items are.
LEMMA EarlierOnly ==
    ASSUME NEW o \in Found, NEW R, \A i, j \in Members(o) : <<i, j>> \in R => <<j, i>> \in R
    PROVE  (\A i \in Members(o) : ~(\E j \in 1 .. i - 1 : <<i, j>> \in R))
           <=> \A i, j \in Members(o) : <<i, j>> \in R => i = j
<1>1. Len(o.members) \in Nat /\ Members(o) = 1 .. Len(o.members)
  BY MembersType
<1> DEFINE n == Len(o.members)
<1> HIDE DEF n
<1>2. n \in Nat /\ Members(o) = 1 .. n
  BY <1>1 DEF n
<1>3. ASSUME \A i \in Members(o) : ~(\E j \in 1 .. i - 1 : <<i, j>> \in R),
             NEW i \in Members(o), NEW j \in Members(o), <<i, j>> \in R
      PROVE  i = j
  <2>1. i \in Nat /\ j \in Nat /\ 1 <= i /\ 1 <= j
    BY <1>2
  <2>2. <<j, i>> \in R
    BY <1>3
  <2>3. j \notin 1 .. i - 1
    BY <1>3
  <2>4. i \notin 1 .. j - 1
    BY <1>3, <2>2
  <2> QED
    BY <2>1, <2>3, <2>4
<1>4. ASSUME \A i, j \in Members(o) : <<i, j>> \in R => i = j,
             NEW i \in Members(o), NEW j \in 1 .. i - 1, <<i, j>> \in R
      PROVE  FALSE
  <2>1. i \in 1 .. n
    BY <1>2
  <2>2. j \in 1 .. n /\ i # j
    BY <1>2, <2>1
  <2> QED
    BY <1>2, <1>4, <2>2
<1> QED
  BY <1>3, <1>4

\* A row is accepted just when it is a list of distinct bands.
LEMMA RowValid ==
    ASSUME NEW row \in Found
    PROVE  RowError(row) = "none" <=>
              /\ DistinctStrings(row)
              /\ Folded(TextsOf(row)) \subseteq Folded({BANDS[b].name : b \in BandIndex})
<1> DEFINE Text(k) == Value(row, k).text
           Same(k, l) == BandOf(row, l) = BandOf(row, k)
           R == {p \in Members(row) \X Members(row) : Same(p[1], p[2])}
<1>1. Len(row.members) \in Nat /\ Members(row) = 1 .. Len(row.members)
  BY MembersType
<1>2. \A k, l \in Members(row) : <<k, l>> \in R <=> Same(k, l)
  OBVIOUS
<1>3. RowError(row) = "none" <=>
         /\ row.type = "array"
         /\ \A k \in Members(row) : BandOf(row, k) # NotFound
         /\ \A k \in Members(row) : ~RepeatedBand(row, k)
  BY RowAccepted DEF RejectedBands
<1>4. (\A k \in Members(row) : ~RepeatedBand(row, k))
      <=> \A k, l \in Members(row) : Same(k, l) => k = l
  <2>1. \A k \in Members(row) : \A l \in 1 .. k - 1 : l \in Members(row)
    BY <1>1
  <2>2. \A k, l \in Members(row) : <<k, l>> \in R => <<l, k>> \in R
    BY <1>2
  <2>3. (\A k \in Members(row) : ~(\E l \in 1 .. k - 1 : <<k, l>> \in R))
        <=> \A k, l \in Members(row) : <<k, l>> \in R => k = l
    <3> HIDE DEF R
    <3> QED
      BY <2>2, EarlierOnly
  <2>4. \A k \in Members(row) : RepeatedBand(row, k) <=> \E l \in 1 .. k - 1 : <<k, l>> \in R
    BY <1>2, <2>1 DEF RepeatedBand
  <2> HIDE DEF R, Same
  <2> QED
    BY <1>2, <2>3, <2>4
<1>5. \A k \in Members(row) :
         BandOf(row, k) # NotFound <=>
            /\ Value(row, k).type = "string"
            /\ \E b \in BandIndex : SameName(Text(k), BANDS[b].name)
  <2> TAKE k \in Members(row)
  <2>1. BandOf(row, k) = IF Value(row, k).type = "string" THEN ag_band_index(Text(k))
                         ELSE NotFound
    BY DEF BandOf
  <2>2. NotFound \notin BandIndex
    BY DEF NotFound, BandIndex
  <2>3. ag_band_index(Text(k)) # NotFound <=> \E b \in BandIndex : SameName(Text(k), BANDS[b].name)
    BY <2>2, BandIndexFound
  <2> HIDE DEF Text
  <2> QED
    BY <2>1, <2>3
<1>6. (\A k \in Members(row) : \E b \in BandIndex : SameName(Text(k), BANDS[b].name))
      <=> Folded(TextsOf(row)) \subseteq Folded({BANDS[b].name : b \in BandIndex})
  BY DEF Folded, TextsOf, SameName
<1>7. (\A k \in Members(row) : BandOf(row, k) # NotFound) =>
         \A k, l \in Members(row) : Same(k, l) <=> SameName(Text(k), Text(l))
  <2> SUFFICES ASSUME \A k \in Members(row) : BandOf(row, k) # NotFound,
                      NEW k \in Members(row), NEW l \in Members(row)
               PROVE  Same(k, l) <=> SameName(Text(k), Text(l))
    OBVIOUS
  <2>1. /\ BandOf(row, k) = ag_band_index(Text(k)) /\ BandOf(row, l) = ag_band_index(Text(l))
        /\ BandOf(row, k) # NotFound /\ BandOf(row, l) # NotFound
    BY DEF BandOf
  <2> HIDE DEF Text
  <2>2. /\ ag_band_index(Text(k)) \in BandIndex /\ ag_band_index(Text(l)) \in BandIndex
    BY <2>1, BandIndexFound
  <2>3. \A b \in BandIndex : /\ SameName(Text(k), BANDS[b].name) <=> ag_band_index(Text(k)) = b
                             /\ SameName(Text(l), BANDS[b].name) <=> ag_band_index(Text(l)) = b
    BY BandIndexFound
  <2>4. ASSUME ag_band_index(Text(k)) = ag_band_index(Text(l))
        PROVE  SameName(Text(k), Text(l))
    BY <2>2, <2>3, <2>4 DEF SameName
  <2>5. ASSUME SameName(Text(k), Text(l))
        PROVE  ag_band_index(Text(k)) = ag_band_index(Text(l))
    <3>1. SameName(Text(l), BANDS[ag_band_index(Text(l))].name)
      BY <2>2, <2>3
    <3>2. SameName(Text(k), BANDS[ag_band_index(Text(l))].name)
      BY <2>5, <3>1 DEF SameName
    <3> QED
      BY <2>2, <2>3, <3>2
  <2> QED
    BY <2>1, <2>4, <2>5
<1>8. DistinctStrings(row) <=>
         /\ row.type = "array"
         /\ \A k \in Members(row) : Value(row, k).type = "string"
         /\ \A k, l \in Members(row) : SameName(Text(k), Text(l)) => k = l
  BY TextsOnce DEF DistinctStrings
<1> HIDE DEF Text, Same, R
<1>9. (\A k \in Members(row) : BandOf(row, k) # NotFound) <=>
         /\ \A k \in Members(row) : Value(row, k).type = "string"
         /\ \A k \in Members(row) : \E b \in BandIndex : SameName(Text(k), BANDS[b].name)
  BY <1>5, Zenon
<1>10. (\A k \in Members(row) : BandOf(row, k) # NotFound) =>
          ((\A k, l \in Members(row) : Same(k, l) => k = l)
           <=> \A k, l \in Members(row) : SameName(Text(k), Text(l)) => k = l)
  BY <1>7, Zenon
<1> QED
  BY <1>3, <1>4, <1>6, <1>8, <1>9, <1>10, Zenon

\* parse_antennas accepts the interlock sections that are valid.
LEMMA AntennasValid ==
    ASSUME NEW root \in Found
    PROVE  LET interlock == cJSON_GetObjectItemCaseSensitive(root, "interlock")
               array == AntennaArray(root)
           IN  parse_antennas(root) = "none" <=>
                  /\ interlock.type = "object" /\ OnceEach(interlock)
                  /\ KeysOf(interlock) = {"antennas"}
                  /\ DistinctStrings(array) /\ Len(array.members) \in 1 .. AG_MAX_ANTENNAS
                  /\ \A id \in TextsOf(array) :
                        id \in WordTexts /\ Length[id] \in 1 .. AG_MAX_ANTENNA_ID
<1> DEFINE interlock == cJSON_GetObjectItemCaseSensitive(root, "interlock")
           array == AntennaArray(root)
           Text(i) == Value(array, i).text
           Same(i, j) == SameName(Text(i), Text(j))
           R == {p \in Members(array) \X Members(array) : Same(p[1], p[2])}
           IdsOK == /\ \A i \in Members(array) : Value(array, i).type = "string"
                    /\ \A i \in Members(array) : valid_antenna_id(Text(i))
           Sized == Len(array.members) \in 1 .. AG_MAX_ANTENNAS
<1>1. interlock \in Found /\ array \in Found
  BY ItemFound, AntennaArrayFound
<1>2. array = cJSON_GetObjectItemCaseSensitive(interlock, "antennas")
  BY DEF AntennaArray
<1>3. array.type # "none" <=> "antennas" \in KeysOf(interlock)
  BY <1>1, <1>2, ItemGiven
<1>4. ~reject_unknown_keys(interlock, {"antennas"})
         <=> KeysOf(interlock) \subseteq {"antennas"} /\ OnceEach(interlock)
  BY <1>1, KeysAccepted
<1>5. parse_antennas(root) = "none" <=>
         /\ interlock.type = "object" /\ ~reject_unknown_keys(interlock, {"antennas"})
         /\ array.type = "array" /\ Sized
         /\ \A i \in Members(array) : ~MalformedId(root, i)
         /\ \A i \in Members(array) : ~RepeatedId(root, i)
  BY AntennasAccepted DEF RejectedIds
<1> HIDE DEF interlock, array
<1>6. (\A i \in Members(array) : ~MalformedId(root, i)) <=> IdsOK
  BY DEF MalformedId, Antenna, array
<1>7. (\A i \in Members(array) : ~RepeatedId(root, i))
      <=> \A i, j \in Members(array) : Same(i, j) => i = j
  <2>1. \A i, j \in Members(array) : <<i, j>> \in R <=> Same(i, j)
    OBVIOUS
  <2>2. \A i \in Members(array) : \A j \in 1 .. i - 1 : j \in Members(array)
    BY <1>1, MembersType
  <2>3. \A i, j \in Members(array) : <<i, j>> \in R => <<j, i>> \in R
    BY <2>1 DEF SameName
  <2>4. (\A i \in Members(array) : ~(\E j \in 1 .. i - 1 : <<i, j>> \in R))
        <=> \A i, j \in Members(array) : <<i, j>> \in R => i = j
    <3> HIDE DEF R
    <3> QED
      BY <1>1, <2>3, EarlierOnly
  <2>5. \A i \in Members(array) : RepeatedId(root, i) <=> \E j \in 1 .. i - 1 : <<i, j>> \in R
    <3>1. \A i \in Members(array) : RepeatedId(root, i) <=> \E j \in 1 .. i - 1 : Same(i, j)
      BY DEF RepeatedId, Antenna, array
    <3> HIDE DEF R, Same
    <3> QED
      BY <2>1, <2>2, <3>1
  <2> HIDE DEF R, Same
  <2> QED
    BY <2>1, <2>4, <2>5
<1>8. DistinctStrings(array) <=>
         /\ array.type = "array"
         /\ \A i \in Members(array) : Value(array, i).type = "string"
         /\ \A i, j \in Members(array) : Same(i, j) => i = j
  BY <1>1, TextsOnce DEF DistinctStrings
<1>9. (\A i \in Members(array) : valid_antenna_id(Text(i)))
      <=> \A id \in TextsOf(array) : id \in WordTexts /\ Length[id] \in 1 .. AG_MAX_ANTENNA_ID
  BY DEF TextsOf, valid_antenna_id
<1>10. array.type = "array" =>
          (KeysOf(interlock) \subseteq {"antennas"} <=> KeysOf(interlock) = {"antennas"})
  BY <1>3
<1> HIDE DEF Same, Sized, R
<1>11. parse_antennas(root) = "none" <=>
         /\ interlock.type = "object" /\ OnceEach(interlock)
         /\ KeysOf(interlock) = {"antennas"}
         /\ DistinctStrings(array) /\ Sized
         /\ \A i \in Members(array) : valid_antenna_id(Text(i))
  BY <1>4, <1>5, <1>6, <1>7, <1>8, <1>10, Zenon
<1> HIDE DEF Text
<1> QED
  BY <1>9, <1>11, Zenon DEF interlock, array, Sized

\* As many folded keys as members: no two are equal in any letter case.
LEMMA FoldedKeysOnce ==
    ASSUME NEW o \in Found
    PROVE  Cardinality(Folded(KeysOf(o))) = Len(o.members) <=>
              \A i, j \in Members(o) :
                 SameName(o.members[i].key, o.members[j].key) => i = j
<1> DEFINE n == Len(o.members)
           F == [i \in 1 .. n |-> CaseFold[o.members[i].key]]
<1>1. n \in Nat /\ Members(o) = 1 .. n
  BY MembersType
<1>2. Folded(KeysOf(o)) = {F[i] : i \in 1 .. n}
  BY <1>1 DEF Folded, KeysOf
<1>3. /\ DOMAIN F = 1 .. n /\ F = [i \in 1 .. n |-> F[i]]
      /\ \A i \in 1 .. n : F[i] = CaseFold[o.members[i].key]
  OBVIOUS
<1> HIDE DEF F
<1>4. Cardinality({F[i] : i \in 1 .. n}) = n <=> \A i, j \in 1 .. n : F[i] = F[j] => i = j
  <2> HIDE DEF n
  <2> QED
    BY <1>1, <1>3, AllDistinct
<1>5. \A i, j \in 1 .. n : F[i] = F[j] <=> SameName(o.members[i].key, o.members[j].key)
  BY <1>3 DEF SameName
<1> HIDE DEF n
<1>6. (\A i, j \in 1 .. n : F[i] = F[j] => i = j) <=>
         \A i, j \in 1 .. n : SameName(o.members[i].key, o.members[j].key) => i = j
  BY <1>5, Zenon
<1> QED
  BY <1>1, <1>2, <1>4, <1>6 DEF n

\* Names that agree up to letter case, as sets of folded names.
LEMMA FoldedKeys ==
    ASSUME NEW root
    PROVE  LET array == AntennaArray(root)
               policy == PolicyObject(root)
           IN  /\ (\A m \in Members(policy) : ~UnlistedRow(root, m))
                     <=> Folded(KeysOf(policy)) \subseteq Folded(TextsOf(array))
               /\ (\A i \in Members(array) : \E m \in Members(policy) :
                      SameName(RowKey(root, m), Antenna(root, i)))
                     <=> Folded(TextsOf(array)) \subseteq Folded(KeysOf(policy))
<1> DEFINE array == AntennaArray(root)
           policy == PolicyObject(root)
<1>1. /\ Folded(KeysOf(policy)) = {CaseFold[RowKey(root, m)] : m \in Members(policy)}
      /\ Folded(TextsOf(array)) = {CaseFold[Antenna(root, i)] : i \in Members(array)}
  BY DEF Folded, KeysOf, TextsOf, RowKey, Antenna
<1>2. (\A m \in Members(policy) : ~UnlistedRow(root, m)) <=>
         \A m \in Members(policy) : \E i \in Members(array) :
            CaseFold[Antenna(root, i)] = CaseFold[RowKey(root, m)]
  BY DEF UnlistedRow, SameName
<1>3. (\A i \in Members(array) : \E m \in Members(policy) :
          SameName(RowKey(root, m), Antenna(root, i))) <=>
         \A i \in Members(array) : \E m \in Members(policy) :
            CaseFold[RowKey(root, m)] = CaseFold[Antenna(root, i)]
  BY DEF SameName
<1> HIDE DEF array, policy
<1>4. (\A m \in Members(policy) : ~UnlistedRow(root, m))
         <=> Folded(KeysOf(policy)) \subseteq Folded(TextsOf(array))
  BY <1>1, <1>2
<1>5. (\A i \in Members(array) : \E m \in Members(policy) :
          SameName(RowKey(root, m), Antenna(root, i)))
         <=> Folded(TextsOf(array)) \subseteq Folded(KeysOf(policy))
  BY <1>1, <1>3
<1> QED
  BY <1>4, <1>5 DEF array, policy

\* No later row of the same name: no two rows have one name.
LEMMA RowsOnce ==
    ASSUME NEW root \in Found
    PROVE  (\A m \in Members(PolicyObject(root)) : ~RepeatedRow(root, m))
           <=> Cardinality(Folded(KeysOf(PolicyObject(root)))) = Len(PolicyObject(root).members)
<1> DEFINE policy == PolicyObject(root)
<1>1. policy \in Found
  BY AntennaArrayFound
<1>2. Cardinality(Folded(KeysOf(policy))) = Len(policy.members) <=>
         \A i, j \in Members(policy) : SameName(RowKey(root, i), RowKey(root, j)) => i = j
  BY <1>1, FoldedKeysOnce DEF RowKey
<1>3. \A i \in Members(policy) : i \in Nat
  BY <1>1, MembersType
<1>4. \A i, j : SameName(RowKey(root, i), RowKey(root, j))
                   => SameName(RowKey(root, j), RowKey(root, i))
  BY DEF SameName
<1>5. ASSUME \A m \in Members(policy) : ~RepeatedRow(root, m),
             NEW i \in Members(policy), NEW j \in Members(policy),
             SameName(RowKey(root, i), RowKey(root, j))
      PROVE  i = j
  <2>1. ~(i < j) /\ ~(j < i)
    BY <1>4, <1>5 DEF RepeatedRow
  <2> QED
    BY <1>3, <2>1
<1>6. ASSUME \A i, j \in Members(policy) : SameName(RowKey(root, i), RowKey(root, j)) => i = j,
             NEW m \in Members(policy), RepeatedRow(root, m)
      PROVE  FALSE
  <2>1. PICK j \in Members(policy) : m < j /\ SameName(RowKey(root, m), RowKey(root, j))
    BY <1>6 DEF RepeatedRow
  <2>2. m = j
    BY <1>6, <2>1
  <2> QED
    BY <1>3, <2>1, <2>2
<1> QED
  BY <1>2, <1>5, <1>6

\* parse_policy, with a list of antennas that are distinct, accepts the
\* policies that have just one valid row for each.
LEMMA PolicyValid ==
    ASSUME NEW root \in Found, DistinctStrings(AntennaArray(root))
    PROVE  LET array == AntennaArray(root)
               policy == PolicyObject(root)
           IN  parse_policy(root) = "none" <=>
                  /\ policy.type = "object"
                  /\ Folded(KeysOf(policy)) = Folded(TextsOf(array))
                  /\ Len(policy.members) = Len(array.members)
                  /\ \A m \in Members(policy) : RowError(Value(policy, m)) = "none"
<1> DEFINE array == AntennaArray(root)
           policy == PolicyObject(root)
           keys == Folded(KeysOf(policy))
           texts == Folded(TextsOf(array))
           RowsOK == \A m \in Members(policy) : RowError(Value(policy, m)) = "none"
<1>1. array \in Found /\ policy \in Found
  BY AntennaArrayFound
<1>2. Cardinality(texts) = Len(array.members)
  BY DEF DistinctStrings
<1>3. /\ (\A m \in Members(policy) : ~UnlistedRow(root, m)) <=> keys \subseteq texts
      /\ (\A i \in Members(array) : \E m \in Members(policy) :
             SameName(RowKey(root, m), Antenna(root, i))) <=> texts \subseteq keys
  BY FoldedKeys
<1>4. (\A m \in Members(policy) : ~RepeatedRow(root, m)) <=> Cardinality(keys) = Len(policy.members)
  BY RowsOnce
<1>5. parse_policy(root) = "none" <=>
         /\ policy.type = "object"
         /\ \A m \in Members(policy) : ~UnlistedRow(root, m)
         /\ \A m \in Members(policy) : ~RepeatedRow(root, m)
         /\ \A i \in Members(array) : RowError(RowOf(root, i)) = "none"
  <2>1. BadRows(root) \subseteq Nat
    BY <1>1, MembersType DEF BadRows
  <2>2. parse_policy(root) = "none" <=>
           policy.type = "object" /\ RejectedRows(root) = {} /\ BadRows(root) = {}
    BY <2>1, PolicyAccepted
  <2> QED
    BY <2>2 DEF RejectedRows, BadRows
<1>6. ASSUME parse_policy(root) = "none"
      PROVE  keys = texts /\ Len(policy.members) = Len(array.members) /\ RowsOK
  <2>1. \A i \in Members(array) : \E m \in Members(policy) :
           SameName(RowKey(root, m), Antenna(root, i))
    BY <1>6, RowOfKey
  <2>2. keys = texts
    <3> HIDE DEF keys, texts
    <3> QED
      BY <1>3, <1>5, <1>6, <2>1
  <2>3. Len(policy.members) = Len(array.members)
    BY <1>2, <1>4, <1>5, <1>6, <2>2
  <2>4. ASSUME NEW m \in Members(policy)
        PROVE  RowError(Value(policy, m)) = "none"
    <3>1. PICK i \in Members(array) : SameName(Antenna(root, i), RowKey(root, m))
      BY <1>6, KeyIsListed
    <3>2. RowOf(root, i) = Value(policy, m)
      <4>1. SameName(RowKey(root, m), Antenna(root, i))
        BY <3>1 DEF SameName
      <4> QED
        BY <1>6, <4>1, RowOfKey
    <3> QED
      BY <1>5, <1>6, <3>2
  <2> QED
    BY <2>2, <2>3, <2>4
<1>7. ASSUME policy.type = "object", keys = texts,
             Len(policy.members) = Len(array.members), RowsOK
      PROVE  parse_policy(root) = "none"
  <2>1. /\ \A m \in Members(policy) : ~UnlistedRow(root, m)
        /\ \A i \in Members(array) : \E m \in Members(policy) :
              SameName(RowKey(root, m), Antenna(root, i))
    <3> HIDE DEF keys, texts
    <3> QED
      BY <1>3, <1>7
  <2>2. \A m \in Members(policy) : ~RepeatedRow(root, m)
    <3>1. Cardinality(keys) = Len(policy.members)
      BY <1>2, <1>7
    <3> QED
      BY <1>4, <3>1
  <2>3. ASSUME NEW i \in Members(array)
        PROVE  RowError(RowOf(root, i)) = "none"
    <3> DEFINE row == RowOf(root, i)
    <3>1. row = cJSON_GetObjectItem(policy, Antenna(root, i))
      BY DEF RowOf
    <3>2. PICK m \in Members(policy) : SameName(RowKey(root, m), Antenna(root, i))
      BY <2>1
    <3>3. row # None
      BY <1>1, <3>1, <3>2, NoCaseItemFound DEF RowKey
    <3>4. PICK l \in Members(policy) : row = Value(policy, l)
      BY <1>1, <3>1, <3>3, NoCaseItemFound
    <3> QED
      BY <1>7, <3>4
  <2> QED
    BY <1>5, <1>7, <2>1, <2>2, <2>3
<1>8. parse_policy(root) = "none" => policy.type = "object"
  BY <1>5
<1> QED
  BY <1>6, <1>7, <1>8

\* The size of a valid file.
Small(size) == size <= 1048576

\* ag_config_load accepts the files that are valid.
LEMMA FileValid ==
    ASSUME NEW f \in Files
    PROVE  ag_config_load(f) = "none" <=> ValidFile(f)
<1> DEFINE root == f.root
           Item(key) == cJSON_GetObjectItemCaseSensitive(root, key)
           array == AntennaArray(root)
           policy == PolicyObject(root)
           interlock == Item("interlock")
           InterlockOK == /\ interlock.type = "object" /\ OnceEach(interlock)
                          /\ KeysOf(interlock) = {"antennas"}
           ArrayOK == /\ DistinctStrings(array) /\ Len(array.members) \in 1 .. AG_MAX_ANTENNAS
                      /\ \A id \in TextsOf(array) :
                            id \in WordTexts /\ Length[id] \in 1 .. AG_MAX_ANTENNA_ID
           PolicyOK == /\ policy.type = "object"
                       /\ Folded(KeysOf(policy)) = Folded(TextsOf(array))
                       /\ Len(policy.members) = Len(array.members)
                       /\ \A m \in Members(policy) :
                             /\ DistinctStrings(Value(policy, m))
                             /\ Folded(TextsOf(Value(policy, m)))
                                   \subseteq Folded({BANDS[b].name : b \in BandIndex})
           AllKeys == {"radio", "interlock", "policy"}
           Readable == f.opens /\ f.complete /\ Small(f.size)
<1>1. root \in Found /\ f.size \in Nat
  BY FilesAssumption DEF Found
<1>2. policy = Item("policy") /\ RadioObject(root) = Item("radio")
  BY DEF PolicyObject, RadioObject
<1>3. read_file(f) = "none" <=> Readable
  <2>1. ~(f.size > AG_MAX_CONFIG_BYTES) <=> Small(f.size)
    BY <1>1, SMT DEF AG_MAX_CONFIG_BYTES, Small
  <2> QED
    BY <2>1, FileRead, Zenon
<1>4. parse_radio(root) = "none" <=> ValidRadio(Item("radio"))
  BY <1>1, <1>2, RadioValid
<1>5. parse_antennas(root) = "none" <=> InterlockOK /\ ArrayOK
  BY <1>1, AntennasValid
<1>6. ArrayOK => (parse_policy(root) = "none" <=> PolicyOK)
  <2> SUFFICES ASSUME DistinctStrings(array)
               PROVE  parse_policy(root) = "none" <=> PolicyOK
    OBVIOUS
  <2>1. \A m \in Members(policy) : Value(policy, m) \in Found
    BY <1>1, AntennaArrayFound, MembersType, NodesFound
  <2>2. \A m \in Members(policy) :
           RowError(Value(policy, m)) = "none" <=>
              /\ DistinctStrings(Value(policy, m))
              /\ Folded(TextsOf(Value(policy, m)))
                    \subseteq Folded({BANDS[b].name : b \in BandIndex})
    BY <2>1, RowValid
  <2>3. parse_policy(root) = "none" <=>
           /\ policy.type = "object"
           /\ Folded(KeysOf(policy)) = Folded(TextsOf(array))
           /\ Len(policy.members) = Len(array.members)
           /\ \A m \in Members(policy) : RowError(Value(policy, m)) = "none"
    BY <1>1, PolicyValid
  <2> HIDE DEF array, policy
  <2> QED
    BY <2>2, <2>3, Zenon
<1>7. ~reject_unknown_keys(root, AllKeys) <=> KeysOf(root) \subseteq AllKeys /\ OnceEach(root)
  BY <1>1, KeysAccepted
<1>8. ag_config_load(f) = "none" <=>
         /\ Readable /\ root.type = "object"
         /\ KeysOf(root) \subseteq AllKeys /\ OnceEach(root)
         /\ ValidRadio(Item("radio")) /\ InterlockOK /\ ArrayOK /\ PolicyOK
  <2>1. ag_config_load(f) = "none" <=>
           /\ read_file(f) = "none" /\ root.type = "object"
           /\ ~reject_unknown_keys(root, AllKeys)
           /\ parse_radio(root) = "none" /\ parse_antennas(root) = "none"
           /\ parse_policy(root) = "none"
    BY FileAccepted
  <2> HIDE DEF root, Readable, InterlockOK, ArrayOK, PolicyOK, AllKeys
  <2> QED
    BY <1>3, <1>4, <1>5, <1>6, <1>7, <2>1, Zenon
<1>9. ValidRadio(Item("radio")) /\ InterlockOK /\ PolicyOK => AllKeys \subseteq KeysOf(root)
  <2> SUFFICES ASSUME ValidRadio(Item("radio")), InterlockOK, PolicyOK
               PROVE  AllKeys \subseteq KeysOf(root)
    OBVIOUS
  <2>1. /\ Item("radio").type = "object" /\ Item("interlock").type = "object"
        /\ Item("policy").type = "object"
    BY <1>2 DEF ValidRadio
  <2>2. \A key : Item(key).type # "none" <=> key \in KeysOf(root)
    BY <1>1, ItemGiven
  <2> HIDE DEF root, Item
  <2> QED
    BY <2>1, <2>2
<1>10. ValidFile(f) <=>
         /\ Readable /\ root.type = "object" /\ OnceEach(root)
         /\ KeysOf(root) = AllKeys
         /\ ValidRadio(Item("radio")) /\ InterlockOK /\ ArrayOK /\ PolicyOK
  <2>1. ValidMatrix(array, policy) <=> ArrayOK /\ PolicyOK
    BY DEF ValidMatrix
  <2>2. ValidFile(f) <=>
           /\ Readable /\ root.type = "object" /\ OnceEach(root)
           /\ KeysOf(root) = AllKeys
           /\ ValidRadio(Item("radio")) /\ InterlockOK
           /\ ValidMatrix(array, Item("policy"))
    BY SMT DEF ValidFile, Small
  <2> HIDE DEF Readable, InterlockOK, ArrayOK, PolicyOK, AllKeys
  <2> QED
    BY <1>2, <2>1, <2>2, Zenon
<1> HIDE DEF root, Readable, InterlockOK, ArrayOK, PolicyOK, AllKeys
<1> QED
  BY <1>8, <1>9, <1>10

(***************************************************************************)
(* The ordered checks of ag_config_load and its parsers accept a file just *)
(* when it is valid as the README describes it, whatever the file: no      *)
(* check is missing, and none refuses a valid file.                        *)
(***************************************************************************)
THEOREM AcceptedAlwaysValid == ConfigSpec => []AcceptedIffValid
<1>1. ConfigInv => AcceptedIffValid
  BY FileValid DEF ConfigInv, AcceptedIffValid
<1> QED
  BY <1>1, ConfigInvHolds, PTL

-----------------------------------------------------------------------------
(* The list of antennas in the command of initialize_session.              *)

\* Sums of the first elements of a sequence of numbers.
Sums(f, w, m) ==
    /\ f \in [0 .. m -> Nat] /\ f[0] = 0
    /\ \A n \in 1 .. m : f[n] = f[n - 1] + w[n]

LEMMA SumsExist ==
    ASSUME NEW k \in Nat, NEW w \in [1 .. k -> Nat]
    PROVE  \E f : Sums(f, w, k)
<1> DEFINE S == {m \in Nat : m <= k => \E f : Sums(f, w, m)}
<1>1. 0 \in S
  <2> DEFINE f == [n \in 0 .. 0 |-> 0]
  <2>1. Sums(f, w, 0)
    BY DEF Sums
  <2> QED
    BY <2>1
<1>2. ASSUME NEW m \in Nat, m \in S
      PROVE  m + 1 \in S
  <2> SUFFICES ASSUME m + 1 <= k
               PROVE  \E f : Sums(f, w, m + 1)
    OBVIOUS
  <2>1. PICK f : Sums(f, w, m)
    BY <1>2
  <2> DEFINE g == [n \in 0 .. m + 1 |-> IF n = m + 1 THEN f[m] + w[m + 1] ELSE f[n]]
  <2>2. w[m + 1] \in Nat /\ f[m] \in Nat /\ \A n \in 0 .. m : f[n] \in Nat
    BY <2>1 DEF Sums
  <2>3. g \in [0 .. m + 1 -> Nat]
    BY <2>2
  <2>4. g[m + 1] = f[m] + w[m + 1] /\ \A n \in 0 .. m : g[n] = f[n]
    OBVIOUS
  <2> HIDE DEF g
  <2>5. g[0] = 0
    BY <2>1, <2>4 DEF Sums
  <2>6. ASSUME NEW n \in 1 .. m + 1
        PROVE  g[n] = g[n - 1] + w[n]
    <3>1. CASE n = m + 1
      BY <2>4, <3>1
    <3>2. CASE n # m + 1
      <4>1. n \in 1 .. m /\ n - 1 \in 0 .. m /\ n \in 0 .. m
        BY <3>2
      <4> QED
        BY <2>1, <2>4, <4>1 DEF Sums
    <3> QED
      BY <3>1, <3>2
  <2>7. Sums(g, w, m + 1)
    BY <2>3, <2>5, <2>6 DEF Sums
  <2> QED
    BY <2>7
<1> HIDE DEF S
<1>3. Nat \subseteq S
  BY <1>1, <1>2, NaturalInduction
<1> QED
  BY <1>3 DEF S

\* The recursion of Offset has a solution; its values are the sums of what was
\* written.
LEMMA Offsets ==
    ASSUME NEW antennas, Len(antennas) \in Nat,
           \A n \in 1 .. Len(antennas) : Written(antennas, n) \in Nat
    PROVE  LET f == Offset(antennas)
           IN  /\ f[0] = 0
               /\ \A n \in 1 .. Len(antennas) : f[n] = f[n - 1] + Written(antennas, n)
<1> DEFINE m == Len(antennas)
           w == [n \in 1 .. m |-> Written(antennas, n)]
           Step(f) == [n \in 0 .. m |-> IF n = 0 THEN 0 ELSE f[n - 1] + Written(antennas, n)]
           g == Offset(antennas)
<1>1. \E f : Sums(f, w, m)
  <2>1. w \in [1 .. m -> Nat] /\ m \in Nat
    OBVIOUS
  <2> HIDE DEF w, m
  <2> QED
    BY <2>1, SumsExist
<1>2. \A f : Sums(f, w, m) => f = Step(f)
  <2> SUFFICES ASSUME NEW f, Sums(f, w, m) PROVE f = Step(f)
    OBVIOUS
  <2>1. f \in [0 .. m -> Nat]
    BY DEF Sums
  <2>2. \A n \in 0 .. m : f[n] = IF n = 0 THEN 0 ELSE f[n - 1] + Written(antennas, n)
    BY DEF Sums
  <2> QED
    BY <2>1, <2>2
<1>3. \E f : f = Step(f)
  BY <1>1, <1>2
<1>4. g = CHOOSE f : f = Step(f)
  BY DEF Offset
<1>5. g = Step(g)
  BY <1>3, <1>4
<1> HIDE DEF g
<1>6. \A n \in 0 .. m : g[n] = IF n = 0 THEN 0 ELSE g[n - 1] + Written(antennas, n)
  BY <1>5
<1> QED
  BY <1>6 DEF g

\* The list grows by at most 32 characters for each antenna, 31 for the first.
LEMMA OffsetBound ==
    ASSUME NEW antennas, Len(antennas) \in 1 .. AG_MAX_ANTENNAS,
           \A n \in 1 .. Len(antennas) : Length[antennas[n].id] \in 1 .. AG_MAX_ANTENNA_ID
    PROVE  LET f == Offset(antennas)
           IN  /\ f[0] = 0
               /\ \A n \in 1 .. Len(antennas) :
                     /\ Written(antennas, n) \in Nat
                     /\ f[n] = f[n - 1] + Written(antennas, n)
                     /\ f[n] \in Nat /\ f[n] <= 32 * n - 1
<1> DEFINE m == Len(antennas)
           f == Offset(antennas)
           W(n) == Written(antennas, n)
           S == {n \in Nat : n \in 1 .. m => f[n] \in Nat /\ f[n] <= 32 * n - 1}
<1>1. m \in Nat
  BY DEF AG_MAX_ANTENNAS
<1>2. \A n \in 1 .. m : W(n) \in Nat /\ W(n) <= IF n = 1 THEN 31 ELSE 32
  <2> SUFFICES ASSUME NEW n \in 1 .. m
               PROVE  W(n) \in Nat /\ W(n) <= IF n = 1 THEN 31 ELSE 32
    OBVIOUS
  <2> DEFINE l == Length[antennas[n].id]
  <2>1. l \in 1 .. 31
    BY DEF AG_MAX_ANTENNA_ID
  <2>2. W(n) = l + (IF n = 1 THEN 0 ELSE 1)
    BY DEF Written
  <2> HIDE DEF l, W
  <2> QED
    BY <2>1, <2>2
<1>3. f[0] = 0 /\ \A n \in 1 .. m : f[n] = f[n - 1] + W(n)
  BY <1>1, <1>2, Offsets
<1> HIDE DEF m, f, W
<1>4. 0 \in S
  OBVIOUS
<1>5. ASSUME NEW n \in Nat, n \in S
      PROVE  n + 1 \in S
  <2> SUFFICES ASSUME n + 1 \in 1 .. m
               PROVE  f[n + 1] \in Nat /\ f[n + 1] <= 32 * (n + 1) - 1
    OBVIOUS
  <2>1. f[n + 1] = f[n] + W(n + 1)
    BY <1>3
  <2>2. CASE n = 0
    <3>1. W(1) \in Nat /\ W(1) <= 31 /\ f[n + 1] = W(1)
      BY <1>2, <1>3, <2>1, <2>2
    <3> QED
      BY <2>2, <3>1
  <2>3. CASE n # 0
    <3>1. n \in 1 .. m
      BY <1>1, <2>3
    <3>2. f[n] \in Nat /\ f[n] <= 32 * n - 1
      BY <1>5, <3>1
    <3>3. W(n + 1) \in Nat /\ W(n + 1) <= 32
      BY <1>2, <2>3
    <3> QED
      BY <2>1, <3>2, <3>3
  <2> QED
    BY <2>2, <2>3
<1>6. Nat \subseteq S
  <2> HIDE DEF S
  <2> QED
    BY <1>4, <1>5, NaturalInduction
<1>7. \A n \in 1 .. m : f[n] \in Nat /\ f[n] <= 32 * n - 1
  BY <1>1, <1>6
<1> QED
  BY <1>2, <1>3, <1>7 DEF m, f, W

LEMMA ShortList ==
    ASSUME NEW antennas, DOMAIN antennas = 1 .. Len(antennas),
           Len(antennas) \in 1 .. AG_MAX_ANTENNAS,
           \A n \in 1 .. Len(antennas) : Length[antennas[n].id] \in 1 .. AG_MAX_ANTENNA_ID
    PROVE  ListFits(antennas)
<1> DEFINE f == Offset(antennas)
           m == Len(antennas)
<1>1. /\ f[0] = 0
      /\ \A n \in 1 .. m : /\ Written(antennas, n) \in Nat
                           /\ f[n] = f[n - 1] + Written(antennas, n)
                           /\ f[n] \in Nat /\ f[n] <= 32 * n - 1
  BY OffsetBound
<1>2. m \in 1 .. 8 /\ ListSize = 256
  <2>1. m \in 1 .. 8
    BY DEF AG_MAX_ANTENNAS
  <2>2. ListSize = 256
    BY SMT DEF AG_MAX_ANTENNAS, AG_MAX_ANTENNA_ID, ListSize
  <2> QED
    BY <2>1, <2>2, Zenon
<1> HIDE DEF f, m
<1>3. ASSUME NEW n \in 1 .. m
      PROVE  Written(antennas, n) < 256 - f[n - 1]
  <2>1. n \in Nat /\ n <= 8
    BY <1>2
  <2>2. f[n - 1] \in Nat
    <3>1. CASE n = 1
      BY <1>1, <3>1
    <3>2. CASE n # 1
      <4>1. n - 1 \in 1 .. m
        BY <1>2, <3>2
      <4> QED
        BY <1>1, <4>1
    <3> QED
      BY <3>1, <3>2
  <2>3. f[n] = f[n - 1] + Written(antennas, n) /\ Written(antennas, n) \in Nat
    BY <1>1
  <2>4. f[n] <= 255
    BY <1>1, <2>1
  <2> QED
    BY <2>2, <2>3, <2>4
<1>4. 87 + f[m] + 13 < 1024
  <2>1. m \in 1 .. m /\ m <= 8 /\ m \in Nat
    BY <1>2
  <2>2. f[m] \in Nat /\ f[m] <= 32 * m - 1
    BY <1>1, <2>1, Zenon
  <2> QED
    BY <2>1, <2>2, SMT
<1> QED
  BY <1>2, <1>3, <1>4 DEF ListFits, f, m

(***************************************************************************)
(* The limits of the loader keep every list of antennas it accepts within  *)
(* the buffers of initialize_session, so the snprintf calls that join the  *)
(* list and write the command never cut it short.                          *)
(***************************************************************************)
THEOREM AntennaListAlwaysFits == ConfigSpec => []AntennaListFits
<1>1. ConfigInv => AntennaListFits
  <2> SUFFICES ASSUME ConfigInv, error = "none"
               PROVE  ListFits(config[1].antennas)
    BY DEF AntennaListFits
  <2> DEFINE root == file.root
             array == AntennaArray(root)
             antennas == config[1].antennas
  <2>1. root \in Found /\ parse_antennas(root) = "none" /\ parse_policy(root) = "none"
    BY AcceptedFile
  <2>2. antennas = Antennas(root)
    BY AcceptedFile
  <2> HIDE DEF root
  <2>3. /\ antennas \in Seq(AntennaPolicy) /\ 1 .. Len(antennas) = Members(array)
        /\ \A n \in 1 .. Len(antennas) : antennas[n].id = Antenna(root, n)
    BY <2>1, <2>2, LoadedRows DEF Rows
  <2>4. /\ Len(array.members) \in 1 .. AG_MAX_ANTENNAS
        /\ \A id \in TextsOf(array) : Length[id] \in 1 .. AG_MAX_ANTENNA_ID
    BY <2>1, AntennasValid
  <2>5. \A n \in Members(array) : Length[Antenna(root, n)] \in 1 .. AG_MAX_ANTENNA_ID
    BY <2>4 DEF TextsOf, Antenna
  <2>6. Len(antennas) = Len(array.members)
    <3>1. Members(array) = 1 .. Len(array.members) /\ Len(array.members) \in Nat
      BY <2>1, AntennaArrayFound, MembersType
    <3>2. Len(antennas) \in Nat
      BY <2>3
    <3> HIDE DEF array, antennas
    <3> QED
      BY <2>3, <3>1, <3>2
  <2>7. DOMAIN antennas = 1 .. Len(antennas)
    BY <2>3
  <2> QED
    BY <2>3, <2>4, <2>5, <2>6, <2>7, ShortList
<1> QED
  BY <1>1, ConfigInvHolds, PTL

=============================================================================
