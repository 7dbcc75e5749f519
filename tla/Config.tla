------------------------------- MODULE Config -------------------------------
(***************************************************************************)
(* ag_config_load (config.c): a file becomes a configuration or an error,  *)
(* the one of the first check that fails.  A file is what cJSON makes of   *)
(* it; the texts in it are strings, with what the loader asks of them      *)
(* given by the constants.                                                 *)
(***************************************************************************)
EXTENDS Policy, FiniteSetsExt

CONSTANTS
    Files,        \* the files the loader may be given
    Nodes,        \* the cJSON nodes below their roots
    Length,       \* strlen of each text
    WordTexts,    \* texts of letters, digits, '-' and '_'
    SerialTexts,  \* texts of these and '.'
    IPv4          \* texts inet_pton accepts

AG_MAX_ANTENNAS == 8
AG_MAX_ANTENNA_ID == 31
AG_MAX_HOST == 255
AG_MAX_RADIO_SERIAL == 63
AG_MAX_IPV4_TEXT == 15
AG_MAX_CONFIG_BYTES == 1024 * 1024

\* Limits and a default that the code writes as numbers.
MAX_PORT == 65535
MAX_RECONNECT == 300
MAX_RECONNECT_MAX == 3600
MAX_RECONNECT_LOG == 86400
DEFAULT_PORT == 4992

ASSUME ConfigAssumption ==
    /\ Length \in [Names -> Nat]
    /\ \A text \in Names : Length[text] = 0 <=> text = ""
    /\ WordTexts \subseteq SerialTexts /\ SerialTexts \subseteq Names
    /\ IPv4 \subseteq Names \ {""} /\ \A ip \in IPv4 : Length[ip] <= AG_MAX_IPV4_TEXT
    /\ \A i \in BandIndex : BANDS[i].name \in Names
    /\ \A i, j \in BandIndex : SameName(BANDS[i].name, BANDS[j].name) => i = j

(***************************************************************************)
(* A cJSON node: its type, valuestring, twice its valuedouble (so that one *)
(* half is a fraction), and its members or items in the file's order.  A   *)
(* node that was not found has the type "none".                            *)
(***************************************************************************)
Node(type, text, twice, members) ==
    [type |-> type, text |-> text, twice |-> twice, members |-> members]

None == Node("none", "", 0, <<>>)

Member(key, value) == [key |-> key, value |-> value]

\* Nodes whose members are among Nodes.
Trees == [type : STRING \ {"none"}, text : Names, twice : Int,
          members : Seq([key : Names, value : Nodes])]

ASSUME FilesAssumption ==
    /\ Nodes \subseteq Trees
    /\ Files \subseteq [opens : BOOLEAN, size : Nat, complete : BOOLEAN,
                        root : Trees \cup {None}]

Members(object) == DOMAIN object.members

Value(object, i) == object.members[i].value

\* The first member whose key is the name, or equals it in any letter case.
cJSON_GetObjectItemCaseSensitive(object, name) ==
    LET found == {i \in Members(object) : object.members[i].key = name}
    IN  IF found = {} THEN None ELSE Value(object, Min(found))

cJSON_GetObjectItem(object, name) ==
    LET found == {i \in Members(object) : SameName(object.members[i].key, name)}
    IN  IF found = {} THEN None ELSE Value(object, Min(found))

-----------------------------------------------------------------------------
(* Checks of single values.                                                *)

\* The error of the first check that fails; each is <<it fails, its error>>.
FirstError(checks) ==
    LET failed == {i \in DOMAIN checks : checks[i][1]}
    IN  IF failed = {} THEN "none" ELSE checks[Min(failed)][2]

reject_unknown_keys(object, allowed) ==
    \E i \in Members(object) :
        \/ object.members[i].key \notin allowed
        \/ \E j \in Members(object) :
              i < j /\ object.members[i].key = object.members[j].key

\* Mutant: room for the NUL is counted twice.
valid_antenna_id_long(id) ==
    Length[id] \in 1 .. AG_MAX_ANTENNA_ID + 1 /\ id \in WordTexts

valid_antenna_id(id) ==
    Length[id] \in 1 .. AG_MAX_ANTENNA_ID /\ id \in WordTexts

valid_radio_serial(serial) ==
    Length[serial] \in 1 .. AG_MAX_RADIO_SERIAL /\ serial \in SerialTexts

\* valueint of a number in the range of int.
Integer(node) == node.twice \div 2

\* Mutant: fractions are cut off.
BadNumber_cut(node, maximum) ==
    /\ node.type # "none"
    /\ node.type # "number" \/ node.twice < 2 \/ Integer(node) > maximum

\* The node is there and not an integer from 1 to the maximum.
BadNumber(node, maximum) ==
    /\ node.type # "none"
    /\ \/ node.type # "number"
       \/ node.twice < 2 \/ node.twice > 2 * maximum
       \/ node.twice # 2 * Integer(node)

NumberOr(node, default) == IF node.type = "none" THEN default ELSE Integer(node)

-----------------------------------------------------------------------------
(* parse_radio.                                                            *)

RadioKeys == {"host", "serial", "discovery_ip", "port", "reconnect_seconds",
              "reconnect_max_seconds", "reconnect_log_seconds"}

RadioItem(root, key) ==
    cJSON_GetObjectItemCaseSensitive(
        cJSON_GetObjectItemCaseSensitive(root, "radio"), key)

\* What the radio section says, with the defaults for what it leaves out.
Radio(root) ==
    LET Item(key) == RadioItem(root, key)
        reconnect == NumberOr(Item("reconnect_seconds"), 3)
    IN  [radio_mode   |-> IF Item("host").type = "none"
                          THEN "DISCOVERY" ELSE "DIRECT",
         host         |-> Item("host").text,
         radio_serial |-> Item("serial").text,
         discovery_ip |-> Item("discovery_ip").text,
         port         |-> NumberOr(Item("port"), DEFAULT_PORT),
         reconnect_seconds     |-> reconnect,
         reconnect_max_seconds |-> NumberOr(Item("reconnect_max_seconds"),
                                            Max({reconnect, 30})),
         reconnect_log_seconds |-> NumberOr(Item("reconnect_log_seconds"), 300)]

\* Mutant: the order of the two delays is not checked.
DelaysReversed_never(root) == FALSE

DelaysReversed(root) ==
    Radio(root).reconnect_max_seconds < Radio(root).reconnect_seconds

parse_radio(root) ==
    LET radio   == cJSON_GetObjectItemCaseSensitive(root, "radio")
        Item(key)    == RadioItem(root, key)
        Absent(keys) == \A key \in keys : Item(key).type = "none"
        Bad(key, Valid(_)) ==
            /\ Item(key).type # "none"
            /\ Item(key).type # "string" \/ ~Valid(Item(key).text)
    IN  FirstError(
        << <<radio.type # "object", "radio">>,
           <<reject_unknown_keys(radio, RadioKeys), "radio key">>,
           <<Absent({"host", "serial", "discovery_ip"}), "no selector">>,
           <<~Absent({"host"}) /\ ~Absent({"serial", "discovery_ip"}),
             "both modes">>,
           <<Bad("host", LAMBDA h : Length[h] \in 1 .. AG_MAX_HOST), "host">>,
           <<Bad("serial", valid_radio_serial), "serial">>,
           <<Bad("discovery_ip",
                 LAMBDA ip : Length[ip] <= AG_MAX_IPV4_TEXT /\ ip \in IPv4),
             "discovery_ip">>,
           <<BadNumber(Item("port"), MAX_PORT), "port">>,
           <<BadNumber(Item("reconnect_seconds"), MAX_RECONNECT), "reconnect">>,
           <<BadNumber(Item("reconnect_max_seconds"), MAX_RECONNECT_MAX),
             "reconnect_max">>,
           <<DelaysReversed(root), "delays reversed">>,
           <<Absent({"host"})
                /\ ~Absent(RadioKeys \ {"host", "serial", "discovery_ip"}),
             "settings of the other mode">>,
           <<BadNumber(Item("reconnect_log_seconds"), MAX_RECONNECT_LOG),
             "reconnect_log">> >>)

-----------------------------------------------------------------------------
(* parse_antennas and parse_policy.                                        *)

AntennaArray(root) ==
    cJSON_GetObjectItemCaseSensitive(
        cJSON_GetObjectItemCaseSensitive(root, "interlock"), "antennas")

Antenna(root, i) == Value(AntennaArray(root), i).text

\* The first item that is rejected decides.
parse_antennas(root) ==
    LET interlock == cJSON_GetObjectItemCaseSensitive(root, "interlock")
        array     == AntennaArray(root)
        Malformed(i) == \/ Value(array, i).type # "string"
                        \/ ~valid_antenna_id(Antenna(root, i))
        Repeated(i) ==
            \E j \in 1 .. i - 1 : SameName(Antenna(root, i), Antenna(root, j))
        rejected == {i \in Members(array) : Malformed(i) \/ Repeated(i)}
    IN  FirstError(
        << <<interlock.type # "object", "interlock">>,
           <<reject_unknown_keys(interlock, {"antennas"}), "interlock key">>,
           <<array.type # "array" \/ Len(array.members) \notin 1 .. AG_MAX_ANTENNAS,
             "antennas">>,
           <<rejected # {} /\ Malformed(Min(rejected)), "antenna ID">>,
           <<rejected # {}, "duplicate antenna">> >>)

PolicyObject(root) == cJSON_GetObjectItemCaseSensitive(root, "policy")

\* Index of the band of that name, in any letter case.
ag_band_index(name) ==
    LET found == {i \in BandIndex : SameName(name, BANDS[i].name)}
    IN  IF found = {} THEN NotFound ELSE Min(found)

\* Mutant: rows are taken in the order of the policy's members.
RowOf_in_order(root, i) ==
    IF i \in Members(PolicyObject(root)) THEN Value(PolicyObject(root), i) ELSE None

\* The policy's array for the i-th antenna.
RowOf(root, i) == cJSON_GetObjectItem(PolicyObject(root), Antenna(root, i))

BandOf(row, k) ==
    IF Value(row, k).type = "string" THEN ag_band_index(Value(row, k).text)
    ELSE NotFound

\* The error of one row; in it, of the first band that is rejected.
RowError(row) ==
    LET Repeated(k) == \E l \in 1 .. k - 1 : BandOf(row, l) = BandOf(row, k)
        rejected == {k \in Members(row) : BandOf(row, k) = NotFound \/ Repeated(k)}
    IN  FirstError(
        << <<row.type # "array", "row">>,
           <<rejected # {} /\ BandOf(row, Min(rejected)) = NotFound, "unknown band">>,
           <<rejected # {}, "duplicate band">> >>)

parse_policy(root) ==
    LET policy == PolicyObject(root)
        Key(i) == policy.members[i].key
        Unlisted(i) == \A j \in Members(AntennaArray(root)) :
                          ~SameName(Antenna(root, j), Key(i))
        Repeated(i) == \E j \in Members(policy) : i < j /\ SameName(Key(i), Key(j))
        rejected == {i \in Members(policy) : Unlisted(i) \/ Repeated(i)}
        bad_rows == {i \in Members(AntennaArray(root)) :
                        RowError(RowOf(root, i)) # "none"}
    IN  FirstError(
        << <<policy.type # "object", "policy">>,
           <<rejected # {} /\ Unlisted(Min(rejected)), "antenna not listed">>,
           <<rejected # {}, "duplicate row">>,
           <<bad_rows # {}, RowError(IF bad_rows = {} THEN None
                                     ELSE RowOf(root, Min(bad_rows)))>> >>)

\* The rows of the matrix, in the order of the antennas.
Antennas(root) ==
    [i \in Members(AntennaArray(root)) |->
        [id |-> Antenna(root, i),
         allowed_bands |-> {BandOf(RowOf(root, i), k) :
                               k \in Members(RowOf(root, i))}]]

-----------------------------------------------------------------------------
(* read_file and ag_config_load.                                           *)

\* A file: whether it can be opened, its size, whether all of it can be read,
\* and the node of the JSON value it begins with ("none" if there is none).
read_file(file) ==
    FirstError(<< <<~file.opens, "cannot open">>,
                  <<file.size > AG_MAX_CONFIG_BYTES, "too large">>,
                  <<~file.complete, "not read">> >>)

\* cJSON_Parse looks no further than the end of the first value, so what
\* follows that value in the file does not matter.
ag_config_load(file) ==
    FirstError(
        << <<read_file(file) # "none", read_file(file)>>,
           <<file.root.type # "object", "no object">>,
           <<reject_unknown_keys(file.root, {"radio", "interlock", "policy"}),
             "root key">>,
           <<parse_radio(file.root) # "none", parse_radio(file.root)>>,
           <<parse_antennas(file.root) # "none", parse_antennas(file.root)>>,
           <<parse_policy(file.root) # "none", parse_policy(file.root)>> >>)

\* *config after a load that succeeded; main discards it after one that failed.
Loaded(file) ==
    [radio |-> Radio(file.root), antennas |-> Antennas(file.root)]

VARIABLES
    file,    \* the file of --config
    error,   \* "pending" before the call; "none" if it succeeded
    config   \* <<the configuration>> once there is one

config_vars == <<file, error, config>>

ConfigInit == file \in Files /\ error = "pending" /\ config = <<>>

Load ==
    /\ error = "pending"
    /\ error' = ag_config_load(file)
    /\ config' = IF error' = "none" THEN <<Loaded(file)>> ELSE <<>>
    /\ UNCHANGED file

ConfigSpec == ConfigInit /\ [][Load]_config_vars

-----------------------------------------------------------------------------
(* initialize_session joins the IDs of the antennas, with commas, into a   *)
(* buffer, and the list into the command that creates the interlock.       *)

\* What snprintf writes for an antenna: its ID, after a comma but for the first.
Written(antennas, n) == Length[antennas[n].id] + (IF n = 1 THEN 0 ELSE 1)

\* The offset after each antenna.
Offset(antennas) ==
    LET offset[n \in 0 .. Len(antennas)] ==
            IF n = 0 THEN 0 ELSE offset[n - 1] + Written(antennas, n)
    IN  offset

ListSize == AG_MAX_ANTENNAS * (AG_MAX_ANTENNA_ID + 1)

\* No snprintf is cut short: not at any antenna, nor in the command (87
\* characters and the list), nor in its frame (C, ten digits, bar, newline).
ListFits(antennas) ==
    /\ \A n \in DOMAIN antennas :
          Written(antennas, n) < ListSize - Offset(antennas)[n - 1]
    /\ 87 + Offset(antennas)[Len(antennas)] + 13 < 1024

-----------------------------------------------------------------------------
(* What a valid file is, as the README describes it.                       *)

\* The keys of an object, each of which occurs once.
KeysOf(object) == {object.members[i].key : i \in Members(object)}

OnceEach(object) == Cardinality(KeysOf(object)) = Len(object.members)

Folded(texts) == {CaseFold[text] : text \in texts}

TextsOf(array) == {Value(array, i).text : i \in Members(array)}

\* An array of strings of which no two are equal in any letter case.
DistinctStrings(array) ==
    /\ array.type = "array"
    /\ \A i \in Members(array) : Value(array, i).type = "string"
    /\ Cardinality(Folded(TextsOf(array))) = Len(array.members)

WholeNumber(node, range) ==
    node.type = "number" /\ node.twice % 2 = 0 /\ node.twice \div 2 \in range

ValidDirect(radio) ==
    LET Item(key)  == cJSON_GetObjectItemCaseSensitive(radio, key)
        Given(key) == key \in KeysOf(radio)
        reconnect  == IF Given("reconnect_seconds")
                      THEN Item("reconnect_seconds").twice ELSE 6
    IN  /\ Given("host") /\ KeysOf(radio) \cap {"serial", "discovery_ip"} = {}
        /\ Item("host").type = "string" /\ Length[Item("host").text] \in 1 .. AG_MAX_HOST
        /\ Given("port") => WholeNumber(Item("port"), 1 .. 65535)
        /\ Given("reconnect_seconds") =>
              WholeNumber(Item("reconnect_seconds"), 1 .. 300)
        /\ Given("reconnect_max_seconds") =>
              /\ WholeNumber(Item("reconnect_max_seconds"), 1 .. 3600)
              /\ reconnect <= Item("reconnect_max_seconds").twice
        /\ Given("reconnect_log_seconds") =>
              WholeNumber(Item("reconnect_log_seconds"), 1 .. 86400)

ValidDiscovery(radio) ==
    /\ KeysOf(radio) # {} /\ KeysOf(radio) \subseteq {"serial", "discovery_ip"}
    /\ \A i \in Members(radio) :
          /\ Value(radio, i).type = "string"
          /\ radio.members[i].key = "serial" =>
                Value(radio, i).text \in SerialTexts
                /\ Length[Value(radio, i).text] \in 1 .. AG_MAX_RADIO_SERIAL
          /\ radio.members[i].key = "discovery_ip" => Value(radio, i).text \in IPv4

ValidRadio(radio) ==
    /\ radio.type = "object" /\ OnceEach(radio) /\ KeysOf(radio) \subseteq RadioKeys
    /\ ValidDirect(radio) \/ ValidDiscovery(radio)

ValidMatrix(array, policy) ==
    /\ DistinctStrings(array) /\ Len(array.members) \in 1 .. AG_MAX_ANTENNAS
    /\ \A id \in TextsOf(array) :
          id \in WordTexts /\ Length[id] \in 1 .. AG_MAX_ANTENNA_ID
    /\ policy.type = "object"
    /\ Folded(KeysOf(policy)) = Folded(TextsOf(array))
    /\ Len(policy.members) = Len(array.members)
    /\ \A i \in Members(policy) :
          /\ DistinctStrings(Value(policy, i))
          /\ Folded(TextsOf(Value(policy, i)))
                \subseteq Folded({BANDS[b].name : b \in BandIndex})

ValidFile(f) ==
    LET Item(key) == cJSON_GetObjectItemCaseSensitive(f.root, key)
    IN  /\ f.opens /\ f.complete /\ f.size <= 1048576
        /\ f.root.type = "object" /\ OnceEach(f.root)
        /\ KeysOf(f.root) = {"radio", "interlock", "policy"}
        /\ ValidRadio(Item("radio"))
        /\ Item("interlock").type = "object" /\ OnceEach(Item("interlock"))
        /\ KeysOf(Item("interlock")) = {"antennas"}
        /\ ValidMatrix(AntennaArray(f.root), Item("policy"))

-----------------------------------------------------------------------------
(***************************************************************************)
(* README: "Configuration is intentionally strict.  Unknown keys, unknown  *)
(* bands, duplicate entries, missing policy rows, and malformed antenna    *)
(* IDs are rejected", an empty row is valid, and files that give only      *)
(* reconnect_seconds remain valid.  The ordered checks of the loader       *)
(* accept a file just when it is valid in this sense.                      *)
(***************************************************************************)
AcceptedIffValid == error # "pending" => (error = "none" <=> ValidFile(file))

(***************************************************************************)
(* The policy that is enforced is the one in the file: ag_policy_evaluate  *)
(* over the loaded configuration allows an antenna on a band just when the *)
(* file's row for it names that band, whatever the letter cases and the    *)
(* order of rows and bands.                                                *)
(***************************************************************************)
MatrixIsTheFile ==
    error = "none" =>
        \A antenna \in Names \ {""}, b \in BandIndex :
            ag_policy_evaluate(config[1], TRUE, BANDS[b].lower, antenna).allowed
            <=> \E i \in Members(PolicyObject(file.root)) :
                   /\ SameName(PolicyObject(file.root).members[i].key, antenna)
                   /\ \E text \in TextsOf(Value(PolicyObject(file.root), i)) :
                         SameName(text, BANDS[b].name)

(***************************************************************************)
(* What the rest of the program takes for granted about a configuration:   *)
(* rows with distinct names (Policy); delays in range and in order         *)
(* (Lifecycle); a host to resolve or a selector to match, never both and   *)
(* never neither (Lifecycle, Discovery).                                   *)
(***************************************************************************)
LoadedConfigIsUsable ==
    error = "none" =>
        LET radio == config[1].radio
        IN  /\ config[1].antennas \in Seq(AntennaPolicy) /\ DistinctRows(config[1])
            /\ radio.reconnect_seconds \in 1 .. radio.reconnect_max_seconds
            /\ radio.reconnect_max_seconds <= MAX_RECONNECT_MAX
            /\ radio.reconnect_log_seconds \in 1 .. MAX_RECONNECT_LOG
            /\ radio.port \in 1 .. MAX_PORT
            /\ radio.radio_mode = "DIRECT" <=> radio.host # ""
            /\ radio.radio_mode = "DISCOVERY" <=>
                  radio.radio_serial # "" \/ radio.discovery_ip # ""

(***************************************************************************)
(* With the limits of the loader, no accepted list of antennas is too long *)
(* for the buffers of initialize_session, the longest one included.        *)
(***************************************************************************)
AntennaListFits == error = "none" => ListFits(config[1].antennas)
=============================================================================
