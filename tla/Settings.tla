------------------------------ MODULE Settings ------------------------------
(***************************************************************************)
(* From the command line to the settings of the program: the path of the   *)
(* configuration file (utils.cpp), the parser (IniReader), the table of    *)
(* options with their types and defaults (settings.cpp) and whether main   *)
(* goes on (main.cpp, gen_db.cpp).                                         *)
(***************************************************************************)
EXTENDS IniReader

CONSTANTS
    Disks,       \* what the three paths may hold
    Number,      \* the words strtol accepts, and their values
    UInt,        \* unsigned int counts modulo this (2^32 in the build)
    UShort       \* and uint16_t modulo this (2^16)

ASSUME SettingsAssumption ==
    /\ \A w \in DOMAIN Number : Number[w] \in Int
    /\ UInt \in Nat /\ UInt > 86400
    /\ UShort \in Nat \ {0}

VARIABLES
    pc,          \* where main is
    settings

vars == <<iniVars, pc, settings>>

Paths == {"argv", "etc", "cwd"}

-----------------------------------------------------------------------------
(* resolve_config_path *)

resolve_config_path(disk, argument) ==
    IF argument THEN "argv" ELSE IF disk["etc"].exists THEN "etc" ELSE "cwd"

-----------------------------------------------------------------------------
(* The table of options *)

Clamp(n) == IF n < 0 THEN 0 ELSE IF n > 6 THEN 6 ELSE n
Unsigned(n) == n % UInt
Signed(n) == ((n + UInt \div 2) % UInt) - UInt \div 2
Short(n) == n % UShort

True == {<<"true">>, <<"yes">>, <<"on">>, <<"1">>}
False == {<<"false">>, <<"no">>, <<"off">>, <<"0">>}

\* strtol reads the longest number at the start of a value.
GetInteger(text, default) ==
    IF text # <<>> /\ text[1] \in DOMAIN Number THEN Number[text[1]] ELSE default

GetBoolean(text, default) ==
    IF text \in True THEN TRUE ELSE IF text \in False THEN FALSE ELSE default

Option(sec, name, type, default) ==
    [section |-> <<sec>>, name |-> <<name>>, type |-> type, default |-> default]

IntOptions ==
    {Option("logging", n, "level", 0) : n \in {"console_min_level", "file_min_level"}}
    \cup {Option("logging", n, "level", 2) : n \in {"core", "pjsip"}}
    \cup {Option("logging", "tdlib", "level", 3), Option("logging", "tgcalls", "level", 5),
          Option("sip", "port", "unsigned", 0), Option("sip", "thread_count", "unsigned", 1),
          Option("sip", "port_range", "unsigned", 0), Option("telegram", "api_id", "int", 0),
          Option("telegram", "proxy_port", "int", 0),
          Option("telegram", "voip_proxy_port", "short", 0),
          Option("other", "extra_wait_time", "unsigned", 30),
          Option("other", "peer_flood_time", "unsigned", 86400)}

BoolOptions ==
    {Option("logging", "sip_messages", "bool", TRUE), Option("sip", "raw_pcm", "bool", TRUE),
     Option("telegram", "udp_reflector", "bool", TRUE)}
    \cup {Option("telegram", n, "bool", FALSE) :
            n \in {"udp_p2p", "enable_aec", "enable_ns", "enable_agc", "use_proxy", "use_voip_proxy"}}

TextOptions ==
    {Option("sip", "id_uri", "text", <<"sip:localhost">>),
     Option("telegram", "system_language_code", "text", <<"en-US">>),
     Option("telegram", "device_model", "text", <<"PC">>),
     Option("telegram", "system_version", "text", <<"Linux">>),
     Option("telegram", "application_version", "text", <<"1.0">>),
     Option("logging", "log_folder", "text", <<>>)}
    \cup {Option("sip", n, "text", <<>>) : n \in {"callback_uri", "public_address", "stun_server"}}
    \cup {Option("telegram", n, "text", <<>>) :
            n \in {"api_hash", "database_folder", "proxy_address", "proxy_username", "proxy_password",
                   "voip_proxy_address", "voip_proxy_username", "voip_proxy_password"}}

\* The member a getter and its cast leave.
Converted(o, text) ==
    CASE o.type = "level" -> Clamp(Signed(GetInteger(text, o.default)))
      [] o.type = "unsigned" -> Unsigned(GetInteger(text, o.default))
      [] o.type = "int" -> Signed(GetInteger(text, o.default))
      [] o.type = "short" -> Short(GetInteger(text, o.default))
      [] o.type = "bool" -> GetBoolean(text, o.default)

NotLoaded == [is_loaded |-> FALSE]

api_id == CHOOSE o \in IntOptions : o.name = <<"api_id">>
api_hash == CHOOSE o \in TextOptions : o.name = <<"api_hash">>

\* Mutant: one of the two tokens is enough.
MakeSettings_EitherApi ==
    LET numbers == [o \in IntOptions |-> Converted(o, Get(o.section, o.name, <<>>))]
        flags == [o \in BoolOptions |-> Converted(o, Get(o.section, o.name, <<>>))]
        texts == [o \in TextOptions |-> Get(o.section, o.name, o.default)] IN
    IF error < 0 \/ (numbers[api_id] = 0 /\ texts[api_hash] = <<>>) THEN NotLoaded
    ELSE [is_loaded |-> TRUE, numbers |-> numbers, flags |-> flags, texts |-> texts]

\* Settings::Settings.  Lines that are in error are passed over in silence.
MakeSettings ==
    LET numbers == [o \in IntOptions |-> Converted(o, Get(o.section, o.name, <<>>))]
        flags == [o \in BoolOptions |-> Converted(o, Get(o.section, o.name, <<>>))]
        texts == [o \in TextOptions |-> Get(o.section, o.name, o.default)] IN
    IF error < 0 \/ numbers[api_id] = 0 \/ texts[api_hash] = <<>> THEN NotLoaded
    ELSE [is_loaded |-> TRUE, numbers |-> numbers, flags |-> flags, texts |-> texts]

-----------------------------------------------------------------------------
Init ==
    /\ \E disk \in Disks, argument \in BOOLEAN :
          IniInit(disk[resolve_config_path(disk, argument)])
    /\ pc = "parse"
    /\ settings = NotLoaded

\* One line of the INIReader's constructor.
Parse == pc = "parse" /\ ReadLine /\ UNCHANGED <<pc, settings>>

\* The file is read: Settings are made and main goes on or returns 1.
Load ==
    /\ pc = "parse"
    /\ input = <<>>
    /\ settings' = MakeSettings
    /\ pc' = IF MakeSettings.is_loaded THEN "run" ELSE "failed"
    /\ UNCHANGED iniVars

Next == Parse \/ Load

Spec == Init /\ [][Next]_vars

-----------------------------------------------------------------------------
(* Properties *)

\* Once a file is read, the keys are those of its lines, whichever comments, blank
\* lines, sections, bad lines and continued values lie between them
\* (INIReader.h:195-271, 429-439), each with the values its lines give it unless
\* one of them has only a comment, and the error is the number of the first bad
\* line (INIReader.h:42-44).
ParsedAsMeant ==
    input = <<>> /\ file.opens /\ Fits =>
        /\ DOMAIN values = DOMAIN Meant
        /\ \A k \in DOMAIN Meant \ Commented : values[k] = Meant[k]
        /\ error = FirstBad

\* The file gives the option a value.
KeyOf(o) == <<o.section, o.name>>
Given(o) == KeyOf(o) \in DOMAIN Meant /\ Meant[KeyOf(o)] # <<>>

\* The lines that give an option its value.
LinesOf(o) ==
    {i \in DOMAIN file.lines :
        Kinds[i] \in {"pair", "more"} /\ KeyAt(i) = KeyOf(o)}

\* The program runs only when the file gives a value to api_id and to api_hash (or
\* has a comment in the place of the latter), with every flag as the one line of
\* its name says and with the default where there is no such line or its word is
\* none of those GetBoolean knows (INIReader.h:342-344), and with logging levels
\* the loggers know (settings.cpp:29-83).
OptionsAsWritten ==
    pc = "run" /\ Fits =>
        /\ Given(api_id) /\ (Given(api_hash) \/ KeyOf(api_hash) \in Commented)
        /\ \A o \in BoolOptions :
              Cardinality(LinesOf(o)) < 2 =>
                 LET words == {PieceAt(i) : i \in LinesOf(o)} IN
                 settings.flags[o] = (words \cap True # {}
                                      \/ (words \cap False = {} /\ o.default))
        /\ \A o \in IntOptions : o.type = "level" => settings.numbers[o] \in 0..6
=============================================================================
