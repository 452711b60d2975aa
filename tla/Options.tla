------------------------------ MODULE Options ------------------------------
(***************************************************************************)
(* The settings a player starts with: parse_options() of src/cli.cpp over   *)
(* a command line and the config files of src/config_file.cpp, and the      *)
(* resolutions that follow.  Where the default control socket goes, and     *)
(* whether a path to it fits, is ControlPlace's; warnings are left out.     *)
(*                                                                          *)
(* A value is a sequence of tokens.  The six flags that had a short form    *)
(* first are named by their key, like all others.                           *)
(***************************************************************************)
EXTENDS Integers, SequencesExt, FiniteSets

CONSTANTS
    MaxPort, MinBuffer, MaxBuffer, MAX_STATIC_DELAY_MS, MAX_LINE_SENSE_WINDOW_MS,
    MinDbfs,         \* -MIN_LINE_SENSE_DBFS
    HasMdns,         \* built with dns_sd.h
    CommandLines,    \* records of a subcommand and the words after it
    ConfigFiles      \* the named file, then those searched for, in order

Unset == <<"(unset)">>

\* What is written: tokens, none of which is the mark of what is not.
Text == Seq(STRING \ {"(unset)"})
Word == [option : STRING \ {""}, value : Text]
Line == [kind : {"blank", "malformed", "unreadable"}]
        \cup [kind : {"entry"}, key : STRING, value : Text]

ASSUME OptionsAssumption ==
    /\ {MaxPort, MinBuffer, MaxBuffer, MAX_STATIC_DELAY_MS, MAX_LINE_SENSE_WINDOW_MS, MinDbfs}
           \subseteq Nat
    /\ CommandLines \subseteq [subcommand : STRING, words : Seq(Word)]
    /\ ConfigFiles \subseteq Seq(Seq(Line)) \ {<<>>}

VARIABLES
    typed,    \* the command line: [subcommand, words]
    files,    \* the config files there are
    cwd,      \* getcwd() works
    left,     \* words not yet read
    options,  \* the settable options' values
    given,    \* those, and the run's shape, supplied by the line or a file
    error,    \* the first complaint: what it is about, or ""
    entries,  \* config entries not yet merged, by their lines
    resolved, \* what the server and the socket came to
    parsing   \* "words", "merge", "resolve", "help", "refused" or "accepted"

parser == <<left, options, given, error, entries, resolved, parsing>>
startup == <<typed, files, cwd, parser>>

Switches == {"no-mdns", "no-control"}
Bools == Switches \cup {"player-enabled", "source-enabled", "line-sense"}
Texts == {"output", "input", "name", "pidfile", "logfile", "mdns-name", "control-socket",
          "state-dir", "hook-start", "hook-stop", "id", "manufacturer", "product-name"}
Numbers == {"port", "buffer-ms", "static-delay", "line-sense-attack-ms", "line-sense-release-ms",
            "line-sense-dbfs"}

settable_options ==
    Bools \cup Texts \cup Numbers \cup {"server", "log-level", "source-stream-style", "audio-format"}

\* Digits only, however strtoul() would read the rest.
parse_unsigned(value, from, to) == {n \in from..to : value = <<ToString(n)>>}

parse_port(value) == parse_unsigned(value, 1, MaxPort)

parse_line_sense_dbfs(value) ==
    {n \in -MinDbfs..0 : value = IF n < 0 THEN <<"-", ToString(-n)>> ELSE <<ToString(n)>>}

parse_number(option, value) ==
    CASE option = "port" -> parse_port(value)
      [] option = "buffer-ms" -> parse_unsigned(value, MinBuffer, MaxBuffer)
      [] option = "static-delay" -> parse_unsigned(value, 0, MAX_STATIC_DELAY_MS)
      [] option = "line-sense-dbfs" -> parse_line_sense_dbfs(value)
      [] OTHER -> parse_unsigned(value, 0, MAX_LINE_SENSE_WINDOW_MS)

parse_bool(value) ==
    CASE value \in {<<"true">>, <<"yes">>, <<"on">>, <<"1">>} -> {<<"true">>}
      [] value \in {<<"false">>, <<"no">>, <<"off">>, <<"0">>} -> {<<"false">>}
      [] OTHER -> {}

\* Two vocabularies for the levels, and squeezelite's category, which is ignored.
LevelNames ==
    {<<"none", "off">>, <<"error", "err">>, <<"warn", "warning">>, <<"info", "info">>,
     <<"debug", "debug">>, <<"verbose", "sdebug">>}
parse_log_level(word) == {<<l[1]>> : l \in {m \in LevelNames : word \in {<<m[1]>>, <<m[2]>>}}}
parse_log_spec(value) ==
    IF Contains(value, "=")
    THEN parse_log_level(SubSeq(value, SelectInSeq(value, LAMBDA t : t = "=") + 1, Len(value)))
    ELSE parse_log_level(value)

\* The value an option takes of a text: none when it is refused.
reading(option, value) ==
    CASE option \in Bools -> parse_bool(value)
      [] option \in Numbers -> {<<ToString(n)>> : n \in parse_number(option, value)}
      [] option \in Texts -> {value} \ {<<>>}
      [] option = "log-level" -> parse_log_spec(value)
      [] option = "source-stream-style" -> {value} \cap {<<"legacy">>, <<"spec">>}
      [] option = "audio-format" -> {value} \cap {<<"flac:48000:24:2">>}
      [] OTHER -> {value}

bug_leaves_no_mark(o, option, value) ==
    [options |-> [o.options EXCEPT ![option] = CHOOSE v \in reading(option, value) : TRUE],
     given |-> o.given]

\* The one door: the value stored, and the option marked as supplied.
apply_option(o, option, value) ==
    [options |-> [o.options EXCEPT ![option] = CHOOSE v \in reading(option, value) : TRUE],
     given |-> o.given \cup {option}]

default_options == [o \in settable_options |-> Unset]

\* ":8927", "[::1]:8927", "host:8927" and whole URLs, cut at the characters that matter.
colons(value) == {i \in DOMAIN value : value[i] = ":"}

\* The host and the text of the port; no port when no colon is written.
host_and_port(value) ==
    IF value[1] = "["
    THEN LET close == {i \in DOMAIN value : value[i] = "]"}
             at == CHOOSE i \in close : \A j \in close : i <= j
         IN  IF close = {} THEN {}
             ELSE IF at = Len(value) THEN {[host |-> value, port |-> Unset]}
             ELSE IF value[at + 1] # ":" THEN {}
             ELSE {[host |-> SubSeq(value, 1, at), port |-> SubSeq(value, at + 2, Len(value))]}
    ELSE CASE colons(value) = {} -> {[host |-> value, port |-> Unset]}
           [] Cardinality(colons(value)) > 1 -> {}
           [] OTHER -> LET at == CHOOSE i \in colons(value) : TRUE
                       IN  {[host |-> SubSeq(value, 1, at - 1),
                             port |-> SubSeq(value, at + 1, Len(value))]}

DefaultServerPort == <<"8927">>

scheme_end(value) == SelectInSeq(value, LAMBDA t : t = "://")

\* The URL of a server, if it names one: a scheme leaves the rest to who wrote it.
parse_server_url(value) ==
    CASE value = <<>> -> {}
      [] scheme_end(value) > 0 ->
            IF SubSeq(value, 1, scheme_end(value) - 1) \in {<<"ws">>, <<"wss">>} /\ scheme_end(value) < Len(value)
            THEN {value} ELSE {}
      [] OTHER ->
            {<<"ws", "://">> \o part.host \o <<":">>
                 \o (IF part.port = Unset THEN DefaultServerPort ELSE part.port) \o <<"/sendspin">>
             : part \in {p \in host_and_port(value) :
                            /\ p.host \notin {<<>>, <<"[", "]">>}
                            /\ p.port # Unset => parse_port(p.port) # {}}}

\* "mdns:", and a name after it or not.
parse_discovery_spec(value) == Len(value) >= 2 /\ SubSeq(value, 1, 2) = <<"mdns", ":">>

-----------------------------------------------------------------------------
(* The command line, word by word.                                          *)

fail(what) == error' = IF error = "" THEN what ELSE error

\* The subcommand comes off the front, and its own complaints are the first.
OptionsInit ==
    /\ typed \in CommandLines
    /\ files \in ConfigFiles
    /\ cwd \in BOOLEAN
    /\ left = typed.words
    /\ options = default_options
    /\ given = {}
    /\ error = IF typed.subcommand = "unknown" THEN "subcommand" ELSE ""
    /\ entries = <<>>
    /\ resolved = [server |-> Unset, discover |-> FALSE, socket |-> ""]
    /\ parsing = "words"

value_of(word) == IF word.option \in Switches THEN <<"true">> ELSE word.value

\* A text that is refused sets nothing.
applied(o, option, value) ==
    IF reading(option, value) = {} THEN o ELSE apply_option(o, option, value)

\* What a word of an option is applied to: --audio-format falls through to -i.
applied_to(option) == IF option = "audio-format" THEN {option, "input"} ELSE {option}

\* An option of the table goes through apply_option().
ReadSetting(word) ==
    /\ word.option \in settable_options
    /\ LET value == value_of(word)
           own == applied([options |-> options, given |-> given], word.option, value)
           all == IF word.option = "audio-format" THEN applied(own, "input", value) ELSE own
       IN  /\ options' = all.options /\ given' = all.given
           /\ IF \E o \in applied_to(word.option) : reading(o, value) = {} THEN fail(word.option)
              ELSE error' = error
    /\ parsing' = parsing

\* -l and -z, and a --config that names a file.
ReadShape(word) ==
    /\ word.option \in {"list", "daemonize", "config"}
    /\ IF word.option = "config" /\ word.value = <<>> THEN fail("config") /\ given' = given
       ELSE given' = given \cup {word.option} /\ error' = error
    /\ UNCHANGED <<options, parsing>>

\* --help and --version return at once, whatever was wrong before.
ReadHelp(word) ==
    /\ word.option = "help"
    /\ parsing' = "help"
    /\ UNCHANGED <<options, given, error>>

\* No such flag, a value left off, or a word that is no flag.
ReadStray(word) ==
    /\ word.option \notin settable_options \cup {"list", "daemonize", "config", "help"}
    /\ fail(word.option)
    /\ UNCHANGED <<options, given, parsing>>

ReadWord ==
    /\ parsing = "words" /\ left # <<>>
    /\ \/ ReadSetting(Head(left)) \/ ReadShape(Head(left))
       \/ ReadHelp(Head(left)) \/ ReadStray(Head(left))
    /\ left' = Tail(left)
    /\ UNCHANGED <<entries, resolved>>

-----------------------------------------------------------------------------
(* The config file.                                                         *)

\* A directory reads as an empty file.
Unreadable == <<[kind |-> "unreadable"]>>
malformed(file) == \E i \in DOMAIN file : file[i].kind = "malformed"

\* Blank lines and comments are passed over; a key or a value keeps its line.
read_key_value_file(file) == [i \in {n \in DOMAIN file : file[n].kind = "entry"} |-> file[i]]

\* Which file is used: the one named and no other, or the first that is there.
config_used ==
    IF "config" \in given THEN 1
    ELSE LET there == {i \in 2..Len(files) : files[i] # Unreadable}
         IN  IF there = {} THEN 0 ELSE CHOOSE i \in there : \A j \in there : i <= j

\* Skipped when something has failed already, and for -l.
LoadConfig ==
    /\ parsing = "words" /\ left = <<>>
    /\ IF error # "" \/ "list" \in given \/ config_used = 0
       THEN parsing' = "resolve" /\ UNCHANGED <<entries, error>>
       ELSE IF files[config_used] = Unreadable \/ malformed(files[config_used])
            THEN parsing' = "resolve" /\ fail("file") /\ UNCHANGED entries
            ELSE /\ parsing' = "merge" /\ UNCHANGED error
                 /\ entries' = read_key_value_file(files[config_used])
    /\ UNCHANGED <<left, options, given, resolved>>

is_last_line(i) == \A j \in DOMAIN entries : entries[j].key = entries[i].key => j <= i

\* The last line of a key counts, and the command line before it.
counts(i) == is_last_line(i) /\ entries[i].key \notin given

\* A subcommand validates all, and takes these two.
applies(entry) == typed.subcommand = "" \/ entry.key \in {"port", "control-socket"}

MergeEntry ==
    /\ parsing = "merge" /\ DOMAIN entries # {}
    /\ LET i == CHOOSE l \in DOMAIN entries : \A j \in DOMAIN entries : l <= j
           entry == entries[i]
           o == [options |-> options, given |-> given]
           refused == \/ entry.key \notin settable_options
                      \/ counts(i) /\ reading(entry.key, entry.value) = {}
       IN /\ IF refused THEN fail("line") /\ parsing' = "resolve"
             ELSE UNCHANGED <<error, parsing>>
          /\ IF ~ refused /\ counts(i) /\ applies(entry)
             THEN /\ options' = apply_option(o, entry.key, entry.value).options
                  /\ given' = apply_option(o, entry.key, entry.value).given
             ELSE UNCHANGED <<options, given>>
          /\ entries' = Restrict(entries, DOMAIN entries \ {i})
    /\ UNCHANGED <<left, resolved>>

MergeDone ==
    /\ parsing = "merge" /\ DOMAIN entries = {}
    /\ parsing' = "resolve"
    /\ UNCHANGED <<left, options, given, error, entries, resolved>>

-----------------------------------------------------------------------------
(* What the merged options come to.                                         *)

absolute(value) == value # <<>> /\ value[1] = "/"

absolute_path(value) == IF absolute(value) \/ ~ cwd THEN value ELSE <<"/">> \o value

is_true(option) == options[option] = <<"true">>

bug_only_what_is_opened_at_once == {"pidfile", "logfile", "control-socket"}

\* What -z makes absolute: the child works in /.
NormalizedPaths == {"pidfile", "logfile", "state-dir", "control-socket"}

server_known ==
    /\ ~ parse_discovery_spec(options["server"]) => parse_server_url(options["server"]) # {}
    /\ parse_discovery_spec(options["server"]) => HasMdns

\* resolve_device_spec() of src/audio_sink.cpp: both spellings of it.
to_stdout == options["output"] \in {<<"stdout">>, <<"-">>}

\* The complaints that wait for the whole of it, in their order.
complaint ==
    IF error # "" THEN error
    ELSE IF "server" \in given /\ ~ server_known THEN "server"
    ELSE IF {"daemonize", "output"} \subseteq given /\ to_stdout THEN "stdout"
    ELSE IF {"no-control", "control-socket"} \subseteq given THEN "no-control"
    ELSE ""

\* At the very end, by return value alone.
nothing_to_be ==
    /\ typed.subcommand = ""
    /\ options["player-enabled"] = <<"false">>
    /\ options["source-enabled"] # <<"true">>    \* a build without capture: false by default

Resolve ==
    /\ parsing = "resolve"
    /\ error' = complaint
    /\ parsing' = IF complaint # "" \/ nothing_to_be THEN "refused" ELSE "accepted"
    /\ options' = [o \in settable_options |->
          IF "daemonize" \in given /\ o \in given \cap NormalizedPaths
          THEN absolute_path(options[o]) ELSE options[o]]
    /\ resolved' =
          [server |-> IF "server" \in given /\ ~ parse_discovery_spec(options["server"]) /\ complaint = ""
                      THEN CHOOSE url \in parse_server_url(options["server"]) : TRUE ELSE Unset,
           discover |-> "server" \in given /\ complaint = "" /\ parse_discovery_spec(options["server"]),
           socket |-> IF is_true("no-control") /\ typed.subcommand = "" THEN "none"
                      ELSE IF "control-socket" \in given THEN "given" ELSE "default"]
    /\ UNCHANGED <<left, given, entries>>

OptionsNext ==
    /\ ReadWord \/ LoadConfig \/ MergeEntry \/ MergeDone \/ Resolve
    /\ UNCHANGED <<typed, files, cwd>>

advertises == ~ is_true("no-mdns") /\ "server" \notin given

OptionsSpec == OptionsInit /\ [][OptionsNext]_startup

-----------------------------------------------------------------------------
\* A definition of the layers that knows nothing of the order things are read in: the
\* last thing typed for an option, else the last line of it in the one file used, else
\* nothing.
values_typed(option) ==
    {i \in DOMAIN typed.words : typed.words[i].option = option}
lines_of(option) ==
    IF "list" \in given \/ config_used = 0 THEN {}
    ELSE {i \in DOMAIN files[config_used] :
             files[config_used][i].kind = "entry" /\ files[config_used][i].key = option}
last(S) == CHOOSE i \in S : \A j \in S : j <= i

layered(option) ==
    IF values_typed(option) # {}
    THEN reading(option, value_of(typed.words[last(values_typed(option))]))
    ELSE IF lines_of(option) # {} /\ (typed.subcommand = "" \/ option \in {"port", "control-socket"})
    THEN reading(option, files[config_used][last(lines_of(option))].value)
    ELSE {Unset}

\* -i has what was typed for it last, for its own flag or, by the fall-through, for
\* --audio-format.
input_typed ==
    {i \in DOMAIN typed.words : typed.words[i].option \in {"input", "audio-format"}}

\* An accepted run has each option as its layers say, whatever the order of words and
\* lines, and whichever spelling: "the command line wins outright", "last wins within
\* one file", "the first file found is used whole".  A path may have been made absolute,
\* and -i is written by another flag too.
LayersAsDocumented ==
    parsing = "accepted" =>
        \A o \in settable_options :
            \/ options[o] \in layered(o)
            \/ \E v \in layered(o) : o \in NormalizedPaths /\ options[o] = <<"/">> \o v
            \/ /\ o = "input" /\ input_typed # {}
               /\ options[o] = typed.words[last(input_typed)].value

\* A player that was told of a server, by either layer, knows whom to dial and does not
\* advertise, which the protocol forbids beside it; a player that was not does not dial.
OneDirection ==
    parsing = "accepted" /\ typed.subcommand = "" =>
        /\ (resolved.server # Unset \/ resolved.discover) = (layered("server") # {Unset})
        /\ advertises => layered("server") = {Unset}

\* What a player was told, in whichever layer, is what it does.
OptionsMeanWhatTheySay == LayersAsDocumented /\ OneDirection

\* A detached run means the same files in the directory it was typed in and in the one
\* the daemon works in, and its audio goes somewhere, whichever layer named them.
DetachedMeansTheSame ==
    parsing = "accepted" /\ "daemonize" \in given =>
        /\ cwd => \A o \in {"pidfile", "logfile", "state-dir", "control-socket"} :
                     options[o] # Unset => absolute(options[o])
        /\ ~ to_stdout
=============================================================================
