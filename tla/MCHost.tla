------------------------------- MODULE MCHost -------------------------------
(* What a player takes from the machine it starts on, in five scenes: its    *)
(* options, its output, its log under rotation, and its state file, alone    *)
(* and with a second player on the same directory.                           *)
EXTENDS StateStore, Options, OutputChoice, LogFile

VARIABLE scene

host_vars == <<vars, startup, output, log, scene>>

word(option, value) == [option |-> option, value |-> value]
flag(option) == word(option, <<>>)
OneOption == {
    flag("help"), flag("list"), flag("daemonize"), flag("no-mdns"), flag("no-control"),
    flag("no such flag"), word("config", <<"f">>), word("port", <<"2">>), word("port", <<"+", "2">>),
    word("server", <<"mdns", ":">>), word("server", <<"host">>), word("server", <<>>),
    word("output", <<"stdout">>), word("input", <<"line">>), word("pidfile", <<"p">>),
    word("state-dir", <<"/", "s">>), word("control-socket", <<"c">>),
    word("audio-format", <<"flac:48000:24:2">>), word("player-enabled", <<"no">>)}
Alone == {
    word("server", <<"host", ":", "2">>), word("server", <<"host", ":">>),
    word("server", <<"[", "::1", "]", ":", "2">>), word("server", <<":", ":", "1">>),
    word("server", <<"[", "]">>), word("server", <<"wss", "://", "host">>),
    word("server", <<"ws", "://">>), word("server", <<"http", "://", "host">>),
    word("log-level", <<"audio", "=", "sdebug">>), word("log-level", <<"loud">>),
    word("line-sense-dbfs", <<"-", "1">>), word("line-sense-dbfs", <<"1">>),
    word("buffer-ms", <<"0">>), word("static-delay", <<"0">>), word("name", <<>>),
    word("line-sense-attack-ms", <<"1">>), word("source-stream-style", <<"spec">>)}

MCCommandLines ==
    [subcommand : {""}, words : {<<>>} \cup {<<w>> : w \in OneOption \cup Alone}
                                \cup {<<v, w>> : v \in OneOption, w \in OneOption}]
    \cup [subcommand : {"status", "unknown"}, words : {<<>>} \cup {<<w>> : w \in OneOption}]

entry(key, value) == [kind |-> "entry", key |-> key, value |-> value]
Lines == {
    [kind |-> "blank"], [kind |-> "malformed"], entry("no such key", <<"x">>),
    entry("port", <<"1">>), entry("port", <<"x">>), entry("server", <<"mdns", ":", "den">>),
    entry("output", <<"-">>), entry("state-dir", <<"t">>),
    entry("no-control", <<"off">>), entry("no-mdns", <<"yes">>)}
Config == {Unreadable, <<>>} \cup {<<l>> : l \in Lines}
        \cup {<<entry("port", <<"1">>), l>> : l \in Lines} \cup {<<l, entry("port", <<"2">>)>> : l \in Lines}
MCConfigFiles ==
    {<<(<<entry("pidfile", <<"q">>)>>), f, Unreadable>> : f \in Config}
    \cup {<<Unreadable, f, (<<entry("port", <<"2">>)>>)>> : f \in {Unreadable, <<>>, <<[kind |-> "malformed"]>>}}

\* Short of every combination of every choice.
Tried ==
    /\ cwd \/ \E i \in DOMAIN typed.words : typed.words[i].option = "daemonize"
    /\ Len(typed.words) = 2 => Len(files[2]) <= 1

Names == {"null", "stdout", "-", "alsa", "portaudio", "pulse", "pipewire", "default", ""}
MCDeviceSpecs == {<<n>> : n \in Names} \cup {<<n, d>> : n \in Names, d \in {"", "default", "pulse"}}
                 \cup {<<"alsa", "hw", "2,0">>}
MCBuilds == SUBSET {"alsa", "portaudio", "pulse", "pipewire"}
Ascending(S) == SetToSortSeq(S, <)
MCRates == <<22, 44, 48>>
MCDepths == <<8, 16, 24>>
MCChannels == <<1, 2, 4>>
MCRatePreference == <<48, 44>>
MCDepthPreference == <<16, 24, 8>>
MCReports ==
    [rates : {Ascending(S) : S \in SUBSET {22, 44, 48}}, depths : {Ascending(S) : S \in SUBSET {8, 16, 24}},
     channels : {<<>>, <<1>>, <<4>>, <<1, 2>>}]
MCPins == {<<"flac", 44, 24, 2>>, <<"pcm", 48, 16, 1>>, <<"opus", 48, 16, 2>>, <<"opus", 44, 16, 2>>}

MCInit ==
    /\ scene \in {"store", "shared store", "options", "output", "log"}
    /\ Init
    /\ LogInit
    /\ IF scene = "options" THEN OptionsInit /\ Tried
       ELSE /\ typed = [subcommand |-> "", words |-> <<>>] /\ files = <<>> /\ cwd = TRUE
            /\ left = <<>> /\ options = default_options /\ given = {} /\ error = "" /\ entries = <<>>
            /\ resolved = "" /\ parsing = "words"
    /\ IF scene = "output" THEN ChoiceInit
       ELSE /\ built = {} /\ device = <<"null">> /\ pin = <<>> /\ choice = refused
            /\ report = permissive /\ formats = <<>> /\ starting = "options"

OnlyOne == \A p \in Players \ {CHOOSE q \in Players : TRUE} : player'[p].pc = "down"
NoCommand == \A p \in Players : player'[p].callbacks = <<>>

MCNext ==
    /\ UNCHANGED scene
    /\ \/ scene = "store" /\ Next /\ OnlyOne /\ UNCHANGED <<startup, output, log>>
       \/ scene = "shared store" /\ Next /\ NoCommand /\ UNCHANGED <<startup, output, log>>
       \/ scene = "options" /\ OptionsNext /\ UNCHANGED <<vars, output, log>>
       \/ scene = "output" /\ ChoiceNext /\ UNCHANGED <<vars, startup, log>>
       \/ scene = "log" /\ LogNext /\ UNCHANGED <<vars, startup, output>>

LogTurn ==
    scene = "log" /\ log_reopen_if_requested /\ UNCHANGED <<vars, startup, output, scene>>

\* The main loop turns.
MCSpec == MCInit /\ [][MCNext]_host_vars /\ WF_log(LogTurn)

-----------------------------------------------------------------------------
\* What a player alone on its directory holds, and what it has told a caller is saved,
\* is what the file has, after any failure, kill or restart.
HeldIsOnDisk == scene = "store" => MemoryIsDisk /\ SuccessIsOnDisk
=============================================================================
