-------------------------- MODULE ControlProtocol --------------------------
(***************************************************************************)
(* What is said on a control connection: src/control_common.cpp, from the   *)
(* words of a command line to the status the subcommand exits with, over a  *)
(* stream that is cut anywhere, to the dispatchers of src/main.cpp.         *)
(*                                                                          *)
(* Text is a sequence of tokens, each standing for a byte: a name, a sign, a *)
(* number.  The prose of a reply is left out.  The server, whose state      *)
(* changes between a request and its handling, is external.                 *)
(***************************************************************************)
EXTENDS Integers, SequencesExt

CONSTANTS
    MAX_STATIC_DELAY_MS,
    INT32_MAX,
    MAX_CONTROL_LINE_BYTES,
    MAX_VOLUME,          \* 100
    Typed,               \* command lines: sequences of words, each a sequence of tokens
    Peers                \* what something else than a subcommand writes
ASSUME ProtocolAssumption ==
    /\ {MAX_STATIC_DELAY_MS, INT32_MAX, MAX_CONTROL_LINE_BYTES, MAX_VOLUME} \subseteq Nat
    /\ MAX_CONTROL_LINE_BYTES > 3    \* the longest request, in tokens
    /\ Peers \subseteq Seq(STRING)

VARIABLES
    phase,     \* of the conversation
    typed,     \* the request the shell parsed
    wire,      \* all that is written on the connection
    delivered, \* how much of it the player has read
    buffer,    \* LineAssembler::buffer_
    state,     \* LineState of the last read
    line,      \* LineAssembler::line_
    source_only, \* the player is none: it only captures
    server,    \* what the library knows of the server
    told,      \* history: the repeat mode this server has told of
    outcome,   \* what the dispatcher did, and replied
    verdict    \* the status the subcommand exits with

connection == <<wire, delivered, buffer, state, line>>
connected_to == <<server, told>>
conversation == <<phase, typed, connection, source_only, connected_to, outcome, verdict>>

SPACE == " "
NL == "\n"
CR == "\r"
NUL == "NUL"

Nothing == "nothing"

\* The numbers of a request, and what their decimal notation is, which TLA+ does not say
\* of ToString: each number has its own, and none is a separator or a sign.
Numerals == 0..(2 * INT32_MAX + 1) \cup 0..MAX_STATIC_DELAY_MS \cup 0..MAX_VOLUME
ASSUME NumeralsAssumption ==
    \A n \in Numerals :
        /\ ToString(n) \notin {SPACE, NL, CR, NUL, "-", "+"}
        /\ \A m \in Numerals : ToString(m) = ToString(n) => m = n

\* to_string(), and the digits-only reading of it: a string of digits past `max` is refused
\* before it can wrap.
numeral(n) == IF n < 0 THEN <<"-", ToString(-n)>> ELSE <<ToString(n)>>

parse_unsigned(word, max) == {n \in 0..max : word = <<ToString(n)>>}

\* "The negative range is one wider than the positive one": bounded before it is negated.
parse_int32(word) ==
    CASE word # <<>> /\ Head(word) = "-" -> {-n : n \in parse_unsigned(Tail(word), INT32_MAX + 1)}
      [] word # <<>> /\ Head(word) = "+" -> parse_unsigned(Tail(word), INT32_MAX)
      [] OTHER -> parse_unsigned(word, INT32_MAX)

parse_word(word, accepted) == {w \in accepted : word = <<w>>}

Locally == {"status", "delay"}
Bare == {"status", "play", "pause", "stop", "next", "prev", "switch"}
control_subcommands == Bare \cup {"vol", "delay", "seek", "seek-rel", "mute", "shuffle", "repeat"}

arity(command) == IF command \in Bare THEN 0 ELSE 1

numbers(ns) == {[number |-> n, word |-> Nothing] : n \in ns}
words_of(ws) == {[number |-> 0, word |-> w] : w \in ws}

\* The values a command's argument can be read as: at most one.
argument(command, word) ==
    CASE command = "vol" -> numbers(parse_unsigned(word, MAX_VOLUME))
      [] command = "delay" -> numbers(parse_unsigned(word, MAX_STATIC_DELAY_MS))
      [] command = "seek" -> numbers(parse_unsigned(word, 2 * INT32_MAX + 1))
      [] command = "seek-rel" -> numbers(parse_int32(word))
      [] command \in {"mute", "shuffle"} -> words_of(parse_word(word, {"on", "off"}))
      [] command = "repeat" -> words_of(parse_word(word, {"off", "one", "all"}))

\* The requests that words make, at most one; with none they are refused, as "usage".
parse_control_request(words) ==
    IF words = <<>> \/ Len(words[1]) # 1 \/ words[1][1] \notin control_subcommands
       \/ Len(words) # 1 + arity(words[1][1])
    THEN {}
    ELSE LET command == words[1][1] IN
         {[command |-> command, value |-> v] :
             v \in IF arity(command) = 0 THEN words_of({Nothing})
                   ELSE argument(command, words[2])}

\* Taken by count: an argument may look like a flag.  What follows is for the option parser.
split_subcommand(words) ==
    IF Len(words) >= 1 /\ Len(words[1]) = 1 /\ words[1][1] \in control_subcommands
       /\ Len(words) >= 1 + arity(words[1][1])
    THEN SubSeq(words, 1, 1 + arity(words[1][1]))
    ELSE <<>>

Numeric == {"vol", "delay", "seek", "seek-rel"}

bug_magnitude_only(request) ==
    <<request.command>> \o
    (IF arity(request.command) = 0 THEN <<>>
     ELSE <<SPACE>> \o (IF request.command \in Numeric THEN <<ToString(request.value.number)>>
                        ELSE <<request.value.word>>))

encode_control_request(request) ==
    <<request.command>> \o
    (IF arity(request.command) = 0 THEN <<>>
     ELSE <<SPACE>> \o (IF request.command \in Numeric THEN numeral(request.value.number)
                        ELSE <<request.value.word>>))

\* A word that has come to its end.
word_ends(read) ==
    IF read.word = <<>> THEN read ELSE [words |-> Append(read.words, read.word), word |-> <<>>]

\* One byte more: a blank, or a part of a word.
parted(read, byte) ==
    IF byte = SPACE THEN word_ends(read) ELSE [read EXCEPT !.word = Append(@, byte)]

\* Runs of what is not a blank.
split_control_line(bytes) ==
    LET read[i \in 0..Len(bytes)] ==
            IF i = 0 THEN [words |-> <<>>, word |-> <<>>] ELSE parted(read[i - 1], bytes[i])
    IN  word_ends(read[Len(bytes)]).words

\* For the library the mode of "repeat" and the flag of "shuffle" are the command.
protocol_command(request) ==
    IF request.command \in {"repeat", "shuffle"} THEN <<request.command, request.value.word>>
    ELSE <<request.command>>

-----------------------------------------------------------------------------
(* LineAssembler.                                                           *)

stripped(bytes) == IF bytes # <<>> /\ Last(bytes) = CR THEN Front(bytes) ELSE bytes

\* One byte, unless those before it have ended the read.
eaten(got, byte) ==
    IF got.state # "Incomplete" THEN got
    ELSE CASE byte = NUL -> [got EXCEPT !.state = "Invalid"]
           [] byte = NL -> [state |-> "Ready", buffer |-> <<>>, line |-> stripped(got.buffer)]
           [] OTHER -> IF Len(got.buffer) >= MAX_CONTROL_LINE_BYTES
                       THEN [got EXCEPT !.state = "TooLong"]
                       ELSE [got EXCEPT !.buffer = Append(@, byte)]

feed(bytes) ==
    LET got[i \in 0..Len(bytes)] ==
            IF i = 0 THEN [state |-> "Incomplete", buffer |-> buffer, line |-> line]
            ELSE eaten(got[i - 1], bytes[i])
    IN  got[Len(bytes)]

\* The end of the input terminates a line too.
finish ==
    IF buffer = <<>> THEN [state |-> "Incomplete", buffer |-> buffer, line |-> line]
    ELSE [state |-> "Ready", buffer |-> <<>>, line |-> stripped(buffer)]

-----------------------------------------------------------------------------
(* The dispatchers.                                                         *)

bug_supported_before_connected(request) ==
    IF request.command \notin Locally /\ protocol_command(request) \notin server.supported_commands
    THEN "unsupported" ELSE Nothing

\* Why a request is not sent.  Connected comes first: a dropped connection empties
\* supported_commands, and "not supported" would be untrue of it.  No bound on "seek-rel".
control_refusal(request) ==
    IF request.command \in Locally THEN Nothing
    ELSE IF ~ server.connected THEN "not-connected"
    ELSE IF protocol_command(request) \notin server.supported_commands THEN "unsupported"
    ELSE IF request.command = "seek" /\ \E max \in server.seek_max_ms : request.value.number > max
    THEN "usage"
    ELSE Nothing

\* The lines of a status that tell of the server, with Nothing for "unknown".
format_status(s) ==
    [server |-> s.connected,
     repeat |-> IF s.connected /\ s.supported_commands # {} THEN s.repeat ELSE Nothing]

NotHandled == [did |-> <<>>, asked |-> {}, status |-> Nothing]

\* What is done, and the status replied: a player handles every command, a source
\* "status" alone.
handle_control_request(bytes) ==
    LET requests == parse_control_request(split_control_line(bytes)) IN
    IF requests = {} THEN [NotHandled EXCEPT !.status = "usage"]
    ELSE LET request == CHOOSE r \in requests : TRUE
             refusal == IF source_only /\ request.command # "status" THEN "unsupported"
                        ELSE control_refusal(request)
         IN [asked |-> requests,
             did |-> IF refusal # Nothing THEN <<>>
                     ELSE CASE request.command = "status" -> <<"reports", format_status(server)>>
                            [] request.command = "delay" -> <<"delays">>
                            [] OTHER -> <<"sends", request>>,
             status |-> IF refusal = Nothing THEN "ok" ELSE refusal]

Tokens == {"usage", "not-connected", "unsupported", "failed"}

\* A token for each status, and "failed" for what has none; a token that is not known is
\* a failure whose reason is kept.
encode_control_reply(status) ==
    CASE status = "ok" -> <<"ok">>
      [] status \in Tokens -> <<"error", status>>
      [] OTHER -> <<"error", "failed">>

decode_control_reply(reply) ==
    CASE reply = <<"ok">> -> "ok"
      [] Head(reply) = "error" /\ Len(reply) > 1 ->
            IF reply[2] \in Tokens THEN reply[2] ELSE "failed"
      [] OTHER -> "failed"

-----------------------------------------------------------------------------
Offers == {{}, {<<"play">>, <<"seek">>}, {<<"play">>, <<"repeat", "one">>}}

NoServer == [connected |-> FALSE, supported_commands |-> {}, seek_max_ms |-> {}, repeat |-> "off"]

ConversationInit ==
    /\ phase = "shell" /\ typed = {} /\ verdict = Nothing
    /\ wire = <<>> /\ delivered = 0 /\ buffer = <<>> /\ state = "Incomplete" /\ line = <<>>
    /\ source_only \in BOOLEAN
    /\ server = NoServer /\ told = Nothing
    /\ outcome = NotHandled

\* The connection is made or lost, or the server tells its state.
ServerSpeaks ==
    /\ phase # "answered"
    /\ \/ ~ server.connected /\ server' = [server EXCEPT !.connected = TRUE] /\ UNCHANGED told
       \/ server.connected /\ server' = NoServer /\ told' = Nothing
       \/ /\ server.connected
          /\ \E commands \in Offers, max \in {{}, {1}}, mode \in {"off", "one"} :
                /\ server' = [connected |-> TRUE, supported_commands |-> commands,
                              seek_max_ms |-> max, repeat |-> mode]
                /\ told' = mode
    /\ UNCHANGED <<phase, typed, connection, source_only, outcome, verdict>>

\* main() of a subcommand run: words that are no request are refused before anything is
\* connected.
Types(words) ==
    /\ phase = "shell"
    /\ typed' = parse_control_request(split_subcommand(words))
    /\ IF typed' = {}
       THEN phase' = "exited" /\ verdict' = "usage" /\ UNCHANGED wire
       ELSE /\ phase' = "sending"
            /\ wire' = encode_control_request(CHOOSE r \in typed' : TRUE) \o <<NL>>
            /\ UNCHANGED verdict
    /\ UNCHANGED <<delivered, buffer, state, line, source_only, connected_to, outcome>>

PeerWrites(bytes) ==
    /\ phase = "shell"
    /\ phase' = "sending" /\ wire' = bytes
    /\ UNCHANGED <<typed, delivered, buffer, state, line, source_only, connected_to, outcome,
                   verdict>>

\* poll(): a read of as much as has come, or the end of it.
Reads(got) ==
    /\ phase = "sending"
    /\ state' = got.state /\ buffer' = got.buffer /\ line' = got.line
    /\ IF got.state = "Incomplete"
       THEN UNCHANGED <<phase, outcome>>
       ELSE /\ phase' = "answered"
            /\ outcome' = IF got.state = "Ready" THEN handle_control_request(got.line)
                          ELSE [NotHandled EXCEPT !.status = "usage"]
    /\ UNCHANGED <<typed, wire, source_only, connected_to, verdict>>

ReadsBytes(n) ==
    /\ delivered + n <= Len(wire)
    /\ delivered' = delivered + n
    /\ Reads(feed(SubSeq(wire, delivered + 1, delivered + n)))

ReadsTheEnd ==
    /\ delivered = Len(wire) /\ typed = {} /\ buffer # <<>>
    /\ UNCHANGED delivered
    /\ Reads(finish)

ReadsTheReply ==
    /\ phase = "answered"
    /\ phase' = "exited"
    /\ verdict' = decode_control_reply(encode_control_reply(outcome.status))
    /\ UNCHANGED <<typed, connection, source_only, connected_to, outcome>>

\* The next connection.  One that ends, or has its time, with no line is dropped.
Again ==
    /\ \/ phase = "exited"
       \/ phase = "sending" /\ typed = {}
    /\ phase' = "shell" /\ typed' = {} /\ verdict' = Nothing
    /\ wire' = <<>> /\ delivered' = 0 /\ buffer' = <<>> /\ state' = "Incomplete" /\ line' = <<>>
    /\ outcome' = NotHandled
    /\ UNCHANGED <<source_only, connected_to>>

ConversationNext ==
    \/ ServerSpeaks \/ ReadsTheEnd \/ ReadsTheReply \/ Again
    \/ \E words \in Typed : Types(words)
    \/ \E bytes \in Peers : PeerWrites(bytes)
    \/ \E n \in 1..Len(wire) : ReadsBytes(n)

ConversationSpec == ConversationInit /\ [][ConversationNext]_conversation

-----------------------------------------------------------------------------
\* The player handles the request that was typed: what the shell has parsed comes out of
\* the player's own parse of the line, whatever its sign, its bound or its words.
RequestSurvives ==
    phase = "answered" /\ typed # {} => outcome.asked = typed

\* Where the first line of some bytes ends, and what reading them in one piece would find.
line_ends(bytes) == Min({i \in DOMAIN bytes : bytes[i] \in {NL, NUL}} \cup {Len(bytes) + 1})

LineIn(bytes) ==
    LET end == line_ends(bytes) IN
    IF end - 1 > MAX_CONTROL_LINE_BYTES THEN [state |-> "TooLong", line |-> <<>>]
    ELSE IF end <= Len(bytes) /\ bytes[end] = NUL THEN [state |-> "Invalid", line |-> <<>>]
    ELSE [state |-> "Ready", line |-> stripped(SubSeq(bytes, 1, end - 1))]

\* However the stream is cut into reads, and whether a newline or the end of the input
\* terminates it, the line is the first of what was written, and a line too long or not
\* of text is told from one that is.
AnyCutGivesTheLine ==
    phase = "answered" => [state |-> state, line |-> line] = LineIn(wire)

\* Nothing of a line is lost or changed between the shell and the player.
LineArrives == RequestSurvives /\ AnyCutGivesTheLine

\* A refusal says what is the case: "not connected" when and only when there is no
\* server to send to; what is reported as done was sent to a server that offers it; and
\* a status shows only what this connection's server has told.
AnswerIsTrue ==
    phase = "answered" /\ ~ source_only =>
        /\ \A r \in outcome.asked :
              (outcome.status = "not-connected")
                  <=> (~ server.connected /\ r.command \notin Locally)
        /\ outcome.did # <<>> /\ outcome.did[1] = "sends" =>
              /\ protocol_command(outcome.did[2]) \in server.supported_commands
              /\ outcome.did[2].command = "seek" =>
                    \A max \in server.seek_max_ms : outcome.did[2].value.number <= max
        /\ outcome.did # <<>> /\ outcome.did[1] = "reports" =>
              outcome.did[2].repeat \in {Nothing, told}
=============================================================================
