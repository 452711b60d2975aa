---------------------------- MODULE OutputChoice ----------------------------
(***************************************************************************)
(* What a player plays through and what it offers to play: the reading of   *)
(* -o in src/audio_sink.cpp, the formats derived from the device's report   *)
(* in src/supported_formats.cpp, and main()'s startup around the two.       *)
(*                                                                          *)
(* A device spec is cut at its colons: <<"alsa", "hw", "2,0">>.             *)
(***************************************************************************)
EXTENDS Integers, SequencesExt, FiniteSets

CONSTANTS
    Builds,         \* sets of backends a build may have besides null and stdout
    DeviceSpecs,    \* what -o may say
    Reports,        \* capabilities a device may report: [rates, depths, channels]
    Pins,           \* what --audio-format may say, in four fields

    PROBE_RATES, PROBE_BIT_DEPTHS, PROBE_CHANNELS,    \* ascending, as sequences
    RATE_PREFERENCE, DEPTH_PREFERENCE,                \* the ladders, first preferred
    OPUS_RATE, OPUS_BIT_DEPTH, OPUS_MAX_CHANNELS

\* What the fields of --audio-format may go up to.
MAX_RATE == 999999
MAX_CHANNELS == 255

RESERVED_BACKENDS == {"alsa", "portaudio", "pulse", "pipewire"}

\* What is probed, and what a probe finds: each value once.
Probed(values) == values \in Seq(Nat \ {0}) /\ IsInjective(values)

ASSUME ChoiceAssumption ==
    /\ Builds \subseteq SUBSET RESERVED_BACKENDS
    /\ DeviceSpecs \subseteq Seq(STRING) \ {<<>>}
    /\ Probed(PROBE_RATES) /\ Probed(PROBE_BIT_DEPTHS) /\ Probed(PROBE_CHANNELS)
    /\ OPUS_RATE \in ToSet(PROBE_RATES) /\ OPUS_BIT_DEPTH \in ToSet(PROBE_BIT_DEPTHS)
    /\ PROBE_CHANNELS # <<>> /\ OPUS_MAX_CHANNELS \in 0..MAX_CHANNELS /\ OPUS_RATE <= MAX_RATE
    /\ RATE_PREFERENCE \in Seq(Nat) /\ DEPTH_PREFERENCE \in Seq(Nat)
    /\ \A r \in Reports : Probed(r.rates) /\ Probed(r.depths) /\ Probed(r.channels)

VARIABLES
    built,      \* BUILT_BACKENDS
    device,     \* -o
    pin,        \* --audio-format, or <<>>
    choice,     \* the backend and its device, once resolved
    report,     \* the sink's capabilities
    formats,    \* what goes out in client/hello
    starting    \* "options", "resolved", "open", "offers", "ready" or "refused"

output == <<built, device, pin, choice, report, formats, starting>>

refused == [backend |-> "refused", device |-> <<>>]

device_arg(name) ==
    CASE name \in {"null", "stdout"} -> "none"
      [] name = "alsa" -> "required"
      [] OTHER -> "optional"

alsa_plugin == {"pulse", "pipewire"}

BUILT_BACKENDS(build) == {"null", "stdout"} \cup build

\* A whole-string name.
by_name(name) ==
    IF device_arg(name) = "required" THEN refused ELSE [backend |-> name, device |-> <<>>]

\* <backend>:<device>, at the first colon only.
by_prefix(name, rest) ==
    IF device_arg(name) = "none" \/ rest = <<"">> THEN refused
    ELSE [backend |-> name, device |-> rest]

bug_name_claimed(build, spec) == spec[1] \in RESERVED_BACKENDS

\* A backend this build knows of and lacks; a bare name that is also ALSA's plugin PCM
\* is left to ALSA where there is one.
unavailable(build, spec) ==
    /\ spec[1] \in RESERVED_BACKENDS
    /\ ~ (Len(spec) = 1 /\ "alsa" \in build /\ spec[1] \in alsa_plugin)

resolve_device_spec(build, spec) ==
    IF spec = <<"">> THEN refused
    ELSE IF spec = <<"-">> THEN by_name("stdout")
    ELSE IF spec[1] \in BUILT_BACKENDS(build)
    THEN IF Len(spec) = 1 THEN by_name(spec[1]) ELSE by_prefix(spec[1], Tail(spec))
    ELSE IF "alsa" \in build /\ ~ unavailable(build, spec)
    THEN [backend |-> "alsa", device |-> spec]
    ELSE refused

\* Whether -l may list a PCM as a name that can follow -o.
alsa_pcm_is_reachable(build, pcm) ==
    "alsa" \in build /\ resolve_device_spec(build, pcm) = [backend |-> "alsa", device |-> pcm]

-----------------------------------------------------------------------------
(* Formats.                                                                 *)

\* Stereo where the device takes it, else the narrowest; 0 for none.
advertised_channels(channels) ==
    CASE channels = <<>> -> 0
      [] Contains(channels, 2) -> 2
      [] OTHER -> channels[1]

\* Where a value first is: std::find() of one that is there.
find(values, value) == SelectInSeq(values, LAMBDA v : v = value)

\* Past the end of the ladder for what it does not name.
preference_rank(ladder, value) ==
    IF Contains(ladder, value) THEN find(ladder, value) ELSE Len(ladder) + 1

\* What the ladder does not name comes last, in the order it came.
precedes(values, ladder, i, j) ==
    \/ preference_rank(ladder, values[i]) < preference_rank(ladder, values[j])
    \/ preference_rank(ladder, values[i]) = preference_rank(ladder, values[j]) /\ i < j

\* A stable sort: the place of each is one past all that precede it.
in_preference_order(values, ladder) ==
    LET place(i) == Cardinality({j \in DOMAIN values : precedes(values, ladder, j, i)}) + 1
    IN  [n \in DOMAIN values |-> values[CHOOSE i \in DOMAIN values : place(i) = n]]

permissive == [rates |-> PROBE_RATES, depths |-> PROBE_BIT_DEPTHS, channels |-> PROBE_CHANNELS]

\* The decoder's own shape, and nothing else.
opus_reachable(caps, channels) ==
    /\ channels <= OPUS_MAX_CHANNELS
    /\ Contains(caps.rates, OPUS_RATE)
    /\ Contains(caps.depths, OPUS_BIT_DEPTH)

\* One codec at every rate the device takes, and every depth of each.
at_all(codec, channels, rates, depths) ==
    [n \in 1..(Len(rates) * Len(depths)) |->
        <<codec, rates[((n - 1) \div Len(depths)) + 1], depths[((n - 1) % Len(depths)) + 1], channels>>]

rates_offered(caps) == in_preference_order(caps.rates, RATE_PREFERENCE)

bug_depths_offered(caps) == caps.depths

depths_offered(caps) == in_preference_order(caps.depths, DEPTH_PREFERENCE)

\* By codec: FLAC, Opus where it can be decoded, PCM.
supported_formats(caps) ==
    LET channels == advertised_channels(caps.channels)
        rates == rates_offered(caps)
        depths == depths_offered(caps)
    IN  IF channels = 0 THEN <<>>
        ELSE at_all("flac", channels, rates, depths)
             \o (IF opus_reachable(caps, channels)
                 THEN << <<"opus", OPUS_RATE, OPUS_BIT_DEPTH, channels>> >> ELSE <<>>)
             \o at_all("pcm", channels, rates, depths)

\* Four fields, a codec there is, a depth there is, and of Opus only its shape.
parse_format_spec(spec) ==
    /\ Len(spec) = 4
    /\ spec[1] \in {"flac", "opus", "pcm"}
    /\ spec[2] \in 1..MAX_RATE /\ spec[3] \in ToSet(PROBE_BIT_DEPTHS) /\ spec[4] \in 1..MAX_CHANNELS
    /\ spec[1] = "opus" =>
          spec[2] = OPUS_RATE /\ spec[3] = OPUS_BIT_DEPTH /\ spec[4] <= OPUS_MAX_CHANNELS

\* The pinned one goes to the front, and the rest keep their order.
pin_preferred_format(list, preferred) == <<preferred>> \o RemoveAt(list, find(list, preferred))

-----------------------------------------------------------------------------
ChoiceInit ==
    /\ built \in Builds
    /\ device \in DeviceSpecs
    /\ pin \in {<<>>} \cup {p \in Pins : parse_format_spec(p)}
    /\ choice = refused
    /\ report = [rates |-> <<>>, depths |-> <<>>, channels |-> <<>>]
    /\ formats = <<>>
    /\ starting = "options"

\* make_audio_sink(), up to the device.
ResolveDevice ==
    /\ starting = "options"
    /\ choice' = resolve_device_spec(built, device)
    /\ starting' = IF choice'.backend = "refused" THEN "refused" ELSE "resolved"
    /\ UNCHANGED <<built, device, pin, report, formats>>

\* The probe: a device that cannot be opened is a fatal mistake at startup.  The sinks
\* without a device, and a server that converts, take everything.
ProbeDevice ==
    /\ starting = "resolved"
    /\ \/ starting' = "open" /\ report' = permissive
       \/ starting' = "open" /\ choice.backend \in {"alsa", "portaudio"} /\ report' \in Reports
       \/ starting' = "refused" /\ choice.backend \notin {"null", "stdout"} /\ report' = report
    /\ UNCHANGED <<built, device, pin, choice, formats>>

\* A device that takes nothing this player emits is offered everything, and refuses.
advertised_formats ==
    IF supported_formats(report) = <<>> THEN supported_formats(permissive)
    ELSE supported_formats(report)

Advertise ==
    /\ starting = "open"
    /\ formats' = advertised_formats
    /\ starting' = "offers"
    /\ UNCHANGED <<built, device, pin, choice, report>>

\* --audio-format is first, or the player does not start.
PinFormat ==
    /\ starting = "offers"
    /\ starting' = IF pin = <<>> \/ Contains(formats, pin) THEN "ready" ELSE "refused"
    /\ formats' = IF pin # <<>> /\ Contains(formats, pin) THEN pin_preferred_format(formats, pin)
                  ELSE formats
    /\ UNCHANGED <<built, device, pin, choice, report>>

ChoiceNext == ResolveDevice \/ ProbeDevice \/ Advertise \/ PinFormat

-----------------------------------------------------------------------------
\* A name means a backend this build has; a PCM that a backend's name shadows is still
\* to be had, as alsa:<pcm>; and the bare names that were ALSA's before a backend took
\* them still play on a build that lacks the backend.
EveryDeviceHasAName ==
    /\ choice.backend \in BUILT_BACKENDS(built) \cup {"refused"}
    /\ "alsa" \in built =>
          /\ device # <<"">> =>
                resolve_device_spec(built, <<"alsa">> \o device) = [backend |-> "alsa", device |-> device]
          /\ device[1] \in alsa_plugin /\ Len(device) = 1 =>
                alsa_pcm_is_reachable(built, device) = (device[1] \notin built)
          /\ starting # "options" /\ device[1] \notin RESERVED_BACKENDS \cup {"null", "stdout", "-", ""} =>
                choice = [backend |-> "alsa", device |-> device]

taken(format) ==
    /\ Contains(report.rates, format[2]) /\ Contains(report.depths, format[3])
    /\ Contains(report.channels, format[4])

\* What the ladder names is in its order, and before the rest, which is as it was found.
ranked(values, ladder, v, w) ==
    \/ Contains(ladder, v) /\ Contains(ladder, w) /\ find(ladder, v) < find(ladder, w)
    \/ Contains(ladder, v) /\ ~ Contains(ladder, w)
    \/ ~ Contains(ladder, v) /\ ~ Contains(ladder, w) /\ find(values, v) < find(values, w)

earlier(codec, other) == <<codec, other>> \in {<<"flac", "opus">>, <<"flac", "pcm">>, <<"opus", "pcm">>}

\* "Grouped by codec (FLAC, then OPUS, then PCM), and within FLAC and PCM by preferred rate
\* then preferred depth."
in_priority_order(caps, f, g) ==
    \/ earlier(f[1], g[1])
    \/ f[1] = g[1] /\ ranked(caps.rates, RATE_PREFERENCE, f[2], g[2])
    \/ f[1] = g[1] /\ f[2] = g[2] /\ ranked(caps.depths, DEPTH_PREFERENCE, f[3], g[3])

\* What is offered to a server, which plays what is first of what it can encode: never
\* an empty list, nothing twice, nothing the device did not report unless it reported
\* nothing, every rate and depth that it did report, Opus only as the decoder emits it;
\* every format before all that have a later codec, a rate that is preferred less, or at
\* the same rate a depth that is (8-bit, if there is any other); and the pin alone out of
\* that order, in front.
OffersWhatCanBePlayed ==
    starting \in {"offers", "ready"} =>
        /\ formats # <<>> /\ IsInjective(formats)
        /\ \A format \in ToSet(formats) :
              /\ format[1] = "opus" => parse_format_spec(format)
              /\ taken(format) \/ supported_formats(report) = <<>>
        /\ \A rate \in ToSet(report.rates), depth \in ToSet(report.depths) :
              report.channels # <<>> =>
                  \A codec \in {"flac", "pcm"} : \E f \in ToSet(formats) : SubSeq(f, 1, 3) = <<codec, rate, depth>>
        /\ starting = "ready" /\ pin # <<>> => formats[1] = pin
        /\ LET caps == IF supported_formats(report) = <<>> THEN permissive ELSE report
           IN  \A i, j \in DOMAIN formats :
                  /\ i < j /\ (starting = "offers" \/ formats[i] # pin)
                  => in_priority_order(caps, formats[i], formats[j])
=============================================================================
