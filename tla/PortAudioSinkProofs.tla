------------------------ MODULE PortAudioSinkProofs ------------------------
(***************************************************************************)
(* For any formats, frame sizes, ring and writes: what PortAudioSink keeps  *)
(* to between the four threads around its stream.                           *)
(***************************************************************************)
EXTENDS PortAudioSink, FirstOrderInduction, SequenceTheorems, TLAPS

-----------------------------------------------------------------------------
(* The inductive invariant.                                                 *)

Writer == [pc : {"idle", "opened", "loop", "waiting", "parked"}, format : Formats \cup {None},
           stale : BOOLEAN, stranded : BOOLEAN, length : Nat, left : Nat, bpf : Nat]

Types ==
    /\ last_format \in Formats \cup {None} /\ player_format \in Formats \cup {None}
    /\ recovery \in Recovery
    /\ stopping \in BOOLEAN
    /\ writer \in Writer
    /\ callback \in [busy : BOOLEAN, heard : SUBSET Byte, bytes : Nat, bpf : Nat]
    /\ main \in {"loop", "stop"}
    /\ tries \in [reopens : Nat, rescans : Nat]

\* A stream and its ring, whoever uses them: there is nothing without a stream, and with
\* one there are whole frames of its format, none of them dropped, unless a configure()
\* gave up beside it or a drain is asked for.
StreamInv(s) ==
    /\ s \in Sink
    /\ (s.stream = "none") <=> (s.format = None)
    /\ s.stream = "none" => s.ring = <<>> /\ ~ s.stranded
    /\ Len(s.ring) <= RingFrames * bytes_per_frame(s)
    /\ s.stream # "none" => Len(s.ring) % bytes_per_frame(s) = 0
    /\ ~ s.stranded => \A i \in DOMAIN s.ring : s.ring[i].format = s.format
    /\ ~ s.stranded /\ ~ s.clear_requested => \A i \in DOMAIN s.ring : ~ s.ring[i].stale
    /\ s.stream # "none" /\ ~ s.settled => s.touched

\* The stream is the player's, until it is stopped or stranded.
PlayerInv ==
    /\ sink.stream # "none" /\ ~ sink.stranded => sink.format = player_format
    /\ writer.pc = "opened" => writer.format = player_format
    /\ main = "stop" => stopping
    /\ IF stopping /\ main = "loop" THEN sink.stream = "none" /\ last_format = None
       ELSE last_format = player_format

Inside == {"loop", "waiting", "parked"}

\* A write() that goes on does so on the stream it began with: while the generation has
\* not moved there is one, of its frame size, and what it holds may be heard.
WriterInv(w, s) ==
    /\ w.pc # "idle" => w.format \in Formats /\ w.length % FrameBytes[w.format] = 0
    /\ w.pc = "opened" => s.stream # "none" /\ ~ s.stranded /\ ~ w.stale
    /\ w.pc \in {"loop", "waiting"} => ~ s.moved
    /\ w.pc \in Inside => w.bpf # 0 /\ w.left % w.bpf = 0
    /\ w.pc \in Inside /\ ~ s.moved =>
          /\ s.stream # "none" /\ w.bpf = bytes_per_frame(s)
          /\ ~ s.stranded => w.format = s.format /\ ~ w.stale

CallbackInv(c, s) ==
    /\ c.busy => s.stream = "running" /\ c.bpf = bytes_per_frame(s) /\ c.bytes % c.bpf = 0
    /\ ~ c.busy => c.heard = {}
    /\ ~ s.stranded => \A b \in c.heard : ~ b.stale

\* The two attempts are spent as they are made, and the second waits for a stream that is dead.
RecoveryInv ==
    /\ ~ recovery.rescan_in_flight
    /\ tries.reopens <= IF recovery.reopen_spent THEN 1 ELSE 0
    /\ tries.rescans = IF recovery.rescan_spent THEN 1 ELSE 0
    /\ recovery.rescan_owed =>
          recovery.reopen_spent /\ ~ recovery.rescan_spent /\ sink.stream # "running"

IInv ==
    /\ Types /\ StreamInv(sink) /\ PlayerInv /\ WriterInv(writer, sink)
    /\ CallbackInv(callback, sink) /\ RecoveryInv /\ DiscardTakesAll

\* What is said of the fields, read in the next state.
LEMMA Kept ==
    ASSUME Types', StreamInv(sink'), PlayerInv', WriterInv(writer', sink'),
           CallbackInv(callback', sink'), RecoveryInv', DiscardTakesAll'
    PROVE  IInv'
<1>1. StreamInv(sink)'
  BY DEF StreamInv, Sink, Byte, bytes_per_frame, frame_bytes
<1>2. WriterInv(writer, sink)'
  BY DEF WriterInv, Inside, bytes_per_frame, frame_bytes
<1>3. CallbackInv(callback, sink)'
  BY DEF CallbackInv, bytes_per_frame, frame_bytes
<1> QED BY <1>1, <1>2, <1>3 DEF IInv

-----------------------------------------------------------------------------
(* Frames.                                                                  *)

\* Any number of whole frames is whole frames.
LEMMA Frames ==
    ASSUME NEW k \in Nat, NEW c \in Nat \ {0}
    PROVE  (k * c) % c = 0 /\ k * c \in Nat
  OBVIOUS

\* So are more of them, and fewer.
LEMMA WholeFrames ==
    ASSUME NEW a \in Nat, NEW b \in Nat, NEW c \in Nat \ {0}, a % c = 0, b % c = 0
    PROVE  (a + b) % c = 0 /\ (b <= a => (a - b) % c = 0)
<1> DEFINE i == a \div c
           j == b \div c
<1>1. i \in Nat /\ a = i * c
  OBVIOUS
<1>2. j \in Nat /\ b = j * c
  OBVIOUS
<1> HIDE DEF i, j
<1>3. a + b = (i + j) * c
  BY <1>1, <1>2
<1>4. a - b = (i - j) * c
  BY <1>1, <1>2
<1>5. b <= a => i - j \in Nat
  BY <1>1, <1>2
<1> QED BY <1>1, <1>2, <1>3, <1>4, <1>5, Frames

\* What is left of a count when its last, partial frame is cut off.
LEMMA CutToFrames ==
    ASSUME NEW a \in Nat, NEW c \in Nat \ {0}
    PROVE  /\ a % c \in Nat /\ a - (a % c) \in Nat /\ a - (a % c) <= a
           /\ (a - (a % c)) % c = 0
           /\ a % c = 0 => a - (a % c) = a
<1> DEFINE i == a \div c
<1>1. i \in Nat /\ a = c * i + (a % c) /\ a % c \in 0..c - 1
  OBVIOUS
<1>2. a - (a % c) = i * c
  BY <1>1
<1> HIDE DEF i
<1> QED BY <1>1, <1>2, Frames

-----------------------------------------------------------------------------
(* Streams.                                                                 *)

\* A frame of a stream that is open has some bytes, and there is room or none.
LEMMA StreamFrames ==
    ASSUME NEW s, StreamInv(s)
    PROVE  /\ bytes_per_frame(s) \in Nat /\ Len(s.ring) \in Nat
           /\ s.stream # "none" => bytes_per_frame(s) \in Nat \ {0} /\ s.format \in Formats
           /\ free_space(s) \in Nat
           /\ s.stream # "none" => free_space(s) % bytes_per_frame(s) = 0
<1>1. Len(s.ring) \in Nat /\ s.format \in Formats \cup {None}
  BY DEF StreamInv, Sink
<1>2. bytes_per_frame(s) \in Nat /\ (s.stream # "none" => bytes_per_frame(s) \in Nat \ {0} /\ s.format \in Formats)
  BY <1>1, SinkAssumption DEF StreamInv, bytes_per_frame, frame_bytes
<1> DEFINE c == bytes_per_frame(s)
           n == RingFrames * c
           l == Len(s.ring)
<1>3. n \in Nat /\ (c # 0 => n % c = 0)
  <2> HIDE DEF c
  <2>1. RingFrames \in Nat /\ c \in Nat
    BY <1>2, SinkAssumption DEF c
  <2>2. CASE c = 0
    BY <2>1, <2>2
  <2>3. CASE c # 0
    BY <2>1, <2>3, Frames
  <2> QED BY <2>2, <2>3
<1>4. l <= n /\ (s.stream # "none" => l % c = 0)
  BY DEF StreamInv
<1>5. free_space(s) = n - l
  BY DEF free_space
<1> HIDE DEF c, n, l
<1>6. n - l \in Nat
  BY <1>1, <1>3, <1>4 DEF l
<1>7. s.stream # "none" => (n - l) % c = 0
  BY <1>1, <1>2, <1>3, <1>4, WholeFrames DEF c, l
<1> QED BY <1>1, <1>2, <1>5, <1>6, <1>7 DEF c

\* To drop the ring empties it and nothing else.
LEMMA Drops ==
    ASSUME NEW s \in Sink
    PROVE  LET d == drop(s) IN
           /\ d \in Sink /\ d.ring = <<>> /\ d.clear_requested = FALSE
           /\ d.stream = s.stream /\ d.format = s.format /\ d.moved = s.moved
           /\ d.settled = s.settled /\ d.touched = s.touched /\ d.stranded = s.stranded
<1>1. <<>> \in Seq(Byte)
  OBVIOUS
<1> QED BY <1>1 DEF drop, Sink

\* To prepare a stream fixes its format and moves the generation.
LEMMA Prepares ==
    ASSUME NEW s \in Sink, NEW f \in Formats
    PROVE  LET p == prepare(s, f) IN
           /\ p \in Sink /\ p.stream = s.stream /\ p.format = f /\ p.ring = s.ring
           /\ p.moved = TRUE /\ p.settled = TRUE /\ p.stranded = s.stranded
  BY DEF prepare, Sink

\* To close it forgets all of it, and moves the generation too.
LEMMA Closed ==
    ASSUME NEW s \in Sink
    PROVE  LET c == close_stream_(s) IN
           /\ c \in Sink /\ c.stream = "none" /\ c.format = None /\ c.ring = <<>>
           /\ c.moved = TRUE /\ c.stranded = FALSE
<1> DEFINE d == drop(s)
           e == [d EXCEPT !.stream = "none", !.format = None, !.moved = TRUE, !.stranded = FALSE]
<1>1. d \in Sink /\ d.ring = <<>>
  BY Drops
<1> HIDE DEF d
<1>2. /\ e \in Sink /\ e.stream = "none" /\ e.format = None /\ e.ring = <<>>
      /\ e.moved = TRUE /\ e.stranded = FALSE
  BY <1>1 DEF Sink
<1>3. close_stream_(s) = notify(e)
  BY DEF close_stream_, d
<1> HIDE DEF e
<1> QED BY <1>2, <1>3 DEF notify, Sink

\* Closing leaves nothing of a stream.
LEMMA Closes ==
    ASSUME NEW s, StreamInv(s)
    PROVE  LET c == close_stream_(s) IN
           StreamInv(c) /\ c.stream = "none" /\ c.moved = TRUE
<1> DEFINE c == close_stream_(s)
<1>1. /\ c \in Sink /\ c.stream = "none" /\ c.format = None /\ c.ring = <<>>
      /\ c.stranded = FALSE /\ c.moved = TRUE
  BY Closed DEF StreamInv
<1> HIDE DEF c
<1>2. bytes_per_frame(c) = 0 /\ Len(c.ring) = 0
  BY <1>1 DEF bytes_per_frame, frame_bytes
<1>3. Len(c.ring) <= RingFrames * bytes_per_frame(c)
  BY <1>2, SinkAssumption
<1>4. StreamInv(c)
  BY <1>1, <1>3 DEF StreamInv
<1> QED BY <1>1, <1>4 DEF c

\* A stream that starts does so empty, in its format and at its gain.
LEMMA Starts ==
    ASSUME NEW s, NEW f \in Formats, s \in Sink, s.stream # "none",
           s.format = f, s.ring = <<>>, ~ s.settled => s.touched, ~ s.stranded
    PROVE  StreamInv(s)
<1>1. FrameBytes[f] \in Nat \ {0} /\ f # None
  BY SinkAssumption
<1>2. bytes_per_frame(s) = FrameBytes[f] /\ Len(s.ring) = 0
  BY <1>1 DEF bytes_per_frame, frame_bytes
<1>3. RingFrames * FrameBytes[f] \in Nat /\ 0 % FrameBytes[f] = 0
  BY <1>1, SinkAssumption
<1> HIDE SinkAssumption
<1> QED BY <1>1, <1>2, <1>3 DEF StreamInv

\* The stream after another was opened in its place.
reopened(s, f, outcome) == open_stream_(close_stream_(s), f, outcome)

\* It is another stream, none, or one of the format that was asked for.
Another(o, f, outcome) ==
    /\ StreamInv(o) /\ o.moved = TRUE /\ ~ o.stranded
    /\ IF outcome = "running" THEN o.stream = "running" /\ o.format = f
       ELSE o.stream = "none"

\* However opening a stream ends, what was there before it is gone; and a stream that
\* runs is of the format that was asked for.
LEMMA Opens ==
    ASSUME NEW s, StreamInv(s), NEW f \in Formats, NEW outcome \in Outcomes
    PROVE  Another(reopened(s, f, outcome), f, outcome)
<1> DEFINE c == close_stream_(s)
           o == open_stream_(c, f, outcome)
<1>0. reopened(s, f, outcome) = o
  BY DEF reopened
<1>1. StreamInv(c) /\ c.stream = "none" /\ c.moved = TRUE /\ ~ c.stranded /\ c \in Sink
  BY Closes DEF StreamInv
<1> HIDE DEF c, o
<1>2. CASE outcome = "refused"
  <2>1. o = c
    BY <1>2 DEF o, open_stream_
  <2> QED BY <1>0, <1>1, <1>2, <2>1 DEF Another
<1>3. CASE outcome = "failed"
  <2> DEFINE p == prepare(c, f)
  <2>0. p \in Sink
    BY <1>1, Prepares
  <2>1. o = close_stream_(p)
    BY <1>3 DEF o, open_stream_
  <2> HIDE DEF p
  <2>2. /\ o \in Sink /\ o.stream = "none" /\ o.format = None /\ o.ring = <<>>
        /\ o.stranded = FALSE /\ o.moved = TRUE
    BY <2>0, <2>1, Closed
  <2>3. bytes_per_frame(o) = 0 /\ Len(o.ring) = 0
    BY <2>2 DEF bytes_per_frame, frame_bytes
  <2>4. Len(o.ring) <= RingFrames * bytes_per_frame(o)
    BY <2>3, SinkAssumption
  <2>5. StreamInv(o)
    BY <2>2, <2>4 DEF StreamInv
  <2> QED BY <1>0, <1>3, <2>2, <2>5 DEF Another
<1>4. CASE outcome = "running"
  <2>1. o = [drop(prepare(c, f)) EXCEPT !.stream = "running"]
    BY <1>4 DEF o, open_stream_
  <2>2. /\ o \in Sink /\ o.stream = "running" /\ o.format = f /\ o.ring = <<>>
        /\ ~ o.stranded /\ o.moved = TRUE /\ o.settled = TRUE
    <3> DEFINE p == prepare(c, f)
               d == drop(p)
    <3>0. /\ p \in Sink /\ p.format = f /\ p.stranded = c.stranded
          /\ p.settled = TRUE /\ p.moved = TRUE
      BY <1>1, Prepares
    <3> HIDE DEF p
    <3>1. p \in Sink /\ p.format = f /\ p.stranded = FALSE /\ p.settled = TRUE /\ p.moved = TRUE
      <4>1. c.stranded \in BOOLEAN
        BY <1>1 DEF Sink
      <4> QED BY <1>1, <3>0, <4>1
    <3>2. /\ d \in Sink /\ d.ring = <<>> /\ d.format = f /\ d.stranded = FALSE
          /\ d.settled = TRUE /\ d.moved = TRUE
      BY <3>1, Drops
    <3>3. o = [d EXCEPT !.stream = "running"]
      BY <2>1 DEF p
    <3> HIDE DEF d
    <3> QED BY <3>2, <3>3 DEF Sink
  <2>3. StreamInv(o)
    BY <2>2, Starts
  <2> QED BY <1>0, <1>4, <2>2, <2>3 DEF Another
<1> QED BY <1>2, <1>3, <1>4 DEF Outcomes

\* Starting the same stream again loses what it held and nothing else.
LEMMA Restarts ==
    ASSUME NEW s, StreamInv(s), s.stream # "none"
    PROVE  LET r == restart_stream_(s) IN
           /\ StreamInv(r) /\ r.stream = "running" /\ r.format = s.format
           /\ r.moved = TRUE /\ ~ r.stranded
<1> DEFINE r == restart_stream_(s)
<1>1. /\ r \in Sink /\ r.stream = "running" /\ r.format = s.format /\ r.ring = <<>>
      /\ ~ r.stranded /\ r.moved = TRUE /\ r.settled = TRUE
  <2> DEFINE p == prepare(s, s.format)
             d == drop(p)
  <2>1. s \in Sink /\ s.format \in Formats
    BY StreamFrames DEF StreamInv
  <2>2. p \in Sink /\ p.format = s.format /\ p.settled = TRUE /\ p.moved = TRUE
    BY <2>1, Prepares
  <2> HIDE DEF p
  <2>3. d \in Sink /\ d.ring = <<>> /\ d.format = s.format /\ d.settled = TRUE /\ d.moved = TRUE
    BY <2>2, Drops
  <2>4. r = [d EXCEPT !.stream = "running", !.stranded = FALSE]
    BY DEF restart_stream_, p
  <2> HIDE DEF d, r
  <2> QED BY <2>3, <2>4 DEF Sink
<1>2. s.format \in Formats
  BY StreamFrames
<1> HIDE DEF r
<1>3. StreamInv(r)
  BY <1>1, <1>2, Starts
<1> QED BY <1>1, <1>3 DEF r

\* To disown what is in the ring changes nothing but whether it may be heard.
LEMMA Disowns ==
    ASSUME NEW s, StreamInv(s)
    PROVE  LET d == disown(s) IN
           /\ d \in Sink /\ Len(d.ring) = Len(s.ring) /\ d.ring \in Seq(Byte)
           /\ d = [s EXCEPT !.ring = d.ring]
           /\ \A i \in DOMAIN d.ring : i \in DOMAIN s.ring /\ d.ring[i].format = s.ring[i].format
<1> DEFINE r == [i \in DOMAIN s.ring |-> [s.ring[i] EXCEPT !.stale = TRUE]]
<1>1. s.ring \in Seq(Byte) /\ s \in Sink
  BY DEF StreamInv, Sink
<1>2. \A i \in DOMAIN s.ring : s.ring[i] \in Byte
  BY <1>1
<1>3. \A i \in DOMAIN s.ring : r[i] \in Byte /\ r[i].format = s.ring[i].format
  BY <1>2 DEF Byte
<1>4. DOMAIN s.ring = 1..Len(s.ring) /\ Len(s.ring) \in Nat
  BY <1>1
<1>5. r \in Seq(Byte) /\ Len(r) = Len(s.ring) /\ DOMAIN r = DOMAIN s.ring
  <2>1. r \in [1..Len(s.ring) -> Byte]
    BY <1>3, <1>4
  <2> HIDE DEF r
  <2> QED BY <1>4, <2>1
<1>6. disown(s) = [s EXCEPT !.ring = r]
  BY DEF disown
<1> HIDE DEF r
<1>7. disown(s) \in Sink /\ disown(s).ring = r
  BY <1>1, <1>5, <1>6 DEF Sink
<1> HIDE DEF disown
<1> QED BY <1>3, <1>5, <1>6, <1>7

-----------------------------------------------------------------------------
(* The threads.                                                             *)

\* A notification, a gain, and the end of a wait say nothing of what a stream is.
LEMMA SameStream ==
    ASSUME NEW s, NEW t \in Sink, StreamInv(s),
           t.stream = s.stream, t.format = s.format, t.ring = s.ring,
           t.clear_requested = s.clear_requested, t.moved = s.moved, t.stranded = s.stranded,
           (t.settled = s.settled /\ t.touched = s.touched) \/ t.touched \/ t.settled
    PROVE  /\ StreamInv(t)
           /\ \A w : WriterInv(w, s) => WriterInv(w, t)
           /\ \A c : CallbackInv(c, s) => CallbackInv(c, t)
<1>1. bytes_per_frame(t) = bytes_per_frame(s)
  BY DEF bytes_per_frame
<1>2. StreamInv(t)
  BY <1>1 DEF StreamInv
<1>3. ASSUME NEW w, WriterInv(w, s)
      PROVE  WriterInv(w, t)
  BY <1>1, <1>3 DEF WriterInv
<1>4. ASSUME NEW c, CallbackInv(c, s)
      PROVE  CallbackInv(c, t)
  BY <1>1, <1>4 DEF CallbackInv
<1> QED BY <1>2, <1>3, <1>4

\* A write() that waits while its stream is replaced has nothing more to do with it.
LEMMA LosesItsStream ==
    ASSUME NEW w, NEW v, NEW s, NEW t, WriterInv(w, s), w.pc \in {"idle", "parked"},
           v.pc = w.pc, v.format = w.format, v.length = w.length, v.left = w.left, v.bpf = w.bpf,
           t.moved
    PROVE  WriterInv(v, t)
  BY DEF WriterInv, Inside

\* To disown a writer changes only what it holds.
LEMMA Disowned ==
    ASSUME IInv
    PROVE  LET v == disowned_writer IN
           /\ v \in Writer /\ v.pc = writer.pc /\ v.format = writer.format
           /\ v.length = writer.length /\ v.left = writer.left /\ v.bpf = writer.bpf
  BY DEF IInv, Types, Writer, disowned_writer

\* configure() in a shutdown finds the device closed, and everybody's write() at its end.
LEMMA ConfigureIgnoredKeeps ==
    ASSUME IInv, NEW f \in Formats, main = "loop", mutex_free, ConfigureIgnored(f),
           player_format' = f, writer' = disowned_writer,
           UNCHANGED <<stopping, callback, main, written>>
    PROVE  IInv'
<1> USE DEF IInv
<1>1. Types'
  BY Disowned DEF Types, ConfigureIgnored
<1>2. PlayerInv' /\ sink.stream = "none"
  BY Disowned DEF PlayerInv, ConfigureIgnored, mutex_free
<1>3. WriterInv(writer', sink')
  BY <1>2, Disowned DEF WriterInv, Inside, mutex_free, ConfigureIgnored
<1>4. UNCHANGED <<sink, callback, recovery, tries, written>>
  BY DEF ConfigureIgnored
<1>5. RecoveryInv' /\ DiscardTakesAll'
  BY <1>4 DEF RecoveryInv, DiscardTakesAll
<1>6. StreamInv(sink') /\ CallbackInv(callback', sink')
  BY <1>4
<1> QED BY <1>1, <1>2, <1>3, <1>5, <1>6, Kept

\* One that finds no device strands the stream there is.
LEMMA ConfigureUnresolvedKeeps ==
    ASSUME IInv, NEW f \in Formats, main = "loop", mutex_free, ConfigureUnresolved(f),
           player_format' = f, writer' = disowned_writer,
           UNCHANGED <<stopping, callback, main, written>>
    PROVE  IInv'
<1> USE DEF IInv
<1> DEFINE d == disown(sink)
<1>1. /\ d \in Sink /\ Len(d.ring) = Len(sink.ring) /\ d.ring \in Seq(Byte)
      /\ d = [sink EXCEPT !.ring = d.ring]
      /\ DOMAIN d.ring = {} <=> DOMAIN sink.ring = {}
  BY Disowns DEF StreamInv, Sink
<1> HIDE DEF d
<1>2. sink' = [d EXCEPT !.stranded = (sink.stream # "none")]
  BY DEF ConfigureUnresolved, d
<1>3. /\ sink' \in Sink /\ sink'.stream = sink.stream /\ sink'.format = sink.format
      /\ sink'.ring = d.ring /\ sink'.moved = sink.moved /\ sink'.settled = sink.settled
      /\ sink'.touched = sink.touched
      /\ sink'.stranded = (sink.stream # "none")
  BY <1>1, <1>2 DEF StreamInv, Sink
<1>4. bytes_per_frame(sink') = bytes_per_frame(sink)
  BY <1>3 DEF bytes_per_frame
<1>5. sink.stream = "none" => sink'.ring = <<>>
  BY <1>1, <1>3 DEF StreamInv
<1>6. StreamInv(sink')
  <2>1. CASE sink.stream = "none"
    <3>1. Len(sink'.ring) = 0 /\ DOMAIN sink'.ring = {}
      BY <1>5, <2>1
    <3> QED BY <1>1, <1>3, <1>4, <1>5, <2>1, <3>1 DEF StreamInv
  <2>2. CASE sink.stream # "none"
    BY <1>1, <1>3, <1>4, <2>2 DEF StreamInv
  <2> QED BY <2>1, <2>2
<1>7. Types'
  BY Disowned DEF Types, ConfigureUnresolved
<1>8. PlayerInv'
  BY <1>3, Disowned DEF PlayerInv, ConfigureUnresolved, mutex_free
<1>9. WriterInv(writer', sink')
  BY <1>3, <1>4, Disowned DEF WriterInv, Inside, mutex_free
<1>10. CallbackInv(callback', sink')
  BY <1>3, <1>4 DEF CallbackInv
<1>11. RecoveryInv'
  BY <1>3 DEF RecoveryInv, ConfigureUnresolved
<1>12. DiscardTakesAll'
  BY DEF DiscardTakesAll
<1> QED BY <1>6, <1>7, <1>8, <1>9, <1>10, <1>11, <1>12, Kept

\* What a stream that is opened, reopened or closed does to everybody else.
LEMMA Replaces ==
    ASSUME IInv, ~ callback.busy, callback' = callback,
           StreamInv(sink'), ~ sink'.stranded
    PROVE  CallbackInv(callback', sink')
  BY DEF IInv, CallbackInv

\* One that reuses the stream starts it again.
LEMMA ConfigureReusesKeeps ==
    ASSUME IInv, NEW f \in Formats, main = "loop", mutex_free, ConfigureReuses(f),
           player_format' = f, writer' = disowned_writer,
           UNCHANGED <<stopping, callback, main, written>>
    PROVE  IInv'
<1> USE DEF IInv
<1>1. /\ StreamInv(sink') /\ sink'.stream = "running" /\ sink'.format = f
      /\ sink'.moved = TRUE /\ ~ sink'.stranded
  BY Restarts DEF ConfigureReuses
<1>2. CallbackInv(callback', sink')
  BY <1>1, Replaces DEF ConfigureReuses, callback_done
<1>3. WriterInv(writer', sink')
  BY <1>1, Disowned, LosesItsStream DEF mutex_free
<1>4. PlayerInv'
  BY <1>1, Disowned DEF PlayerInv, ConfigureReuses, mutex_free
<1>5. recovery' = fresh_recovery /\ tries' = [reopens |-> 0, rescans |-> 0]
  BY DEF ConfigureReuses, refill
<1>6. Types'
  BY <1>5, Disowned DEF Types, ConfigureReuses, Recovery, fresh_recovery
<1>7. RecoveryInv'
  BY <1>5 DEF RecoveryInv, fresh_recovery
<1>8. DiscardTakesAll'
  BY DEF DiscardTakesAll
<1> QED BY <1>1, <1>2, <1>3, <1>4, <1>6, <1>7, <1>8, Kept

\* One that opens another puts both attempts back in hand when that runs.
LEMMA ConfigureOpensKeeps ==
    ASSUME IInv, NEW f \in Formats, NEW outcome \in Outcomes,
           main = "loop", mutex_free, ConfigureOpens(f, outcome),
           player_format' = f, writer' = disowned_writer,
           UNCHANGED <<stopping, callback, main, written>>
    PROVE  IInv'
<1> USE DEF IInv
<1>1. /\ StreamInv(sink') /\ sink'.moved = TRUE /\ ~ sink'.stranded
      /\ IF outcome = "running" THEN sink'.stream = "running" /\ sink'.format = f
         ELSE sink'.stream = "none"
  <2>1. sink' = reopened(sink, f, outcome)
    BY DEF ConfigureOpens, reopened
  <2>2. Another(reopened(sink, f, outcome), f, outcome)
    BY Opens
  <2> QED BY <2>1, <2>2 DEF Another
<1>2. CallbackInv(callback', sink')
  BY <1>1, Replaces DEF ConfigureOpens, callback_done
<1>3. WriterInv(writer', sink')
  BY <1>1, Disowned, LosesItsStream DEF mutex_free
<1>4. PlayerInv'
  BY <1>1, Disowned DEF PlayerInv, ConfigureOpens, mutex_free
<1>0. DiscardTakesAll'
  BY DEF DiscardTakesAll
<1>5. CASE outcome = "running"
  <2>1. recovery' = fresh_recovery /\ tries' = [reopens |-> 0, rescans |-> 0]
    BY <1>5 DEF ConfigureOpens, refill
  <2>2. Types'
    BY <2>1, Disowned DEF Types, ConfigureOpens, Recovery, fresh_recovery
  <2>3. RecoveryInv'
    BY <2>1 DEF RecoveryInv, fresh_recovery
  <2> QED BY <1>0, <1>1, <1>2, <1>3, <1>4, <2>2, <2>3, Kept
<1>6. CASE outcome # "running"
  <2>1. UNCHANGED <<recovery, tries>>
    BY <1>6 DEF ConfigureOpens
  <2>2. Types'
    BY <2>1, Disowned DEF Types, ConfigureOpens
  <2>3. RecoveryInv'
    BY <1>1, <1>6, <2>1 DEF RecoveryInv
  <2> QED BY <1>0, <1>1, <1>2, <1>3, <1>4, <2>2, <2>3, Kept
<1> QED BY <1>5, <1>6

\* However configure() ends.
LEMMA ConfigureKeeps ==
    ASSUME IInv, NEW f \in Formats, configure(f)
    PROVE  IInv'
  BY ConfigureIgnoredKeeps, ConfigureUnresolvedKeeps, ConfigureReusesKeeps, ConfigureOpensKeeps
     DEF configure

\* A flush leaves nothing in the ring that may be heard, now or once it has been drained.
LEMMA ClearKeeps == IInv /\ clear => IInv'
<1> SUFFICES ASSUME IInv, clear PROVE IInv'
  OBVIOUS
<1> USE DEF IInv
<1> DEFINE d == disown(sink)
           s == [d EXCEPT !.moved = TRUE]
<1>1. /\ d \in Sink /\ Len(d.ring) = Len(sink.ring) /\ d.ring \in Seq(Byte)
      /\ d = [sink EXCEPT !.ring = d.ring]
      /\ \A i \in DOMAIN d.ring : i \in DOMAIN sink.ring /\ d.ring[i].format = sink.ring[i].format
  BY Disowns
<1>2. sink' = IF sink.stream = "running" THEN [s EXCEPT !.clear_requested = TRUE] ELSE drop(s)
  BY DEF clear
<1> HIDE DEF d
<1>3. /\ s \in Sink /\ s.stream = sink.stream /\ s.format = sink.format /\ s.ring = d.ring
      /\ s.moved = TRUE /\ s.settled = sink.settled /\ s.touched = sink.touched
      /\ s.stranded = sink.stranded
  BY <1>1 DEF StreamInv, Sink
<1> HIDE DEF s
<1>4. /\ sink' \in Sink /\ sink'.stream = sink.stream /\ sink'.format = sink.format
      /\ sink'.moved = TRUE /\ sink'.settled = sink.settled /\ sink'.touched = sink.touched
      /\ sink'.stranded = sink.stranded
      /\ IF sink.stream = "running" THEN sink'.ring = d.ring /\ sink'.clear_requested = TRUE
         ELSE sink'.ring = <<>>
  <2>1. CASE sink.stream = "running"
    BY <1>2, <1>3, <2>1 DEF Sink
  <2>2. CASE sink.stream # "running"
    BY <1>2, <1>3, <2>2, Drops
  <2> QED BY <2>1, <2>2
<1>5. bytes_per_frame(sink') = bytes_per_frame(sink)
  BY <1>4 DEF bytes_per_frame
<1>6. StreamInv(sink')
  <2>1. CASE sink.stream = "running"
    BY <1>1, <1>4, <1>5, <2>1 DEF StreamInv
  <2>2. CASE sink.stream = "dead"
    <3>1. Len(sink'.ring) = 0 /\ DOMAIN sink'.ring = {} /\ sink'.stream # "none"
      BY <1>4, <2>2
    <3>2. 0 % bytes_per_frame(sink) = 0 /\ 0 <= RingFrames * bytes_per_frame(sink)
      BY <2>2, StreamFrames, SinkAssumption
    <3> QED BY <1>4, <1>5, <3>1, <3>2 DEF StreamInv
  <2>3. CASE sink.stream = "none"
    BY <1>4, <1>5, <2>3 DEF StreamInv
  <2> QED BY <2>1, <2>2, <2>3 DEF StreamInv, Sink
<1>7. Types'
  BY Disowned DEF Types, clear
<1>8. PlayerInv' /\ RecoveryInv' /\ DiscardTakesAll'
  BY <1>4, Disowned DEF PlayerInv, RecoveryInv, DiscardTakesAll, mutex_free, clear
<1>9. WriterInv(writer', sink')
  BY <1>4, Disowned, LosesItsStream DEF clear, mutex_free
<1>10. CallbackInv(callback', sink')
  BY <1>4, <1>5 DEF CallbackInv, clear
<1> QED BY <1>6, <1>7, <1>8, <1>9, <1>10, Kept

\* A delay is a natural.
LEMMA DelayIsNat ==
    ASSUME NEW n \in Nat
    PROVE  delay_for_(n) \in Nat
<1>1. doubled = Doubling(SINK_RESCAN_DELAY_MS, SINK_RESCAN_MAX_DELAY_MS)
  BY DEF doubled, Doubling
<1>2. doubled \in [Nat -> Nat]
  BY <1>1, RecoveryConstants, DoublingDelay
<1> QED BY <1>2, RecoveryConstants DEF delay_for_

\* A poll() that is early stamps a deadline at most; one that is due spends the attempt.
LEMMA Polled ==
    ASSUME NEW r \in Recovery, NEW now_ms \in Nat, ~ r.rescan_in_flight, r.rescan_owed
    PROVE  LET q == after_rescan_due(r, now_ms)
               d == rescan_done(q, TRUE)
           IN  IF rescan_due(r, now_ms)
               THEN /\ d \in Recovery /\ ~ d.rescan_in_flight /\ ~ d.rescan_owed
                    /\ d.rescan_spent = TRUE /\ d.reopen_spent = r.reopen_spent
               ELSE /\ q \in Recovery /\ ~ q.rescan_in_flight
                    /\ q.rescan_owed = r.rescan_owed /\ q.rescan_spent = r.rescan_spent
                    /\ q.reopen_spent = r.reopen_spent
<1> DEFINE q == after_rescan_due(r, now_ms)
           d == rescan_done(q, TRUE)
<1>1. CASE rescan_due(r, now_ms)
  <2>1. q = [r EXCEPT !.rescan_attempts = @ + 1, !.rescan_in_flight = TRUE,
                      !.rescan_owed = FALSE]
    BY <1>1 DEF after_rescan_due
  <2> HIDE DEF q
  <2>0. r.rescan_attempts + 1 \in Nat
    BY DEF Recovery
  <2>2. /\ q \in Recovery /\ q.rescan_in_flight = TRUE
        /\ q.reopen_spent = r.reopen_spent
    BY <2>0, <2>1 DEF Recovery
  <2>3. d = [q EXCEPT !.rescan_in_flight = FALSE, !.rescan_spent = TRUE, !.rescan_owed = FALSE]
    BY <2>2 DEF rescan_done
  <2> QED BY <1>1, <2>2, <2>3 DEF Recovery, q
<1>2. CASE ~ rescan_due(r, now_ms)
  <2>1. r.rescan_attempts \in Nat
    BY DEF Recovery
  <2>2. now_ms + delay_for_(r.rescan_attempts) \in Nat
    BY <2>1, DelayIsNat
  <2>3. q = IF r.rescan_at_ms = NOT_STAMPED
            THEN [r EXCEPT !.rescan_at_ms = now_ms + delay_for_(r.rescan_attempts)]
            ELSE r
    BY <1>2 DEF after_rescan_due
  <2> QED BY <1>2, <2>2, <2>3 DEF Recovery
<1> QED BY <1>1, <1>2

\* poll() makes the second attempt on a stream that is dead, or only looks at the clock.
LEMMA PollKeeps ==
    ASSUME IInv, NEW now_ms \in Nat, poll(now_ms)
    PROVE  IInv'
<1> USE DEF IInv
<1>1. /\ recovery.rescan_owed /\ ~ recovery.rescan_in_flight /\ recovery \in Recovery
      /\ last_format \in Formats /\ last_format = player_format
      /\ UNCHANGED <<last_format, stopping, writer, callback, main, player_format, written>>
  BY DEF poll, pending, RecoveryInv, Types, PlayerInv
<1>2. DiscardTakesAll'
  BY <1>1 DEF DiscardTakesAll
<1>3. CASE rescan_due(recovery, now_ms)
  <2>1. /\ callback_done
        /\ recovery' = rescan_done(after_rescan_due(recovery, now_ms), TRUE)
        /\ tries' = [tries EXCEPT !.rescans = @ + 1]
        /\ \/ sink' = close_stream_(sink)
           \/ \E outcome \in Outcomes :
                 sink' = open_stream_(close_stream_(sink), last_format, outcome)
    BY <1>3 DEF poll
  <2>2. /\ recovery' \in Recovery /\ ~ recovery'.rescan_in_flight /\ ~ recovery'.rescan_owed
        /\ recovery'.rescan_spent = TRUE /\ recovery'.reopen_spent = recovery.reopen_spent
    BY <1>1, <1>3, <2>1, Polled
  <2>3. /\ StreamInv(sink') /\ sink'.moved = TRUE /\ ~ sink'.stranded
        /\ sink'.stream # "none" => sink'.format = player_format
    <3>1. CASE sink' = close_stream_(sink)
      BY <3>1, Closes DEF StreamInv
    <3>2. CASE \E outcome \in Outcomes :
                  sink' = open_stream_(close_stream_(sink), last_format, outcome)
      <4>1. PICK outcome \in Outcomes :
               sink' = open_stream_(close_stream_(sink), last_format, outcome)
        BY <3>2
      <4>2. /\ StreamInv(sink') /\ sink'.moved = TRUE /\ ~ sink'.stranded
            /\ IF outcome = "running" THEN sink'.stream = "running" /\ sink'.format = last_format
               ELSE sink'.stream = "none"
        <5>1. sink' = reopened(sink, last_format, outcome)
          BY <4>1 DEF reopened
        <5>2. Another(reopened(sink, last_format, outcome), last_format, outcome)
          BY <1>1, Opens
        <5> QED BY <5>1, <5>2 DEF Another
      <4> QED BY <1>1, <4>2
    <3> QED BY <2>1, <3>1, <3>2
  <2>4. tries'.reopens = tries.reopens /\ tries'.rescans = 1 /\ tries' \in [reopens : Nat, rescans : Nat]
    BY <1>1, <2>1 DEF Types, RecoveryInv
  <2>5. Types'
    BY <1>1, <2>2, <2>4 DEF Types
  <2>6. RecoveryInv'
    BY <2>2, <2>4 DEF RecoveryInv
  <2>7. PlayerInv'
    BY <1>1, <2>3 DEF PlayerInv, poll
  <2>8. CallbackInv(callback', sink')
    BY <1>1, <2>1, <2>3, Replaces DEF callback_done
  <2>9. WriterInv(writer', sink')
    BY <1>1, <2>3, LosesItsStream DEF poll, mutex_free
  <2> QED BY <1>2, <2>3, <2>5, <2>6, <2>7, <2>8, <2>9, Kept
<1>4. CASE ~ rescan_due(recovery, now_ms)
  <2>1. recovery' = after_rescan_due(recovery, now_ms) /\ UNCHANGED <<sink, tries>>
    BY <1>4 DEF poll
  <2>2. /\ recovery' \in Recovery /\ ~ recovery'.rescan_in_flight
        /\ recovery'.rescan_owed = recovery.rescan_owed
        /\ recovery'.rescan_spent = recovery.rescan_spent
        /\ recovery'.reopen_spent = recovery.reopen_spent
    BY <1>1, <1>4, <2>1, Polled
  <2>3. Types'
    BY <1>1, <2>1, <2>2 DEF Types
  <2>4. RecoveryInv'
    BY <2>1, <2>2 DEF RecoveryInv
  <2>5. PlayerInv'
    BY <1>1, <2>1 DEF PlayerInv
  <2>6. StreamInv(sink') /\ WriterInv(writer', sink') /\ CallbackInv(callback', sink')
    BY <1>1, <2>1
  <2> QED BY <1>2, <2>3, <2>4, <2>5, <2>6, Kept
<1> QED BY <1>3, <1>4

\* A volume moves the gain alone, and says so.
LEMMA VolumeKeeps == IInv /\ set_volume => IInv'
<1> SUFFICES ASSUME IInv, set_volume PROVE IInv'
  OBVIOUS
<1> USE DEF IInv
<1>1. PICK settled \in BOOLEAN :
         sink' = [sink EXCEPT !.settled = settled, !.touched = TRUE]
  BY DEF set_volume
<1>2. UNCHANGED <<last_format, recovery, stopping, writer, callback, main, player_format,
                  written, tries>>
  BY DEF set_volume
<1>3. /\ sink' \in Sink /\ sink'.stream = sink.stream /\ sink'.format = sink.format
      /\ sink'.ring = sink.ring /\ sink'.clear_requested = sink.clear_requested
      /\ sink'.moved = sink.moved /\ sink'.stranded = sink.stranded /\ sink'.touched = TRUE
  BY <1>1 DEF StreamInv, Sink
<1>4. StreamInv(sink') /\ WriterInv(writer', sink') /\ CallbackInv(callback', sink')
  BY <1>2, <1>3, SameStream
<1>5. Types' /\ PlayerInv' /\ RecoveryInv' /\ DiscardTakesAll'
  BY <1>2, <1>3 DEF Types, PlayerInv, RecoveryInv, DiscardTakesAll
<1> QED BY <1>4, <1>5, Kept

\* The latch moves nothing but the notification.
LEMMA LatchKeeps == IInv /\ StopLatch => IInv'
<1> SUFFICES ASSUME IInv, StopLatch PROVE IInv'
  OBVIOUS
<1> USE DEF IInv
<1>1. /\ sink' \in Sink /\ sink'.stream = sink.stream /\ sink'.format = sink.format
      /\ sink'.ring = sink.ring /\ sink'.clear_requested = sink.clear_requested
      /\ sink'.moved = sink.moved /\ sink'.stranded = sink.stranded
      /\ sink'.settled = sink.settled /\ sink'.touched = sink.touched
  BY DEF StopLatch, StreamInv, Sink, notify
<1>2. StreamInv(sink') /\ WriterInv(writer', sink') /\ CallbackInv(callback', sink')
  BY <1>1, SameStream DEF StopLatch
<1>3. Types' /\ PlayerInv' /\ RecoveryInv' /\ DiscardTakesAll'
  BY <1>1 DEF StopLatch, Types, PlayerInv, RecoveryInv, DiscardTakesAll
<1> QED BY <1>2, <1>3, Kept

\* stop() leaves no stream.
LEMMA CloseKeeps == IInv /\ StopClose => IInv'
<1> SUFFICES ASSUME IInv, StopClose PROVE IInv'
  OBVIOUS
<1> USE DEF IInv
<1>1. StreamInv(sink') /\ sink'.stream = "none" /\ (sink' = sink \/ sink'.moved = TRUE)
  BY Closes DEF StopClose
<1>2. ~ sink'.stranded
  BY <1>1 DEF StreamInv
<1>3. UNCHANGED <<recovery, stopping, writer, callback, player_format, written, tries>>
      /\ last_format' = None /\ main' = "loop" /\ stopping /\ ~ callback.busy
  BY DEF StopClose, PlayerInv, callback_done
<1>4. CallbackInv(callback', sink')
  BY <1>1, <1>2, <1>3, Replaces
<1>5. WriterInv(writer', sink')
  BY <1>1, <1>3, LosesItsStream DEF StopClose, mutex_free
<1>6. Types' /\ PlayerInv' /\ RecoveryInv' /\ DiscardTakesAll'
  BY <1>1, <1>3 DEF Types, PlayerInv, RecoveryInv, DiscardTakesAll
<1> QED BY <1>1, <1>4, <1>5, <1>6, Kept

-----------------------------------------------------------------------------
(* The sync task.                                                           *)

\* A write() that has found or got a stream, or neither: it holds whole frames of what
\* the player sends.
Begun(w) ==
    /\ w \in [pc : {"begun", "opened"}, format : Formats, stale : {FALSE}, stranded : BOOLEAN,
              length : Nat, left : Nat, bpf : Nat]
    /\ w.format = player_format /\ w.length % FrameBytes[w.format] = 0

\* One that ends leaves nothing behind but how it ended.
LEMMA Returns ==
    ASSUME NEW count, NEW w, NEW discarded, return(count, w, discarded),
           discarded /\ ~ w.stranded => count = w.length
    PROVE  /\ writer' \in Writer /\ writer'.pc = "idle" /\ DiscardTakesAll'
           /\ \A t : WriterInv(writer', t)
<1>1. writer' = idle_writer
  BY DEF return
<1>2. writer' \in Writer /\ writer'.pc = "idle"
  BY <1>1 DEF idle_writer, Writer
<1>3. \A t : WriterInv(writer', t)
  BY <1>2 DEF WriterInv, Inside
<1>4. DiscardTakesAll'
  BY DEF return, DiscardTakesAll
<1> QED BY <1>2, <1>3, <1>4

\* What is discarded is all of the buffer: the frame it is cut to is the player's.
LEMMA Discards ==
    ASSUME IInv, NEW w, Begun(w), NEW t, t.format \in {None, w.format} \/ w.stranded,
           discard(w, t)
    PROVE  /\ writer' \in Writer /\ writer'.pc = "idle" /\ DiscardTakesAll'
           /\ \A u : WriterInv(writer', u)
<1> DEFINE frame == IF bytes_per_frame(t) # 0 THEN bytes_per_frame(t) ELSE frame_bytes(last_format)
           count == IF frame = 0 THEN w.length ELSE w.length - (w.length % frame)
<1>1. return(count, w, TRUE)
  BY DEF discard
<1>2. last_format \in {None, w.format}
  BY DEF IInv, PlayerInv, Begun
<1>3. ~ w.stranded => frame \in {0, FrameBytes[w.format]}
  BY <1>2 DEF bytes_per_frame, frame_bytes
<1>4. w.length \in Nat /\ FrameBytes[w.format] \in Nat \ {0} /\ w.length % FrameBytes[w.format] = 0
  BY SinkAssumption DEF Begun
<1> HIDE DEF frame
<1>5. ~ w.stranded => count = w.length
  BY <1>3, <1>4, CutToFrames
<1> HIDE DEF count
<1> QED BY <1>1, <1>5, Returns

\* One that feeds a stream does so with whole frames of that stream.
LEMMA Feeds ==
    ASSUME NEW w, Begun(w), NEW s, StreamInv(s), s.stream # "none",
           s.stranded \/ s.format = w.format, feed(w, s)
    PROVE  /\ writer' \in Writer /\ writer'.pc \in {"idle", "loop"}
           /\ StreamInv(sink') /\ WriterInv(writer', sink')
           /\ CallbackInv(callback, s) => CallbackInv(callback, sink')
           /\ sink'.stream = s.stream /\ sink'.format = s.format /\ sink'.stranded = s.stranded
           /\ DiscardTakesAll \/ written' # written => DiscardTakesAll'
<1> DEFINE c == bytes_per_frame(s)
           usable == w.length - (w.length % c)
<1>1. c \in Nat \ {0}
  BY StreamFrames
<1> HIDE DEF c
<1>2. usable \in Nat /\ usable % c = 0
  BY <1>1, CutToFrames DEF Begun
<1> HIDE DEF usable
<1>3. CASE usable = 0
  <2>1. sink' = s /\ return(0, w, FALSE)
    BY <1>3 DEF feed, usable, c
  <2>2. /\ writer' \in Writer /\ writer'.pc = "idle" /\ DiscardTakesAll'
        /\ \A t : WriterInv(writer', t)
    BY <2>1, Returns
  <2> QED BY <2>1, <2>2
<1>4. CASE usable # 0
  <2>1. /\ sink' = [s EXCEPT !.moved = FALSE]
        /\ writer' = [w EXCEPT !.pc = "loop", !.left = usable, !.bpf = c, !.stranded = s.stranded]
        /\ written' = written
    BY <1>4 DEF feed, usable, c
  <2>2. /\ sink' \in Sink /\ sink'.stream = s.stream /\ sink'.format = s.format
        /\ sink'.ring = s.ring /\ sink'.clear_requested = s.clear_requested
        /\ sink'.settled = s.settled /\ sink'.touched = s.touched
        /\ sink'.moved = FALSE /\ sink'.stranded = s.stranded
    BY <2>1 DEF StreamInv, Sink
  <2>3. bytes_per_frame(sink') = c
    BY <2>2 DEF c, bytes_per_frame
  <2>4. StreamInv(sink')
    BY <2>2, <2>3 DEF StreamInv, c
  <2>5. s.stranded \in BOOLEAN
    BY DEF StreamInv, Sink
  <2>6. /\ writer' \in Writer /\ writer'.pc = "loop" /\ writer'.left = usable /\ writer'.bpf = c
        /\ writer'.format = w.format /\ writer'.length = w.length /\ ~ writer'.stale
        /\ writer'.format \in Formats
    BY <1>1, <1>2, <2>1, <2>5 DEF Begun, Writer
  <2>7. w.length % FrameBytes[w.format] = 0
    BY DEF Begun
  <2>8. WriterInv(writer', sink')
    BY <1>1, <1>2, <2>2, <2>3, <2>6, <2>7 DEF WriterInv, Inside
  <2>9. CallbackInv(callback, s) => CallbackInv(callback, sink')
    BY <2>2, <2>3 DEF CallbackInv, c
  <2>10. DiscardTakesAll => DiscardTakesAll'
    BY <2>1 DEF DiscardTakesAll
  <2> QED BY <2>1, <2>2, <2>4, <2>6, <2>8, <2>9, <2>10
<1> QED BY <1>3, <1>4

\* To ask for the first attempt spends it, or leaves the second one owed; so does its failure.
LEMMA Asked ==
    ASSUME NEW r \in Recovery, ~ r.rescan_in_flight, r.rescan_owed => ~ r.rescan_spent
    PROVE  LET q == after_reopen_due(r)
               e == reopen_done(q, FALSE)
           IN  /\ q \in Recovery /\ ~ q.rescan_in_flight /\ q.reopen_spent = TRUE
               /\ q.rescan_spent = r.rescan_spent /\ (q.rescan_owed => ~ q.rescan_spent)
               /\ reopen_due(r) => q.rescan_owed = r.rescan_owed
               /\ e \in Recovery /\ ~ e.rescan_in_flight /\ e.reopen_spent = TRUE
               /\ e.rescan_spent = r.rescan_spent /\ (e.rescan_owed => ~ e.rescan_spent)
               /\ reopen_done(q, TRUE) = q
<1> DEFINE q == after_reopen_due(r)
           e == reopen_done(q, FALSE)
<1>1. /\ q \in Recovery /\ ~ q.rescan_in_flight /\ q.reopen_spent = TRUE
      /\ q.rescan_spent = r.rescan_spent /\ (q.rescan_owed => ~ q.rescan_spent)
      /\ reopen_due(r) => q.rescan_owed = r.rescan_owed
  BY DEF after_reopen_due, reopen_due, escalate_, Recovery
<1> HIDE DEF q
<1>2. /\ e \in Recovery /\ ~ e.rescan_in_flight /\ e.reopen_spent = TRUE
      /\ e.rescan_spent = r.rescan_spent /\ (e.rescan_owed => ~ e.rescan_spent)
  BY <1>1 DEF reopen_done, escalate_, Recovery
<1>3. reopen_done(q, TRUE) = q
  BY DEF reopen_done
<1> QED BY <1>1, <1>2, <1>3 DEF q

\* A write() that finds its stream dead, or none, reopens it once at most, and discards.
LEMMA ReopenKeeps ==
    ASSUME IInv, NEW w, Begun(w), w.stranded = sink.stranded, writer.pc = "idle",
           sink.stream # "running", reopen_in_place_(w),
           UNCHANGED <<last_format, stopping, callback, main, player_format>>
    PROVE  IInv'
<1> USE DEF IInv
<1> DEFINE asked == after_reopen_due(recovery)
           failed == reopen_done(asked, FALSE)
<1>1. /\ ~ callback.busy /\ recovery \in Recovery /\ ~ recovery.rescan_in_flight
      /\ recovery.rescan_owed => ~ recovery.rescan_spent
  BY DEF CallbackInv, RecoveryInv, Types
<1>2. /\ asked \in Recovery /\ ~ asked.rescan_in_flight /\ asked.reopen_spent = TRUE
      /\ asked.rescan_spent = recovery.rescan_spent /\ (asked.rescan_owed => ~ asked.rescan_spent)
      /\ reopen_due(recovery) => asked.rescan_owed = recovery.rescan_owed
      /\ failed \in Recovery /\ ~ failed.rescan_in_flight /\ failed.reopen_spent = TRUE
      /\ failed.rescan_spent = recovery.rescan_spent
      /\ failed.rescan_owed => ~ failed.rescan_spent
      /\ reopen_done(asked, TRUE) = asked
  BY <1>1, Asked
<1>3. sink.format \in {None, w.format} \/ w.stranded
  BY DEF StreamInv, PlayerInv, Begun
<1>4. ASSUME discard(w, sink), UNCHANGED <<sink, tries>>,
             recovery' \in {recovery, asked, failed},
             recovery' = recovery \/ can_reopen
      PROVE  IInv'
  <2>1. /\ writer' \in Writer /\ writer'.pc = "idle" /\ DiscardTakesAll'
        /\ WriterInv(writer', sink')
    BY <1>3, <1>4, Discards
  <2>2. Types' /\ PlayerInv'
    BY <1>1, <1>2, <1>4, <2>1 DEF Types, PlayerInv
  <2>3. StreamInv(sink') /\ CallbackInv(callback', sink')
    BY <1>4
  <2>4. RecoveryInv'
    <3>1. CASE recovery' = recovery
      BY <1>4, <3>1 DEF RecoveryInv
    <3>2. CASE recovery' = asked
      <4> HIDE DEF asked, failed
      <4> QED BY <1>2, <1>4, <3>2 DEF RecoveryInv, Types
    <3>3. CASE recovery' = failed
      <4> HIDE DEF asked, failed
      <4> QED BY <1>2, <1>4, <3>3 DEF RecoveryInv, Types
    <3> QED BY <1>4, <3>1, <3>2, <3>3
  <2> QED BY <2>1, <2>2, <2>3, <2>4, Kept
<1>5. ASSUME can_reopen, reopen_due(recovery), NEW outcome \in Outcomes,
             sink' = open_stream_(close_stream_(sink), last_format, outcome),
             recovery' = reopen_done(asked, outcome = "running"),
             tries' = [tries EXCEPT !.reopens = @ + 1],
             IF outcome = "running"
             THEN writer' = [w EXCEPT !.pc = "opened"] /\ UNCHANGED written
             ELSE discard(w, sink')
      PROVE  IInv'
  <2>1. last_format \in Formats /\ last_format = player_format /\ ~ stopping
    BY <1>5 DEF can_reopen, Types, PlayerInv
  <2>2. /\ StreamInv(sink') /\ sink'.moved = TRUE /\ ~ sink'.stranded
        /\ IF outcome = "running" THEN sink'.stream = "running" /\ sink'.format = last_format
           ELSE sink'.stream = "none"
    <3>1. sink' = reopened(sink, last_format, outcome)
      BY <1>5 DEF reopened
    <3>2. Another(reopened(sink, last_format, outcome), last_format, outcome)
      BY <2>1, Opens
    <3> QED BY <3>1, <3>2 DEF Another
  <2>3. CallbackInv(callback', sink')
    BY <1>1, <2>2, Replaces
  <2>4. tries' \in [reopens : Nat, rescans : Nat] /\ tries'.reopens = 1 /\ tries'.rescans = tries.rescans
    BY <1>5 DEF RecoveryInv, Types, reopen_due
  <2>5. CASE outcome = "running"
    <3>1. recovery' = asked /\ writer' = [w EXCEPT !.pc = "opened"] /\ UNCHANGED written
      BY <1>2, <1>5, <2>5
    <3>2. /\ writer' \in Writer /\ writer'.pc = "opened" /\ writer'.format = w.format
          /\ writer'.length = w.length /\ ~ writer'.stale /\ w.format \in Formats
          /\ w.format = player_format /\ w.length % FrameBytes[w.format] = 0
      BY <3>1 DEF Begun, Writer
    <3>3. WriterInv(writer', sink')
      BY <2>2, <2>5, <3>2 DEF WriterInv, Inside
    <3>5. ~ asked.rescan_owed
      BY <1>2, <1>5 DEF RecoveryInv, reopen_due
    <3> HIDE DEF asked, failed
    <3>4. Types' /\ PlayerInv'
      <4>1. Types'
        BY <1>2, <2>2, <2>4, <3>1, <3>2 DEF Types, StreamInv
      <4>2. PlayerInv'
        BY <2>1, <2>2, <2>5, <3>2 DEF PlayerInv
      <4> QED BY <4>1, <4>2
    <3>6. RecoveryInv'
      BY <1>2, <2>4, <3>1, <3>5 DEF RecoveryInv
    <3>7. DiscardTakesAll'
      BY <3>1 DEF DiscardTakesAll
    <3> QED BY <2>2, <2>3, <3>3, <3>4, <3>6, <3>7, Kept
  <2>6. CASE outcome # "running"
    <3>1. recovery' = failed /\ discard(w, sink')
      BY <1>5, <2>6
    <3>2. sink'.stream = "none" /\ sink'.format = None
      BY <2>2, <2>6 DEF StreamInv
    <3>3. /\ writer' \in Writer /\ writer'.pc = "idle" /\ DiscardTakesAll'
          /\ WriterInv(writer', sink')
      BY <3>1, <3>2, Discards
    <3>4. Types' /\ PlayerInv'
      BY <1>2, <2>1, <2>2, <2>4, <3>1, <3>2, <3>3 DEF Types, PlayerInv
    <3> HIDE DEF asked, failed
    <3>5. RecoveryInv'
      BY <1>2, <2>4, <3>1, <3>2 DEF RecoveryInv
    <3> QED BY <2>2, <2>3, <3>3, <3>4, <3>5, Kept
  <2> QED BY <2>5, <2>6
<1> HIDE DEF IInv
<1> QED BY <1>4, <1>5 DEF reopen_in_place_

\* A write() begins with what the player sends now, on the stream there is or another.
LEMMA WriteKeeps ==
    ASSUME IInv, NEW frames \in 1..MaxFrames, write(frames)
    PROVE  IInv'
<1> USE DEF IInv
<1> DEFINE w == [idle_writer EXCEPT !.pc = "begun", !.format = player_format,
                                    !.length = frames * FrameBytes[player_format],
                                    !.stranded = sink.stranded]
<1>1. /\ writer.pc = "idle" /\ player_format \in Formats
      /\ UNCHANGED <<last_format, stopping, callback, main, player_format>>
      /\ IF sink.stream = "running"
         THEN feed(w, sink) /\ UNCHANGED <<recovery, tries>>
         ELSE reopen_in_place_(w)
  BY DEF write, Types
<1>2. frames \in Nat /\ FrameBytes[player_format] \in Nat \ {0}
  BY <1>1, SinkAssumption
<1>3. /\ frames * FrameBytes[player_format] \in Nat
      /\ (frames * FrameBytes[player_format]) % FrameBytes[player_format] = 0
  BY <1>2, Frames
<1>4. sink.stranded \in BOOLEAN
  BY DEF StreamInv, Sink
<1>5. Begun(w) /\ w.stranded = sink.stranded /\ w.format = player_format
  BY <1>1, <1>3, <1>4 DEF Begun, idle_writer
<1> HIDE DEF w
<1>6. CASE sink.stream = "running"
  <2>1. feed(w, sink) /\ UNCHANGED <<recovery, tries>>
    BY <1>1, <1>6
  <2>2. /\ writer' \in Writer /\ writer'.pc \in {"idle", "loop"}
        /\ StreamInv(sink') /\ WriterInv(writer', sink') /\ CallbackInv(callback, sink')
        /\ sink'.stream = sink.stream /\ sink'.format = sink.format
        /\ sink'.stranded = sink.stranded /\ DiscardTakesAll'
    BY <1>5, <1>6, <2>1, Feeds DEF PlayerInv
  <2>3. Types' /\ PlayerInv' /\ RecoveryInv' /\ CallbackInv(callback', sink')
    BY <1>1, <2>1, <2>2 DEF Types, PlayerInv, RecoveryInv, StreamInv
  <2> QED BY <2>2, <2>3, Kept
<1>7. CASE sink.stream # "running"
  BY <1>1, <1>5, <1>7, ReopenKeeps
<1> QED BY <1>6, <1>7

\* A write() that reopened the stream feeds it, or closes it again in a shutdown.
LEMMA ReopenedKeeps == IInv /\ WriteReopened => IInv'
<1> SUFFICES ASSUME IInv, WriteReopened PROVE IInv'
  OBVIOUS
<1> USE DEF IInv
<1>1. /\ writer.pc = "opened"
      /\ UNCHANGED <<last_format, recovery, stopping, callback, main, player_format, tries>>
  BY DEF WriteReopened
<1>2. Begun(writer) /\ sink.stream # "none" /\ ~ sink.stranded /\ sink.format = writer.format
  BY <1>1 DEF Begun, Types, Writer, WriterInv, PlayerInv
<1>3. CASE stopping
  <2>1. callback_done /\ sink' = close_stream_(sink) /\ discard(writer, sink')
    BY <1>3 DEF WriteReopened
  <2>2. StreamInv(sink') /\ sink'.stream = "none"
    BY <2>1, Closes
  <2>3. sink'.format = None /\ ~ sink'.stranded
    BY <2>2 DEF StreamInv
  <2>4. /\ writer' \in Writer /\ writer'.pc = "idle" /\ DiscardTakesAll'
        /\ WriterInv(writer', sink')
    BY <1>2, <2>1, <2>3, Discards
  <2>5. CallbackInv(callback', sink')
    BY <1>1, <2>1, <2>2, <2>3, Replaces DEF callback_done
  <2>6. Types' /\ PlayerInv' /\ RecoveryInv'
    BY <1>1, <2>2, <2>3, <2>4 DEF Types, PlayerInv, RecoveryInv, StreamInv
  <2> QED BY <2>2, <2>4, <2>5, <2>6, Kept
<1>4. CASE ~ stopping
  <2>1. feed(writer, sink)
    BY <1>4 DEF WriteReopened
  <2>2. /\ writer' \in Writer /\ writer'.pc \in {"idle", "loop"}
        /\ StreamInv(sink') /\ WriterInv(writer', sink') /\ CallbackInv(callback, sink')
        /\ sink'.stream = sink.stream /\ sink'.format = sink.format
        /\ sink'.stranded = sink.stranded /\ DiscardTakesAll'
    BY <1>2, <2>1, Feeds
  <2>3. Types' /\ PlayerInv' /\ RecoveryInv' /\ CallbackInv(callback', sink')
    BY <1>1, <2>2 DEF Types, PlayerInv, RecoveryInv, StreamInv
  <2> QED BY <2>2, <2>3, Kept
<1> QED BY <1>3, <1>4

\* A step of write() that leaves the stream alone, and ends or goes on waiting.
LEMMA WriterMoves ==
    ASSUME IInv, writer' \in Writer, writer'.pc # "opened", WriterInv(writer', sink'),
           StreamInv(sink'), CallbackInv(callback, sink'),
           sink'.stream = sink.stream, sink'.format = sink.format, sink'.stranded = sink.stranded,
           DiscardTakesAll',
           UNCHANGED <<last_format, recovery, stopping, callback, main, player_format, tries>>
    PROVE  IInv'
<1> USE DEF IInv
<1>1. Types' /\ PlayerInv' /\ RecoveryInv'
  BY DEF Types, PlayerInv, RecoveryInv, StreamInv
<1>2. CallbackInv(callback', sink')
  OBVIOUS
<1> QED BY <1>1, <1>2, Kept

\* One that ends early says how far it got.
LEMMA EndsEarly ==
    ASSUME IInv, NEW count, return(count, writer, FALSE),
           UNCHANGED <<sink, last_format, recovery, stopping, callback, main, player_format, tries>>
    PROVE  IInv'
<1> USE DEF IInv
<1>1. /\ writer' \in Writer /\ writer'.pc = "idle" /\ DiscardTakesAll'
      /\ WriterInv(writer', sink')
  BY Returns
<1>2. StreamInv(sink') /\ CallbackInv(callback, sink')
  OBVIOUS
<1> QED BY <1>1, <1>2, WriterMoves

\* One that goes on from one place inside its loop to another.
LEMMA GoesOn ==
    ASSUME IInv, writer.pc \in Inside, NEW pc \in Inside, pc # "parked" => ~ sink.moved,
           writer' = [writer EXCEPT !.pc = pc], sink' = sink, written' = written,
           UNCHANGED <<last_format, recovery, stopping, callback, main, player_format, tries>>
    PROVE  IInv'
<1> USE DEF IInv
<1>1. /\ writer' \in Writer /\ writer'.pc = pc /\ writer'.format = writer.format
      /\ writer'.length = writer.length /\ writer'.left = writer.left /\ writer'.bpf = writer.bpf
      /\ writer'.stale = writer.stale /\ pc # "opened" /\ writer.pc # "idle"
  BY DEF Types, Writer, Inside
<1>2. WriterInv(writer', sink')
  BY <1>1 DEF WriterInv, Inside
<1>3. StreamInv(sink') /\ CallbackInv(callback, sink') /\ DiscardTakesAll'
  BY DEF DiscardTakesAll
<1> QED BY <1>1, <1>2, <1>3, WriterMoves

\* What lands in the ring is whole frames of the stream's format, and there is room for them.
LEMMA LandsKeeps == IInv /\ WriteLands => IInv'
<1> SUFFICES ASSUME IInv, WriteLands PROVE IInv'
  OBVIOUS
<1> USE DEF IInv
<1> DEFINE c == bytes_per_frame(sink)
           free == free_space(sink)
           left == writer.left
           n == IF left < room THEN left ELSE room
           more == [i \in 1..n |-> [format |-> writer.format, stale |-> writer.stale]]
           ring == sink.ring \o more
<1>1. /\ writer.pc = "loop" /\ room > 0
      /\ sink' = [sink EXCEPT !.ring = ring]
      /\ IF n = left THEN return(done + n, writer, FALSE)
         ELSE writer' = [writer EXCEPT !.left = left - n] /\ UNCHANGED written
      /\ UNCHANGED <<last_format, recovery, stopping, callback, main, player_format, tries>>
  BY DEF WriteLands
<1>2. /\ ~ sink.moved /\ sink.stream # "none" /\ writer.bpf = c /\ left % c = 0
      /\ writer.format \in Formats /\ writer.stale \in BOOLEAN /\ left \in Nat
      /\ ~ sink.stranded => writer.format = sink.format /\ ~ writer.stale
      /\ writer.length % FrameBytes[writer.format] = 0
  BY <1>1 DEF WriterInv, Inside, Types, Writer
<1>3. c \in Nat \ {0} /\ free \in Nat /\ free % c = 0 /\ Len(sink.ring) \in Nat
      /\ free = RingFrames * c - Len(sink.ring)
  BY <1>2, StreamFrames DEF free_space
<1>4. room = IF free < left THEN free - (free % c) ELSE free
  BY <1>2 DEF room
<1> HIDE DEF c, free, left
<1>5. room = free
  BY <1>3, <1>4
<1>6. n \in Nat /\ n <= left /\ n <= free /\ n % c = 0
  BY <1>2, <1>3, <1>5
<1> HIDE DEF n
<1>7. /\ more \in Seq(Byte) /\ Len(more) = n
      /\ \A i \in 1..n : more[i].format = writer.format /\ more[i].stale = writer.stale
  <2>1. [format |-> writer.format, stale |-> writer.stale] \in Byte
    BY <1>2 DEF Byte
  <2>2. more \in [1..n -> Byte]
    BY <2>1
  <2>3. \A i \in 1..n : more[i].format = writer.format /\ more[i].stale = writer.stale
    OBVIOUS
  <2> HIDE DEF more
  <2> QED BY <1>6, <2>2, <2>3
<1> HIDE DEF more
<1>8. sink \in Sink /\ sink.ring \in Seq(Byte)
  BY DEF StreamInv, Sink
<1>9. /\ ring \in Seq(Byte) /\ Len(ring) = Len(sink.ring) + n
      /\ \A i \in DOMAIN ring : \/ i \in DOMAIN sink.ring /\ ring[i] = sink.ring[i]
                                \/ i - Len(sink.ring) \in 1..n /\ ring[i] = more[i - Len(sink.ring)]
  <2>1. ring \in Seq(Byte) /\ Len(ring) = Len(sink.ring) + n
    <3>1. ring \in Seq(Byte) /\ Len(ring) = Len(sink.ring) + Len(more)
      BY <1>7, <1>8, ConcatProperties
    <3> QED BY <1>7, <3>1
  <2>2. \A i \in 1 .. Len(ring) : ring[i] = IF i <= Len(sink.ring) THEN sink.ring[i]
                                            ELSE more[i - Len(sink.ring)]
    BY <1>7, <1>8
  <2>3. DOMAIN ring = 1 .. Len(ring) /\ DOMAIN sink.ring = 1 .. Len(sink.ring)
    BY <1>8, <2>1
  <2>4. Len(sink.ring) \in Nat
    BY <1>8
  <2> HIDE DEF ring
  <2> QED BY <1>6, <2>1, <2>2, <2>3, <2>4
<1> HIDE DEF ring
<1>10. /\ sink' \in Sink /\ sink'.stream = sink.stream /\ sink'.format = sink.format
       /\ sink'.ring = ring /\ sink'.clear_requested = sink.clear_requested
       /\ sink'.moved = sink.moved /\ sink'.settled = sink.settled
       /\ sink'.touched = sink.touched /\ sink'.stranded = sink.stranded
  BY <1>1, <1>8, <1>9 DEF Sink
<1>11. bytes_per_frame(sink') = c
  BY <1>10 DEF bytes_per_frame, c
<1>12. Len(ring) <= RingFrames * c /\ Len(ring) % c = 0
  <2>1. Len(sink.ring) % c = 0
    BY <1>2 DEF StreamInv, c
  <2>2. (Len(sink.ring) + n) % c = 0
    BY <1>3, <1>6, <2>1, WholeFrames
  <2>3. Len(sink.ring) + n <= RingFrames * c
    <3>1. RingFrames * c \in Nat
      BY <1>3, SinkAssumption
    <3> QED BY <1>3, <1>6, <3>1
  <2> QED BY <1>9, <2>2, <2>3
<1>13. ~ sink.stranded => \A i \in DOMAIN ring : ring[i].format = sink.format
  BY <1>2, <1>7, <1>9 DEF StreamInv
<1>14. ~ sink.stranded /\ ~ sink.clear_requested => \A i \in DOMAIN ring : ~ ring[i].stale
  BY <1>2, <1>7, <1>9 DEF StreamInv
<1>15. StreamInv(sink')
  BY <1>2, <1>10, <1>11, <1>12, <1>13, <1>14 DEF StreamInv
<1>16. CallbackInv(callback, sink')
  BY <1>10, <1>11 DEF CallbackInv, c
<1>17. CASE n = left
  <2>1. return(done + n, writer, FALSE)
    BY <1>1, <1>17
  <2>2. /\ writer' \in Writer /\ writer'.pc = "idle" /\ DiscardTakesAll'
        /\ WriterInv(writer', sink')
    BY <2>1, Returns
  <2> QED BY <1>1, <1>10, <1>15, <1>16, <2>2, WriterMoves
<1>18. CASE n # left
  <2>1. writer' = [writer EXCEPT !.left = left - n] /\ written' = written
    BY <1>1, <1>18
  <2>2. left - n \in Nat /\ (left - n) % c = 0
    <3>1. left - n \in Nat
      BY <1>2, <1>6
    <3>2. (left - n) % c = 0
      BY <1>2, <1>3, <1>6, WholeFrames
    <3> QED BY <3>1, <3>2
  <2>3. /\ writer' \in Writer /\ writer'.pc = "loop" /\ writer'.left = left - n
        /\ writer'.format = writer.format /\ writer'.length = writer.length
        /\ writer'.bpf = writer.bpf /\ writer'.stale = writer.stale
    BY <1>1, <2>1, <2>2 DEF Types, Writer
  <2>4. WriterInv(writer', sink')
    BY <1>2, <1>3, <1>10, <1>11, <2>2, <2>3 DEF WriterInv, Inside
  <2>5. DiscardTakesAll'
    BY <2>1 DEF DiscardTakesAll
  <2> QED BY <1>1, <1>10, <1>15, <1>16, <2>3, <2>4, <2>5, WriterMoves
<1> QED BY <1>17, <1>18

\* The turns of the loop that leave the ring alone.
LEMMA LoopKeeps ==
    ASSUME IInv, WriteStops \/ WriteWaits \/ WriteSleeps \/ WriteWakes \/ WriteTimesOut
    PROVE  IInv'
<1>1. writer.pc \in {"loop", "waiting"} => ~ sink.moved
  BY DEF IInv, WriterInv
<1>2. CASE WriteStops
  BY <1>2, EndsEarly DEF WriteStops
<1>3. CASE WriteWaits
  BY <1>1, <1>3, GoesOn DEF WriteWaits, Inside
<1>4. CASE WriteSleeps
  <2> USE DEF IInv
  <2>1. /\ writer.pc = "waiting" /\ writer' = [writer EXCEPT !.pc = "parked"]
        /\ sink' = [sink EXCEPT !.notified = FALSE] /\ written' = written
        /\ UNCHANGED <<last_format, recovery, stopping, callback, main, player_format, tries>>
    BY <1>4 DEF WriteSleeps
  <2>2. /\ sink' \in Sink /\ sink'.stream = sink.stream /\ sink'.format = sink.format
        /\ sink'.ring = sink.ring /\ sink'.clear_requested = sink.clear_requested
        /\ sink'.moved = sink.moved /\ sink'.stranded = sink.stranded
        /\ sink'.settled = sink.settled /\ sink'.touched = sink.touched
    BY <2>1 DEF StreamInv, Sink
  <2>3. StreamInv(sink') /\ WriterInv(writer, sink') /\ CallbackInv(callback, sink')
    BY <2>2, SameStream
  <2>4. /\ writer' \in Writer /\ writer'.pc = "parked" /\ writer'.format = writer.format
        /\ writer'.length = writer.length /\ writer'.left = writer.left
        /\ writer'.bpf = writer.bpf /\ writer'.stale = writer.stale
    BY <2>1 DEF Types, Writer
  <2>5. WriterInv(writer', sink') /\ DiscardTakesAll'
    BY <2>1, <2>3, <2>4 DEF WriterInv, Inside, DiscardTakesAll
  <2> QED BY <2>1, <2>2, <2>3, <2>4, <2>5, WriterMoves
<1>5. ASSUME writer.pc = "parked", resume,
             UNCHANGED <<sink, last_format, recovery, stopping, callback, main, player_format, tries>>
      PROVE  IInv'
  <2>1. CASE return(done, writer, FALSE)
    BY <1>5, <2>1, EndsEarly
  <2>2. CASE ~ sink.moved /\ writer' = [writer EXCEPT !.pc = "loop"] /\ UNCHANGED written
    BY <1>5, <2>2, GoesOn DEF Inside
  <2> QED BY <1>5, <2>1, <2>2 DEF resume
<1>6. CASE WriteWakes
  <2>1. CASE resume
    BY <1>5, <1>6, <2>1 DEF WriteWakes
  <2>2. CASE ~ worth_waking /\ writer' = [writer EXCEPT !.pc = "waiting"] /\ UNCHANGED written
    BY <1>6, <2>2, GoesOn DEF WriteWakes, worth_waking, Inside
  <2> QED BY <1>6, <2>1, <2>2 DEF WriteWakes
<1>7. CASE WriteTimesOut
  <2>1. CASE resume
    BY <1>5, <1>7, <2>1 DEF WriteTimesOut
  <2>2. CASE return(done, writer, FALSE)
    BY <1>7, <2>2, EndsEarly DEF WriteTimesOut
  <2> QED BY <1>7, <2>1, <2>2 DEF WriteTimesOut
<1> QED BY <1>2, <1>3, <1>4, <1>6, <1>7

-----------------------------------------------------------------------------
(* The audio thread, and the device.                                        *)

\* What a callback reads it takes out of the ring, in whole frames; a drain takes all.
LEMMA ReadsKeep ==
    ASSUME IInv, NEW n \in 1..MaxFrames, CallbackReads(n)
    PROVE  IInv'
<1> USE DEF IInv
<1> DEFINE c == bytes_per_frame(sink)
           l == Len(sink.ring)
           wanted == n * c
           bytes == IF sink.clear_requested THEN 0 ELSE IF wanted < l THEN wanted ELSE l
           rest == SubSeq(sink.ring, bytes + 1, l)
<1>1. /\ sink.stream = "running"
      /\ callback' = [busy |-> TRUE, bytes |-> bytes, bpf |-> c,
                      heard |-> {sink.ring[i] : i \in 1..bytes}]
      /\ sink' = IF sink.clear_requested THEN drop(sink) ELSE [sink EXCEPT !.ring = rest]
      /\ UNCHANGED <<last_format, recovery, stopping, writer, main, player_format, written, tries>>
  BY DEF CallbackReads
<1>2. sink \in Sink /\ sink.ring \in Seq(Byte) /\ l \in Nat /\ sink.clear_requested \in BOOLEAN
  BY DEF StreamInv, Sink
<1>3. c \in Nat \ {0}
  BY <1>1, StreamFrames
<1>4. l % c = 0 /\ l <= RingFrames * c
  BY <1>1 DEF StreamInv
<1>5. wanted \in Nat /\ wanted % c = 0
  <2>1. n \in Nat
    BY SinkAssumption
  <2> HIDE DEF c
  <2> QED BY <1>3, <2>1, Frames
<1> HIDE DEF c, l, wanted
<1>6. bytes \in Nat /\ bytes <= l /\ bytes % c = 0
  BY <1>2, <1>3, <1>4, <1>5
<1>7. sink.clear_requested => bytes = 0
  OBVIOUS
<1> HIDE DEF bytes
<1>8. /\ rest \in Seq(Byte) /\ Len(rest) = l - bytes
      /\ \A i \in DOMAIN rest : bytes + i \in DOMAIN sink.ring /\ rest[i] = sink.ring[bytes + i]
  BY <1>2, <1>6 DEF l
<1> HIDE DEF rest
<1>9. /\ sink' \in Sink /\ sink'.stream = "running" /\ sink'.format = sink.format
      /\ sink'.moved = sink.moved /\ sink'.settled = sink.settled
      /\ sink'.touched = sink.touched /\ sink'.stranded = sink.stranded
      /\ sink'.clear_requested = FALSE
      /\ IF sink.clear_requested THEN sink'.ring = <<>> ELSE sink'.ring = rest
  <2>1. CASE sink.clear_requested
    BY <1>1, <1>2, <2>1, Drops
  <2>2. CASE ~ sink.clear_requested
    BY <1>1, <1>2, <1>8, <2>2 DEF Sink
  <2> QED BY <2>1, <2>2
<1>10. bytes_per_frame(sink') = c
  BY <1>9 DEF bytes_per_frame, c
<1>11. StreamInv(sink')
  <2>1. CASE sink.clear_requested
    <3>1. Len(sink'.ring) = 0 /\ DOMAIN sink'.ring = {}
      BY <1>9, <2>1
    <3>2. 0 % c = 0 /\ 0 <= RingFrames * c
      <4>1. RingFrames * c \in Nat
        BY <1>3, SinkAssumption
      <4> QED BY <1>3, <4>1
    <3> QED BY <1>1, <1>9, <1>10, <3>1, <3>2 DEF StreamInv
  <2>2. CASE ~ sink.clear_requested
    <3>1. (l - bytes) % c = 0
      BY <1>2, <1>3, <1>4, <1>6, WholeFrames
    <3>2. l - bytes <= RingFrames * c
      <4>1. RingFrames * c \in Nat
        BY <1>3, SinkAssumption
      <4> QED BY <1>2, <1>4, <1>6, <4>1
    <3>3. ~ sink.stranded => \A i \in DOMAIN rest : rest[i].format = sink.format /\ ~ rest[i].stale
      BY <1>8, <2>2 DEF StreamInv
    <3> QED BY <1>1, <1>8, <1>9, <1>10, <2>2, <3>1, <3>2, <3>3 DEF StreamInv
  <2> QED BY <2>1, <2>2
<1>12. callback'.heard \in SUBSET Byte
  BY <1>1, <1>2, <1>6 DEF l
<1>13. ~ sink.stranded => \A b \in callback'.heard : ~ b.stale
  <2>1. CASE sink.clear_requested
    BY <1>1, <1>7, <2>1
  <2>2. CASE ~ sink.clear_requested
    <3>1. \A i \in 1..bytes : i \in DOMAIN sink.ring
      BY <1>2, <1>6 DEF l
    <3>2. callback'.heard = {sink.ring[i] : i \in 1..bytes}
      BY <1>1
    <3> QED BY <2>2, <3>1, <3>2 DEF StreamInv
  <2> QED BY <2>1, <2>2
<1>14. CallbackInv(callback', sink')
  BY <1>1, <1>6, <1>9, <1>10, <1>13 DEF CallbackInv
<1>15. Types'
  BY <1>1, <1>3, <1>6, <1>12 DEF Types
<1>16. WriterInv(writer', sink')
  BY <1>1, <1>9, <1>10 DEF WriterInv, c
<1>17. PlayerInv' /\ RecoveryInv' /\ DiscardTakesAll'
  BY <1>1, <1>9 DEF PlayerInv, RecoveryInv, DiscardTakesAll
<1> QED BY <1>11, <1>14, <1>15, <1>16, <1>17, Kept

\* A callback that returns has walked the gain some way, and wakes the writer.
LEMMA ReturnKeeps == IInv /\ CallbackReturns => IInv'
<1> SUFFICES ASSUME IInv, CallbackReturns PROVE IInv'
  OBVIOUS
<1> USE DEF IInv
<1>1. PICK settled \in {sink.settled, TRUE} : sink' = notify([sink EXCEPT !.settled = settled])
  BY DEF CallbackReturns
<1>2. /\ callback' = idle_callback
      /\ UNCHANGED <<last_format, recovery, stopping, writer, main, player_format, written, tries>>
  BY DEF CallbackReturns
<1>3. /\ sink' \in Sink /\ sink'.stream = sink.stream /\ sink'.format = sink.format
      /\ sink'.ring = sink.ring /\ sink'.clear_requested = sink.clear_requested
      /\ sink'.moved = sink.moved /\ sink'.stranded = sink.stranded
      /\ sink'.touched = sink.touched /\ sink'.settled = settled
  <2> DEFINE s == [sink EXCEPT !.settled = settled]
  <2>1. settled \in BOOLEAN /\ sink \in Sink
    BY DEF StreamInv, Sink
  <2>2. /\ s \in Sink /\ s.stream = sink.stream /\ s.format = sink.format
        /\ s.ring = sink.ring /\ s.clear_requested = sink.clear_requested
        /\ s.moved = sink.moved /\ s.stranded = sink.stranded
        /\ s.touched = sink.touched /\ s.settled = settled
    BY <2>1 DEF Sink
  <2>3. sink' = [s EXCEPT !.notified = TRUE]
    BY <1>1 DEF notify
  <2> HIDE DEF s
  <2> QED BY <2>2, <2>3 DEF Sink
<1>4. StreamInv(sink') /\ WriterInv(writer', sink')
  <2>1. (sink'.settled = sink.settled /\ sink'.touched = sink.touched) \/ sink'.settled
    BY <1>3
  <2> QED BY <1>2, <1>3, <2>1, SameStream
<1>5. callback' \in [busy : BOOLEAN, heard : SUBSET Byte, bytes : Nat, bpf : Nat]
  BY <1>2 DEF idle_callback
<1>6. CallbackInv(callback', sink')
  BY <1>2 DEF CallbackInv, idle_callback
<1>7. Types' /\ PlayerInv' /\ RecoveryInv' /\ DiscardTakesAll'
  BY <1>2, <1>3, <1>5 DEF Types, PlayerInv, RecoveryInv, DiscardTakesAll
<1> QED BY <1>4, <1>6, <1>7, Kept

\* A device that dies takes nothing along but the callback.
LEMMA DeathKeeps == IInv /\ DeviceDies => IInv'
<1> SUFFICES ASSUME IInv, DeviceDies PROVE IInv'
  OBVIOUS
<1> USE DEF IInv
<1>1. /\ sink.stream = "running" /\ ~ callback.busy /\ sink' = [sink EXCEPT !.stream = "dead"]
      /\ UNCHANGED <<last_format, recovery, stopping, writer, callback, main, player_format,
                     written, tries>>
  BY DEF DeviceDies
<1>2. /\ sink' \in Sink /\ sink'.stream = "dead" /\ sink'.format = sink.format
      /\ sink'.ring = sink.ring /\ sink'.clear_requested = sink.clear_requested
      /\ sink'.moved = sink.moved /\ sink'.stranded = sink.stranded
      /\ sink'.touched = sink.touched /\ sink'.settled = sink.settled
  BY <1>1 DEF StreamInv, Sink
<1>3. bytes_per_frame(sink') = bytes_per_frame(sink)
  BY <1>2 DEF bytes_per_frame
<1>4. StreamInv(sink')
  BY <1>1, <1>2, <1>3 DEF StreamInv
<1>5. WriterInv(writer', sink') /\ CallbackInv(callback', sink')
  BY <1>1, <1>2, <1>3 DEF WriterInv, CallbackInv
<1>6. Types' /\ PlayerInv' /\ RecoveryInv' /\ DiscardTakesAll'
  BY <1>1, <1>2 DEF Types, PlayerInv, RecoveryInv, DiscardTakesAll
<1> QED BY <1>4, <1>5, <1>6, Kept

-----------------------------------------------------------------------------
(* The theorems.                                                            *)

\* It begins with no stream, no write() and nothing owed.
LEMMA BeginsInIInv == Init => IInv
<1> SUFFICES ASSUME Init PROVE IInv
  OBVIOUS
<1>1. /\ sink = no_stream /\ last_format = None /\ recovery = fresh_recovery
      /\ stopping = FALSE /\ writer = idle_writer /\ callback = idle_callback /\ main = "loop"
      /\ player_format = None /\ tries = [reopens |-> 0, rescans |-> 0]
      /\ written.discarded = FALSE
  BY DEF Init
<1>2. <<>> \in Seq(Byte) /\ Len(<<>>) = 0
  OBVIOUS
<1>3. /\ sink \in Sink /\ sink.stream = "none" /\ sink.format = None /\ sink.ring = <<>>
      /\ ~ sink.stranded
  BY <1>1, <1>2 DEF no_stream, Sink
<1>4. Len(sink.ring) = 0 /\ DOMAIN sink.ring = {} /\ RingFrames * bytes_per_frame(sink) = 0
  BY <1>3, SinkAssumption DEF bytes_per_frame, frame_bytes
<1>5. StreamInv(sink)
  BY <1>3, <1>4 DEF StreamInv
<1>6. Types
  BY <1>1 DEF Types, Writer, Recovery, fresh_recovery, idle_writer, idle_callback
<1>7. WriterInv(writer, sink) /\ CallbackInv(callback, sink)
  BY <1>1 DEF WriterInv, CallbackInv, Inside, idle_writer, idle_callback
<1>8. PlayerInv /\ RecoveryInv /\ DiscardTakesAll
  BY <1>1, <1>3 DEF PlayerInv, RecoveryInv, DiscardTakesAll, fresh_recovery, idle_writer
<1> QED BY <1>5, <1>6, <1>7, <1>8 DEF IInv

\* Every step of the four threads keeps it.
LEMMA StepKeeps == IInv /\ [Next]_vars => IInv'
<1> SUFFICES ASSUME IInv, [Next]_vars PROVE IInv'
  OBVIOUS
<1>1. ASSUME NEW f \in Formats, configure(f) PROVE IInv'
  BY <1>1, ConfigureKeeps
<1>2. CASE clear
  BY <1>2, ClearKeeps
<1>3. ASSUME NEW now_ms \in {0, SINK_RESCAN_DELAY_MS}, poll(now_ms) PROVE IInv'
  BY <1>3, PollKeeps, RecoveryConstants
<1>4. CASE set_volume
  BY <1>4, VolumeKeeps
<1>5. CASE StopLatch \/ StopClose
  BY <1>5, LatchKeeps, CloseKeeps
<1>6. ASSUME NEW frames \in 1..MaxFrames, write(frames) PROVE IInv'
  BY <1>6, WriteKeeps
<1>7. CASE WriteStep \/ WriteTimesOut
  BY <1>7, ReopenedKeeps, LandsKeeps, LoopKeeps DEF WriteStep
<1>8. ASSUME NEW n \in 1..MaxFrames, CallbackReads(n) PROVE IInv'
  BY <1>8, ReadsKeep
<1>9. CASE CallbackReturns \/ DeviceDies
  BY <1>9, ReturnKeeps, DeathKeeps
<1>10. CASE UNCHANGED vars
  <2>1. Types' /\ PlayerInv' /\ RecoveryInv' /\ DiscardTakesAll'
    BY <1>10 DEF vars, IInv, Types, PlayerInv, RecoveryInv, DiscardTakesAll
  <2>2. StreamInv(sink') /\ WriterInv(writer', sink') /\ CallbackInv(callback', sink')
    BY <1>10 DEF vars, IInv
  <2> QED BY <2>1, <2>2, Kept
<1> QED
  BY <1>1, <1>2, <1>3, <1>4, <1>5, <1>6, <1>7, <1>8, <1>9, <1>10 DEF Next

\* So it holds for good.
LEMMA Always == Spec => []IInv
<1> QED BY BeginsInIInv, StepKeeps, PTL DEF Spec

\* The audio thread finds the stream it began with until it returns, and every stream holds
\* whole frames of its own format and opened at the gain it was meant to be at: whichever
\* of the main loop and the sync task opened, closed or restarted it, and whatever a
\* write() was in the middle of.
THEOREM StreamsDoNotMix == Spec => []OneStreamAtATime
<1>1. IInv => OneStreamAtATime
  <2> SUFFICES ASSUME IInv PROVE OneStreamAtATime
    OBVIOUS
  <2> USE DEF IInv
  <2>1. TypeOK
    <3>1. free_space(sink) \in Nat /\ sink \in Sink
      BY StreamFrames DEF StreamInv
    <3> QED BY <3>1 DEF Types, TypeOK, Writer
  <2>2. CallbackSeesOneStream
    BY DEF CallbackSeesOneStream, CallbackInv
  <2>3. AudioInItsFormat /\ WholeFramesBuffered /\ OpensAtItsGain
    BY DEF AudioInItsFormat, WholeFramesBuffered, OpensAtItsGain, StreamInv, CallbackInv
  <2> QED BY <2>1, <2>2, <2>3 DEF OneStreamAtATime
<1> QED BY <1>1, Always, PTL

\* No callback plays a byte that a flush or the next stream's configure() has dropped,
\* whether the ring or a write() held it; and a write() with no stream takes all of its
\* buffer, so that no sync task brings it again.
THEOREM NothingLivesOn == Spec => []DroppedIsGone
<1>1. IInv => DroppedIsGone
  BY DEF IInv, DroppedIsGone, NothingDroppedIsHeard, CallbackInv
<1> QED BY <1>1, Always, PTL

\* A stream that ran is reopened once on the sync task and once on the main loop at most,
\* however often the device dies or a configure() fails in between; and once stop() has
\* returned there is no stream, whoever was opening one.
THEOREM OpensBounded == Spec => []OpensAreBounded
<1>1. IInv => OpensAreBounded
  <2> SUFFICES ASSUME IInv PROVE OpensAreBounded
    OBVIOUS
  <2>1. tries.reopens \in Nat /\ tries.rescans \in Nat
    BY DEF IInv, Types
  <2>2. OneTryOfEach
    BY <2>1 DEF IInv, RecoveryInv, OneTryOfEach
  <2>3. NoDeviceAfterStop
    BY DEF IInv, PlayerInv, NoDeviceAfterStop
  <2> QED BY <2>2, <2>3 DEF OpensAreBounded
<1> QED BY <1>1, Always, PTL

\* The rescan that one thread asked for and another makes, ticks later, finds no stream
\* running: what was reopened in between is never torn down by it.
THEOREM RescanIsHarmless == Spec => RescanTearsNothingDown
<1>1. ASSUME IInv, [Next]_vars
      PROVE  tries'.rescans > tries.rescans => sink.stream # "running"
  <2>0. tries.reopens \in Nat /\ tries.rescans \in Nat /\ tries \in [reopens : Nat, rescans : Nat]
    BY <1>1 DEF IInv, Types
  <2>1. ASSUME NEW now_ms \in {0, SINK_RESCAN_DELAY_MS}, poll(now_ms)
        PROVE  sink.stream # "running"
    BY <1>1, <2>1 DEF IInv, RecoveryInv, poll, pending
  <2>2. ASSUME NEW f \in Formats, configure(f)
        PROVE  ~ (tries'.rescans > tries.rescans)
    BY <2>0, <2>2 DEF configure, ConfigureIgnored, ConfigureUnresolved, ConfigureReuses,
                      ConfigureOpens, refill
  <2>3. ASSUME NEW frames \in 1..MaxFrames, write(frames)
        PROVE  ~ (tries'.rescans > tries.rescans)
    <3>1. ASSUME NEW w, reopen_in_place_(w)
          PROVE  tries' = tries \/ tries' = [tries EXCEPT !.reopens = @ + 1]
      <4>1. CASE \E outcome \in Outcomes : tries' = [tries EXCEPT !.reopens = @ + 1]
        BY <4>1
      <4>2. CASE tries' = tries
        BY <4>2
      <4> QED BY <3>1, <4>1, <4>2 DEF reopen_in_place_
    <3>2. tries' = tries \/ tries' = [tries EXCEPT !.reopens = @ + 1]
      BY <2>3, <3>1 DEF write
    <3> QED BY <2>0, <3>2
  <2>4. ASSUME tries' = tries
        PROVE  ~ (tries'.rescans > tries.rescans)
    BY <2>0, <2>4
  <2>5. CASE clear \/ set_volume \/ StopLatch \/ StopClose \/ CallbackReturns \/ DeviceDies
    BY <2>4, <2>5 DEF clear, set_volume, StopLatch, StopClose, CallbackReturns, DeviceDies
  <2>6. CASE WriteStep \/ WriteTimesOut
    BY <2>4, <2>6 DEF WriteStep, WriteTimesOut, WriteReopened, WriteStops, WriteLands, WriteWaits,
                      WriteSleeps, WriteWakes
  <2>7. ASSUME NEW n \in 1..MaxFrames, CallbackReads(n)
        PROVE  ~ (tries'.rescans > tries.rescans)
    BY <2>4, <2>7 DEF CallbackReads
  <2>8. CASE UNCHANGED vars
    BY <2>4, <2>8 DEF vars
  <2> QED BY <1>1, <2>1, <2>2, <2>3, <2>5, <2>6, <2>7, <2>8 DEF Next
<1>2. IInv /\ [Next]_vars => [tries'.rescans > tries.rescans => sink.stream # "running"]_vars
  BY <1>1
<1> QED BY <1>2, Always, PTL DEF Spec, RescanTearsNothingDown
=============================================================================
