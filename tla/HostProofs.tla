----------------------------- MODULE HostProofs -----------------------------
(***************************************************************************)
(* What a player takes from the machine it starts on.  For any number of    *)
(* players on one state directory: no kill and no power cut leaves a torn   *)
(* file.  For one that is alone there: what it holds, and has reported      *)
(* saved, is what the file has.  For any command line and any config files: *)
(* what the options come to.  For any builds and any -o: what a device spec *)
(* names.  For any report of a device and any pin: what is offered to play. *)
(***************************************************************************)
EXTENDS MCHost, FirstOrderInduction, FiniteSetTheorems, SequenceTheorems, TLAPS

-----------------------------------------------------------------------------
(* The inductive invariant.                                                 *)

Value == Volumes \cup {DEFAULT_SINK_VOLUME} \cup Muted \cup Servers \cup {None}

Callback == [key : {"volume", "muted"}, value : Value]

\* The pairs of a call of set_all(), or none.
Pairs == {<<>>} \cup [{"volume", "muted"} -> Value] \cup [{"last-server"} -> Value]

Writing == {"open", "print", "sync", "rename"}

Process == [pc : {"down", "idle"} \cup Writing, values : Values, previous : Values,
            pairs : Pairs, volume : Value, muted : Value, callbacks : Seq(Callback)]

Temporary == [content : Files, synced : BOOLEAN]

Types ==
    /\ player \in [Players -> Process]
    /\ temporaries \in [Players -> Temporary]
    /\ {disk, durable} \subseteq Files
    /\ synced \in BOOLEAN

\* A process's own temporary is whole when it is printed, and safe when it is renamed.
TemporaryInv(p) ==
    /\ player[p].pc \in {"sync", "rename"} => temporaries[p].content = player[p].values
    /\ player[p].pc = "rename" => temporaries[p].synced = TRUE

WholeInv ==
    /\ disk # Torn /\ durable # Torn /\ synced = TRUE
    /\ \A p \in Players : TemporaryInv(p)

IInv == Types /\ WholeInv

-----------------------------------------------------------------------------
\* A process as it starts is a process.
LEMMA DownIsProcess == down \in Process /\ nothing \in Values
<1>1. nothing \in Values
  BY DEF nothing, Values
<1>2. <<>> \in Seq(Callback)
  OBVIOUS
<1> QED BY <1>1, <1>2 DEF down, Process, Pairs, Value, Muted

\* What load() takes from a file are values.
LEMMA ContentsAreValues ==
    ASSUME NEW f \in Files
    PROVE  contents(f) \in Values
  BY DownIsProcess DEF contents, Files

\* A step of one process that touches no file keeps the invariant if that process does.
LEMMA OneProcess ==
    ASSUME IInv, NEW p \in Players, NEW q \in Process, player' = [player EXCEPT ![p] = q],
           q.pc \notin {"sync", "rename"}, UNCHANGED <<temporaries, disk, durable, synced>>
    PROVE  IInv'
<1>1. Types'
  BY DEF IInv, Types
<1>2. \A r \in Players : TemporaryInv(r)'
  BY DEF IInv, Types, WholeInv, TemporaryInv
<1> QED BY <1>1, <1>2 DEF IInv, WholeInv

\* A step of one process on its own temporary.
LEMMA OneTemporary ==
    ASSUME IInv, NEW p \in Players, NEW q \in Process, NEW t \in Temporary,
           player' = [player EXCEPT ![p] = q], temporaries' = [temporaries EXCEPT ![p] = t],
           q.pc \in {"sync", "rename"} => t.content = q.values,
           q.pc = "rename" => t.synced = TRUE,
           UNCHANGED <<disk, durable, synced>>
    PROVE  IInv'
<1>1. Types'
  BY DEF IInv, Types
<1>2. \A r \in Players : TemporaryInv(r)'
  BY DEF IInv, Types, WholeInv, TemporaryInv
<1> QED BY <1>1, <1>2 DEF IInv, WholeInv

-----------------------------------------------------------------------------
(* Every step keeps the invariant.                                          *)

\* Before the first start there is no file.
LEMMA InitIInv == Init => IInv
<1> SUFFICES ASSUME Init PROVE IInv
  OBVIOUS
<1>1. [content |-> None, synced |-> FALSE] \in Temporary
  BY DEF Temporary, Files
<1>2. Types
  BY <1>1, DownIsProcess DEF Init, Types, Files
<1>3. WholeInv
  BY StoreAssumption DEF Init, WholeInv, TemporaryInv, down
<1> QED BY <1>2, <1>3 DEF IInv

\* What is printed is what was held with the pairs in it.
LEMMA UpdateIsValues ==
    ASSUME NEW values \in Values, NEW pairs \in Pairs
    PROVE  update(values, pairs) \in Values
<1>1. ASSUME NEW k \in DOMAIN pairs, k \in Keys
      PROVE  pairs[k] \in Value
  BY <1>1 DEF Pairs, Keys
<1> QED BY <1>1 DEF update, Values, Value

\* set_all() answers at once or begins a write.
LEMMA SetAllKeeps ==
    ASSUME IInv, NEW p \in Players, NEW me \in Process, me.pc = "idle",
           NEW pairs \in Pairs, set_all(p, me, pairs),
           UNCHANGED <<temporaries, disk, durable, synced>>
    PROVE  IInv'
<1>1. CASE already_held(p, pairs)
  <2> DEFINE q == [me EXCEPT !.pairs = pairs]
  <2>1. q \in Process /\ q.pc = "idle"
    BY DEF Process
  <2>2. player' = [player EXCEPT ![p] = q]
    BY <1>1 DEF set_all
  <2> HIDE DEF q
  <2> QED BY <2>1, <2>2, OneProcess
<1>2. CASE ~ already_held(p, pairs)
  <2> DEFINE q == [me EXCEPT !.pc = "open", !.pairs = pairs, !.previous = me.values,
                             !.values = update(@, pairs)]
  <2>1. me.values \in Values
    BY DEF Process
  <2>2. update(me.values, pairs) \in Values
    BY <2>1, UpdateIsValues
  <2>3. q \in Process /\ q.pc = "open"
    BY <2>1, <2>2 DEF Process, Writing
  <2>4. player' = [player EXCEPT ![p] = q]
    BY <1>2 DEF set_all
  <2> HIDE DEF q
  <2> QED BY <2>3, <2>4, OneProcess
<1> QED BY <1>1, <1>2

\* A write that fails leaves the process as it was before the call.
LEMMA RolledBack ==
    ASSUME IInv, NEW p \in Players, player[p].pc \in Writing, rolled_back(p)
    PROVE  \E q \in Process : q.pc = "idle" /\ player' = [player EXCEPT ![p] = q]
<1> DEFINE q == [player[p] EXCEPT !.pc = "idle", !.pairs = <<>>, !.previous = nothing,
                                  !.values = player[p].previous]
<1>1. player[p] \in Process /\ player \in [Players -> Process]
  BY DEF IInv, Types
<1>2. q \in Process /\ q.pc = "idle"
  BY <1>1, DownIsProcess DEF Process, Pairs
<1>3. player' = [player EXCEPT ![p] = q]
  BY <1>1 DEF rolled_back, Process
<1> QED BY <1>2, <1>3

\* Each call of write() on the file system, made or failed.
LEMMA WriteKeeps ==
    ASSUME IInv, NEW p \in Players, write(p)
    PROVE  IInv'
<1> DEFINE none == [content |-> None, synced |-> FALSE]
<1>0. /\ player[p] \in Process /\ player \in [Players -> Process]
      /\ temporaries[p] \in Temporary /\ temporaries \in [Players -> Temporary]
      /\ none \in Temporary /\ player[p].values \in Values
  BY DEF IInv, Types, Temporary, Files, Process
<1>1. CASE WriteCannotOpen(p)
  <2>1. player[p].pc \in Writing /\ rolled_back(p)
    BY <1>1 DEF WriteCannotOpen, Writing
  <2>2. PICK q \in Process : q.pc = "idle" /\ player' = [player EXCEPT ![p] = q]
    BY <2>1, RolledBack
  <2> QED BY <1>1, <2>2, OneProcess DEF WriteCannotOpen
<1>2. CASE WriteOpen(p)
  <2> DEFINE q == [player[p] EXCEPT !.pc = "print"]
             t == [content |-> Torn, synced |-> FALSE]
  <2>1. q \in Process /\ q.pc = "print" /\ t \in Temporary
    BY <1>0 DEF Process, Writing, Temporary, Files
  <2>2. player' = [player EXCEPT ![p] = q] /\ temporaries' = [temporaries EXCEPT ![p] = t]
    BY <1>2 DEF WriteOpen, temporary
  <2> HIDE DEF q, t
  <2> QED BY <1>2, <2>1, <2>2, OneTemporary DEF WriteOpen
<1>3. CASE WritePrint(p)
  <2> DEFINE q == [player[p] EXCEPT !.pc = "sync"]
             t == [temporaries[p] EXCEPT !.content = player[p].values]
  <2>1. q \in Process /\ q.pc = "sync" /\ t \in Temporary /\ t.content = q.values
    BY <1>0 DEF Process, Writing, Temporary, Files
  <2>2. player' = [player EXCEPT ![p] = q] /\ temporaries' = [temporaries EXCEPT ![p] = t]
    BY <1>3 DEF WritePrint, temporary
  <2> HIDE DEF q, t
  <2>3. UNCHANGED <<disk, durable, synced>>
    BY <1>3 DEF WritePrint
  <2>4. q.pc # "rename"
    BY <2>1
  <2> QED BY <2>1, <2>2, <2>3, <2>4, OneTemporary
<1>4. CASE WriteSync(p)
  <2> DEFINE q == [player[p] EXCEPT !.pc = "rename"]
             t == [temporaries[p] EXCEPT !.synced = TRUE]
  <2>0. temporaries[p].content = player[p].values
    BY <1>4 DEF WriteSync, IInv, WholeInv, TemporaryInv
  <2>1. q \in Process /\ t \in Temporary /\ t.content = q.values /\ t.synced = TRUE
    BY <1>0, <2>0 DEF Process, Writing, Temporary, Files
  <2>2. player' = [player EXCEPT ![p] = q] /\ temporaries' = [temporaries EXCEPT ![p] = t]
    BY <1>4 DEF WriteSync, temporary
  <2> HIDE DEF q, t
  <2> QED BY <1>4, <2>1, <2>2, OneTemporary DEF WriteSync
<1>5. CASE WriteRename(p)
  <2> DEFINE q == [player[p] EXCEPT !.pc = "idle", !.previous = nothing]
  <2>0. temporaries[p].content = player[p].values /\ temporaries[p].synced = TRUE
    BY <1>5 DEF WriteRename, IInv, WholeInv, TemporaryInv
  <2>1. q \in Process /\ q.pc = "idle"
    BY <1>0, DownIsProcess DEF Process
  <2>2. player' = [player EXCEPT ![p] = q] /\ temporaries' = [temporaries EXCEPT ![p] = none]
    BY <1>5 DEF WriteRename, temporary
  <2>3. disk' \in Values /\ synced' = TRUE /\ durable' = durable
    BY <1>0, <1>5, <2>0 DEF WriteRename, temporary
  <2> HIDE DEF q, none
  <2>4. Types'
    BY <1>0, <2>1, <2>2, <2>3 DEF IInv, Types, Files
  <2>5. \A r \in Players : TemporaryInv(r)'
    BY <2>1, <2>2 DEF IInv, Types, WholeInv, TemporaryInv
  <2> QED BY <2>3, <2>4, <2>5, StoreAssumption DEF IInv, WholeInv
<1>6. CASE WriteFails(p)
  <2>1. player[p].pc \in Writing /\ rolled_back(p)
    BY <1>6 DEF WriteFails, abandon, Writing
  <2>2. PICK q \in Process : q.pc = "idle" /\ player' = [player EXCEPT ![p] = q]
    BY <2>1, RolledBack
  <2>3. temporaries' = [temporaries EXCEPT ![p] = none]
    BY <1>6 DEF WriteFails, abandon, temporary
  <2> HIDE DEF none
  <2> QED BY <1>0, <1>6, <2>2, <2>3, OneTemporary DEF WriteFails, abandon
<1> QED BY <1>1, <1>2, <1>3, <1>4, <1>5, <1>6 DEF write

\* Starting takes what the file has.
LEMMA StartKeeps ==
    ASSUME IInv, NEW p \in Players, Start(p)
    PROVE  IInv'
<1> DEFINE held == contents(disk)
           q == [down EXCEPT !.pc = "idle", !.values = held,
                    !.volume = value_or(held["volume"], DEFAULT_SINK_VOLUME),
                    !.muted = value_or(held["muted"], "false")]
<1>1. held \in Values
  BY ContentsAreValues DEF IInv, Types
<1>2. held["volume"] \in Value /\ held["muted"] \in Value
  BY <1>1 DEF Values, Keys, Value
<1>3. player' = [player EXCEPT ![p] = q]
  BY DEF Start
<1> HIDE DEF held
<1>4. /\ value_or(held["volume"], DEFAULT_SINK_VOLUME) \in Value
      /\ value_or(held["muted"], "false") \in Value
  BY <1>2 DEF value_or, Value, Muted
<1>5. q \in Process /\ q.pc = "idle"
  <2>1. down \in Process
    BY DownIsProcess
  <2> QED BY <2>1, <1>1, <1>4 DEF Process
<1> HIDE DEF q
<1> QED BY <1>3, <1>5, OneProcess DEF Start

\* A command makes callbacks, of each of which set_all() makes a save.
LEMMA CallersKeep ==
    ASSUME IInv, NEW p \in Players,
           \/ ServerCommand(p) \/ on_volume_changed(p) \/ on_mute_changed(p)
           \/ set_last_server(p)
    PROVE  IInv'
<1>0. /\ player[p] \in Process /\ player \in [Players -> Process]
      /\ player[p].callbacks \in Seq(Callback) /\ player[p].volume \in Value
      /\ player[p].muted \in Value
  BY DEF IInv, Types, Process
<1>1. CASE ServerCommand(p)
  <2>1. PICK volume \in Volumes \cup {None}, muted \in Muted \cup {None} :
           player' = [player EXCEPT ![p].callbacks =
                (IF volume = None THEN <<>> ELSE <<[key |-> "volume", value |-> volume]>>)
                \o (IF muted = None THEN <<>> ELSE <<[key |-> "muted", value |-> muted]>>)]
    BY <1>1 DEF ServerCommand
  <2> DEFINE first == IF volume = None THEN <<>> ELSE <<[key |-> "volume", value |-> volume]>>
             second == IF muted = None THEN <<>> ELSE <<[key |-> "muted", value |-> muted]>>
             q == [player[p] EXCEPT !.callbacks = first \o second]
  <2>2. [key |-> "volume", value |-> volume] \in Callback
        /\ [key |-> "muted", value |-> muted] \in Callback
    BY DEF Callback, Value
  <2>3. first \in Seq(Callback) /\ second \in Seq(Callback)
    BY <2>2
  <2>4. player' = [player EXCEPT ![p] = q] /\ player[p].pc = "idle"
    BY <1>0, <1>1, <2>1 DEF ServerCommand, between_commands
  <2> HIDE DEF first, second
  <2>5. first \o second \in Seq(Callback)
    BY <2>3
  <2>6. q \in Process /\ q.pc = "idle"
    BY <1>0, <2>4, <2>5 DEF Process
  <2> HIDE DEF q
  <2> QED BY <1>1, <2>4, <2>6, OneProcess DEF ServerCommand
<1>2. ASSUME player[p].callbacks # <<>>
      PROVE  Head(player[p].callbacks).value \in Value /\ Tail(player[p].callbacks) \in Seq(Callback)
  <2>1. Head(player[p].callbacks) \in Callback /\ Tail(player[p].callbacks) \in Seq(Callback)
    BY <1>0, <1>2
  <2> QED BY <2>1 DEF Callback
<1>3. CASE on_volume_changed(p)
  <2> DEFINE me == [player[p] EXCEPT !.volume = Head(player[p].callbacks).value,
                                     !.callbacks = Tail(@)]
             pairs == [k \in {"volume", "muted"} |->
                          IF k = "volume" THEN me.volume ELSE me.muted]
  <2>1. me \in Process /\ me.pc = "idle" /\ me.volume \in Value /\ me.muted \in Value
    BY <1>0, <1>2, <1>3 DEF on_volume_changed, Process
  <2>2. set_all(p, me, pairs)
    BY <1>3 DEF on_volume_changed
  <2> HIDE DEF me
  <2>3. pairs \in Pairs
    BY <2>1 DEF Pairs
  <2> HIDE DEF pairs
  <2> QED BY <1>3, <2>1, <2>2, <2>3, SetAllKeeps DEF on_volume_changed
<1>4. CASE on_mute_changed(p)
  <2> DEFINE me == [player[p] EXCEPT !.muted = Head(player[p].callbacks).value,
                                     !.callbacks = Tail(@)]
             pairs == [k \in {"volume", "muted"} |->
                          IF k = "volume" THEN me.volume ELSE me.muted]
  <2>1. me \in Process /\ me.pc = "idle" /\ me.volume \in Value /\ me.muted \in Value
    BY <1>0, <1>2, <1>4 DEF on_mute_changed, Process
  <2>2. set_all(p, me, pairs)
    BY <1>4 DEF on_mute_changed
  <2> HIDE DEF me
  <2>3. pairs \in Pairs
    BY <2>1 DEF Pairs
  <2> HIDE DEF pairs
  <2> QED BY <1>4, <2>1, <2>2, <2>3, SetAllKeeps DEF on_mute_changed
<1>5. CASE set_last_server(p)
  <2>1. PICK server \in Servers : set_all(p, player[p], [k \in {"last-server"} |-> server])
    BY <1>5 DEF set_last_server
  <2> DEFINE pairs == [k \in {"last-server"} |-> server]
  <2>2. pairs \in Pairs
    BY DEF Pairs, Value
  <2> HIDE DEF pairs
  <2> QED BY <1>0, <1>5, <2>1, <2>2, SetAllKeeps DEF set_last_server, between_commands, pairs
<1> QED BY <1>1, <1>3, <1>4, <1>5

\* A process that is gone holds nothing back; what is on the device is of whole files.
LEMMA WorldKeeps ==
    ASSUME IInv, (\E p \in Players : Kill(p)) \/ Writeback \/ PowerCut
    PROVE  IInv'
<1>1. ASSUME NEW p \in Players, Kill(p)
      PROVE  IInv'
  BY <1>1, DownIsProcess, OneProcess DEF Kill, down
<1>2. CASE Writeback
  BY <1>2 DEF Writeback, IInv, Types, WholeInv, TemporaryInv
<1>3. CASE PowerCut
  <2> DEFINE kept(p) == IF temporaries[p].synced \/ temporaries[p].content = None
                        THEN temporaries[p] ELSE [content |-> Torn, synced |-> FALSE]
  <2>1. player' = [p \in Players |-> down] /\ temporaries' = [p \in Players |-> kept(p)]
    BY <1>3 DEF PowerCut
  <2>2. \A p \in Players : kept(p) \in Temporary
    BY DEF IInv, Types, Temporary, Files
  <2> HIDE DEF kept
  <2>3. player' \in [Players -> Process] /\ temporaries' \in [Players -> Temporary]
    BY <2>1, <2>2, DownIsProcess
  <2>4. \A p \in Players : player'[p].pc = "down"
    BY <2>1 DEF down
  <2> QED BY <1>3, <2>3, <2>4 DEF PowerCut, IInv, Types, WholeInv, TemporaryInv
<1> QED BY <1>1, <1>2, <1>3

\* Every step keeps the inductive invariant.
LEMMA NextIInv == IInv /\ [Next]_vars => IInv'
<1> SUFFICES ASSUME IInv, [Next]_vars PROVE IInv'
  OBVIOUS
<1>1. CASE UNCHANGED vars
  BY <1>1 DEF vars, IInv, Types, WholeInv, TemporaryInv
<1>2. CASE Next
  BY <1>2, WriteKeeps, StartKeeps, CallersKeep, WorldKeeps DEF Next
<1> QED BY <1>1, <1>2

\* The invariant says that the file is whole.
LEMMA Safe == IInv => NeverTorn
  BY DEF IInv, WholeInv, NeverTorn

-----------------------------------------------------------------------------
\* However many players share the directory, wherever they are killed and whenever the
\* power goes: neither what processes see nor what the device keeps is half a file
\* (write() of src/state_store.cpp).
THEOREM FileIsWhole == Spec => []NeverTorn
  BY InitIInv, NextIInv, Safe, PTL DEF Spec

-----------------------------------------------------------------------------
(* One player alone on its directory.                                       *)

\* Between saves what is held is the file's; while one is made, what a failure would
\* bring back is.  The pairs of the last call are held until it has failed.
SoloInv(p) ==
    /\ player[p].pc = "idle" => player[p].values = contents(disk)
    /\ player[p].pc \in Writing => player[p].previous = contents(disk)
    /\ player[p].pc # "down" =>
          \A k \in DOMAIN player[p].pairs : player[p].values[k] = player[p].pairs[k]

\* The files have what they had, and the process is `q`.
LEMMA SoloStep ==
    ASSUME IInv, NEW p \in Players, NEW q, player' = [player EXCEPT ![p] = q], disk' = disk,
           q.pc = "idle" => q.values = contents(disk),
           q.pc \in Writing => q.previous = contents(disk),
           q.pc # "down" => \A k \in DOMAIN q.pairs : q.values[k] = q.pairs[k]
    PROVE  SoloInv(p)'
<1>1. player'[p] = q /\ contents(disk)' = contents(disk)
  BY DEF IInv, Types, contents
<1> QED BY <1>1 DEF SoloInv

\* A call of set_all() answers of what is held, or writes what it was given.
LEMMA SoloSetAll ==
    ASSUME IInv, NEW p \in Players, SoloInv(p), player[p].pc = "idle",
           NEW me \in Process, me.pc = "idle", me.values = player[p].values,
           NEW pairs \in Pairs, set_all(p, me, pairs), disk' = disk
    PROVE  SoloInv(p)'
<1>0. me.values = contents(disk)
  BY DEF SoloInv
<1>1. CASE already_held(p, pairs)
  <2> DEFINE q == [me EXCEPT !.pairs = pairs]
  <2>1. player' = [player EXCEPT ![p] = q]
    BY <1>1 DEF set_all
  <2>2. q.pc = "idle" /\ q.values = me.values /\ q.pairs = pairs
    BY DEF Process
  <2>3. \A k \in DOMAIN pairs : me.values[k] = pairs[k]
    BY <1>1 DEF already_held
  <2> HIDE DEF q
  <2> QED BY <1>0, <2>1, <2>2, <2>3, SoloStep DEF Writing
<1>2. CASE ~ already_held(p, pairs)
  <2> DEFINE to == update(me.values, pairs)
             q == [me EXCEPT !.pc = "open", !.pairs = pairs, !.previous = me.values,
                             !.values = update(@, pairs)]
  <2>1. player' = [player EXCEPT ![p] = q]
    BY <1>2 DEF set_all
  <2>2. q.pc = "open" /\ q.values = to /\ q.pairs = pairs /\ q.previous = me.values
    BY DEF Process
  <2>3. DOMAIN pairs \subseteq Keys
    BY DEF Pairs, Keys
  <2>4. \A k \in DOMAIN pairs : to[k] = pairs[k]
    BY <2>3 DEF update
  <2> HIDE DEF q, to
  <2> QED BY <1>0, <2>1, <2>2, <2>4, SoloStep
<1> QED BY <1>1, <1>2

\* A write that fails brings back what the file still has.
LEMMA SoloRolledBack ==
    ASSUME IInv, NEW p \in Players, SoloInv(p), player[p].pc \in Writing,
           rolled_back(p), disk' = disk
    PROVE  SoloInv(p)'
<1> DEFINE q == [player[p] EXCEPT !.pc = "idle", !.pairs = <<>>, !.previous = nothing,
                                  !.values = player[p].previous]
<1>1. player[p] \in Process /\ player \in [Players -> Process]
  BY DEF IInv, Types
<1>2. player' = [player EXCEPT ![p] = q]
  BY <1>1 DEF rolled_back, Process
<1>3. q.pc = "idle" /\ q.values = contents(disk) /\ q.pairs = <<>>
  BY <1>1 DEF Process, SoloInv
<1>4. \A k \in DOMAIN q.pairs : q.values[k] = q.pairs[k]
  BY <1>3
<1> HIDE DEF q
<1> QED BY <1>2, <1>3, <1>4, SoloStep DEF Writing

\* Of the calls of write(), only the rename puts something else into the file: what is held.
LEMMA SoloWrite ==
    ASSUME IInv, NEW p \in Players, SoloInv(p), write(p)
    PROVE  SoloInv(p)'
<1>0. player[p] \in Process /\ player \in [Players -> Process] /\ player[p].values \in Values
  BY DEF IInv, Types, Process
<1>1. CASE WriteCannotOpen(p) \/ WriteFails(p)
  BY <1>1, SoloRolledBack DEF WriteCannotOpen, WriteFails, abandon, Writing
<1>2. CASE WriteOpen(p) \/ WritePrint(p) \/ WriteSync(p)
  <2>1. PICK at \in {"print", "sync", "rename"} :
           player' = [player EXCEPT ![p].pc = at] /\ player[p].pc \in Writing /\ disk' = disk
    BY <1>2 DEF WriteOpen, WritePrint, WriteSync, Writing
  <2> DEFINE q == [player[p] EXCEPT !.pc = at]
  <2>2. player' = [player EXCEPT ![p] = q]
    BY <2>1
  <2>3. /\ q.pc = at /\ q.values = player[p].values /\ q.previous = player[p].previous
        /\ q.pairs = player[p].pairs
    BY <1>0 DEF Process
  <2> HIDE DEF q
  <2> QED BY <2>1, <2>2, <2>3, SoloStep DEF SoloInv, Writing
<1>3. CASE WriteRename(p)
  <2>1. disk' = player[p].values
    BY <1>3 DEF WriteRename, temporary, IInv, WholeInv, TemporaryInv
  <2>2. contents(disk)' = player[p].values
    BY <1>0, <2>1, StoreAssumption DEF contents
  <2>3. player'[p] = [player[p] EXCEPT !.pc = "idle", !.previous = nothing]
    BY <1>0, <1>3 DEF WriteRename
  <2>4. player'[p].pc = "idle" /\ player'[p].values = player[p].values
        /\ player'[p].pairs = player[p].pairs
    BY <1>0, <2>3 DEF Process
  <2>5. player[p].pc # "down"
    BY <1>3 DEF WriteRename
  <2> QED BY <2>2, <2>4, <2>5 DEF SoloInv, Writing
<1> QED BY <1>1, <1>2, <1>3 DEF write

\* A start reads the file, which has no pairs to keep.
LEMMA SoloStart ==
    ASSUME IInv, NEW p \in Players, Start(p)
    PROVE  SoloInv(p)'
<1> DEFINE held == contents(disk)
           q == [down EXCEPT !.pc = "idle", !.values = held,
                    !.volume = value_or(held["volume"], DEFAULT_SINK_VOLUME),
                    !.muted = value_or(held["muted"], "false")]
<1>1. player' = [player EXCEPT ![p] = q] /\ disk' = disk
  BY DEF Start
<1>2. q.pc = "idle" /\ q.values = contents(disk) /\ q.pairs = <<>>
  BY DEF down
<1>3. \A k \in DOMAIN q.pairs : q.values[k] = q.pairs[k]
  BY <1>2
<1> HIDE DEF q
<1> QED BY <1>1, <1>2, <1>3, SoloStep DEF Writing

\* A command's callbacks change neither what is held nor the file; its saves are set_all()'s.
LEMMA SoloCallers ==
    ASSUME IInv, NEW p \in Players, SoloInv(p),
           \/ ServerCommand(p) \/ on_volume_changed(p) \/ on_mute_changed(p)
           \/ set_last_server(p)
    PROVE  SoloInv(p)'
<1>0. /\ player[p] \in Process /\ player \in [Players -> Process]
      /\ player[p].callbacks \in Seq(Callback) /\ player[p].volume \in Value
      /\ player[p].muted \in Value
  BY DEF IInv, Types, Process
<1>1. CASE ServerCommand(p)
  <2>1. PICK to : player' = [player EXCEPT ![p].callbacks = to]
    BY <1>1 DEF ServerCommand
  <2> DEFINE q == [player[p] EXCEPT !.callbacks = to]
  <2>2. player' = [player EXCEPT ![p] = q] /\ disk' = disk /\ player[p].pc = "idle"
    BY <1>1, <2>1 DEF ServerCommand, between_commands
  <2>3. q.pc = "idle" /\ q.values = player[p].values /\ q.pairs = player[p].pairs
    BY <1>0, <2>2 DEF Process
  <2> HIDE DEF q
  <2> QED BY <2>2, <2>3, SoloStep DEF SoloInv, Writing
<1>2. ASSUME player[p].callbacks # <<>>
      PROVE  Head(player[p].callbacks).value \in Value /\ Tail(player[p].callbacks) \in Seq(Callback)
  <2>1. Head(player[p].callbacks) \in Callback /\ Tail(player[p].callbacks) \in Seq(Callback)
    BY <1>0, <1>2
  <2> QED BY <2>1 DEF Callback
<1>3. CASE on_volume_changed(p)
  <2> DEFINE me == [player[p] EXCEPT !.volume = Head(player[p].callbacks).value,
                                     !.callbacks = Tail(@)]
             pairs == [k \in {"volume", "muted"} |->
                          IF k = "volume" THEN me.volume ELSE me.muted]
  <2>1. /\ me \in Process /\ me.pc = "idle" /\ me.volume \in Value /\ me.muted \in Value
        /\ me.values = player[p].values
    BY <1>0, <1>2, <1>3 DEF on_volume_changed, Process
  <2>2. set_all(p, me, pairs)
    BY <1>3 DEF on_volume_changed
  <2> HIDE DEF me
  <2>3. pairs \in Pairs
    BY <2>1 DEF Pairs
  <2> HIDE DEF pairs
  <2> QED BY <1>3, <2>1, <2>2, <2>3, SoloSetAll DEF on_volume_changed
<1>4. CASE on_mute_changed(p)
  <2> DEFINE me == [player[p] EXCEPT !.muted = Head(player[p].callbacks).value,
                                     !.callbacks = Tail(@)]
             pairs == [k \in {"volume", "muted"} |->
                          IF k = "volume" THEN me.volume ELSE me.muted]
  <2>1. /\ me \in Process /\ me.pc = "idle" /\ me.volume \in Value /\ me.muted \in Value
        /\ me.values = player[p].values
    BY <1>0, <1>2, <1>4 DEF on_mute_changed, Process
  <2>2. set_all(p, me, pairs)
    BY <1>4 DEF on_mute_changed
  <2> HIDE DEF me
  <2>3. pairs \in Pairs
    BY <2>1 DEF Pairs
  <2> HIDE DEF pairs
  <2> QED BY <1>4, <2>1, <2>2, <2>3, SoloSetAll DEF on_mute_changed
<1>5. CASE set_last_server(p)
  <2>1. PICK server \in Servers : set_all(p, player[p], [k \in {"last-server"} |-> server])
    BY <1>5 DEF set_last_server
  <2> DEFINE pairs == [k \in {"last-server"} |-> server]
  <2>2. pairs \in Pairs
    BY DEF Pairs, Value
  <2>3. set_all(p, player[p], pairs) /\ player[p].pc = "idle" /\ disk' = disk
    BY <1>5, <2>1 DEF set_last_server, between_commands
  <2> HIDE DEF pairs
  <2> QED BY <1>0, <2>2, <2>3, SoloSetAll
<1> QED BY <1>1, <1>3, <1>4, <1>5

\* With nobody else to write the file, every step keeps what the one player holds in it.
LEMMA SoloNext ==
    ASSUME NEW p \in Players, IInv, SoloInv(p), Next,
           \A q \in Players \ {p} : player[q].pc = "down" /\ player'[q].pc = "down"
    PROVE  SoloInv(p)'
<1>1. CASE Kill(p) \/ PowerCut
  <2>1. player'[p] = down
    BY <1>1 DEF Kill, PowerCut, IInv, Types
  <2> QED BY <2>1 DEF SoloInv, down, Writing
<1>2. CASE Writeback
  BY <1>2 DEF Writeback, SoloInv, contents
<1>3. ASSUME NEW q \in Players \ {p},
             \/ write(q) \/ Start(q) \/ Kill(q)
             \/ ServerCommand(q) \/ on_volume_changed(q) \/ on_mute_changed(q)
             \/ set_last_server(q)
      PROVE  FALSE
  <2>1. Start(q)
    BY <1>3 DEF write, WriteCannotOpen, WriteOpen, WritePrint, WriteSync, WriteRename, WriteFails,
                ServerCommand, on_volume_changed, on_mute_changed, set_last_server,
                between_commands, Kill
  <2>2. player'[q].pc = "idle"
    BY <2>1 DEF Start, IInv, Types, down
  <2> QED BY <2>2
<1> QED BY <1>1, <1>2, <1>3, SoloWrite, SoloStart, SoloCallers DEF Next

\* The player that is alone on the directory, and the others, which never start.
one == CHOOSE q \in Players : TRUE

StoreScene ==
    scene = "store" =>
        /\ IInv
        /\ \A p \in Players : p = one => SoloInv(p)
        /\ \A p \in Players \ {one} : player[p].pc = "down"

LEMMA StoreSceneNext == StoreScene /\ [MCNext]_host_vars => StoreScene'
<1> SUFFICES ASSUME StoreScene, [MCNext]_host_vars, scene' = "store"
             PROVE  /\ IInv'
                    /\ \A p \in Players : p = one => SoloInv(p)'
                    /\ \A p \in Players \ {one} : player'[p].pc = "down"
  BY DEF StoreScene
<1>1. CASE UNCHANGED host_vars
  <2>1. UNCHANGED vars /\ scene = "store"
    BY <1>1 DEF host_vars
  <2>2. IInv'
    BY <2>1, NextIInv DEF StoreScene
  <2>3. UNCHANGED <<player, disk>>
    BY <2>1 DEF vars
  <2> QED BY <2>1, <2>2, <2>3 DEF StoreScene, SoloInv, contents
<1>2. CASE MCNext
  <2>1. scene = "store" /\ Next /\ OnlyOne
    BY <1>2 DEF MCNext
  <2>2. \A p \in Players \ {one} : player[p].pc = "down" /\ player'[p].pc = "down"
    BY <2>1 DEF OnlyOne, one, StoreScene
  <2>3. IInv'
    BY <2>1, NextIInv DEF StoreScene
  <2>4. ASSUME NEW p \in Players, p = one PROVE SoloInv(p)'
    BY <2>1, <2>2, <2>4, SoloNext DEF StoreScene
  <2> QED BY <2>2, <2>3, <2>4
<1> QED BY <1>1, <1>2

\* What a player alone on its directory holds between two saves is what the file has, after
\* any failed save, kill, power cut and restart; and a setter that has answered success left
\* its values there (set_all() of src/state_store.cpp).
THEOREM MemoryMatches == MCSpec => []HeldIsOnDisk
<1>1. MCInit => StoreScene
  <2> SUFFICES ASSUME Init, scene = "store" PROVE StoreScene
    BY DEF MCInit, StoreScene
  <2>1. \A p \in Players : SoloInv(p) /\ player[p].pc = "down"
    BY DEF Init, SoloInv, down, Writing
  <2> QED BY <2>1, InitIInv DEF StoreScene
<1>2. StoreScene => HeldIsOnDisk
  BY DEF StoreScene, SoloInv, HeldIsOnDisk, MemoryIsDisk, SuccessIsOnDisk
<1> QED BY <1>1, StoreSceneNext, <1>2, PTL DEF MCSpec

-----------------------------------------------------------------------------
(* What the options are.                                                    *)

\* The words read so far that set an option: -i is set by --audio-format too.
Setters(o) ==
    {i \in DOMAIN typed.words :
        o \in applied_to(typed.words[i].option) /\ i <= Len(typed.words) - Len(left)}

Applies(o) == typed.subcommand = "" \/ o \in {"port", "control-socket"}

\* The last line of an option has been merged.
Merged(o) ==
    /\ parsing # "words" /\ Applies(o)
    /\ lines_of(o) # {} /\ lines_of(o) \cap DOMAIN entries = {}

\* An option has what its layers say, as far as they have been read.
Layered(o) ==
    IF Setters(o) # {}
    THEN o \in given /\ options[o] \in reading(o, value_of(typed.words[last(Setters(o))]))
    ELSE IF Merged(o)
    THEN o \in given /\ options[o] \in reading(o, files[config_used][last(lines_of(o))].value)
    ELSE o \notin given /\ options[o] = Unset

\* A value for each option there is.
IsOptions(A) == A = [o \in settable_options |-> A[o]]

OptionsTypes ==
    /\ typed \in CommandLines /\ files \in ConfigFiles
    /\ left \in Seq(Word) /\ Len(left) <= Len(typed.words)
    /\ \A i \in 1..Len(left) : left[i] = typed.words[Len(typed.words) - Len(left) + i]
    /\ error = "" => IsOptions(options)
    /\ parsing \in {"merge", "resolve", "accepted"} => left = <<>>

EntryLines == {i \in DOMAIN files[config_used] : files[config_used][i].kind = "entry"}

\* What is left to merge is the rest of the file's lines.
EntriesInv ==
    /\ parsing \in {"words", "resolve"} /\ error = "" => DOMAIN entries = {}
    /\ parsing = "merge" =>
          /\ "list" \notin given /\ config_used # 0 /\ error = ""
          /\ DOMAIN entries \subseteq EntryLines
          /\ \A i \in DOMAIN entries : entries[i] = files[config_used][i]
          /\ \A i \in EntryLines \ DOMAIN entries, j \in DOMAIN entries : i < j

OptionsInv ==
    /\ OptionsTypes /\ EntriesInv
    /\ parsing \in {"words", "merge", "resolve"} /\ error = "" =>
          \A o \in settable_options : Layered(o)
    /\ OptionsMeanWhatTheySay /\ DetachedMeansTheSame

\* The last of some numbers is the one the others are no greater than.
LEMMA LastIs ==
    ASSUME NEW S \in SUBSET Int, NEW i \in S, \A j \in S : j <= i
    PROVE  last(S) = i
<1> DEFINE P(n) == n \in S /\ \A j \in S : j <= n
<1>1. P(i) /\ \A n : P(n) => n = i
  <2>1. \A n \in S : n \in Int
    OBVIOUS
  <2>2. ASSUME NEW n, P(n) PROVE n = i
    <3>1. n \in Int /\ i \in Int /\ n <= i /\ i <= n
      BY <2>1, <2>2
    <3> QED BY <3>1
  <2> QED BY <2>2
<1>2. (CHOOSE n : P(n)) = i
  <2> HIDE DEF P
  <2> QED BY <1>1, Zenon
<1>3. last(S) = CHOOSE n : P(n)
  BY Zenon DEF last
<1> QED BY <1>2, <1>3

\* Numbers that are bounded have a last one.
LEMMA LastIn ==
    ASSUME NEW S \in SUBSET Nat, S # {}, NEW most \in Nat, \A j \in S : j <= most
    PROVE  last(S) \in S
<1> DEFINE T == {most - j : j \in S}
<1>1. T \in SUBSET Nat /\ T # {}
  <2>1. \A j \in S : most - j \in Nat
    OBVIOUS
  <2> QED BY <2>1
<1>2. PICK x \in T : \A y \in T : x <= y
  BY <1>1, LeastElement
<1>3. PICK i \in S : x = most - i
  BY <1>2
<1>4. \A j \in S : j <= i
  <2> TAKE j \in S
  <2>1. most - i <= most - j
    BY <1>2, <1>3
  <2>2. i \in Nat /\ j \in Nat
    OBVIOUS
  <2> QED BY <2>1, <2>2
<1>5. last(S) = i
  BY <1>4, LastIs
<1> QED BY <1>5

\* What was typed is typed.
LEMMA WordsTyped ==
    ASSUME OptionsTypes
    PROVE  /\ typed.words \in Seq(Word) /\ typed.subcommand \in STRING
           /\ files \in Seq(Seq(Line)) /\ files # <<>>
BY OptionsAssumption DEF OptionsTypes

\* The value an option takes of a text it accepts.
Reading(option, v) == CHOOSE x \in reading(option, v) : TRUE

LEMMA ReadingIsOne ==
    ASSUME NEW option, NEW v, reading(option, v) # {}
    PROVE  Reading(option, v) \in reading(option, v)
<1> DEFINE S == reading(option, v)
<1> HIDE DEF S
<1>1. S # {} => (CHOOSE x \in S : TRUE) \in S
  OBVIOUS
<1> QED BY <1>1 DEF S, Reading

\* An option whose text is accepted is set and marked.
LEMMA ApplyOptionIs ==
    ASSUME NEW A, IsOptions(A), NEW B, NEW option \in settable_options, NEW v
    PROVE  apply_option([options |-> A, given |-> B], option, v) =
              [options |-> [o \in settable_options |-> IF o = option THEN Reading(option, v) ELSE A[o]],
               given |-> B \cup {option}]
<1> DEFINE o == [options |-> A, given |-> B]
           set == [A EXCEPT ![option] = Reading(option, v)]
<1>1. apply_option(o, option, v) = [options |-> [o.options EXCEPT ![option] = Reading(option, v)],
                                   given |-> o.given \cup {option}]
  BY Zenon DEF apply_option, Reading
<1>2. o.options = A /\ o.given = B
  OBVIOUS
<1>3. apply_option(o, option, v) = [options |-> set, given |-> B \cup {option}]
  BY <1>1, <1>2, Zenon
<1>4. set = [p \in settable_options |-> IF p = option THEN Reading(option, v) ELSE A[p]]
  BY DEF IsOptions
<1> QED BY <1>3, <1>4, Zenon

\* r is what A and B were, with some options set and marked.
IsSet(r, A, B, K, v) ==
    r = [options |-> [o \in settable_options |-> IF o \in K THEN Reading(o, v) ELSE A[o]],
         given |-> B \cup K]

\* A text that is accepted sets the one option.
LEMMA AppliedOnce ==
    ASSUME NEW A, IsOptions(A), NEW B, NEW key \in settable_options, NEW v, reading(key, v) # {}
    PROVE  IsSet(applied([options |-> A, given |-> B], key, v), A, B, {key}, v)
<1>1. applied([options |-> A, given |-> B], key, v) = apply_option([options |-> A, given |-> B], key, v)
  BY Zenon DEF applied
<1>2. applied([options |-> A, given |-> B], key, v) =
          [options |-> [o \in settable_options |-> IF o = key THEN Reading(key, v) ELSE A[o]],
           given |-> B \cup {key}]
  BY <1>1, ApplyOptionIs
<1>3. [o \in settable_options |-> IF o = key THEN Reading(key, v) ELSE A[o]]
         = [o \in settable_options |-> IF o \in {key} THEN Reading(o, v) ELSE A[o]]
  OBVIOUS
<1> QED BY <1>2, <1>3, Zenon DEF IsSet

\* A text that two options accept sets both.
LEMMA AppliedTwice ==
    ASSUME NEW A, IsOptions(A), NEW B, NEW key \in settable_options, NEW v, reading(key, v) # {},
           NEW other \in settable_options, reading(other, v) # {}
    PROVE  IsSet(applied(applied([options |-> A, given |-> B], key, v), other, v),
                 A, B, {key, other}, v)
<1> DEFINE first == [o \in settable_options |-> IF o \in {key} THEN Reading(o, v) ELSE A[o]]
           more == B \cup {key}
           both == [o \in settable_options |-> IF o \in {other} THEN Reading(o, v) ELSE first[o]]
<1>1. applied([options |-> A, given |-> B], key, v) = [options |-> first, given |-> more]
  BY AppliedOnce DEF IsSet
<1>2. IsOptions(first)
  BY DEF IsOptions
<1>3. IsSet(applied([options |-> first, given |-> more], other, v), first, more, {other}, v)
  <2> HIDE DEF first, more
  <2> QED BY <1>2, AppliedOnce
<1>4. applied([options |-> first, given |-> more], other, v) = [options |-> both, given |-> more \cup {other}]
  BY <1>3, Zenon DEF IsSet
<1>5. both = [o \in settable_options |-> IF o \in {key, other} THEN Reading(o, v) ELSE A[o]]
  OBVIOUS
<1>6. more \cup {other} = B \cup {key, other}
  OBVIOUS
<1> QED BY <1>1, <1>4, <1>5, <1>6, Zenon DEF IsSet

\* A word that is read without a complaint sets what it names, and --audio-format -i too.
LEMMA SettingIsSet ==
    ASSUME NEW w, ReadSetting(w), OptionsTypes, error' = ""
    PROVE  /\ error = "" /\ \A o \in applied_to(w.option) : reading(o, value_of(w)) # {}
           /\ IsSet([options |-> options', given |-> given'], options, given,
                    applied_to(w.option), value_of(w))
<1>0. "" \notin settable_options /\ {"audio-format", "input"} \subseteq settable_options
      /\ w.option \in settable_options
  BY DEF settable_options, Bools, Switches, Texts, Numbers, ReadSetting
<1>1. error = "" /\ \A o \in applied_to(w.option) : reading(o, value_of(w)) # {}
  BY <1>0 DEF ReadSetting, fail
<1>2. PICK key, v, now : /\ key = w.option /\ v = value_of(w)
                        /\ now = [options |-> options, given |-> given]
  OBVIOUS
<1>3. key \in settable_options /\ IsOptions(options)
  BY <1>0, <1>1, <1>2 DEF OptionsTypes
<1>4. CASE key = "audio-format"
  <2>1. reading(key, v) # {} /\ reading("input", v) # {} /\ applied_to(key) = {key, "input"}
    BY <1>1, <1>2, <1>4 DEF applied_to
  <2>2. PICK r : r = applied(applied(now, key, v), "input", v)
    OBVIOUS
  <2>3. options' = r.options /\ given' = r.given
    BY <1>2, <1>4, <2>2, Zenon DEF ReadSetting
  <2>4. IsSet(r, options, given, {key, "input"}, v)
    BY <1>0, <1>2, <1>3, <2>1, <2>2, AppliedTwice, Zenon
  <2>5. r = [options |-> options', given |-> given']
    BY <2>3, <2>4 DEF IsSet
  <2> QED BY <1>1, <1>2, <2>1, <2>4, <2>5, Zenon
<1>5. CASE key # "audio-format"
  <2>1. reading(key, v) # {} /\ applied_to(key) = {key}
    BY <1>1, <1>2, <1>5 DEF applied_to
  <2>2. PICK r : r = applied(now, key, v)
    OBVIOUS
  <2>3. options' = r.options /\ given' = r.given
    BY <1>2, <1>5, <2>2, Zenon DEF ReadSetting
  <2>4. IsSet(r, options, given, {key}, v)
    BY <1>2, <1>3, <2>1, <2>2, AppliedOnce, Zenon
  <2>5. r = [options |-> options', given |-> given']
    BY <2>3, <2>4 DEF IsSet
  <2> QED BY <1>1, <1>2, <2>1, <2>4, <2>5, Zenon
<1> QED BY <1>4, <1>5

\* The same place, from the front and from the end.
LEMMA ReadOn ==
    ASSUME NEW a \in Int, NEW b \in Int, NEW c, c = b - 1, NEW i \in Int
    PROVE  a - b + (i + 1) = a - c + i
OBVIOUS

\* One more word has been read.
LEMMA WordRead ==
    ASSUME OptionsTypes, left # <<>>, left' = Tail(left), typed' = typed,
           NEW n, n = Len(typed.words) - Len(left) + 1
    PROVE  /\ n \in DOMAIN typed.words /\ Head(left) = typed.words[n] /\ Head(left) \in Word
           /\ left' \in Seq(Word) /\ Len(left') <= Len(typed.words)
           /\ \A i \in 1..Len(left') : left'[i] = typed.words[Len(typed.words) - Len(left') + i]
           /\ \A o : Setters(o)' = IF o \in applied_to(Head(left).option) THEN Setters(o) \cup {n}
                                  ELSE Setters(o)
           /\ \A o : Setters(o) \subseteq 1..(n - 1)
<1>0. typed.words \in Seq(Word) /\ left \in Seq(Word) /\ Len(left) \in 1..Len(typed.words)
  <2>1. typed.words \in Seq(Word)
    BY WordsTyped, Zenon
  <2>2. left \in Seq(Word) /\ Len(left) <= Len(typed.words)
    BY DEF OptionsTypes
  <2> QED BY <2>1, <2>2
<1>1. n \in DOMAIN typed.words /\ n \in Int /\ 1 \in 1..Len(left)
  BY <1>0
<1>2. Head(left) = left[1] /\ left[1] = typed.words[n] /\ Head(left) \in Word
  <2>1. left[1] = typed.words[Len(typed.words) - Len(left) + 1]
    BY <1>1 DEF OptionsTypes
  <2> QED BY <1>0, <2>1
<1>3. left' \in Seq(Word) /\ Len(left') = Len(left) - 1
      /\ \A i \in 1..Len(left') : left'[i] = left[i + 1]
  BY <1>0
<1>4. \A i \in 1..Len(left') : left'[i] = typed.words[Len(typed.words) - Len(left') + i]
  <2> TAKE i \in 1..Len(left')
  <2>1. i + 1 \in 1..Len(left)
    BY <1>0, <1>3
  <2>2. left[i + 1] = typed.words[Len(typed.words) - Len(left) + (i + 1)]
    BY <2>1 DEF OptionsTypes
  <2>3. Len(typed.words) - Len(left) + (i + 1) = Len(typed.words) - Len(left') + i
    <3>1. PICK a, b, c : a = Len(typed.words) /\ b = Len(left) /\ c = Len(left')
      OBVIOUS
    <3>2. a \in Int /\ b \in Int /\ c = b - 1 /\ i \in Int
      BY <1>0, <1>3, <3>1
    <3>3. a - b + (i + 1) = a - c + i
      BY <3>2, ReadOn
    <3> QED BY <3>1, <3>3, Zenon
  <2> QED BY <1>3, <2>2, <2>3
<1>5. ASSUME NEW o
      PROVE  /\ Setters(o)' = IF o \in applied_to(Head(left).option) THEN Setters(o) \cup {n}
                              ELSE Setters(o)
             /\ Setters(o) \subseteq 1..(n - 1)
  <2>1. Setters(o)' = {i \in DOMAIN typed.words : o \in applied_to(typed.words[i].option) /\ i <= n}
    BY <1>0, <1>3 DEF Setters
  <2>2. Setters(o) = {i \in DOMAIN typed.words : o \in applied_to(typed.words[i].option) /\ i <= n - 1}
    BY <1>0 DEF Setters
  <2>3. DOMAIN typed.words \subseteq Nat \ {0}
    BY <1>0
  <2> QED BY <1>1, <1>2, <2>1, <2>2, <2>3
<1> QED BY <1>0, <1>1, <1>2, <1>3, <1>4, <1>5

\* A word keeps the options as the words say.
LEMMA WordKeeps ==
    ASSUME OptionsInv, ReadWord, UNCHANGED <<typed, files, cwd>>
    PROVE  OptionsInv'
<1> DEFINE n == Len(typed.words) - Len(left) + 1
           w == Head(left)
<1>0. parsing = "words" /\ left # <<>> /\ left' = Tail(left) /\ entries' = entries
  BY DEF ReadWord
<1>1. /\ n \in DOMAIN typed.words /\ w = typed.words[n] /\ w \in Word
      /\ left' \in Seq(Word) /\ Len(left') <= Len(typed.words)
      /\ \A i \in 1..Len(left') : left'[i] = typed.words[Len(typed.words) - Len(left') + i]
      /\ \A o : Setters(o)' = IF o \in applied_to(w.option) THEN Setters(o) \cup {n}
                             ELSE Setters(o)
      /\ \A o : Setters(o) \subseteq 1..(n - 1)
  BY <1>0, WordRead DEF OptionsInv
<1>2. n \in Nat
  <2>1. \A i \in DOMAIN typed.words : i \in Nat
    <3>1. \A s \in Seq(Word) : \A i \in DOMAIN s : i \in Nat
      OBVIOUS
    <3> QED BY <3>1, WordsTyped, Zenon DEF OptionsInv
  <2> QED BY <1>1, <2>1, Zenon
<1> HIDE DEF n, w
<1>3. ASSUME parsing' \in {"words", "help"},
             error' = "" => error = "" /\ IsOptions(options'),
             parsing' = "words" /\ error' = "" => \A o \in settable_options : Layered(o)'
      PROVE  OptionsInv'
  <2>1. OptionsTypes'
    BY <1>0, <1>1, <1>3 DEF OptionsInv, OptionsTypes, IsOptions
  <2>2. EntriesInv'
    BY <1>0, <1>3 DEF OptionsInv, EntriesInv
  <2>3. OptionsMeanWhatTheySay' /\ DetachedMeansTheSame'
    BY <1>3 DEF OptionsMeanWhatTheySay, LayersAsDocumented, OneDirection, DetachedMeansTheSame
  <2> QED BY <1>3, <2>1, <2>2, <2>3 DEF OptionsInv
<1>4. ASSUME parsing' = "words", error' = "", error = "", NEW K \in SUBSET settable_options,
             K = applied_to(w.option) \cap settable_options, NEW v, v = value_of(w),
             \A o \in K : o \in given' /\ options'[o] \in reading(o, v),
             \A o \in settable_options \ K : options'[o] = options[o] /\ (o \in given' <=> o \in given)
      PROVE  \A o \in settable_options : Layered(o)'
  <2> TAKE o \in settable_options
  <2>1. Layered(o) /\ ~ Merged(o) /\ ~ Merged(o)'
    BY <1>0, <1>4 DEF OptionsInv, Merged
  <2>2. CASE o \in K
    <3>1. Setters(o)' = Setters(o) \cup {n}
      BY <1>1, <1>4, <2>2
    <3>2. last(Setters(o)') = n
      <4>1. Setters(o)' \in SUBSET Int /\ n \in Setters(o)' /\ \A j \in Setters(o)' : j <= n
        BY <1>1, <1>2, <3>1
      <4> QED BY <4>1, LastIs
    <3>3. typed.words[last(Setters(o)')] = w
      BY <1>1, <3>2
    <3>4. last(Setters(o))' = last(Setters(o)') /\ typed' = typed
      BY DEF last
    <3> QED BY <1>4, <2>2, <3>1, <3>3, <3>4 DEF Layered
  <2>3. CASE o \notin K
    <3>1. Setters(o)' = Setters(o)
      BY <1>1, <1>4, <2>3
    <3> QED BY <1>4, <2>1, <2>3, <3>1 DEF Layered, last
  <2> QED BY <2>2, <2>3
<1>5. CASE ReadSetting(w)
  <2>0. parsing' = "words"
    BY <1>0, <1>5 DEF ReadSetting
  <2>1. ASSUME error' = ""
        PROVE  error = "" /\ IsOptions(options') /\ \A o \in settable_options : Layered(o)'
    <3> DEFINE K == applied_to(w.option)
    <3>1. PICK v : v = value_of(w)
      OBVIOUS
    <3>2. /\ error = "" /\ \A o \in K : reading(o, v) # {}
          /\ IsSet([options |-> options', given |-> given'], options, given, K, v)
      BY <1>5, <2>1, <3>1, SettingIsSet DEF OptionsInv
    <3>3. K \in SUBSET settable_options
      BY <1>5 DEF ReadSetting, applied_to, settable_options, Texts
    <3> HIDE DEF K
    <3>4. /\ IsOptions(options') /\ given' = given \cup K
          /\ \A o \in K : options'[o] \in reading(o, v)
          /\ \A o \in settable_options \ K : options'[o] = options[o]
      <4>1. PICK A, B, P, G : A = options /\ B = given /\ P = options' /\ G = given'
        OBVIOUS
      <4>2. IsSet([options |-> P, given |-> G], A, B, K, v)
        BY <3>2, <4>1, Zenon
      <4>3. /\ IsOptions(P) /\ G = B \cup K
            /\ \A o \in K : P[o] \in reading(o, v)
            /\ \A o \in settable_options \ K : P[o] = A[o]
        <5>1. /\ P = [o \in settable_options |-> IF o \in K THEN Reading(o, v) ELSE A[o]]
              /\ G = B \cup K
          BY <4>2 DEF IsSet
        <5>2. \A o \in K : Reading(o, v) \in reading(o, v)
          BY <3>2, ReadingIsOne, Zenon
        <5> QED BY <3>3, <5>1, <5>2 DEF IsOptions
      <4> QED BY <4>1, <4>3, Zenon
    <3>5. \A o \in K : o \in given'
      BY <3>4
    <3>6. \A o \in settable_options \ K : (o \in given' <=> o \in given)
      BY <3>4
    <3>7. K = applied_to(w.option) \cap settable_options
      BY <3>3 DEF K
    <3> QED BY <1>4, <2>0, <2>1, <3>1, <3>2, <3>3, <3>4, <3>5, <3>6, <3>7, Zenon
  <2> QED BY <1>3, <2>0, <2>1
<1>6. CASE ReadShape(w)
  <2>1. options' = options /\ parsing' = "words" /\ (error' = "" => error = "")
    BY <1>0, <1>6 DEF ReadShape, fail
  <2>2. applied_to(w.option) \cap settable_options = {}
    BY <1>6 DEF ReadShape, applied_to, settable_options, Bools, Switches, Texts, Numbers
  <2>3. \A o \in settable_options : o \in given' <=> o \in given
    BY <1>6 DEF ReadShape, settable_options, Bools, Switches, Texts, Numbers
  <2>4. error' = "" => \A o \in settable_options : Layered(o)'
    BY <1>4, <2>1, <2>2, <2>3
  <2> QED BY <1>3, <2>1, <2>4 DEF OptionsInv, OptionsTypes
<1>7. CASE ReadHelp(w)
  BY <1>3, <1>7 DEF ReadHelp, OptionsInv, OptionsTypes
<1>8. CASE ReadStray(w)
  <2>1. error' # ""
    BY <1>1, <1>8 DEF ReadStray, fail, Word
  <2> QED BY <1>0, <1>3, <1>8, <2>1 DEF ReadStray, OptionsInv, OptionsTypes
<1> QED BY <1>5, <1>6, <1>7, <1>8 DEF ReadWord, w

-----------------------------------------------------------------------------
(* The config file.                                                         *)

\* The file that is used is one of those there are.
LEMMA FileUsed ==
    ASSUME OptionsTypes, config_used # 0
    PROVE  /\ config_used \in DOMAIN files
           /\ \A i \in EntryLines : i \in Nat /\ files[config_used][i].value \in Text
<1>1. files \in Seq(Seq(Line)) /\ files # <<>>
  BY WordsTyped, Zenon
<1>2. config_used \in DOMAIN files
  <2> DEFINE there == {i \in 2..Len(files) : files[i] # Unreadable}
             least == CHOOSE i \in there : \A j \in there : i <= j
  <2>1. config_used = IF "config" \in given THEN 1 ELSE IF there = {} THEN 0 ELSE least
    BY Zenon DEF config_used
  <2>2. 1 \in DOMAIN files /\ 2..Len(files) \subseteq DOMAIN files
    BY <1>1
  <2>3. ASSUME there # {} PROVE least \in there
    <3>1. there \in SUBSET Nat
      BY <1>1
    <3>2. PICK i \in there : \A j \in there : i <= j
      BY <2>3, <3>1, LeastElement
    <3> HIDE DEF there
    <3> QED BY <3>2, Zenon
  <2> HIDE DEF least
  <2> QED BY <2>1, <2>2, <2>3
<1>3. PICK f : f = files[config_used]
  OBVIOUS
<1>4. f \in Seq(Line)
  BY <1>1, <1>2, <1>3
<1>5. \A i \in DOMAIN f : i \in Nat /\ (f[i].kind = "entry" => f[i].value \in Text)
  <2>1. \A i \in DOMAIN f : i \in Nat /\ f[i] \in Line
    BY <1>4
  <2>2. \A l \in Line : l.kind = "entry" => l.value \in Text
    BY DEF Line
  <2> QED BY <2>1, <2>2
<1> QED BY <1>2, <1>3, <1>5, Zenon DEF EntryLines

\* What else holds when neither the words nor what is typed of the file changes.
LEMMA FileStays ==
    ASSUME UNCHANGED <<typed, files, left>>, "config" \in given' <=> "config" \in given,
           "list" \in given' <=> "list" \in given
    PROVE  /\ config_used' = config_used /\ EntryLines' = EntryLines
           /\ \A o : Setters(o)' = Setters(o) /\ lines_of(o)' = lines_of(o)
           /\ \A o : Applies(o)' = Applies(o)
<1>1. config_used' = config_used
  BY DEF config_used
<1> QED BY <1>1 DEF EntryLines, Setters, lines_of, Applies

\* The file is opened, if there is one to open.
LEMMA LoadKeeps ==
    ASSUME OptionsInv, LoadConfig, UNCHANGED <<typed, files, cwd>>
    PROVE  OptionsInv'
<1>0. /\ parsing = "words" /\ left = <<>> /\ UNCHANGED <<left, options, given, resolved>>
      /\ parsing' \in {"merge", "resolve"} /\ (error' = "" => error = "")
  BY DEF LoadConfig, fail
<1>1. /\ config_used' = config_used /\ EntryLines' = EntryLines
      /\ \A o : Setters(o)' = Setters(o) /\ lines_of(o)' = lines_of(o)
      /\ \A o : Applies(o)' = Applies(o)
  BY <1>0, FileStays
<1>2. OptionsTypes'
  BY <1>0 DEF OptionsInv, OptionsTypes, IsOptions
<1>3. OptionsMeanWhatTheySay' /\ DetachedMeansTheSame'
  BY <1>0 DEF OptionsMeanWhatTheySay, LayersAsDocumented, OneDirection, DetachedMeansTheSame
<1>4. ASSUME EntriesInv', error' = "" => \A o \in settable_options : ~ Merged(o)'
      PROVE  OptionsInv'
  <2>1. ASSUME error' = "", NEW o \in settable_options PROVE Layered(o)'
    <3>1. Layered(o) /\ ~ Merged(o) /\ ~ Merged(o)'
      BY <1>0, <1>4, <2>1 DEF OptionsInv, Merged
    <3> QED BY <1>0, <1>1, <3>1 DEF Layered, last
  <2> QED BY <1>2, <1>3, <1>4, <2>1 DEF OptionsInv
<1>5. CASE error # "" \/ "list" \in given \/ config_used = 0
  <2>1. parsing' = "resolve" /\ entries' = entries /\ error' = error
    BY <1>5 DEF LoadConfig
  <2>2. EntriesInv'
    BY <1>0, <2>1 DEF OptionsInv, EntriesInv
  <2>3. error' = "" => \A o : lines_of(o) = {}
    BY <1>5, <2>1 DEF lines_of
  <2> QED BY <1>1, <1>4, <2>2, <2>3 DEF Merged
<1>6. CASE ~ (error # "" \/ "list" \in given \/ config_used = 0)
  <2>1. CASE files[config_used] = Unreadable \/ malformed(files[config_used])
    <3>1. parsing' = "resolve" /\ error' = "file"
      BY <1>6, <2>1 DEF LoadConfig, fail
    <3> QED BY <1>4, <3>1 DEF EntriesInv
  <2>2. CASE ~ (files[config_used] = Unreadable \/ malformed(files[config_used]))
    <3>1. /\ parsing' = "merge" /\ error' = error
          /\ entries' = read_key_value_file(files[config_used])
      BY <1>6, <2>2 DEF LoadConfig
    <3>2. /\ DOMAIN entries' = EntryLines
          /\ \A i \in DOMAIN entries' : entries'[i] = files[config_used][i]
      BY <3>1 DEF read_key_value_file, EntryLines
    <3>3. EntriesInv'
      BY <1>0, <1>1, <1>6, <3>1, <3>2 DEF EntriesInv
    <3>4. \A o : lines_of(o) \subseteq EntryLines
      BY DEF lines_of, EntryLines
    <3>5. \A o : ~ Merged(o)'
      BY <1>1, <3>2, <3>4 DEF Merged
    <3> QED BY <1>4, <3>3, <3>5
  <2> QED BY <2>1, <2>2
<1> QED BY <1>5, <1>6

\* Nothing is left to merge.
LEMMA DoneKeeps ==
    ASSUME OptionsInv, MergeDone, UNCHANGED <<typed, files, cwd>>
    PROVE  OptionsInv'
<1>0. /\ parsing = "merge" /\ parsing' = "resolve" /\ DOMAIN entries = {}
      /\ UNCHANGED <<left, options, given, error, entries, resolved>>
  BY DEF MergeDone
<1>1. /\ config_used' = config_used /\ EntryLines' = EntryLines
      /\ \A o : Setters(o)' = Setters(o) /\ lines_of(o)' = lines_of(o)
      /\ \A o : Applies(o)' = Applies(o)
  BY <1>0, FileStays
<1>2. ASSUME error = "", NEW o \in settable_options PROVE Layered(o)'
  <2>1. Layered(o) /\ Merged(o)' = Merged(o)
    BY <1>0, <1>1, <1>2 DEF OptionsInv, Merged
  <2> QED BY <1>0, <1>1, <2>1 DEF Layered, last
<1>3. OptionsTypes' /\ EntriesInv'
  BY <1>0 DEF OptionsInv, OptionsTypes, EntriesInv, IsOptions
<1>4. OptionsMeanWhatTheySay' /\ DetachedMeansTheSame'
  BY <1>0 DEF OptionsMeanWhatTheySay, LayersAsDocumented, OneDirection, DetachedMeansTheSame
<1> QED BY <1>0, <1>2, <1>3, <1>4 DEF OptionsInv

\* The lines are merged from the first to the last.
LEMMA FirstLine ==
    ASSUME NEW D \in SUBSET Nat, D # {}, NEW i, i = CHOOSE l \in D : \A j \in D : l <= j
    PROVE  i \in D /\ \A j \in D \ {i} : i < j
<1>1. PICK l \in D : \A j \in D : l <= j
  BY LeastElement
<1>2. i \in D /\ \A j \in D : i <= j
  BY <1>1, Zenon
<1>3. \A a, b \in Nat : a <= b /\ b # a => a < b
  OBVIOUS
<1>4. \A j \in D : j \in Nat
  OBVIOUS
<1> QED BY <1>2, <1>3, <1>4, Zenon

\* A line that is not refused keeps the options as the words and the lines before it say.
LEMMA MergeKeeps ==
    ASSUME OptionsInv, MergeEntry, UNCHANGED <<typed, files, cwd>>
    PROVE  OptionsInv'
<1>a. PICK i, key, v : /\ i = CHOOSE l \in DOMAIN entries : \A j \in DOMAIN entries : l <= j
                      /\ key = entries[i].key /\ v = entries[i].value
  OBVIOUS
<1> DEFINE wrong == \/ key \notin settable_options
                    \/ counts(i) /\ reading(key, v) = {}
           merges == counts(i) /\ applies(entries[i])
<1>0. /\ parsing = "merge" /\ DOMAIN entries # {} /\ UNCHANGED <<left, resolved>>
      /\ left = <<>> /\ error = ""
      /\ "list" \notin given /\ config_used # 0
      /\ DOMAIN entries \subseteq EntryLines
      /\ \A n \in DOMAIN entries : entries[n] = files[config_used][n]
      /\ \A n \in EntryLines \ DOMAIN entries, j \in DOMAIN entries : n < j
  BY DEF MergeEntry, OptionsInv, OptionsTypes, EntriesInv
<1>1. /\ EntryLines \subseteq Nat
      /\ i \in DOMAIN entries /\ \A j \in DOMAIN entries \ {i} : i < j
  <2>1. EntryLines \subseteq Nat
    BY <1>0, FileUsed DEF OptionsInv
  <2>2. DOMAIN entries \in SUBSET Nat
    BY <1>0, <2>1
  <2> QED BY <1>0, <1>a, <2>1, <2>2, FirstLine
<1>2. /\ wrong => error' = "line" /\ parsing' = "resolve"
      /\ ~ wrong => error' = error /\ parsing' = parsing
      /\ ~ wrong /\ merges =>
            /\ options' = apply_option([options |-> options, given |-> given], key, v).options
            /\ given' = apply_option([options |-> options, given |-> given], key, v).given
      /\ ~ (~ wrong /\ merges) => options' = options /\ given' = given
      /\ entries' = Restrict(entries, DOMAIN entries \ {i})
  <2>1. MergeEntry
    OBVIOUS
  <2> QED BY <1>0, <1>a, <2>1, Zenon DEF MergeEntry, fail
<1>3. /\ DOMAIN entries' = DOMAIN entries \ {i}
      /\ \A n \in DOMAIN entries' : entries'[n] = entries[n]
  BY <1>2 DEF Restrict
<1>4. \A n : n \in lines_of(key) <=> n \in EntryLines /\ files[config_used][n].key = key
  BY <1>0 DEF lines_of, EntryLines
<1>5. \A o, n : n \in lines_of(o) => n \in EntryLines /\ files[config_used][n].key = o
  BY <1>0 DEF lines_of, EntryLines
<1>6. key = files[config_used][i].key /\ v = files[config_used][i].value
  BY <1>0, <1>1, <1>a
<1>7. counts(i) <=> /\ key \notin given
                    /\ \A j \in DOMAIN entries : files[config_used][j].key = key => j <= i
  BY <1>0, <1>1, <1>6 DEF counts, is_last_line
<1>8. applies(entries[i]) <=> Applies(key)
  BY <1>a DEF applies, Applies
<1>9. CASE wrong
  <2>1. error' = "line" /\ parsing' = "resolve"
    BY <1>2, <1>9
  <2>2. OptionsMeanWhatTheySay' /\ DetachedMeansTheSame'
    BY <2>1 DEF OptionsMeanWhatTheySay, LayersAsDocumented, OneDirection, DetachedMeansTheSame
  <2> QED BY <1>0, <2>1, <2>2 DEF OptionsInv, OptionsTypes, EntriesInv
<1>10. CASE ~ wrong
  <2>0. /\ error' = "" /\ parsing' = "merge" /\ key \in settable_options
        /\ "config" \notin settable_options /\ "list" \notin settable_options
    BY <1>0, <1>2, <1>10 DEF settable_options, Bools, Switches, Texts, Numbers
  <2>1. /\ IsOptions(options')
        /\ merges => given' = given \cup {key} /\ options'[key] \in reading(key, v)
        /\ ~ merges => options' = options /\ given' = given
        /\ given' \subseteq given \cup {key} /\ given \subseteq given'
        /\ \A o \in settable_options \ {key} : options'[o] = options[o]
    <3>1. IsOptions(options)
      BY <1>0 DEF OptionsInv, OptionsTypes
    <3>2. CASE merges
      <4>1. reading(key, v) # {}
        BY <1>10, <3>2
      <4>2. PICK r, A, B : /\ r = apply_option([options |-> A, given |-> B], key, v)
                           /\ A = options /\ B = given
        OBVIOUS
      <4>3. r = [options |-> [o \in settable_options |-> IF o = key THEN Reading(key, v) ELSE A[o]],
                 given |-> B \cup {key}]
        <5>1. IsOptions(A)
          BY <3>1, <4>2, Zenon
        <5>2. apply_option([options |-> A, given |-> B], key, v) =
                 [options |-> [o \in settable_options |-> IF o = key THEN Reading(key, v) ELSE A[o]],
                  given |-> B \cup {key}]
          <6>1. key \in settable_options
            BY <2>0
          <6> QED BY <5>1, <6>1, ApplyOptionIs
        <5> QED BY <4>2, <5>2, Zenon
      <4>4. options' = r.options /\ given' = r.given
        BY <1>2, <1>10, <3>2, <4>2, Zenon
      <4>5. Reading(key, v) \in reading(key, v)
        BY <4>1, ReadingIsOne
      <4>6. /\ options' = [o \in settable_options |-> IF o = key THEN Reading(key, v) ELSE A[o]]
            /\ given' = B \cup {key}
        BY <4>3, <4>4
      <4> HIDE DEF merges
      <4> QED BY <2>0, <3>2, <4>2, <4>5, <4>6 DEF IsOptions
    <3>3. CASE ~ merges
      BY <1>2, <3>1, <3>3
    <3> QED BY <3>2, <3>3
  <2>2. /\ "config" \in given' <=> "config" \in given
        /\ "list" \in given' <=> "list" \in given
    BY <2>0, <2>1
  <2>3. /\ config_used' = config_used /\ EntryLines' = EntryLines
        /\ \A o : Setters(o)' = Setters(o) /\ lines_of(o)' = lines_of(o)
        /\ \A o : Applies(o)' = Applies(o)
    BY <1>0, <2>2, FileStays
  <2>4. OptionsTypes'
    BY <1>0, <2>0, <2>1 DEF OptionsInv, OptionsTypes
  <2>5. EntriesInv'
    <3>1. \A n \in EntryLines \ DOMAIN entries', j \in DOMAIN entries' : n < j
      BY <1>0, <1>1, <1>3
    <3> QED BY <1>0, <1>3, <2>0, <2>2, <2>3, <3>1 DEF EntriesInv
  <2>6. ASSUME NEW o \in settable_options PROVE Layered(o)'
    <3>1. Layered(o)
      BY <1>0 DEF OptionsInv
    <3>2. CASE o # key
      <4>1. Merged(o)' <=> Merged(o)
        <5>1. i \notin lines_of(o)
          BY <1>5, <1>6, <3>2
        <5> QED BY <1>0, <1>3, <2>0, <2>3, <5>1 DEF Merged
      <4>2. options'[o] = options[o] /\ (o \in given' <=> o \in given)
        BY <2>1, <3>2
      <4> QED BY <2>3, <3>1, <4>1, <4>2 DEF Layered, last
    <3>3. CASE o = key /\ merges
      <4>1. key \notin given /\ Applies(key)
        BY <1>7, <1>8, <3>3
      <4>2. Setters(o) = {}
        BY <3>1, <3>3, <4>1 DEF Layered
      <4>3. /\ i \in lines_of(key) /\ lines_of(key) \in SUBSET Int
            /\ \A j \in lines_of(key) : j <= i
        <5>1. i \in lines_of(key) /\ lines_of(key) \subseteq Nat
          BY <1>0, <1>1, <1>4, <1>6
        <5>2. \A j \in lines_of(key) : j \in DOMAIN entries => j <= i
          BY <1>4, <1>7, <3>3
        <5>3. \A j \in lines_of(key) : j \notin DOMAIN entries => j < i
          BY <1>0, <1>1, <1>4
        <5> QED BY <1>1, <5>1, <5>2, <5>3
      <4>4. last(lines_of(key)) = i
        BY <4>3, LastIs
      <4>5. Merged(key)'
        <5>1. lines_of(key) \cap DOMAIN entries' = {}
          BY <1>1, <1>3, <4>3
        <5> QED BY <2>0, <2>3, <4>1, <4>3, <5>1 DEF Merged
      <4>6. last(lines_of(key))' = i
        BY <2>3, <4>4 DEF last
      <4> QED BY <1>6, <2>1, <2>3, <3>3, <4>2, <4>5, <4>6 DEF Layered
    <3>4. CASE o = key /\ ~ merges
      <4>1. options' = options /\ given' = given
        BY <2>1, <3>4
      <4>2. CASE Setters(o) # {}
        BY <2>3, <3>1, <4>1, <4>2 DEF Layered, last
      <4>3. CASE Setters(o) = {}
        <5>1. ~ Merged(key)
          BY <1>0, <1>1, <1>4, <1>6 DEF Merged
        <5>2. key \notin given /\ options[key] = Unset
          BY <3>1, <3>4, <4>3, <5>1 DEF Layered
        <5>3. ~ Merged(key)'
          <6>1. CASE ~ Applies(key)
            BY <2>3, <6>1 DEF Merged
          <6>2. CASE Applies(key)
            <7>1. PICK j \in DOMAIN entries : files[config_used][j].key = key /\ ~ (j <= i)
              BY <1>7, <1>8, <3>4, <5>2, <6>2
            <7>2. j # i
              <8>1. i \in Nat
                BY <1>0, <1>1
              <8> QED BY <7>1, <8>1
            <7>3. j \in lines_of(key) /\ j \in DOMAIN entries'
              BY <1>0, <1>3, <1>4, <7>1, <7>2
            <7> QED BY <2>3, <7>3 DEF Merged
          <6> QED BY <6>1, <6>2
        <5> QED BY <2>3, <3>4, <4>1, <4>3, <5>2, <5>3 DEF Layered
      <4> QED BY <4>2, <4>3
    <3> QED BY <3>2, <3>3, <3>4
  <2>7. OptionsMeanWhatTheySay' /\ DetachedMeansTheSame'
    BY <2>0 DEF OptionsMeanWhatTheySay, LayersAsDocumented, OneDirection, DetachedMeansTheSame
  <2> QED BY <2>4, <2>5, <2>6, <2>7 DEF OptionsInv
<1> QED BY <1>9, <1>10

-----------------------------------------------------------------------------
(* What the options come to.                                                *)

\* What is written, and what is put before it, between and after.
Token == STRING \cup {Unset[1], DefaultServerPort[1], "ws", "://", ":", "/sendspin"}

\* A text is made of tokens, and none is the mark of no text.
LEMMA TextIsTokens ==
    /\ Text \subseteq Seq(Token) /\ Unset \notin Text
    /\ Unset \in Seq(Token) /\ DefaultServerPort \in Seq(Token)
    /\ <<"ws", "://">> \in Seq(Token) /\ <<":">> \in Seq(Token) /\ <<"/sendspin">> \in Seq(Token)
<1>1. \A S : \A x \in S, y \in S : <<x>> \in Seq(S) /\ <<x, y>> \in Seq(S)
  OBVIOUS
<1>2. Text \subseteq Seq(Token)
  BY DEF Text, Token
<1>3. ASSUME Unset \in Text PROVE FALSE
  <2>1. Unset[1] \in STRING \ {"(unset)"}
    BY <1>3 DEF Text, Unset
  <2> QED BY <2>1 DEF Unset
<1>4. /\ Unset[1] \in Token /\ DefaultServerPort[1] \in Token
      /\ "ws" \in Token /\ "://" \in Token /\ ":" \in Token /\ "/sendspin" \in Token
  BY Zenon DEF Token
<1>5. Unset = <<Unset[1]>> /\ DefaultServerPort = <<DefaultServerPort[1]>>
  BY DEF Unset, DefaultServerPort
<1>6. /\ <<Unset[1]>> \in Seq(Token) /\ <<DefaultServerPort[1]>> \in Seq(Token)
      /\ <<"ws", "://">> \in Seq(Token) /\ <<":">> \in Seq(Token) /\ <<"/sendspin">> \in Seq(Token)
  BY <1>1, <1>4, Zenon
<1> QED BY <1>2, <1>3, <1>5, <1>6, Zenon

\* A host and a port are cut from the text.
LEMMA HostIsText ==
    ASSUME NEW value \in Seq(Token), value # <<>>, NEW p \in host_and_port(value)
    PROVE  p.host \in Seq(Token) /\ p.port \in Seq(Token)
<1> DEFINE close == {i \in DOMAIN value : value[i] = "]"}
           at == CHOOSE i \in close : \A j \in close : i <= j
           colon == CHOOSE i \in colons(value) : TRUE
<1>1. Unset \in Seq(Token) /\ DOMAIN value = 1..Len(value) /\ Len(value) \in Nat
  <2>1. DOMAIN value = 1..Len(value) /\ Len(value) \in Nat
    OBVIOUS
  <2> QED BY <2>1, TextIsTokens
<1>2. \A n \in DOMAIN value : /\ SubSeq(value, 1, n) \in Seq(Token)
                              /\ SubSeq(value, 1, n - 1) \in Seq(Token)
                              /\ SubSeq(value, n + 1, Len(value)) \in Seq(Token)
  BY <1>1
<1>3. close # {} => at \in DOMAIN value
  <2>1. close \in SUBSET Nat
    BY <1>1
  <2>2. ASSUME close # {} PROVE at \in close
    <3>1. PICK n \in close : \A j \in close : n <= j
      BY <2>1, <2>2, LeastElement
    <3> HIDE DEF close
    <3> QED BY <3>1, Zenon
  <2> QED BY <2>2
<1>4. colons(value) # {} => colon \in DOMAIN value
  <2>1. colons(value) # {} => colon \in colons(value)
    OBVIOUS
  <2> QED BY <2>1 DEF colons
<1>5. \/ p = [host |-> value, port |-> Unset]
      \/ /\ close # {} /\ value[1] = "[" /\ at # Len(value)
         /\ p = [host |-> SubSeq(value, 1, at), port |-> SubSeq(value, at + 2, Len(value))]
      \/ /\ colons(value) # {}
         /\ p = [host |-> SubSeq(value, 1, colon - 1),
                 port |-> SubSeq(value, colon + 1, Len(value))]
  <2> HIDE DEF close, at, colon
  <2> QED BY DEF host_and_port, close, at, colon
<1>6. close # {} /\ value[1] = "[" /\ at # Len(value) => SubSeq(value, at + 2, Len(value)) \in Seq(Token)
  <2> HIDE DEF close, at
  <2> QED BY <1>1, <1>3
<1> HIDE DEF close, at, colon
<1>7. CASE p = [host |-> value, port |-> Unset]
  BY <1>1, <1>7
<1>8. CASE /\ close # {} /\ value[1] = "[" /\ at # Len(value)
           /\ p = [host |-> SubSeq(value, 1, at), port |-> SubSeq(value, at + 2, Len(value))]
  BY <1>2, <1>3, <1>6, <1>8
<1>9. CASE /\ colons(value) # {}
           /\ p = [host |-> SubSeq(value, 1, colon - 1),
                   port |-> SubSeq(value, colon + 1, Len(value))]
  BY <1>2, <1>4, <1>9
<1> QED BY <1>5, <1>7, <1>8, <1>9

\* The mark of no text is one token.
LEMMA LongerIsSet == ASSUME NEW u, Len(u) > 1 PROVE u # Unset
BY DEF Unset

\* No server is the mark of none.
LEMMA UrlIsSet ==
    ASSUME NEW value \in Text, NEW url \in parse_server_url(value)
    PROVE  url # Unset
<1>1. value \in Seq(Token) /\ value # Unset
  BY TextIsTokens
<1>2. CASE value = <<>> \/ scheme_end(value) > 0
  <2>1. url = value
    BY <1>2 DEF parse_server_url
  <2> QED BY <1>1, <2>1
<1>4. CASE value # <<>> /\ ~ (scheme_end(value) > 0)
  <2>1. PICK p \in host_and_port(value) :
            url = <<"ws", "://">> \o p.host \o <<":">>
                     \o (IF p.port = Unset THEN DefaultServerPort ELSE p.port) \o <<"/sendspin">>
    BY <1>4 DEF parse_server_url
  <2>2. PICK h, n : h = p.host /\ n = IF p.port = Unset THEN DefaultServerPort ELSE p.port
    OBVIOUS
  <2>3. h \in Seq(Token) /\ n \in Seq(Token)
    <3>1. p.host \in Seq(Token) /\ p.port \in Seq(Token)
      BY <1>1, <1>4, HostIsText
    <3> QED BY <2>2, <3>1, TextIsTokens
  <2>4. url = <<"ws", "://">> \o h \o <<":">> \o n \o <<"/sendspin">>
    BY <2>1, <2>2, Zenon
  <2>5. \A a \in Seq(Token), b \in Seq(Token), c \in Seq(Token) :
            Len(a \o h \o b \o n \o c) = Len(a) + Len(h) + Len(b) + Len(n) + Len(c)
    BY <2>3
  <2>6. Len(url) = 2 + Len(h) + 1 + Len(n) + 1
    <3>1. Len(<<"ws", "://">>) = 2 /\ Len(<<":">>) = 1 /\ Len(<<"/sendspin">>) = 1
      OBVIOUS
    <3> QED BY <2>4, <2>5, <3>1, TextIsTokens, Zenon
  <2>7. Len(url) > 1
    BY <2>3, <2>6
  <2> QED BY <2>7, LongerIsSet
<1> QED BY <1>2, <1>4

\* A path taken from the root is absolute.
LEMMA PathsAreAbsolute ==
    ASSUME NEW value \in Text, value # <<>>
    PROVE  /\ cwd => absolute(absolute_path(value))
           /\ absolute_path(value) \in {value, <<"/">> \o value}
<1>1. value \in Seq(STRING)
  BY DEF Text
<1>2. (<<"/">> \o value)[1] = "/" /\ <<"/">> \o value # <<>>
  BY <1>1
<1> QED BY <1>2 DEF absolute_path, absolute

\* The words and the lines have been read, and nothing was wrong with them.
SoFarSoGood == parsing = "resolve" /\ error = ""

\* What a word and a line are, once all have been read.
LEMMA AllRead ==
    ASSUME OptionsInv, SoFarSoGood, NEW o \in settable_options
    PROVE  /\ Setters(o) = {i \in DOMAIN typed.words : o \in applied_to(typed.words[i].option)}
           /\ Merged(o) <=> Applies(o) /\ lines_of(o) # {}
           /\ Setters(o) # {} => last(Setters(o)) \in Setters(o)
           /\ Setters(o) # {} /\ o \notin Switches =>
                  value_of(typed.words[last(Setters(o))]) \in Text
           /\ Merged(o) => files[config_used][last(lines_of(o))].value \in Text
           /\ o \in given <=> Setters(o) # {} \/ Merged(o)
<1>0. left = <<>> /\ DOMAIN entries = {} /\ OptionsTypes /\ Layered(o)
  BY DEF OptionsInv, OptionsTypes, EntriesInv, SoFarSoGood
<1>1. typed.words \in Seq(Word)
  BY <1>0, WordsTyped
<1>2. Setters(o) = {i \in DOMAIN typed.words : o \in applied_to(typed.words[i].option)}
  <2>1. Len(left) = 0 /\ Len(typed.words) \in Nat
    BY <1>0, <1>1
  <2>2. \A i \in DOMAIN typed.words : i <= Len(typed.words) - Len(left)
    <3>1. PICK most : most = Len(typed.words)
      OBVIOUS
    <3>2. most \in Nat /\ DOMAIN typed.words = 1..most
      BY <1>1, <3>1
    <3> QED BY <2>1, <3>1, <3>2
  <2> QED BY <2>2 DEF Setters
<1>3. Merged(o) <=> Applies(o) /\ lines_of(o) # {}
  BY <1>0 DEF Merged, SoFarSoGood
<1>4. ASSUME Setters(o) # {} PROVE last(Setters(o)) \in Setters(o)
  <2>1. PICK most : most = Len(typed.words)
    OBVIOUS
  <2>2. most \in Nat /\ DOMAIN typed.words = 1..most
    BY <1>1, <2>1
  <2>3. Setters(o) \in SUBSET Nat /\ \A i \in Setters(o) : i <= most
    BY <1>2, <2>2
  <2> QED BY <1>4, <2>2, <2>3, LastIn
<1>5. ASSUME Setters(o) # {}, o \notin Switches
      PROVE  value_of(typed.words[last(Setters(o))]) \in Text
  <2>1. PICK n : n = last(Setters(o))
    OBVIOUS
  <2>3. typed.words[n] \in Word /\ o \in applied_to(typed.words[n].option)
    <3>1. n \in Setters(o)
      BY <1>4, <1>5, <2>1
    <3> QED BY <1>1, <1>2, <3>1
  <2>4. typed.words[n].option \notin Switches
    BY <1>5, <2>3 DEF applied_to, Switches
  <2>5. value_of(typed.words[n]) = typed.words[n].value /\ typed.words[n].value \in Text
    BY <2>3, <2>4 DEF value_of, Word
  <2> QED BY <2>1, <2>5, Zenon
<1>6. ASSUME Merged(o) PROVE files[config_used][last(lines_of(o))].value \in Text
  <2>1. PICK n : n = last(lines_of(o))
    OBVIOUS
  <2>2. config_used # 0 /\ lines_of(o) \subseteq EntryLines
    BY <1>3, <1>6 DEF lines_of, EntryLines
  <2>3. /\ config_used \in DOMAIN files
        /\ \A i \in EntryLines : i \in Nat /\ files[config_used][i].value \in Text
    BY <1>0, <2>2, FileUsed
  <2>4. files[config_used] \in Seq(Line)
    <3>1. files \in Seq(Seq(Line))
      BY <1>0, WordsTyped, Zenon
    <3>2. \A s \in Seq(Seq(Line)) : \A i \in DOMAIN s : s[i] \in Seq(Line)
      OBVIOUS
    <3> QED BY <2>3, <3>1, <3>2, Zenon
  <2>5. n \in lines_of(o)
    <3>1. lines_of(o) \in SUBSET Nat
      BY <2>2, <2>3
    <3>2. \A i \in lines_of(o) : i \in DOMAIN files[config_used]
      BY <2>2 DEF EntryLines
    <3>3. PICK most : most = Len(files[config_used])
      OBVIOUS
    <3>4. most \in Nat /\ DOMAIN files[config_used] = 1..most
      BY <2>4, <3>3
    <3>5. \A i \in lines_of(o) : i <= most
      BY <3>2, <3>4
    <3> QED BY <1>3, <1>6, <2>1, <3>1, <3>4, <3>5, LastIn
  <2> QED BY <2>1, <2>2, <2>3, <2>5, Zenon
<1>7. o \in given <=> Setters(o) # {} \/ Merged(o)
  BY <1>0 DEF Layered
<1> QED BY <1>2, <1>3, <1>4, <1>5, <1>6, <1>7

\* The words that set -i are the two flags', and those that set another option its own.
LEMMA SettersAre ==
    ASSUME OptionsInv, SoFarSoGood, NEW o \in settable_options
    PROVE  /\ o # "input" => Setters(o) = values_typed(o)
           /\ o = "input" => Setters(o) = input_typed /\ values_typed(o) \subseteq input_typed
<1>1. Setters(o) = {i \in DOMAIN typed.words : o \in applied_to(typed.words[i].option)}
  BY AllRead
<1>2. \A x : o \in applied_to(x) <=> x = o \/ (x = "audio-format" /\ o = "input")
  BY DEF applied_to
<1> QED BY <1>1, <1>2 DEF values_typed, input_typed

\* Before the paths are made absolute, each option has what its layers say.
LEMMA LayersRead ==
    ASSUME OptionsInv, SoFarSoGood, NEW o \in settable_options
    PROVE  /\ \/ options[o] \in layered(o)
              \/ /\ o = "input" /\ input_typed # {}
                 /\ options[o] = typed.words[last(input_typed)].value
           /\ o = "server" => \/ o \notin given /\ layered(o) = {Unset}
                              \/ o \in given /\ layered(o) = {options[o]} /\ options[o] \in Text
           /\ o \in Texts /\ o \in given => options[o] \in Text /\ options[o] # <<>>
           /\ o \notin given => options[o] = Unset
<1>1. Layered(o)
  BY DEF OptionsInv, SoFarSoGood
<1>2. /\ Merged(o) <=> Applies(o) /\ lines_of(o) # {}
      /\ Setters(o) # {} => last(Setters(o)) \in Setters(o)
      /\ Setters(o) # {} /\ o \notin Switches => value_of(typed.words[last(Setters(o))]) \in Text
      /\ Merged(o) => files[config_used][last(lines_of(o))].value \in Text
      /\ o \in given <=> Setters(o) # {} \/ Merged(o)
  BY AllRead
<1>3. /\ o # "input" => Setters(o) = values_typed(o)
      /\ o = "input" => Setters(o) = input_typed /\ values_typed(o) \subseteq input_typed
  BY SettersAre
<1>4. layered(o) = IF values_typed(o) # {}
                   THEN reading(o, value_of(typed.words[last(values_typed(o))]))
                   ELSE IF Merged(o) THEN reading(o, files[config_used][last(lines_of(o))].value)
                   ELSE {Unset}
  BY <1>2 DEF layered, Applies
<1>5. ASSUME NEW v PROVE /\ o = "server" => reading(o, v) = {v}
                         /\ o \in Texts => reading(o, v) = {v} \ {<<>>}
  <2>1. /\ o = "server" => o \notin Bools \cup Numbers \cup Texts
                              \cup {"log-level", "source-stream-style", "audio-format"}
        /\ o \in Texts => o \notin Bools \cup Numbers
                              \cup {"log-level", "source-stream-style", "audio-format"}
    BY DEF Bools, Switches, Numbers, Texts
  <2> QED BY <2>1 DEF reading
<1>6. o \in Texts \cup {"server"} => o \notin Switches
  BY DEF Texts, Switches
<1>7. CASE Setters(o) # {}
  <2>1. PICK v : v = value_of(typed.words[last(Setters(o))])
    OBVIOUS
  <2>2. o \in given /\ options[o] \in reading(o, v)
    BY <1>1, <1>7, <2>1, Zenon DEF Layered
  <2>3. o \in Texts \cup {"server"} => v \in Text
    BY <1>2, <1>6, <1>7, <2>1
  <2>4. o # "input" => layered(o) = reading(o, v)
    BY <1>3, <1>4, <1>7, <2>1
  <2>5. o = "input" => input_typed # {} /\ options[o] = typed.words[last(input_typed)].value
    <3>1. ASSUME o = "input" PROVE v = typed.words[last(input_typed)].value
      <4>1. last(input_typed) \in input_typed
        BY <1>2, <1>3, <1>7, <3>1
      <4> QED BY <1>3, <2>1, <3>1, <4>1 DEF value_of, input_typed, Switches
    <3>2. o = "input" => o \in Texts
      BY DEF Texts
    <3> QED BY <1>3, <1>5, <1>7, <2>2, <3>1, <3>2
  <2> QED BY <1>5, <2>2, <2>3, <2>4, <2>5
<1>8. CASE Setters(o) = {} /\ Merged(o)
  <2>1. PICK v : v = files[config_used][last(lines_of(o))].value
    OBVIOUS
  <2>2. o \in given /\ options[o] \in reading(o, v) /\ v \in Text
    BY <1>1, <1>2, <1>8, <2>1, Zenon DEF Layered
  <2>3. layered(o) = reading(o, v)
    BY <1>3, <1>4, <1>8, <2>1
  <2> QED BY <1>5, <2>2, <2>3
<1>9. CASE Setters(o) = {} /\ ~ Merged(o)
  <2>1. o \notin given /\ options[o] = Unset
    BY <1>1, <1>9 DEF Layered
  <2>2. layered(o) = {Unset}
    BY <1>3, <1>4, <1>9
  <2> QED BY <2>1, <2>2
<1> QED BY <1>7, <1>8, <1>9

\* What is written of a file is an absolute path, or as it was; nothing else changes.
LEMMA PathsResolved ==
    ASSUME OptionsInv, SoFarSoGood, Resolve, NEW o \in settable_options
    PROVE  /\ options'[o] = options[o] \/ (o \in NormalizedPaths /\ options'[o] = <<"/">> \o options[o])
           /\ o \notin NormalizedPaths => options'[o] = options[o]
           /\ cwd /\ "daemonize" \in given /\ o \in NormalizedPaths /\ options'[o] # Unset =>
                absolute(options'[o])
<1>1. options'[o] = IF "daemonize" \in given /\ o \in given \cap NormalizedPaths
                    THEN absolute_path(options[o]) ELSE options[o]
  BY DEF Resolve
<1>2. NormalizedPaths \subseteq Texts
  BY DEF NormalizedPaths, Texts
<1>3. /\ o \in Texts /\ o \in given => options[o] \in Text /\ options[o] # <<>>
      /\ o \notin given => options[o] = Unset
  BY LayersRead
<1>4. CASE "daemonize" \in given /\ o \in given \cap NormalizedPaths
  <2>1. PICK v : v = options[o]
    OBVIOUS
  <2>2. v \in Text /\ v # <<>>
    BY <1>2, <1>3, <1>4, <2>1
  <2>3. /\ cwd => absolute(absolute_path(v))
        /\ absolute_path(v) \in {v, <<"/">> \o v}
    BY <2>2, PathsAreAbsolute
  <2>4. options'[o] = absolute_path(v)
    BY <1>1, <1>4, <2>1
  <2> QED BY <1>4, <2>1, <2>3, <2>4
<1>5. CASE ~ ("daemonize" \in given /\ o \in given \cap NormalizedPaths)
  <2>1. options'[o] = options[o]
    BY <1>1, <1>5
  <2> QED BY <1>3, <1>5, <2>1
<1> QED BY <1>4, <1>5

\* The last complaints, and the player that is told of a server, or is not.
LEMMA ResolveKeeps ==
    ASSUME OptionsInv, Resolve, UNCHANGED <<typed, files, cwd>>
    PROVE  OptionsInv'
<1>0. /\ parsing = "resolve" /\ UNCHANGED <<left, given, entries>> /\ left = <<>>
      /\ parsing' \in {"refused", "accepted"}
      /\ parsing' = "accepted" => complaint = ""
      /\ complaint = "" => error = ""
  BY DEF Resolve, OptionsInv, OptionsTypes, complaint
<1>1. OptionsTypes'
  <2>1. IsOptions(options')
    <3>1. PICK A : A = options'
      OBVIOUS
    <3>2. IsOptions(A)
      BY <3>1 DEF Resolve, IsOptions
    <3> QED BY <3>1, <3>2, Zenon DEF IsOptions
  <2> QED BY <1>0, <2>1 DEF OptionsInv, OptionsTypes
<1>2. EntriesInv'
  BY <1>0 DEF EntriesInv
<1>3. /\ \A o : layered(o)' = layered(o)
      /\ input_typed' = input_typed
  <2>1. config_used' = config_used
    BY <1>0, FileStays
  <2> QED BY <1>0, <2>1 DEF layered, lines_of, values_typed, input_typed
<1>4. ASSUME parsing' = "accepted" PROVE SoFarSoGood
  BY <1>0, <1>4 DEF SoFarSoGood
<1>5. LayersAsDocumented'
  <2>1. ASSUME parsing' = "accepted", NEW o \in settable_options
        PROVE  \/ options'[o] \in layered(o)
               \/ \E v \in layered(o) : o \in NormalizedPaths /\ options'[o] = <<"/">> \o v
               \/ /\ o = "input" /\ input_typed # {}
                  /\ options'[o] = typed.words[last(input_typed)].value
    <3>1. SoFarSoGood
      BY <1>4, <2>1
    <3>2. /\ options'[o] = options[o] \/ (o \in NormalizedPaths /\ options'[o] = <<"/">> \o options[o])
          /\ o \notin NormalizedPaths => options'[o] = options[o]
      BY <3>1, PathsResolved
    <3>3. \/ options[o] \in layered(o)
          \/ /\ o = "input" /\ input_typed # {}
             /\ options[o] = typed.words[last(input_typed)].value
      BY <3>1, LayersRead
    <3>4. o = "input" => o \notin NormalizedPaths
      BY DEF NormalizedPaths
    <3> QED BY <3>2, <3>3, <3>4
  <2>2. typed' = typed /\ last(input_typed)' = last(input_typed)
    BY <1>3 DEF last
  <2> QED BY <1>3, <2>1, <2>2 DEF LayersAsDocumented
<1>6. OneDirection'
  <2>1. ASSUME parsing' = "accepted"
        PROVE  /\ (resolved'.server # Unset \/ resolved'.discover) = (layered("server") # {Unset})
               /\ "server" \notin given => layered("server") = {Unset}
    <3>1. "server" \in settable_options
      BY DEF settable_options
    <3>2. \/ "server" \notin given /\ layered("server") = {Unset}
          \/ "server" \in given /\ layered("server") = {options["server"]} /\ options["server"] \in Text
      BY <1>4, <2>1, <3>1, LayersRead
    <3> DEFINE v == options["server"]
    <3>4. /\ resolved'.server = IF "server" \in given /\ ~ parse_discovery_spec(v)
                                THEN CHOOSE url \in parse_server_url(v) : TRUE ELSE Unset
          /\ resolved'.discover = ("server" \in given /\ parse_discovery_spec(v))
      <4> DEFINE url == CHOOSE u \in parse_server_url(v) : TRUE
                 spec == parse_discovery_spec(v)
                 now == IF is_true("no-control") /\ typed.subcommand = "" THEN "none"
                        ELSE IF "control-socket" \in given THEN "given" ELSE "default"
                 fine == complaint = ""
      <4>1. fine
        BY <1>0, <2>1
      <4>2. resolved' = [server |-> IF "server" \in given /\ ~ spec /\ fine THEN url ELSE Unset,
                         discover |-> "server" \in given /\ fine /\ spec, socket |-> now]
        BY Zenon DEF Resolve
      <4> HIDE DEF url, spec, now, fine
      <4>3. /\ resolved'.server = IF "server" \in given /\ ~ spec /\ fine THEN url ELSE Unset
            /\ resolved'.discover = ("server" \in given /\ fine /\ spec)
        BY <4>2
      <4>4. /\ resolved'.server = IF "server" \in given /\ ~ spec THEN url ELSE Unset
            /\ resolved'.discover = ("server" \in given /\ spec)
        BY <4>1, <4>3
      <4> QED BY <4>4 DEF url, spec
    <3>5. "server" \in given => (parse_discovery_spec(v) \/ parse_server_url(v) # {})
      BY <1>0, <2>1 DEF complaint, server_known
    <3> HIDE DEF v
    <3>6. CASE "server" \notin given
      BY <3>2, <3>4, <3>6
    <3>7. CASE "server" \in given
      <4>1. v \in Text /\ layered("server") = {v} /\ v # Unset
        BY <3>2, <3>7, TextIsTokens DEF v
      <4>2. resolved'.server # Unset \/ resolved'.discover
        <5>1. CASE parse_discovery_spec(v)
          BY <3>4, <3>7, <5>1
        <5>2. CASE ~ parse_discovery_spec(v)
          <6>1. PICK U : U = parse_server_url(v)
            OBVIOUS
          <6>2. U # {} => (CHOOSE url \in U : TRUE) \in U
            OBVIOUS
          <6>3. resolved'.server \in parse_server_url(v)
            BY <3>4, <3>5, <3>7, <5>2, <6>1, <6>2
          <6> QED BY <4>1, <6>3, UrlIsSet
        <5> QED BY <5>1, <5>2
      <4> QED BY <3>4, <3>7, <4>1, <4>2
    <3> QED BY <3>6, <3>7
  <2> QED BY <1>0, <1>3, <2>1 DEF OneDirection, advertises
<1>7. DetachedMeansTheSame'
  <2>1. ASSUME parsing' = "accepted", "daemonize" \in given
        PROVE  /\ cwd => \A o \in NormalizedPaths : options'[o] # Unset => absolute(options'[o])
               /\ options'["output"] \notin {<<"stdout">>, <<"-">>}
    <3>1. SoFarSoGood
      BY <1>4, <2>1
    <3>2. NormalizedPaths \cup {"output"} \subseteq settable_options /\ "output" \notin NormalizedPaths
      BY DEF NormalizedPaths, settable_options, Texts
    <3>3. cwd => \A o \in NormalizedPaths : options'[o] # Unset => absolute(options'[o])
      BY <2>1, <3>1, <3>2, PathsResolved
    <3>4. options'["output"] = options["output"]
      BY <3>1, <3>2, PathsResolved
    <3>5. options["output"] \notin {<<"stdout">>, <<"-">>}
      <4>1. CASE "output" \in given
        BY <1>0, <2>1, <4>1 DEF complaint, to_stdout
      <4>2. CASE "output" \notin given
        <5>1. options["output"] = Unset
          BY <3>1, <3>2, <4>2, LayersRead
        <5> QED BY <5>1 DEF Unset
      <4> QED BY <4>1, <4>2
    <3> QED BY <3>3, <3>4, <3>5
  <2> QED BY <1>0, <2>1 DEF DetachedMeansTheSame, NormalizedPaths, to_stdout
<1> QED BY <1>0, <1>1, <1>2, <1>5, <1>6, <1>7 DEF OptionsInv, OptionsMeanWhatTheySay

-----------------------------------------------------------------------------

\* Nothing is read when a player starts.
LEMMA OptionsStart == OptionsInit => OptionsInv
<1> SUFFICES ASSUME OptionsInit PROVE OptionsInv
  OBVIOUS
<1>1. /\ typed \in CommandLines /\ files \in ConfigFiles /\ left = typed.words
      /\ options = default_options /\ given = {} /\ entries = <<>> /\ parsing = "words"
  BY DEF OptionsInit
<1>2. typed.words \in Seq(Word)
  BY <1>1, OptionsAssumption
<1>3. left \in Seq(Word) /\ Len(left) \in Nat /\ Len(left) = Len(typed.words)
  BY <1>1, <1>2
<1>4. \A i \in 1..Len(left) : left[i] = typed.words[Len(typed.words) - Len(left) + i]
  BY <1>1, <1>3
<1>5. IsOptions(options)
  BY <1>1 DEF IsOptions, default_options
<1>6. OptionsTypes
  BY <1>1, <1>3, <1>4, <1>5 DEF OptionsTypes
<1>7. EntriesInv
  BY <1>1 DEF EntriesInv
<1>8. \A o \in settable_options : Layered(o)
  <2> TAKE o \in settable_options
  <2>1. Setters(o) = {}
    <3>1. \A i \in DOMAIN typed.words : i \in Nat /\ i > 0
      BY <1>2
    <3> QED BY <1>3, <3>1 DEF Setters
  <2> QED BY <1>1, <2>1 DEF Layered, Merged, default_options
<1> QED BY <1>1, <1>6, <1>7, <1>8
        DEF OptionsInv, OptionsMeanWhatTheySay, LayersAsDocumented, OneDirection, DetachedMeansTheSame

\* Every step reads one thing more.
LEMMA OptionsSteps == OptionsInv /\ [OptionsNext]_startup => OptionsInv'
<1> SUFFICES ASSUME OptionsInv, [OptionsNext]_startup PROVE OptionsInv'
  OBVIOUS
<1>1. CASE ReadWord /\ UNCHANGED <<typed, files, cwd>>
  BY <1>1, WordKeeps
<1>2. CASE LoadConfig /\ UNCHANGED <<typed, files, cwd>>
  BY <1>2, LoadKeeps
<1>3. CASE MergeEntry /\ UNCHANGED <<typed, files, cwd>>
  BY <1>3, MergeKeeps
<1>4. CASE MergeDone /\ UNCHANGED <<typed, files, cwd>>
  BY <1>4, DoneKeeps
<1>5. CASE Resolve /\ UNCHANGED <<typed, files, cwd>>
  BY <1>5, ResolveKeeps
<1>6. CASE UNCHANGED startup
  <2>1. UNCHANGED <<typed, files, cwd, left, options, given, error, entries, resolved, parsing>>
    BY <1>6 DEF startup, parser
  <2>2. /\ config_used' = config_used /\ EntryLines' = EntryLines
        /\ \A o : Setters(o)' = Setters(o) /\ lines_of(o)' = lines_of(o)
        /\ \A o : Applies(o)' = Applies(o)
    BY <2>1, FileStays
  <2>3. \A o : Layered(o)' = Layered(o)
    BY <2>1, <2>2 DEF Layered, Merged, last
  <2>4. OptionsTypes' /\ EntriesInv'
    BY <2>1, <2>2 DEF OptionsInv, OptionsTypes, EntriesInv, IsOptions
  <2>5. /\ \A o : layered(o)' = layered(o)
        /\ input_typed' = input_typed /\ last(input_typed)' = last(input_typed)
    <3>1. config_used' = config_used
      BY <2>2
    <3>2. \A o : layered(o)' = layered(o)
      BY <2>1, <3>1 DEF layered, lines_of, values_typed
    <3>3. input_typed' = input_typed
      BY <2>1 DEF input_typed
    <3> QED BY <3>2, <3>3 DEF last
  <2>6. OptionsMeanWhatTheySay' /\ DetachedMeansTheSame'
    BY <2>1, <2>5 DEF OptionsInv, OptionsMeanWhatTheySay, LayersAsDocumented, OneDirection,
       advertises, is_true, DetachedMeansTheSame, to_stdout
  <2> QED BY <2>1, <2>3, <2>4, <2>6 DEF OptionsInv
<1> QED BY <1>1, <1>2, <1>3, <1>4, <1>5, <1>6 DEF OptionsNext

\* Whatever is typed and written in the files, a player that starts does what its
\* layers say, dials the server it was told of, and advertises only when it was told
\* of none.
THEOREM OptionsKept == OptionsSpec => []OptionsMeanWhatTheySay
<1>1. OptionsInv => OptionsMeanWhatTheySay
  BY DEF OptionsInv
<1> QED BY <1>1, OptionsStart, OptionsSteps, PTL DEF OptionsSpec

\* Whatever is typed and written in the files, a detached run has absolute paths where
\* the directory is known, and its audio does not go to the standard output it closed.
THEOREM DetachedKept == OptionsSpec => []DetachedMeansTheSame
<1>1. OptionsInv => DetachedMeansTheSame
  BY DEF OptionsInv
<1> QED BY <1>1, OptionsStart, OptionsSteps, PTL DEF OptionsSpec

-----------------------------------------------------------------------------
(* The choice of an output.                                                 *)

\* A spec of one piece.
LEMMA OnePiece ==
    ASSUME NEW S, NEW piece \in S
    PROVE  <<piece>> \in Seq(S) /\ Len(<<piece>>) = 1 /\ <<piece>>[1] = piece
OBVIOUS

\* Cutting the first piece off a spec it was put before gives the spec.
LEMMA Prefixed ==
    ASSUME NEW S, NEW first \in Seq(S), Len(first) = 1, NEW spec \in Seq(S), spec # <<>>
    PROVE  /\ first \o spec \in Seq(S) /\ (first \o spec)[1] = first[1]
           /\ Len(first \o spec) \in Nat \ {0, 1} /\ Tail(first \o spec) = spec
<1> DEFINE longer == first \o spec
<1>0. Len(spec) \in Nat \ {0}
  OBVIOUS
<1>1. longer \in Seq(S) /\ Len(longer) = 1 + Len(spec)
  <2>1. longer \in Seq(S) /\ Len(longer) = Len(first) + Len(spec)
    BY ConcatProperties, Zenon
  <2> QED BY <2>1, Zenon
<1>2. \A i \in 1..(1 + Len(spec)) : longer[i] = IF i <= 1 THEN first[i] ELSE spec[i - 1]
  <2>1. \A i \in 1..(Len(first) + Len(spec)) :
            longer[i] = IF i <= Len(first) THEN first[i] ELSE spec[i - Len(first)]
    BY ConcatProperties, Zenon
  <2> HIDE DEF longer
  <2> QED BY <2>1, Zenon
<1> HIDE DEF longer
<1>3. longer[1] = first[1] /\ Len(longer) \in Nat \ {0, 1}
  BY <1>0, <1>1, <1>2
<1>4. Tail(longer) \in Seq(S) /\ Len(Tail(longer)) = Len(spec)
  BY <1>0, <1>1
<1>5. \A i \in 1..Len(spec) : Tail(longer)[i] = spec[i]
  <2> TAKE i \in 1..Len(spec)
  <2>1. Tail(longer)[i] = longer[i + 1]
    BY <1>0, <1>1
  <2>2. i + 1 \in 1..(1 + Len(spec)) /\ ~ (i + 1 <= 1) /\ (i + 1) - 1 = i
    BY <1>0
  <2>3. longer[i + 1] = spec[(i + 1) - 1]
    BY <1>2, <2>2
  <2> QED BY <2>1, <2>2, <2>3
<1>6. Tail(longer) = spec
  BY <1>4, <1>5
<1> QED BY <1>1, <1>3, <1>6 DEF longer

\* A spec means a backend of the build, or nothing.
LEMMA NamesABackend ==
    ASSUME NEW build, NEW spec
    PROVE  resolve_device_spec(build, spec).backend \in BUILT_BACKENDS(build) \cup {"refused"}
<1>1. \A name, rest : /\ by_name(name).backend \in {name, "refused"}
                      /\ by_prefix(name, rest).backend \in {name, "refused"}
  BY DEF by_name, by_prefix, refused
<1>2. "stdout" \in BUILT_BACKENDS(build) /\ ("alsa" \in build => "alsa" \in BUILT_BACKENDS(build))
  BY DEF BUILT_BACKENDS
<1>3. CASE spec = <<"">>
  BY <1>3 DEF resolve_device_spec, refused
<1>4. CASE spec # <<"">> /\ spec = <<"-">>
  <2>1. resolve_device_spec(build, spec) = by_name("stdout")
    BY <1>4 DEF resolve_device_spec
  <2> QED BY <1>1, <1>2, <2>1
<1>5. CASE spec # <<"">> /\ spec # <<"-">> /\ spec[1] \in BUILT_BACKENDS(build)
  <2>1. resolve_device_spec(build, spec) \in {by_name(spec[1]), by_prefix(spec[1], Tail(spec))}
    BY <1>5 DEF resolve_device_spec
  <2> DEFINE first == spec[1]
             rest == Tail(spec)
  <2>2. /\ by_name(first).backend \in {first, "refused"}
        /\ by_prefix(first, rest).backend \in {first, "refused"}
    BY <1>1
  <2> QED BY <1>5, <2>1, <2>2
<1>6. CASE spec # <<"">> /\ spec # <<"-">> /\ spec[1] \notin BUILT_BACKENDS(build)
  <2>1. resolve_device_spec(build, spec) =
            IF "alsa" \in build /\ ~ unavailable(build, spec)
            THEN [backend |-> "alsa", device |-> spec] ELSE refused
    BY <1>6 DEF resolve_device_spec
  <2> QED BY <1>2, <2>1 DEF refused
<1> QED BY <1>3, <1>4, <1>5, <1>6

\* A PCM whose name another backend has is alsa:<pcm>.
LEMMA NamedByPrefix ==
    ASSUME NEW build, "alsa" \in build, NEW spec \in Seq(STRING), spec # <<>>, spec # <<"">>
    PROVE  resolve_device_spec(build, <<"alsa">> \o spec) = [backend |-> "alsa", device |-> spec]
<1>1. SUFFICES ASSUME NEW longer, longer[1] = "alsa", Len(longer) \in Nat \ {0, 1},
                      Tail(longer) = spec
               PROVE  resolve_device_spec(build, longer) = [backend |-> "alsa", device |-> spec]
  <2> DEFINE S == STRING \cup {"alsa"}
             first == <<"alsa">>
  <2>1. first \in Seq(S) /\ Len(first) = 1 /\ first[1] = "alsa"
    BY OnePiece, Zenon
  <2>2. spec \in Seq(S)
    BY SeqMonotonic, Zenon
  <2> HIDE DEF first, S
  <2>3. /\ (first \o spec)[1] = "alsa" /\ Len(first \o spec) \in Nat \ {0, 1}
        /\ Tail(first \o spec) = spec
    BY <2>1, <2>2, Prefixed
  <2>4. resolve_device_spec(build, first \o spec) = [backend |-> "alsa", device |-> spec]
    BY <1>1, <2>3, Zenon
  <2> QED BY <2>4 DEF first
<1>2. longer # <<"">> /\ longer # <<"-">>
  <2>1. Len(<<"">>) = 1 /\ Len(<<"-">>) = 1
    OBVIOUS
  <2>2. Len(longer) # 1
    BY <1>1
  <2> QED BY <2>1, <2>2, Zenon
<1>3. longer[1] \in BUILT_BACKENDS(build)
  BY <1>1 DEF BUILT_BACKENDS
<1>4. Len(longer) # 1
  BY <1>1
<1>5. resolve_device_spec(build, longer) = by_prefix("alsa", spec)
  BY <1>1, <1>2, <1>3, <1>4, Zenon DEF resolve_device_spec
<1>6. device_arg("alsa") = "required"
  BY DEF device_arg
<1>7. by_prefix("alsa", spec) = [backend |-> "alsa", device |-> spec]
  BY <1>6 DEF by_prefix
<1> QED BY <1>5, <1>7

\* A bare name that was ALSA's before a backend took it is ALSA's without the backend.
LEMMA PluginsAreKept ==
    ASSUME NEW build, "alsa" \in build, NEW spec \in Seq(STRING), Len(spec) = 1,
           spec[1] \in alsa_plugin
    PROVE  alsa_pcm_is_reachable(build, spec) = (spec[1] \notin build)
<1>1. spec # <<"">> /\ spec # <<"-">>
  <2>1. <<"">>[1] = "" /\ <<"-">>[1] = "-"
    OBVIOUS
  <2> QED BY <2>1 DEF alsa_plugin
<1>2. spec[1] \in BUILT_BACKENDS(build) <=> spec[1] \in build
  BY DEF BUILT_BACKENDS, alsa_plugin
<1>3. CASE spec[1] \in build
  <2>1. resolve_device_spec(build, spec) = by_name(spec[1])
    BY <1>1, <1>2, <1>3 DEF resolve_device_spec
  <2>2. by_name(spec[1]).backend # "alsa"
    BY DEF by_name, refused, alsa_plugin
  <2> QED BY <1>3, <2>1, <2>2 DEF alsa_pcm_is_reachable
<1>4. CASE spec[1] \notin build
  <2>1. ~ unavailable(build, spec)
    BY DEF unavailable
  <2>2. resolve_device_spec(build, spec) = [backend |-> "alsa", device |-> spec]
    BY <1>1, <1>2, <1>4, <2>1 DEF resolve_device_spec
  <2> QED BY <1>4, <2>2 DEF alsa_pcm_is_reachable
<1> QED BY <1>3, <1>4

\* A name that no backend could have is ALSA's.
LEMMA OthersAreAlsas ==
    ASSUME NEW build \in SUBSET RESERVED_BACKENDS, "alsa" \in build, NEW spec \in Seq(STRING),
           spec[1] \notin RESERVED_BACKENDS \cup {"null", "stdout", "-", ""}
    PROVE  resolve_device_spec(build, spec) = [backend |-> "alsa", device |-> spec]
<1>1. spec # <<"">> /\ spec # <<"-">>
  <2>1. <<"">>[1] = "" /\ <<"-">>[1] = "-"
    OBVIOUS
  <2> QED BY <2>1
<1>2. spec[1] \notin BUILT_BACKENDS(build) /\ ~ unavailable(build, spec)
  BY DEF BUILT_BACKENDS, unavailable
<1> QED BY <1>1, <1>2 DEF resolve_device_spec

\* What is chosen is what the spec says, once it has been looked at.
ChoiceInv ==
    /\ built \in Builds /\ device \in DeviceSpecs
    /\ choice = IF starting = "options" THEN refused ELSE resolve_device_spec(built, device)

\* resolve_device_spec() (src/audio_sink.cpp): for any builds and any specs, a name means
\* a backend that the build has, a PCM that a backend's name shadows is still to be had,
\* and the names that were ALSA's before a backend took them play where it is lacking.
THEOREM DevicesHaveNames == ChoiceInit /\ [][ChoiceNext]_output => []EveryDeviceHasAName
<1>1. ChoiceInit => ChoiceInv
  BY DEF ChoiceInit, ChoiceInv
<1>2. ChoiceInv /\ [ChoiceNext]_output => ChoiceInv'
  <2> SUFFICES ASSUME ChoiceInv, [ChoiceNext]_output PROVE ChoiceInv'
    OBVIOUS
  <2>1. CASE ResolveDevice
    BY <2>1 DEF ResolveDevice, ChoiceInv
  <2>2. CASE ProbeDevice
    BY <2>2 DEF ProbeDevice, ChoiceInv
  <2>3. CASE Advertise
    BY <2>3 DEF Advertise, ChoiceInv
  <2>4. CASE PinFormat
    BY <2>4 DEF PinFormat, ChoiceInv
  <2>5. CASE UNCHANGED output
    BY <2>5 DEF output, ChoiceInv
  <2> QED BY <2>1, <2>2, <2>3, <2>4, <2>5 DEF ChoiceNext
<1>3. ChoiceInv => EveryDeviceHasAName
  <2> SUFFICES ASSUME ChoiceInv PROVE EveryDeviceHasAName
    OBVIOUS
  <2>1. built \in SUBSET RESERVED_BACKENDS /\ device \in Seq(STRING) /\ device # <<>>
    BY ChoiceAssumption DEF ChoiceInv
  <2>2. choice.backend \in BUILT_BACKENDS(built) \cup {"refused"}
    BY NamesABackend DEF ChoiceInv, refused
  <2> QED BY <2>1, <2>2, NamedByPrefix, PluginsAreKept, OthersAreAlsas
          DEF EveryDeviceHasAName, ChoiceInv
<1> QED BY <1>1, <1>2, <1>3, PTL

-----------------------------------------------------------------------------
(* What is on offer.                                                        *)

\* A value that is there is found where it is.
LEMMA FindIs ==
    ASSUME NEW S, NEW s \in Seq(S), NEW v, Contains(s, v)
    PROVE  find(s, v) \in 1..Len(s) /\ s[find(s, v)] = v
<1> DEFINE I == {i \in 1..Len(s) : s[i] = v}
<1>1. I \in SUBSET Nat /\ I # {}
  BY DEF Contains
<1>2. PICK x \in I : \A m \in I : x <= m
  BY <1>1, LeastElement
<1>3. find(s, v) = CHOOSE n \in I : \A m \in I : n <= m
  BY <1>1 DEF find, SelectInSeq, Min
<1>4. find(s, v) \in I
  <2> HIDE DEF I
  <2> QED BY <1>2, <1>3, Zenon
<1> QED BY <1>4

\* A rank is a number.
LEMMA RankIs ==
    ASSUME NEW S, NEW ladder \in Seq(S), NEW v
    PROVE  preference_rank(ladder, v) \in Nat
<1>1. CASE Contains(ladder, v)
  BY <1>1, FindIs DEF preference_rank
<1>2. CASE ~ Contains(ladder, v)
  BY <1>2 DEF preference_rank
<1> QED BY <1>1, <1>2

\* That one value precedes another is a strict and total order of their places.
LEMMA PrecedesIs ==
    ASSUME NEW values, NEW S, NEW ladder \in Seq(S), NEW i \in Nat, NEW j \in Nat, NEW k \in Nat
    PROVE  /\ ~ precedes(values, ladder, i, i)
           /\ precedes(values, ladder, i, j) /\ precedes(values, ladder, j, k)
                => precedes(values, ladder, i, k)
           /\ i # j => precedes(values, ladder, i, j) \/ precedes(values, ladder, j, i)
           /\ precedes(values, ladder, i, j)
                => preference_rank(ladder, values[i]) <= preference_rank(ladder, values[j])
<1>1. PICK a, b, c : /\ a = preference_rank(ladder, values[i]) /\ b = preference_rank(ladder, values[j])
                    /\ c = preference_rank(ladder, values[k])
  OBVIOUS
<1>2. a \in Nat /\ b \in Nat /\ c \in Nat
  BY <1>1, RankIs
<1>3. /\ precedes(values, ladder, i, i) <=> (a < a \/ (a = a /\ i < i))
      /\ precedes(values, ladder, i, j) <=> (a < b \/ (a = b /\ i < j))
      /\ precedes(values, ladder, j, k) <=> (b < c \/ (b = c /\ j < k))
      /\ precedes(values, ladder, i, k) <=> (a < c \/ (a = c /\ i < k))
      /\ precedes(values, ladder, j, i) <=> (b < a \/ (b = a /\ j < i))
  BY <1>1, Zenon DEF precedes
<1>4. precedes(values, ladder, i, j) => a <= b
  BY <1>2, <1>3
<1> HIDE <1>1
<1>5. /\ ~ precedes(values, ladder, i, i)
      /\ precedes(values, ladder, i, j) /\ precedes(values, ladder, j, k)
           => precedes(values, ladder, i, k)
      /\ i # j => precedes(values, ladder, i, j) \/ precedes(values, ladder, j, i)
  BY <1>2, <1>3
<1> QED BY <1>1, <1>4, <1>5, Zenon

\* Those that precede one, and the place it has after them.
Before(values, ladder, i) == {j \in DOMAIN values : precedes(values, ladder, j, i)}
PlaceOf(values, ladder, i) == Cardinality(Before(values, ladder, i)) + 1

\* Each has a place of its own, in the order.
LEMMA PlacesAre ==
    ASSUME NEW S, NEW values \in Seq(S), NEW T, NEW ladder \in Seq(T),
           NEW i \in DOMAIN values, NEW j \in DOMAIN values
    PROVE  /\ PlaceOf(values, ladder, i) \in DOMAIN values
           /\ precedes(values, ladder, i, j)
                => PlaceOf(values, ladder, i) < PlaceOf(values, ladder, j)
           /\ PlaceOf(values, ladder, i) = PlaceOf(values, ladder, j) => i = j
<1> DEFINE D == DOMAIN values
           B(n) == Before(values, ladder, n)
<1>1. D = 1..Len(values) /\ Len(values) \in Nat
  OBVIOUS
<1>2. IsFiniteSet(D) /\ Cardinality(D) = Len(values)
  <2>1. PICK N \in Nat : D = 1..N /\ N = Len(values)
    BY <1>1
  <2>2. IsFiniteSet(1..N) /\ Cardinality(1..N) = N
    BY FS_Interval
  <2> QED BY <2>1, <2>2, Zenon
<1>3. \A n \in D : n \in Nat
  BY <1>1
<1>4. ASSUME NEW n \in D
      PROVE  IsFiniteSet(B(n)) /\ Cardinality(B(n)) \in Nat /\ Cardinality(B(n)) < Len(values)
  <2>1. ~ precedes(values, ladder, n, n)
    BY <1>3, PrecedesIs
  <2>2. B(n) \in SUBSET (D \ {n})
    BY <2>1 DEF Before
  <2>3. IsFiniteSet(D \ {n}) /\ Cardinality(D \ {n}) = Len(values) - 1
    BY <1>2, FS_RemoveElement
  <2> HIDE DEF B, D
  <2>4. IsFiniteSet(B(n)) /\ Cardinality(B(n)) <= Len(values) - 1
    BY <2>2, <2>3, FS_Subset
  <2>5. Cardinality(B(n)) \in Nat
    BY <2>4, FS_CardinalityType
  <2> QED BY <1>1, <2>4, <2>5
<1>5. ASSUME NEW n \in D, NEW m \in D, precedes(values, ladder, n, m)
      PROVE  Cardinality(B(n)) < Cardinality(B(m))
  <2>1. \A k \in D : precedes(values, ladder, k, n) => precedes(values, ladder, k, m)
    BY <1>3, <1>5, PrecedesIs
  <2>2. B(n) \cup {n} \in SUBSET B(m)
    BY <1>5, <2>1 DEF Before
  <2>3. n \notin B(n)
    <3>1. ~ precedes(values, ladder, n, n)
      BY <1>3, PrecedesIs
    <3> QED BY <3>1 DEF Before
  <2>4. IsFiniteSet(B(n)) /\ IsFiniteSet(B(m)) /\ Cardinality(B(n)) \in Nat /\ Cardinality(B(m)) \in Nat
    BY <1>4
  <2> HIDE DEF B, D
  <2>5. Cardinality(B(n) \cup {n}) = Cardinality(B(n)) + 1
    BY <2>3, <2>4, FS_AddElement
  <2>6. Cardinality(B(n) \cup {n}) <= Cardinality(B(m))
    BY <2>2, <2>4, FS_Subset
  <2> QED BY <2>4, <2>5, <2>6
<1>6. \A n : PlaceOf(values, ladder, n) = Cardinality(B(n)) + 1
  BY DEF PlaceOf
<1>7. i # j => precedes(values, ladder, i, j) \/ precedes(values, ladder, j, i)
  BY <1>3, PrecedesIs
<1>8. i \in D /\ j \in D
  OBVIOUS
<1>9. PlaceOf(values, ladder, i) \in D
  <2> HIDE DEF D, B
  <2> QED BY <1>1, <1>4, <1>6, <1>8
<1>10. precedes(values, ladder, i, j) => PlaceOf(values, ladder, i) < PlaceOf(values, ladder, j)
  <2> HIDE DEF D, B
  <2> QED BY <1>4, <1>5, <1>6, <1>8
<1>11. PlaceOf(values, ladder, i) = PlaceOf(values, ladder, j) => i = j
  <2> HIDE DEF D, B
  <2> QED BY <1>4, <1>5, <1>6, <1>7, <1>8
<1> QED BY <1>9, <1>10, <1>11

\* A list whose values are in order of preference.
Downward(values, ladder, list) ==
    \A m, n \in 1..Len(list) : m < n => ranked(values, ladder, list[m], list[n])

\* That a value precedes another is that the ladder prefers it, or names neither and it
\* was found first.
LEMMA PrecedesRanked ==
    ASSUME NEW S, NEW values \in Seq(S), IsInjective(values), NEW T, NEW ladder \in Seq(T),
           NEW i \in 1..Len(values), NEW j \in 1..Len(values), precedes(values, ladder, i, j)
    PROVE  ranked(values, ladder, values[i], values[j])
<1>1. PICK v, w : v = values[i] /\ w = values[j]
  OBVIOUS
<1>2. Contains(values, v) /\ Contains(values, w)
  BY <1>1, Zenon DEF Contains
<1>3. find(values, v) = i /\ find(values, w) = j
  <2>1. /\ find(values, v) \in 1..Len(values) /\ values[find(values, v)] = v
        /\ find(values, w) \in 1..Len(values) /\ values[find(values, w)] = w
    BY <1>2, FindIs
  <2>2. DOMAIN values = 1..Len(values)
    OBVIOUS
  <2> QED BY <1>1, <2>1, <2>2, Zenon DEF IsInjective
<1>4. PICK a, b : a = preference_rank(ladder, v) /\ b = preference_rank(ladder, w)
  OBVIOUS
<1>5. a < b \/ (a = b /\ i < j)
  BY <1>1, <1>4, Zenon DEF precedes
<1>6. CASE Contains(ladder, v) /\ Contains(ladder, w)
  <2>1. a = find(ladder, v) /\ b = find(ladder, w)
    BY <1>4, <1>6, Zenon DEF preference_rank
  <2>2. a \in 1..Len(ladder) /\ ladder[a] = v /\ ladder[b] = w
    BY <1>6, <2>1, FindIs
  <2>3. a # b
    <3>1. SUFFICES ASSUME a = b PROVE FALSE
      OBVIOUS
    <3>2. v = w
      BY <2>2, <3>1, Zenon
    <3>3. i = j
      BY <1>3, <3>2, Zenon
    <3> QED BY <1>5, <2>2, <3>1, <3>3
  <2>4. a < b
    BY <1>5, <2>3
  <2> QED BY <1>1, <1>6, <2>1, <2>4, Zenon DEF ranked
<1>7. CASE Contains(ladder, v) /\ ~ Contains(ladder, w)
  BY <1>1, <1>7, Zenon DEF ranked
<1>8. CASE ~ Contains(ladder, v) /\ Contains(ladder, w)
  <2>1. a = Len(ladder) + 1 /\ b = find(ladder, w)
    BY <1>4, <1>8, Zenon DEF preference_rank
  <2>2. b \in 1..Len(ladder)
    BY <1>8, <2>1, FindIs
  <2> QED BY <1>5, <2>1, <2>2
<1>9. CASE ~ Contains(ladder, v) /\ ~ Contains(ladder, w)
  <2>1. a = Len(ladder) + 1 /\ b = Len(ladder) + 1
    BY <1>4, <1>9, Zenon DEF preference_rank
  <2>2. i < j
    BY <1>5, <2>1
  <2> QED BY <1>1, <1>3, <1>9, <2>2, Zenon DEF ranked
<1> QED BY <1>6, <1>7, <1>8, <1>9

\* What it is for a list o of members of S to be a list of values, in order of preference.
InOrder(S, o, values, ladder) ==
    /\ o \in Seq(S)
    /\ \A n \in 1..Len(o) : \E i \in 1..Len(values) : o[n] = values[i]
    /\ \A i \in 1..Len(values) : \E n \in 1..Len(o) : o[n] = values[i]
    /\ IsInjective(values) => IsInjective(o) /\ Downward(values, ladder, o)

\* A list in order of preference is the list, each value of it once and none after one
\* that is preferred less.
LEMMA OrderIs ==
    ASSUME NEW S, NEW values \in Seq(S), NEW T, NEW ladder \in Seq(T)
    PROVE  InOrder(S, in_preference_order(values, ladder), values, ladder)
<1>0. PICK o : o = in_preference_order(values, ladder)
  OBVIOUS
<1> DEFINE D == 1..Len(values)
           P(i) == PlaceOf(values, ladder, i)
           seat(n) == CHOOSE i \in D : P(i) = n
<1>1. DOMAIN values = D /\ Len(values) \in Nat /\ \A i \in D : values[i] \in S
  OBVIOUS
<1>2. /\ \A i \in D : P(i) \in D
      /\ \A i, j \in D : precedes(values, ladder, i, j) => P(i) < P(j)
      /\ \A i, j \in D : P(i) = P(j) => i = j
  BY <1>1, PlacesAre
<1>3. o = [n \in D |-> values[seat(n)]]
  BY <1>0, <1>1 DEF in_preference_order, PlaceOf, Before
<1> HIDE DEF P, D
<1>4. \A n \in D : \E i \in D : P(i) = n
  <2> DEFINE f == [i \in D |-> P(i)]
  <2>1. f \in [D -> D] /\ \A i \in D : f[i] = P(i)
    BY <1>2
  <2>2. f \in Injection(D, D)
    BY <1>2, <2>1 DEF Injection, IsInjective
  <2>3. IsFiniteSet(D)
    BY <1>1, FS_Interval DEF D
  <2> HIDE DEF f
  <2>4. f \in Surjection(D, D)
    BY <2>2, <2>3, FS_Injection
  <2>5. \A n \in D : \E i \in D : f[i] = n
    BY <2>4 DEF Surjection
  <2> QED BY <2>1, <2>5
<1>5. \A n \in D : seat(n) \in D /\ P(seat(n)) = n
  BY <1>4
<1>6. \A i \in D : seat(P(i)) = i
  BY <1>2, <1>5
<1> HIDE DEF seat
<1>7. o \in Seq(S) /\ Len(o) = Len(values)
  <2>1. o \in [1..Len(values) -> S]
    BY <1>1, <1>3, <1>5 DEF D
  <2> QED BY <1>1, <2>1
<1>8. \A n \in 1..Len(o) : \E i \in 1..Len(values) : o[n] = values[i]
  BY <1>3, <1>5, <1>7 DEF D
<1>9. \A i \in 1..Len(values) : \E n \in 1..Len(o) : o[n] = values[i]
  <2> SUFFICES ASSUME NEW i \in D PROVE \E n \in D : o[n] = values[i]
    BY <1>7 DEF D
  <2>1. P(i) \in D /\ seat(P(i)) = i
    BY <1>2, <1>6
  <2> QED BY <1>3, <2>1
<1>10. ASSUME IsInjective(values) PROVE IsInjective(o)
  <2> SUFFICES ASSUME NEW m \in D, NEW n \in D, o[m] = o[n] PROVE m = n
    BY <1>3 DEF IsInjective
  <2>1. values[seat(m)] = values[seat(n)] /\ seat(m) \in D /\ seat(n) \in D
    BY <1>3, <1>5
  <2>2. seat(m) = seat(n)
    BY <1>1, <1>10, <2>1 DEF IsInjective
  <2> QED BY <1>5, <2>2
<1>11. ASSUME IsInjective(values), NEW m \in D, NEW n \in D, m < n
       PROVE  ranked(values, ladder, o[m], o[n])
  <2>1. PICK a \in D, b \in D : a = seat(m) /\ b = seat(n)
    BY <1>5
  <2>2. P(a) = m /\ P(b) = n /\ o[m] = values[a] /\ o[n] = values[b]
    BY <1>3, <1>5, <2>1
  <2>3. a \in Nat /\ b \in Nat /\ m \in Nat /\ n \in Nat
    BY DEF D
  <2>4. ~ precedes(values, ladder, b, a)
    BY <1>2, <1>11, <2>2, <2>3
  <2>5. a # b
    BY <1>11, <2>2, <2>3
  <2>6. precedes(values, ladder, a, b)
    BY <2>3, <2>4, <2>5, PrecedesIs
  <2>7. ranked(values, ladder, values[a], values[b])
    BY <1>11, <2>6, PrecedesRanked DEF D
  <2> QED BY <2>2, <2>7, Zenon
<1>12. InOrder(S, o, values, ladder)
  BY <1>7, <1>8, <1>9, <1>10, <1>11 DEF D, InOrder, Downward
<1> QED BY <1>0, <1>12

\* A table of some rows and columns, written row by row.
LEMMA Cells ==
    ASSUME NEW rows \in Nat, NEW d \in Nat \ {0}
    PROVE  /\ \A n \in 1..(rows * d) :
                /\ (n - 1) \div d \in 0..(rows - 1) /\ (n - 1) % d \in 0..(d - 1)
                /\ n = ((n - 1) \div d) * d + ((n - 1) % d) + 1
           /\ \A q \in 0..(rows - 1), r \in 0..(d - 1) :
                \E n \in 1..(rows * d) : (n - 1) \div d = q /\ (n - 1) % d = r
           /\ \A m, n \in 1..(rows * d) : m < n =>
                \/ (m - 1) \div d < (n - 1) \div d
                \/ (m - 1) \div d = (n - 1) \div d /\ (m - 1) % d < (n - 1) % d
<1>1. ASSUME NEW a \in Nat
      PROVE  /\ a \div d \in Nat /\ a % d \in 0..(d - 1) /\ a = (a \div d) * d + (a % d)
  <2>1. a \div d \in Nat
    OBVIOUS
  <2>2. a % d \in 0..(d - 1)
    OBVIOUS
  <2>3. a = (a \div d) * d + (a % d)
    OBVIOUS
  <2> QED BY <2>1, <2>2, <2>3, Zenon
<1>2. ASSUME NEW p \in Nat, NEW q \in Nat, p < q
      PROVE  p * d + d <= q * d
  <2>1. PICK k \in Nat : q = p + 1 + k
    <3>1. q - p - 1 \in Nat /\ q = p + 1 + (q - p - 1)
      BY <1>2
    <3> QED BY <3>1
  <2>2. q * d = p * d + d + k * d /\ k * d \in Nat
    BY <2>1
  <2> QED BY <2>2
<1>3. ASSUME NEW n \in 1..(rows * d)
      PROVE  /\ (n - 1) \div d \in 0..(rows - 1) /\ (n - 1) % d \in 0..(d - 1)
             /\ n = ((n - 1) \div d) * d + ((n - 1) % d) + 1
  <2>1. n - 1 \in Nat /\ n <= rows * d /\ n \in Nat
    OBVIOUS
  <2>2. PICK q \in Nat, r \in 0..(d - 1) :
            q = (n - 1) \div d /\ r = (n - 1) % d /\ n - 1 = q * d + r
    BY <1>1, <2>1
  <2>3. q < rows
    <3>1. CASE q = rows
      BY <2>1, <2>2, <3>1
    <3>2. CASE rows < q
      <4>1. rows * d + d <= q * d
        BY <1>2, <3>2
      <4> QED BY <2>1, <2>2, <4>1
    <3> QED BY <2>2, <3>1, <3>2
  <2> QED BY <2>1, <2>2, <2>3
<1>4. ASSUME NEW q \in 0..(rows - 1), NEW r \in 0..(d - 1)
      PROVE  \E n \in 1..(rows * d) : (n - 1) \div d = q /\ (n - 1) % d = r
  <2>1. q * d + d <= rows * d
    BY <1>2
  <2>2. PICK a \in Nat : a = q * d + r
    OBVIOUS
  <2>3. a + 1 \in 1..(rows * d) /\ (a + 1) - 1 = a
    BY <2>1, <2>2
  <2>4. PICK p \in Nat, s \in 0..(d - 1) : p = a \div d /\ s = a % d /\ a = p * d + s
    BY <1>1
  <2>5. p = q
    <3>1. CASE p < q
      <4>1. p * d + d <= q * d
        BY <1>2, <3>1
      <4> QED BY <2>2, <2>4, <4>1
    <3>2. CASE q < p
      <4>1. q * d + d <= p * d
        BY <1>2, <3>2
      <4> QED BY <2>2, <2>4, <4>1
    <3> QED BY <2>4, <3>1, <3>2
  <2>6. s = r
    BY <2>2, <2>4, <2>5
  <2> QED BY <2>3, <2>4, <2>5, <2>6
<1>5. ASSUME NEW m \in 1..(rows * d), NEW n \in 1..(rows * d), m < n
      PROVE  \/ (m - 1) \div d < (n - 1) \div d
             \/ (m - 1) \div d = (n - 1) \div d /\ (m - 1) % d < (n - 1) % d
  <2>1. PICK p \in 0..(rows - 1), r \in 0..(d - 1) :
            p = (m - 1) \div d /\ r = (m - 1) % d /\ m = p * d + r + 1
    BY <1>3, Zenon
  <2>2. PICK q \in 0..(rows - 1), s \in 0..(d - 1) :
            q = (n - 1) \div d /\ s = (n - 1) % d /\ n = q * d + s + 1
    BY <1>3, Zenon
  <2>3. ~ (q < p)
    <3>1. SUFFICES ASSUME q < p PROVE FALSE
      OBVIOUS
    <3>2. q * d + d <= p * d
      BY <1>2, <3>1
    <3> QED BY <1>5, <2>1, <2>2, <3>2
  <2>4. p < q \/ (p = q /\ r < s)
    BY <1>5, <2>1, <2>2, <2>3
  <2> QED BY <2>1, <2>2, <2>4, Zenon
<1> QED BY <1>3, <1>4, <1>5

Codecs == {"flac", "opus", "pcm"}
Quad == Codecs \X Nat \X Nat \X Nat

\* Four fields make a format.
LEMMA QuadIs ==
    ASSUME NEW k \in Codecs, NEW r \in Nat, NEW d \in Nat, NEW c \in Nat
    PROVE  <<k, r, d, c>> \in Quad
BY DEF Quad

\* Of two formats the first is the one that is preferred.
Falling(caps, list) ==
    \A i, j \in DOMAIN list : i < j => in_priority_order(caps, list[i], list[j])

\* What it is for f to have each rate and each depth once, in order of preference.
Table(caps, codec, ch, rates, depths, f) ==
    /\ f \in Seq(Quad) /\ IsInjective(f) /\ Falling(caps, f)
    /\ \A n \in 1..Len(f) : \E q \in 1..Len(rates), r \in 1..Len(depths) :
          f[n] = <<codec, rates[q], depths[r], ch>>
    /\ \A q \in 1..Len(rates), r \in 1..Len(depths) : \E n \in 1..Len(f) :
          f[n] = <<codec, rates[q], depths[r], ch>>

\* One codec at every rate and depth is a table of them.
LEMMA AllIs ==
    ASSUME NEW codec \in Codecs, NEW ch \in Nat, NEW rates \in Seq(Nat), NEW depths \in Seq(Nat),
           IsInjective(rates), IsInjective(depths), NEW caps,
           Downward(caps.rates, RATE_PREFERENCE, rates), Downward(caps.depths, DEPTH_PREFERENCE, depths)
    PROVE  Table(caps, codec, ch, rates, depths, at_all(codec, ch, rates, depths))
<1>0. PICK f : f = at_all(codec, ch, rates, depths)
  OBVIOUS
<1> DEFINE R == Len(rates)
           d == Len(depths)
           N == R * d
           row(n) == ((n - 1) \div d) + 1
           col(n) == ((n - 1) % d) + 1
<1>1. R \in Nat /\ d \in Nat /\ N \in Nat
  OBVIOUS
<1>2. f = [n \in 1..N |-> <<codec, rates[row(n)], depths[col(n)], ch>>]
  BY <1>0 DEF at_all
<1>3. /\ \A n \in 1..N : row(n) \in 1..R /\ col(n) \in 1..d
      /\ \A m, n \in 1..N : row(m) = row(n) /\ col(m) = col(n) => m = n
      /\ \A q \in 1..R, r \in 1..d : \E n \in 1..N : row(n) = q /\ col(n) = r
      /\ \A m, n \in 1..N : m < n => row(m) < row(n) \/ (row(m) = row(n) /\ col(m) < col(n))
  <2> HIDE DEF R, d
  <2>1. CASE d = 0
    <3>1. N = 0
      BY <1>1, <2>1
    <3> HIDE DEF N
    <3> QED BY <2>1, <3>1
  <2>2. CASE d # 0
    <3>1. /\ \A n \in 1..N :
                /\ (n - 1) \div d \in 0..(R - 1) /\ (n - 1) % d \in 0..(d - 1)
                /\ n = ((n - 1) \div d) * d + ((n - 1) % d) + 1
          /\ \A q \in 0..(R - 1), r \in 0..(d - 1) :
                \E n \in 1..N : (n - 1) \div d = q /\ (n - 1) % d = r
          /\ \A m, n \in 1..N : m < n =>
                \/ (m - 1) \div d < (n - 1) \div d
                \/ (m - 1) \div d = (n - 1) \div d /\ (m - 1) % d < (n - 1) % d
      BY <1>1, <2>2, Cells
    <3> HIDE DEF N
    <3>2. ASSUME NEW n \in 1..N PROVE row(n) \in 1..R /\ col(n) \in 1..d
      <4>1. PICK q \in 0..(R - 1), r \in 0..(d - 1) : q = (n - 1) \div d /\ r = (n - 1) % d
        BY <3>1, Zenon
      <4>2. row(n) = q + 1 /\ col(n) = r + 1
        BY <4>1
      <4> QED BY <1>1, <4>2
    <3>3. ASSUME NEW m \in 1..N, NEW n \in 1..N, row(m) = row(n), col(m) = col(n) PROVE m = n
      <4>1. (m - 1) \div d = (n - 1) \div d /\ (m - 1) % d = (n - 1) % d
        <5>1. PICK p \in 0..(R - 1), r \in 0..(d - 1) : p = (m - 1) \div d /\ r = (m - 1) % d
          BY <3>1, Zenon
        <5>2. PICK q \in 0..(R - 1), s \in 0..(d - 1) : q = (n - 1) \div d /\ s = (n - 1) % d
          BY <3>1, Zenon
        <5>3. p + 1 = q + 1 /\ r + 1 = s + 1
          BY <3>3, <5>1, <5>2
        <5>4. p = q /\ r = s
          BY <1>1, <5>3
        <5> QED BY <5>1, <5>2, <5>4, Zenon
      <4>2. /\ m = ((m - 1) \div d) * d + ((m - 1) % d) + 1
            /\ n = ((n - 1) \div d) * d + ((n - 1) % d) + 1
        BY <3>1
      <4> QED BY <4>1, <4>2, Zenon
    <3>4. ASSUME NEW q \in 1..R, NEW r \in 1..d PROVE \E n \in 1..N : row(n) = q /\ col(n) = r
      <4>1. q - 1 \in 0..(R - 1) /\ r - 1 \in 0..(d - 1) /\ (q - 1) + 1 = q /\ (r - 1) + 1 = r
        BY <1>1
      <4>2. PICK n \in 1..N : (n - 1) \div d = q - 1 /\ (n - 1) % d = r - 1
        BY <3>1, <4>1
      <4> QED BY <4>1, <4>2
    <3>5. ASSUME NEW m \in 1..N, NEW n \in 1..N, m < n
          PROVE  row(m) < row(n) \/ (row(m) = row(n) /\ col(m) < col(n))
      <4>1. PICK p \in 0..(R - 1), q \in 0..(R - 1), r \in 0..(d - 1), s \in 0..(d - 1) :
                /\ p = (m - 1) \div d /\ q = (n - 1) \div d
                /\ r = (m - 1) % d /\ s = (n - 1) % d
        BY <3>1, Zenon
      <4>2. p < q \/ (p = q /\ r < s)
        BY <3>1, <3>5, <4>1, Zenon
      <4>3. row(m) = p + 1 /\ row(n) = q + 1 /\ col(m) = r + 1 /\ col(n) = s + 1
        BY <4>1
      <4> QED BY <1>1, <4>2, <4>3
    <3> QED BY <3>2, <3>3, <3>4, <3>5
  <2> QED BY <2>1, <2>2
<1> HIDE DEF row, col, N
<1>4. /\ \A q \in 1..R : rates[q] \in Nat
      /\ \A r \in 1..d : depths[r] \in Nat
      /\ \A p, q \in 1..R : rates[p] = rates[q] => p = q
      /\ \A p, q \in 1..d : depths[p] = depths[q] => p = q
  BY DEF IsInjective
<1> HIDE DEF R, d
<1>5. ASSUME NEW n \in 1..N PROVE f[n] = <<codec, rates[row(n)], depths[col(n)], ch>> /\ f[n] \in Quad
  <2>1. f[n] = <<codec, rates[row(n)], depths[col(n)], ch>>
    BY <1>2
  <2>2. PICK rate \in Nat, depth \in Nat : rate = rates[row(n)] /\ depth = depths[col(n)]
    BY <1>3, <1>4, Zenon
  <2>3. <<codec, rate, depth, ch>> \in Quad
    BY QuadIs
  <2> QED BY <2>1, <2>2, <2>3, Zenon
<1>6. f \in Seq(Quad) /\ Len(f) = N /\ DOMAIN f = 1..N
  <2>1. f \in [1..N -> Quad]
    BY <1>2, <1>5
  <2> QED BY <1>1, <2>1
<1>7. \A n \in 1..N : f[n][1] = codec /\ f[n][2] = rates[row(n)] /\ f[n][3] = depths[col(n)]
  BY <1>5
<1>8. IsInjective(f)
  <2> SUFFICES ASSUME NEW m \in 1..N, NEW n \in 1..N, f[m] = f[n] PROVE m = n
    BY <1>6 DEF IsInjective
  <2>1. rates[row(m)] = rates[row(n)] /\ depths[col(m)] = depths[col(n)]
    BY <1>7
  <2> QED BY <1>3, <1>4, <2>1
<1>9. Falling(caps, f)
  <2> SUFFICES ASSUME NEW m \in 1..N, NEW n \in 1..N, m < n PROVE in_priority_order(caps, f[m], f[n])
    BY <1>6 DEF Falling
  <2>1. PICK p \in 1..R, q \in 1..R, r \in 1..d, s \in 1..d :
            p = row(m) /\ q = row(n) /\ r = col(m) /\ s = col(n)
    BY <1>3, Zenon
  <2>2. p < q \/ (p = q /\ r < s)
    BY <1>3, <2>1, Zenon
  <2>3. /\ f[m][1] = codec /\ f[m][2] = rates[p] /\ f[m][3] = depths[r]
        /\ f[n][1] = codec /\ f[n][2] = rates[q] /\ f[n][3] = depths[s]
    BY <1>7, <2>1, Zenon
  <2>4. CASE p < q
    <3>1. ranked(caps.rates, RATE_PREFERENCE, rates[p], rates[q])
      BY <2>4, Zenon DEF R, Downward
    <3> QED BY <2>3, <3>1, Zenon DEF in_priority_order
  <2>5. CASE p = q /\ r < s
    <3>1. ranked(caps.depths, DEPTH_PREFERENCE, depths[r], depths[s])
      BY <2>5, Zenon DEF d, Downward
    <3> QED BY <2>3, <2>5, <3>1, Zenon DEF in_priority_order
  <2> QED BY <2>2, <2>4, <2>5
<1>10. ASSUME NEW n \in 1..N
       PROVE  \E q \in 1..R, r \in 1..d : f[n] = <<codec, rates[q], depths[r], ch>>
  <2>1. PICK q \in 1..R, r \in 1..d : q = row(n) /\ r = col(n)
    BY <1>3, Zenon
  <2>2. f[n] = <<codec, rates[q], depths[r], ch>>
    BY <1>5, <2>1, Zenon
  <2> QED BY <2>2, Zenon
<1>11. ASSUME NEW q \in 1..R, NEW r \in 1..d
       PROVE  \E n \in 1..N : f[n] = <<codec, rates[q], depths[r], ch>>
  <2>1. PICK n \in 1..N : row(n) = q /\ col(n) = r
    BY <1>3, Zenon
  <2>2. f[n] = <<codec, rates[q], depths[r], ch>>
    BY <1>5, <2>1, Zenon
  <2> QED BY <2>2
<1>12. Table(caps, codec, ch, rates, depths, f)
  BY <1>6, <1>8, <1>9, <1>10, <1>11, Zenon DEF R, d, Table
<1> QED BY <1>0, <1>12, Zenon

\* The codecs of a list come before those of another.
Ahead(f, g) == \A i \in 1..Len(f), j \in 1..Len(g) : earlier(f[i][1], g[j][1])

\* No codec comes before itself.
LEMMA EarlierIsStrict == \A codec : ~ earlier(codec, codec)
BY DEF earlier

\* A list of what two lists have, each format once, in order of preference.
Joined(caps, f, g, h) ==
    /\ h \in Seq(Quad) /\ IsInjective(h) /\ Falling(caps, h)
    /\ \A n \in 1..Len(h) : (\E i \in 1..Len(f) : h[n] = f[i]) \/ \E j \in 1..Len(g) : h[n] = g[j]
    /\ \A i \in 1..Len(f) : \E n \in 1..Len(h) : h[n] = f[i]
    /\ \A j \in 1..Len(g) : \E n \in 1..Len(h) : h[n] = g[j]

\* Two lists one after the other, the second of later codecs.
LEMMA JoinIs ==
    ASSUME NEW caps, NEW f \in Seq(Quad), NEW g \in Seq(Quad), IsInjective(f), IsInjective(g),
           Falling(caps, f), Falling(caps, g), Ahead(f, g)
    PROVE  Joined(caps, f, g, f \o g)
<1>0. PICK h : h = f \o g
  OBVIOUS
<1> DEFINE a == Len(f)
           b == Len(g)
<1>1. a \in Nat /\ b \in Nat /\ DOMAIN f = 1..a /\ DOMAIN g = 1..b
  OBVIOUS
<1>2. h \in Seq(Quad) /\ Len(h) = a + b /\ DOMAIN h = 1..(a + b)
  BY <1>0
<1>3. \A n \in 1..(a + b) : h[n] = IF n <= a THEN f[n] ELSE g[n - a]
  BY <1>0
<1>4. \A i \in 1..a, j \in 1..b : earlier(f[i][1], g[j][1]) /\ f[i][1] # g[j][1]
  <2> SUFFICES ASSUME NEW i \in 1..a, NEW j \in 1..b
               PROVE  earlier(f[i][1], g[j][1]) /\ f[i][1] # g[j][1]
    OBVIOUS
  <2>1. PICK c, e : c = f[i][1] /\ e = g[j][1]
    OBVIOUS
  <2>2. earlier(c, e)
    BY <2>1, Zenon DEF Ahead
  <2>3. c # e
    BY <2>2, EarlierIsStrict, Zenon
  <2> QED BY <2>1, <2>2, <2>3, Zenon
<1> HIDE DEF a, b
<1>5. ASSUME NEW n \in 1..(a + b)
      PROVE  \/ n \in 1..a /\ h[n] = f[n]
             \/ \E j \in 1..b : n = a + j /\ h[n] = g[j]
  <2>1. CASE n <= a
    BY <1>1, <1>3, <2>1
  <2>2. CASE n > a
    <3>1. PICK j \in 1..b : j = n - a /\ n = a + j
      BY <1>1, <2>2
    <3>2. h[n] = g[j]
      BY <1>1, <1>3, <2>2, <3>1
    <3> QED BY <3>1, <3>2
  <2> QED BY <1>1, <2>1, <2>2
<1>6. IsInjective(h)
  <2> SUFFICES ASSUME NEW m \in 1..(a + b), NEW n \in 1..(a + b), h[m] = h[n] PROVE m = n
    BY <1>2 DEF IsInjective
  <2>1. CASE m \in 1..a /\ h[m] = f[m]
    <3>1. ~ \E j \in 1..b : n = a + j /\ h[n] = g[j]
      BY <1>4, <2>1
    <3>2. n \in 1..a /\ h[n] = f[n]
      BY <1>5, <3>1
    <3> QED BY <1>1, <2>1, <3>2 DEF IsInjective
  <2>2. CASE \E j \in 1..b : m = a + j /\ h[m] = g[j]
    <3>1. PICK i \in 1..b : m = a + i /\ h[m] = g[i]
      BY <2>2
    <3>2. ~ (n \in 1..a /\ h[n] = f[n])
      BY <1>4, <3>1
    <3>3. PICK j \in 1..b : n = a + j /\ h[n] = g[j]
      BY <1>5, <3>2
    <3>4. i = j
      BY <1>1, <3>1, <3>3 DEF IsInjective
    <3> QED BY <3>1, <3>3, <3>4
  <2> QED BY <1>5, <2>1, <2>2
<1>7. Falling(caps, h)
  <2> SUFFICES ASSUME NEW m \in 1..(a + b), NEW n \in 1..(a + b), m < n
               PROVE  in_priority_order(caps, h[m], h[n])
    BY <1>2 DEF Falling
  <2>1. CASE m \in 1..a /\ h[m] = f[m]
    <3>1. CASE n \in 1..a /\ h[n] = f[n]
      <4>1. in_priority_order(caps, f[m], f[n])
        BY <1>1, <2>1, <3>1 DEF Falling
      <4> QED BY <2>1, <3>1, <4>1, Zenon
    <3>2. CASE \E j \in 1..b : n = a + j /\ h[n] = g[j]
      <4>1. PICK j \in 1..b : h[n] = g[j]
        BY <3>2
      <4>2. earlier(h[m][1], h[n][1])
        BY <1>4, <2>1, <4>1, Zenon
      <4> QED BY <4>2, Zenon DEF in_priority_order
    <3> QED BY <1>5, <3>1, <3>2
  <2>2. CASE \E j \in 1..b : m = a + j /\ h[m] = g[j]
    <3>1. PICK i \in 1..b : m = a + i /\ h[m] = g[i]
      BY <2>2
    <3>2. ~ (n \in 1..a)
      BY <1>1, <3>1
    <3>3. PICK j \in 1..b : n = a + j /\ h[n] = g[j]
      BY <1>5, <3>2
    <3>4. i < j
      BY <1>1, <3>1, <3>3
    <3>5. in_priority_order(caps, g[i], g[j])
      BY <1>1, <3>1, <3>3, <3>4 DEF Falling
    <3> QED BY <3>1, <3>3, <3>5, Zenon
  <2> QED BY <1>5, <2>1, <2>2
<1>8. ASSUME NEW n \in 1..(a + b)
      PROVE  (\E i \in 1..a : h[n] = f[i]) \/ \E j \in 1..b : h[n] = g[j]
  <2>1. CASE n \in 1..a /\ h[n] = f[n]
    BY <2>1
  <2>2. CASE \E j \in 1..b : n = a + j /\ h[n] = g[j]
    BY <2>2
  <2> QED BY <1>5, <2>1, <2>2
<1>9. ASSUME NEW i \in 1..a PROVE \E n \in 1..(a + b) : h[n] = f[i]
  <2>1. i \in 1..(a + b) /\ i <= a
    BY <1>1
  <2> QED BY <1>3, <2>1
<1>10. ASSUME NEW j \in 1..b PROVE \E n \in 1..(a + b) : h[n] = g[j]
  <2>1. a + j \in 1..(a + b) /\ ~ (a + j <= a) /\ (a + j) - a = j
    BY <1>1
  <2>2. h[a + j] = g[j]
    BY <1>3, <2>1
  <2> QED BY <2>1, <2>2
<1>11. Joined(caps, f, g, h)
  BY <1>2, <1>6, <1>7, <1>8, <1>9, <1>10 DEF a, b, Joined
<1> QED BY <1>0, <1>11, Zenon

\* Two channels or what there is first, of what there is.
LEMMA ChannelsIs ==
    ASSUME NEW channels, Probed(channels), NEW ch, ch = advertised_channels(channels)
    PROVE  /\ ch \in Nat /\ (ch = 0 <=> channels = <<>>)
           /\ channels # <<>> => Contains(channels, ch)
<1>1. channels \in Seq(Nat \ {0})
  BY DEF Probed
<1>2. CASE channels = <<>>
  <2>1. ~ Contains(channels, 2)
    BY <1>2 DEF Contains
  <2>2. ch = 0
    BY <1>2, <2>1, Zenon DEF advertised_channels
  <2> QED BY <1>2, <2>2
<1>3. CASE channels # <<>>
  <2>1. 1 \in 1..Len(channels) /\ channels[1] \in Nat \ {0}
    BY <1>1, <1>3
  <2>2. CASE Contains(channels, 2)
    BY <1>3, <2>2 DEF advertised_channels
  <2>3. CASE ~ Contains(channels, 2)
    <3>1. ch = channels[1]
      BY <1>3, <2>3 DEF advertised_channels
    <3>2. Contains(channels, ch)
      BY <2>1, <3>1 DEF Contains
    <3> QED BY <1>3, <2>1, <3>1, <3>2
  <2> QED BY <2>2, <2>3
<1> QED BY <1>2, <1>3

\* The codec, the rate and the depth of a format.
LEMMA FirstThree ==
    ASSUME NEW k, NEW r, NEW d, NEW c
    PROVE  SubSeq(<<k, r, d, c>>, 1, 3) = <<k, r, d>>
<1> DEFINE S == {k, r, d, c}
           s == <<k, r, d, c>>
           t == <<k, r, d>>
<1>1. s \in Seq(S) /\ Len(s) = 4 /\ s[1] = k /\ s[2] = r /\ s[3] = d
  OBVIOUS
<1>2. t \in Seq(S) /\ Len(t) = 3 /\ t[1] = k /\ t[2] = r /\ t[3] = d
  OBVIOUS
<1> HIDE DEF s, t
<1>3. SubSeq(s, 1, 3) \in Seq(S) /\ Len(SubSeq(s, 1, 3)) = 3
      /\ \A i \in 1..3 : SubSeq(s, 1, 3)[i] = s[i]
  BY <1>1
<1>4. \A i \in 1..3 : SubSeq(s, 1, 3)[i] = t[i]
  BY <1>1, <1>2, <1>3
<1> HIDE DEF S
<1>5. SubSeq(s, 1, 3) = t
  BY <1>2, <1>3, <1>4, SeqEqual
<1> QED BY <1>5 DEF s, t

\* A device's report: of each field, each value once.
Capable(caps) == Probed(caps.rates) /\ Probed(caps.depths) /\ Probed(caps.channels)

Takes(caps, format) ==
    /\ Contains(caps.rates, format[2]) /\ Contains(caps.depths, format[3])
    /\ Contains(caps.channels, format[4])

\* Opus is in the decoder's shape.
Decoded(format) == format[1] = "opus" => parse_format_spec(format)

\* A list has a rate and a depth in both of the codecs that carry any.
Both(list, rate, depth) ==
    \A codec \in {"flac", "pcm"} : \E n \in 1..Len(list) : SubSeq(list[n], 1, 3) = <<codec, rate, depth>>

\* A list that may be offered for a device.
Offer(list, caps) ==
    /\ list \in Seq(Quad) /\ IsInjective(list) /\ Falling(caps, list)
    /\ \A n \in 1..Len(list) : Decoded(list[n]) /\ Takes(caps, list[n])

\* An offer in one codec, with every rate and depth.
Block(codec, caps, ch, f) ==
    /\ Offer(f, caps) /\ \A n \in 1..Len(f) : f[n][1] = codec
    /\ \A i \in 1..Len(caps.rates), j \in 1..Len(caps.depths) : \E n \in 1..Len(f) :
          f[n] = <<codec, caps.rates[i], caps.depths[j], ch>>

\* What is offered in FLAC, or in PCM, is every rate and depth in that codec.
LEMMA BlockIs ==
    ASSUME NEW codec \in {"flac", "pcm"}, NEW caps, Capable(caps), NEW ch \in Nat, Contains(caps.channels, ch),
           NEW f, f = at_all(codec, ch, rates_offered(caps), depths_offered(caps))
    PROVE  Block(codec, caps, ch, f)
<1>0. PICK R, D : R = rates_offered(caps) /\ D = depths_offered(caps)
  OBVIOUS
<1>1. /\ caps.rates \in Seq(Nat) /\ caps.depths \in Seq(Nat)
      /\ IsInjective(caps.rates) /\ IsInjective(caps.depths)
  BY DEF Capable, Probed
<1>2. RATE_PREFERENCE \in Seq(Nat) /\ DEPTH_PREFERENCE \in Seq(Nat)
  BY ChoiceAssumption
<1>3. InOrder(Nat, R, caps.rates, RATE_PREFERENCE) /\ InOrder(Nat, D, caps.depths, DEPTH_PREFERENCE)
  BY <1>0, <1>1, <1>2, OrderIs, Zenon DEF rates_offered, depths_offered
<1>4. /\ R \in Seq(Nat) /\ D \in Seq(Nat) /\ IsInjective(R) /\ IsInjective(D)
      /\ Downward(caps.rates, RATE_PREFERENCE, R) /\ Downward(caps.depths, DEPTH_PREFERENCE, D)
      /\ \A n \in 1..Len(R) : \E i \in 1..Len(caps.rates) : R[n] = caps.rates[i]
      /\ \A i \in 1..Len(caps.rates) : \E n \in 1..Len(R) : R[n] = caps.rates[i]
      /\ \A n \in 1..Len(D) : \E i \in 1..Len(caps.depths) : D[n] = caps.depths[i]
      /\ \A i \in 1..Len(caps.depths) : \E n \in 1..Len(D) : D[n] = caps.depths[i]
  BY <1>1, <1>3, Zenon DEF InOrder
<1>5. f = at_all(codec, ch, R, D) /\ codec \in Codecs
  BY <1>0 DEF Codecs
<1>6. Table(caps, codec, ch, R, D, f)
  BY <1>4, <1>5, AllIs, Zenon
<1>7. ASSUME NEW n \in 1..Len(f)
      PROVE  f[n][1] = codec /\ Decoded(f[n]) /\ Takes(caps, f[n])
  <2>1. PICK q \in 1..Len(R), r \in 1..Len(D) : f[n] = <<codec, R[q], D[r], ch>>
    BY <1>6, Zenon DEF Table
  <2>2. PICK i \in 1..Len(caps.rates), j \in 1..Len(caps.depths) : R[q] = caps.rates[i] /\ D[r] = caps.depths[j]
    BY <1>4, Zenon
  <2>3. f[n][1] = codec /\ f[n][2] = caps.rates[i] /\ f[n][3] = caps.depths[j] /\ f[n][4] = ch
    BY <2>1, <2>2
  <2>4. Takes(caps, f[n])
    BY <2>3, Zenon DEF Takes, Contains
  <2>5. codec # "opus"
    OBVIOUS
  <2> QED BY <2>3, <2>4, <2>5, Zenon DEF Decoded
<1>8. ASSUME NEW i \in 1..Len(caps.rates), NEW j \in 1..Len(caps.depths)
      PROVE  \E n \in 1..Len(f) : f[n] = <<codec, caps.rates[i], caps.depths[j], ch>>
  <2>1. PICK q \in 1..Len(R), r \in 1..Len(D) : R[q] = caps.rates[i] /\ D[r] = caps.depths[j]
    BY <1>4, Zenon
  <2>2. PICK n \in 1..Len(f) : f[n] = <<codec, R[q], D[r], ch>>
    BY <1>6, Zenon DEF Table
  <2> QED BY <2>1, <2>2
<1>9. Offer(f, caps)
  BY <1>6, <1>7, Zenon DEF Offer, Table
<1> QED BY <1>7, <1>8, <1>9, Zenon DEF Block

OfCodecs(list, K) == \A n \in 1..Len(list) : list[n][1] \in K

\* Every format of a list is in another.
Part(f, h) == \A i \in 1..Len(f) : \E n \in 1..Len(h) : h[n] = f[i]

\* Two offers, the second of later codecs, are one offer.
LEMMA OffersJoin ==
    ASSUME NEW caps, NEW f, NEW g, NEW K, NEW L, Offer(f, caps), Offer(g, caps),
           OfCodecs(f, K), OfCodecs(g, L),
           \A k \in K, l \in L : earlier(k, l)
    PROVE  /\ Offer(f \o g, caps) /\ OfCodecs(f \o g, K \cup L)
           /\ Part(f, f \o g) /\ Part(g, f \o g)
<1>1. PICK h : h = f \o g
  OBVIOUS
<1>2. /\ f \in Seq(Quad) /\ IsInjective(f) /\ Falling(caps, f)
      /\ g \in Seq(Quad) /\ IsInjective(g) /\ Falling(caps, g)
  BY DEF Offer
<1>3. Ahead(f, g)
  BY Zenon DEF OfCodecs, Ahead
<1>4. /\ h \in Seq(Quad) /\ IsInjective(h) /\ Falling(caps, h)
      /\ \A n \in 1..Len(h) : \/ \E i \in 1..Len(f) : h[n] = f[i]
                              \/ \E j \in 1..Len(g) : h[n] = g[j]
      /\ \A i \in 1..Len(f) : \E n \in 1..Len(h) : h[n] = f[i]
      /\ \A j \in 1..Len(g) : \E n \in 1..Len(h) : h[n] = g[j]
  <2>1. Joined(caps, f, g, f \o g)
    BY <1>2, <1>3, JoinIs, Zenon
  <2> QED BY <1>1, <2>1, Zenon DEF Joined
<1>5. \A n \in 1..Len(h) : Decoded(h[n]) /\ Takes(caps, h[n]) /\ h[n][1] \in K \cup L
  BY <1>4 DEF Offer, OfCodecs
<1>6. Offer(h, caps) /\ OfCodecs(h, K \cup L) /\ Part(f, h) /\ Part(g, h)
  BY <1>4, <1>5, Zenon DEF Offer, OfCodecs, Part
<1> QED BY <1>1, <1>6, Zenon

\* Opus is an offer of one format where the device takes it, else of none.
LEMMA OpusIs ==
    ASSUME NEW caps, Capable(caps), NEW ch \in Nat \ {0}, Contains(caps.channels, ch),
           NEW f, f = (IF opus_reachable(caps, ch)
                       THEN << <<"opus", OPUS_RATE, OPUS_BIT_DEPTH, ch>> >> ELSE <<>>)
    PROVE  Offer(f, caps) /\ OfCodecs(f, {"opus"})
<1>1. CASE ~ opus_reachable(caps, ch)
  <2>1. f = <<>> /\ f \in Seq(Quad) /\ Len(f) = 0 /\ DOMAIN f = {}
    BY <1>1
  <2> QED BY <2>1 DEF Offer, OfCodecs, IsInjective, Falling
<1>2. CASE opus_reachable(caps, ch)
  <2>1. PICK x : x = <<"opus", OPUS_RATE, OPUS_BIT_DEPTH, ch>>
    OBVIOUS
  <2>2. /\ OPUS_RATE \in Nat \ {0} /\ OPUS_BIT_DEPTH \in Nat
        /\ OPUS_BIT_DEPTH \in ToSet(PROBE_BIT_DEPTHS) /\ OPUS_RATE \in 1..MAX_RATE
        /\ OPUS_MAX_CHANNELS \in 0..MAX_CHANNELS
    <3>1. /\ OPUS_RATE \in Nat \ {0} /\ OPUS_BIT_DEPTH \in Nat
          /\ OPUS_BIT_DEPTH \in ToSet(PROBE_BIT_DEPTHS) /\ OPUS_RATE <= MAX_RATE
          /\ OPUS_MAX_CHANNELS \in 0..MAX_CHANNELS
      BY ChoiceAssumption DEF Probed, ToSet
    <3>2. MAX_RATE \in Nat
      BY SMT DEF MAX_RATE
    <3> QED BY <3>1, <3>2
  <2>3. x \in Quad
    BY <2>1, <2>2, QuadIs DEF Codecs
  <2>4. x[1] = "opus" /\ x[2] = OPUS_RATE /\ x[3] = OPUS_BIT_DEPTH /\ x[4] = ch /\ Len(x) = 4
    BY <2>1
  <2>5. f = <<x>>
    BY <1>2, <2>1
  <2>6. f \in Seq(Quad) /\ Len(f) = 1 /\ DOMAIN f = 1..1 /\ f[1] = x
    <3>1. PICK S : S = Quad /\ x \in S
      BY <2>3
    <3>2. f \in Seq(S) /\ Len(f) = 1 /\ DOMAIN f = 1..1 /\ f[1] = x
      BY <2>5, <3>1
    <3> QED BY <3>1, <3>2, Zenon
  <2>7. \A n \in 1..1 : n = 1
    OBVIOUS
  <2>8. Decoded(x)
    <3>1. ch \in 1..MAX_CHANNELS /\ ch <= OPUS_MAX_CHANNELS
      BY <1>2, <2>2, SMT DEF opus_reachable, MAX_CHANNELS
    <3> QED BY <2>2, <2>4, <3>1, Zenon DEF Decoded, parse_format_spec
  <2>9. Takes(caps, x)
    BY <1>2, <2>4 DEF Takes, opus_reachable
  <2>10. IsInjective(f)
    BY <2>6, <2>7 DEF IsInjective
  <2>11. Falling(caps, f)
    <3>1. ~ (1 < 1)
      OBVIOUS
    <3> QED BY <2>6, <2>7, <3>1, Zenon DEF Falling
  <2>12. OfCodecs(f, {"opus"})
    BY <2>4, <2>6, <2>7 DEF OfCodecs
  <2> QED BY <2>6, <2>7, <2>8, <2>9, <2>10, <2>11, <2>12, Zenon DEF Offer
<1> QED BY <1>1, <1>2

\* A rate and a depth of the device are in what is offered for it.
Complete(list, caps) ==
    \A i \in 1..Len(caps.rates), j \in 1..Len(caps.depths) : Both(list, caps.rates[i], caps.depths[j])

\* The formats for a device are an offer, with every rate and depth of it.
LEMMA SupportedIs ==
    ASSUME NEW caps, Capable(caps)
    PROVE  /\ Offer(supported_formats(caps), caps)
           /\ caps.channels # <<>> => Complete(supported_formats(caps), caps)
<1>1. PICK ch, s : ch = advertised_channels(caps.channels) /\ s = supported_formats(caps)
  OBVIOUS
<1>2. ch \in Nat /\ (ch = 0 <=> caps.channels = <<>>) /\ (caps.channels # <<>> => Contains(caps.channels, ch))
  BY <1>1, ChannelsIs DEF Capable
<1>3. CASE ch = 0
  <2>1. s = <<>>
    BY <1>1, <1>3 DEF supported_formats
  <2>2. s \in Seq(Quad) /\ Len(s) = 0 /\ DOMAIN s = {}
    BY <2>1
  <2>3. Offer(s, caps)
    BY <2>2 DEF Offer, IsInjective, Falling
  <2> QED BY <1>1, <1>2, <1>3, <2>3
<1>4. CASE ch # 0
  <2>1. PICK f, o, p :
            /\ f = at_all("flac", ch, rates_offered(caps), depths_offered(caps))
            /\ o = (IF opus_reachable(caps, ch)
                    THEN << <<"opus", OPUS_RATE, OPUS_BIT_DEPTH, ch>> >> ELSE <<>>)
            /\ p = at_all("pcm", ch, rates_offered(caps), depths_offered(caps))
    OBVIOUS
  <2>2. s = f \o o \o p
    BY <1>1, <1>4, <2>1, Zenon DEF supported_formats
  <2>3. ch \in Nat \ {0} /\ Contains(caps.channels, ch)
    BY <1>2, <1>4
  <2>4. /\ Offer(f, caps) /\ \A n \in 1..Len(f) : f[n][1] = "flac"
        /\ \A i \in 1..Len(caps.rates), j \in 1..Len(caps.depths) : \E n \in 1..Len(f) :
             f[n] = <<"flac", caps.rates[i], caps.depths[j], ch>>
    <3>1. Block("flac", caps, ch, f)
      BY <2>1, <2>3, BlockIs
    <3> QED BY <3>1, Zenon DEF Block
  <2>5. /\ Offer(p, caps) /\ \A n \in 1..Len(p) : p[n][1] = "pcm"
        /\ \A i \in 1..Len(caps.rates), j \in 1..Len(caps.depths) : \E n \in 1..Len(p) :
             p[n] = <<"pcm", caps.rates[i], caps.depths[j], ch>>
    <3>1. Block("pcm", caps, ch, p)
      BY <2>1, <2>3, BlockIs
    <3> QED BY <3>1, Zenon DEF Block
  <2>6. PICK K, L, M : K = {"flac"} /\ L = {"opus"} /\ M = {"pcm"}
    OBVIOUS
  <2>7. OfCodecs(f, K) /\ OfCodecs(p, M) /\ Offer(o, caps) /\ OfCodecs(o, L)
    <3>1. Offer(o, caps) /\ OfCodecs(o, L)
      BY <2>1, <2>3, <2>6, OpusIs
    <3> QED BY <2>4, <2>5, <2>6, <3>1 DEF OfCodecs
  <2>8. /\ \A k \in K, l \in L : earlier(k, l)
        /\ \A k \in K \cup L, l \in M : earlier(k, l)
    BY <2>6 DEF earlier
  <2>9. Offer(f \o o, caps) /\ OfCodecs(f \o o, K \cup L) /\ Part(f, f \o o)
    BY <2>4, <2>7, <2>8, OffersJoin, Zenon
  <2>10. Offer(s, caps) /\ Part(f \o o, s) /\ Part(p, s)
    BY <2>2, <2>5, <2>7, <2>8, <2>9, OffersJoin, Zenon
  <2>11. Part(f, s)
    BY <2>9, <2>10, Zenon DEF Part
  <2>12. ASSUME NEW i \in 1..Len(caps.rates), NEW j \in 1..Len(caps.depths)
         PROVE  Both(s, caps.rates[i], caps.depths[j])
    <3>1. PICK r, d : r = caps.rates[i] /\ d = caps.depths[j]
      OBVIOUS
    <3>2. PICK m \in 1..Len(s) : s[m] = <<"flac", r, d, ch>>
      <4>1. PICK l \in 1..Len(f) : f[l] = <<"flac", r, d, ch>>
        BY <2>4, <3>1, Zenon
      <4> QED BY <2>11, <4>1, Zenon DEF Part
    <3>3. PICK n \in 1..Len(s) : s[n] = <<"pcm", r, d, ch>>
      <4>1. PICK l \in 1..Len(p) : p[l] = <<"pcm", r, d, ch>>
        BY <2>5, <3>1, Zenon
      <4> QED BY <2>10, <4>1, Zenon DEF Part
    <3>4. SubSeq(s[m], 1, 3) = <<"flac", r, d>>
      BY <3>2, FirstThree
    <3>5. SubSeq(s[n], 1, 3) = <<"pcm", r, d>>
      BY <3>3, FirstThree
    <3>6. Both(s, r, d)
      BY <3>4, <3>5 DEF Both
    <3> QED BY <3>1, <3>6, Zenon
  <2>13. Complete(s, caps)
    BY <2>12, Zenon DEF Complete
  <2> QED BY <1>1, <2>10, <2>13, Zenon
<1> QED BY <1>3, <1>4

\* A list q has what a list has, p first, and the others in order of preference.
Pinned(caps, list, p, q) ==
    /\ q \in Seq(Quad) /\ IsInjective(q) /\ Len(q) > 0 /\ q[1] = p
    /\ Part(list, q) /\ Part(q, list)
    /\ \A i, j \in 1..Len(q) : i < j /\ q[i] # p => in_priority_order(caps, q[i], q[j])

\* The pinned format goes to the front of a list that has it.
LEMMA PinIs ==
    ASSUME NEW caps, NEW list \in Seq(Quad), IsInjective(list), Falling(caps, list),
           NEW p, Contains(list, p)
    PROVE  Pinned(caps, list, p, pin_preferred_format(list, p))
<1>1. PICK k, q, N : k = find(list, p) /\ q = pin_preferred_format(list, p) /\ N = Len(list)
  OBVIOUS
<1>2. N \in Nat /\ k \in 1..N /\ list[k] = p /\ p \in Quad /\ DOMAIN list = 1..N
  BY <1>1, FindIs
<1>3. PICK front, back : front = SubSeq(list, 1, k - 1) /\ back = SubSeq(list, k + 1, N)
  OBVIOUS
<1>4. /\ front \in Seq(Quad) /\ Len(front) = k - 1 /\ \A i \in 1..(k - 1) : front[i] = list[i]
  BY <1>1, <1>2, <1>3
<1>5. /\ back \in Seq(Quad) /\ Len(back) = N - k /\ \A i \in 1..(N - k) : back[i] = list[k + i]
  BY <1>1, <1>2, <1>3
<1>6. q = <<p>> \o (front \o back)
  BY <1>1, <1>3, Zenon DEF pin_preferred_format, RemoveAt
<1>7. <<p>> \in Seq(Quad) /\ Len(<<p>>) = 1 /\ <<p>>[1] = p
  BY <1>2
<1>8. PICK rest : rest = front \o back
  OBVIOUS
<1>9. /\ rest \in Seq(Quad) /\ Len(rest) = N - 1
      /\ \A i \in 1..(N - 1) : rest[i] = IF i < k THEN list[i] ELSE list[i + 1]
  <2>1. rest \in Seq(Quad) /\ Len(rest) = (k - 1) + (N - k)
    <3>1. rest \in Seq(Quad) /\ Len(rest) = Len(front) + Len(back)
      BY <1>4, <1>5, <1>8, ConcatProperties
    <3> QED BY <1>4, <1>5, <3>1, Zenon
  <2>2. \A i \in 1..((k - 1) + (N - k)) : rest[i] = IF i <= k - 1 THEN front[i] ELSE back[i - (k - 1)]
    BY <1>4, <1>5, <1>8, ConcatProperties
  <2>3. (k - 1) + (N - k) = N - 1
    BY <1>2
  <2>4. ASSUME NEW i \in 1..(N - 1) PROVE rest[i] = IF i < k THEN list[i] ELSE list[i + 1]
    <3>1. CASE i < k
      BY <1>2, <1>4, <2>2, <2>3, <3>1
    <3>2. CASE ~ (i < k)
      <4>1. PICK j \in 1..(N - k) : j = i - (k - 1) /\ k + j = i + 1
        BY <1>2, <3>2
      <4> QED BY <1>2, <1>5, <2>2, <2>3, <3>2, <4>1
    <3> QED BY <3>1, <3>2
  <2> QED BY <2>1, <2>3, <2>4
<1>10. /\ q \in Seq(Quad) /\ Len(q) = N /\ q[1] = p /\ \A m \in 2..N : q[m] = rest[m - 1]
  <2>1. q = <<p>> \o rest
    BY <1>6, <1>8
  <2>2. q \in Seq(Quad) /\ Len(q) = 1 + (N - 1)
        /\ \A m \in 1..(1 + (N - 1)) : q[m] = IF m <= 1 THEN <<p>>[m] ELSE rest[m - 1]
    BY <1>7, <1>9, <2>1, ConcatProperties
  <2> QED BY <1>2, <1>7, <2>2
\* From where the format at each place comes.
<1> DEFINE from(m) == IF m = 1 THEN k ELSE IF m <= k THEN m - 1 ELSE m
<1>11. \A m \in 1..N : from(m) \in 1..N /\ q[m] = list[from(m)]
  BY <1>2, <1>9, <1>10
<1>12. /\ \A m, n \in 1..N : from(m) = from(n) => m = n
       /\ \A m, n \in 1..N : m < n /\ m # 1 => from(m) < from(n)
       /\ from(1) = k
  BY <1>2
<1>13. \A i \in 1..N : \E m \in 1..N : from(m) = i
  <2> SUFFICES ASSUME NEW i \in 1..N PROVE \E m \in 1..N : from(m) = i
    OBVIOUS
  <2>1. CASE i = k
    <3>1. 1 \in 1..N
      BY <1>2
    <3> QED BY <1>12, <2>1, <3>1
  <2>2. CASE i < k
    <3>1. i + 1 \in 1..N /\ from(i + 1) = i
      BY <1>2, <2>2
    <3> QED BY <3>1
  <2>3. CASE i > k
    <3>1. i \in 1..N /\ from(i) = i
      BY <1>2, <2>3
    <3> QED BY <3>1
  <2> QED BY <1>2, <2>1, <2>2, <2>3
<1> HIDE DEF from
<1>14. IsInjective(q)
  <2> SUFFICES ASSUME NEW m \in 1..N, NEW n \in 1..N, q[m] = q[n] PROVE m = n
    BY <1>10 DEF IsInjective
  <2>1. from(m) = from(n)
    BY <1>2, <1>11 DEF IsInjective
  <2> QED BY <1>12, <2>1
<1>15. Part(list, q)
  <2> SUFFICES ASSUME NEW i \in 1..N PROVE \E m \in 1..N : q[m] = list[i]
    BY <1>1, <1>10 DEF Part
  <2>1. PICK m \in 1..N : from(m) = i
    BY <1>13
  <2> QED BY <1>11, <2>1
<1>16. Part(q, list)
  BY <1>1, <1>10, <1>11 DEF Part
<1>17. ASSUME NEW m \in 1..N, NEW n \in 1..N, m < n, q[m] # p
       PROVE  in_priority_order(caps, q[m], q[n])
  <2>1. m # 1
    BY <1>10, <1>17
  <2>2. PICK i \in 1..N, j \in 1..N : i < j /\ q[m] = list[i] /\ q[n] = list[j]
    BY <1>11, <1>12, <1>17, <2>1
  <2>3. in_priority_order(caps, list[i], list[j])
    BY <1>2, <2>2, Zenon DEF Falling
  <2> QED BY <2>2, <2>3, Zenon
<1>18. Len(q) > 0
  BY <1>2, <1>10
<1>19. Pinned(caps, list, p, q)
  BY <1>10, <1>14, <1>15, <1>16, <1>17, <1>18 DEF Pinned
<1> QED BY <1>1, <1>19, Zenon

\* What a player that has probed is to offer, and what a pin makes of it.
OffersInv ==
    /\ Capable(report)
    /\ starting = "offers" => formats = advertised_formats
    /\ starting = "ready" =>
          \/ pin = <<>> /\ formats = advertised_formats
          \/ /\ pin # <<>> /\ Contains(advertised_formats, pin)
             /\ formats = pin_preferred_format(advertised_formats, pin)

\* Nothing is a value once.
LEMMA NothingIsProbed == Probed(<<>>)
BY DEF Probed, IsInjective

\* Every step keeps it.
LEMMA OffersSteps == OffersInv /\ [ChoiceNext]_output => OffersInv'
<1> SUFFICES ASSUME OffersInv, [ChoiceNext]_output PROVE OffersInv'
  OBVIOUS
<1>1. CASE ResolveDevice
  <2>1. starting' \notin {"offers", "ready"} /\ report' = report
    BY <1>1 DEF ResolveDevice
  <2> QED BY <2>1 DEF OffersInv
<1>2. CASE ProbeDevice
  <2>1. starting' \notin {"offers", "ready"}
    BY <1>2 DEF ProbeDevice
  <2>2. report' = permissive \/ report' \in Reports \/ report' = report
    BY <1>2, Zenon DEF ProbeDevice
  <2>3. Capable(permissive)
    BY ChoiceAssumption DEF permissive, Capable
  <2>4. \A r \in Reports : Capable(r)
    BY ChoiceAssumption, Zenon DEF Capable
  <2>5. Capable(report')
    BY <2>2, <2>3, <2>4, Zenon DEF OffersInv
  <2> QED BY <2>1, <2>5 DEF OffersInv
<1>3. CASE Advertise
  <2>1. starting' = "offers" /\ report' = report /\ formats' = advertised_formats
    BY <1>3 DEF Advertise
  <2>2. advertised_formats' = advertised_formats
    BY <2>1, Zenon DEF advertised_formats
  <2> QED BY <2>1, <2>2 DEF OffersInv
<1>4. CASE PinFormat
  <2>1. report' = report /\ pin' = pin /\ starting' \in {"ready", "refused"}
    BY <1>4 DEF PinFormat
  <2>2. advertised_formats' = advertised_formats
    BY <2>1, Zenon DEF advertised_formats
  <2>3. formats = advertised_formats
    BY <1>4 DEF PinFormat, OffersInv
  <2>4. starting' = "ready" =>
            \/ pin = <<>> /\ formats' = advertised_formats
            \/ /\ pin # <<>> /\ Contains(advertised_formats, pin)
               /\ formats' = pin_preferred_format(advertised_formats, pin)
    BY <1>4, <2>3 DEF PinFormat
  <2> QED BY <2>1, <2>2, <2>4 DEF OffersInv
<1>5. CASE UNCHANGED output
  <2>1. report' = report /\ pin' = pin /\ formats' = formats /\ starting' = starting
    BY <1>5 DEF output
  <2>2. advertised_formats' = advertised_formats
    BY <2>1, Zenon DEF advertised_formats
  <2> QED BY <2>1, <2>2 DEF OffersInv
<1> QED BY <1>1, <1>2, <1>3, <1>4, <1>5 DEF ChoiceNext

\* What the offer is of: the device's report, unless nothing of it can be offered.
Offered == IF supported_formats(report) = <<>> THEN permissive ELSE report

\* What OffersWhatCanBePlayed says of a list that is offered.
Playable(list, first) ==
    /\ list # <<>> /\ IsInjective(list)
    /\ \A n \in 1..Len(list) : Decoded(list[n]) /\ (Takes(report, list[n]) \/ supported_formats(report) = <<>>)
    /\ report.channels # <<>> => Complete(list, report)
    /\ list \in Seq(Quad)
    /\ \A i, j \in 1..Len(list) : i < j /\ list[i] # first => in_priority_order(Offered, list[i], list[j])

\* A device that takes everything is offered something.
LEMMA SomethingIsOffered == supported_formats(permissive) # <<>> /\ Capable(permissive)
<1>1. PICK caps, list : caps = permissive /\ list = supported_formats(caps)
  OBVIOUS
<1>2. /\ Capable(caps) /\ caps.channels # <<>>
      /\ OPUS_RATE \in ToSet(caps.rates) /\ OPUS_BIT_DEPTH \in ToSet(caps.depths)
      /\ caps.rates \in Seq(Nat \ {0}) /\ caps.depths \in Seq(Nat \ {0})
  BY <1>1, ChoiceAssumption DEF permissive, Capable, Probed
<1>3. PICK i \in 1..Len(caps.rates), j \in 1..Len(caps.depths) : TRUE
  <2>1. DOMAIN caps.rates = 1..Len(caps.rates) /\ DOMAIN caps.depths = 1..Len(caps.depths)
    BY <1>2
  <2> QED BY <1>2, <2>1, Zenon DEF ToSet
<1>4. Both(list, caps.rates[i], caps.depths[j])
  BY <1>1, <1>2, <1>3, SupportedIs, Zenon DEF Complete
<1>5. list # <<>>
  BY <1>4 DEF Both
<1> QED BY <1>1, <1>2, <1>5, Zenon

\* What is advertised can be played.
LEMMA AdvertisedIs ==
    ASSUME Capable(report), NEW first
    PROVE  Playable(advertised_formats, first) /\ Falling(Offered, advertised_formats)
<1>1. PICK list, offer : list = advertised_formats /\ offer = supported_formats(report)
  OBVIOUS
<1>2. Offer(offer, report) /\ (report.channels # <<>> => Complete(offer, report))
  BY <1>1, SupportedIs, Zenon
<1>3. CASE offer = <<>>
  <2>1. list = supported_formats(permissive)
    BY <1>1, <1>3, Zenon DEF advertised_formats
  <2>2. Offer(list, permissive) /\ list # <<>>
    BY <2>1, SomethingIsOffered, SupportedIs, Zenon
  <2>3. report.channels # <<>> => Complete(list, report)
    <3>1. report.channels # <<>> =>
              ~ \E i \in 1..Len(report.rates), j \in 1..Len(report.depths) : TRUE
      BY <1>2, <1>3 DEF Complete, Both
    <3> QED BY <3>1, Zenon DEF Complete
  <2>4. Offered = permissive
    BY <1>1, <1>3, Zenon DEF Offered
  <2>5. Falling(Offered, list) /\ list \in Seq(Quad) /\ DOMAIN list = 1..Len(list)
    BY <2>2, <2>4 DEF Offer
  <2>6. Playable(list, first)
    BY <1>1, <1>3, <2>2, <2>3, <2>5, Zenon DEF Playable, Offer, Falling
  <2> QED BY <1>1, <2>5, <2>6, Zenon
<1>4. CASE offer # <<>>
  <2>1. list = offer
    BY <1>1, <1>4, Zenon DEF advertised_formats
  <2>2. Offered = report
    BY <1>1, <1>4, Zenon DEF Offered
  <2>3. Falling(Offered, list) /\ list \in Seq(Quad) /\ DOMAIN list = 1..Len(list)
    BY <1>2, <2>1, <2>2 DEF Offer
  <2>4. Playable(list, first)
    BY <1>2, <1>4, <2>1, <2>3, Zenon DEF Playable, Offer, Falling
  <2> QED BY <1>1, <2>3, <2>4, Zenon
<1> QED BY <1>3, <1>4

\* With the pin in front it can still.
LEMMA PinnedIs ==
    ASSUME NEW list, Playable(list, pin), Falling(Offered, list), Contains(list, pin),
           NEW q, q = pin_preferred_format(list, pin)
    PROVE  Playable(q, pin) /\ q[1] = pin
<1>1. Pinned(Offered, list, pin, q)
  BY PinIs, Zenon DEF Playable
<1>2. /\ q \in Seq(Quad) /\ IsInjective(q) /\ Len(q) > 0 /\ q[1] = pin
      /\ Part(list, q) /\ Part(q, list)
  BY <1>1, Zenon DEF Pinned
<1>3. \A n \in 1..Len(q) : Decoded(q[n]) /\ (Takes(report, q[n]) \/ supported_formats(report) = <<>>)
  BY <1>2 DEF Playable, Part
<1>4. report.channels # <<>> => Complete(q, report)
  <2> SUFFICES ASSUME report.channels # <<>>, NEW i \in 1..Len(report.rates), NEW j \in 1..Len(report.depths),
                      NEW codec \in {"flac", "pcm"}
               PROVE  \E n \in 1..Len(q) : SubSeq(q[n], 1, 3) = <<codec, report.rates[i], report.depths[j]>>
    BY Zenon DEF Complete, Both
  <2>1. PICK m \in 1..Len(list) : SubSeq(list[m], 1, 3) = <<codec, report.rates[i], report.depths[j]>>
    BY Zenon DEF Playable, Complete, Both
  <2>2. PICK n \in 1..Len(q) : q[n] = list[m]
    BY <1>2, Zenon DEF Part
  <2> QED BY <2>1, <2>2, Zenon
<1>5. q # <<>>
  BY <1>2
<1>6. Playable(q, pin)
  BY <1>1, <1>2, <1>3, <1>4, <1>5, Zenon DEF Playable, Pinned
<1> QED BY <1>2, <1>6

\* Whatever the device reports and whatever is pinned, what a server is offered can be
\* played, each rate and depth of the device is in it once with each codec, and it is in
\* order of codec, then of rate, then of depth, the pin in front apart (src/supported_formats.cpp, src/main.cpp).
THEOREM OffersKept == ChoiceInit /\ [][ChoiceNext]_output => []OffersWhatCanBePlayed
<1>1. ChoiceInit => OffersInv
  BY NothingIsProbed DEF ChoiceInit, OffersInv, Capable
<1>2. OffersInv => OffersWhatCanBePlayed
  <2> SUFFICES ASSUME OffersInv, starting \in {"offers", "ready"} PROVE OffersWhatCanBePlayed
    BY DEF OffersWhatCanBePlayed
  <2>1. PICK list : list = advertised_formats
    OBVIOUS
  <2>2. (\A first : Playable(list, first)) /\ Falling(Offered, list)
    BY <2>1, AdvertisedIs DEF OffersInv
  <2>3. \/ formats = list /\ (starting = "offers" \/ pin = <<>>)
        \/ starting = "ready" /\ pin # <<>> /\ Playable(formats, pin) /\ formats[1] = pin
    <3>1. CASE starting = "offers"
      BY <2>1, <3>1 DEF OffersInv
    <3>2. CASE starting = "ready" /\ pin = <<>>
      BY <2>1, <3>2 DEF OffersInv
    <3>3. CASE starting = "ready" /\ pin # <<>>
      <4>1. Contains(list, pin) /\ formats = pin_preferred_format(list, pin)
        BY <2>1, <3>3, Zenon DEF OffersInv
      <4> QED BY <2>2, <3>3, <4>1, PinnedIs
    <3> QED BY <3>1, <3>2, <3>3
  <2>4. Playable(formats, pin)
    BY <2>2, <2>3, Zenon
  <2>5. starting = "ready" /\ pin # <<>> => formats[1] = pin
    BY <2>3, Zenon
  <2>6. starting = "offers" => Falling(Offered, formats)
    BY <2>2, <2>3
  <2>7. formats \in Seq(Quad) /\ DOMAIN formats = 1..Len(formats)
    BY <2>4 DEF Playable
  <2>8. ASSUME NEW format \in ToSet(formats)
        PROVE  (format[1] = "opus" => parse_format_spec(format)) /\ (taken(format) \/ supported_formats(report) = <<>>)
    <3>1. PICK n \in 1..Len(formats) : format = formats[n]
      BY <2>7 DEF ToSet
    <3>2. Decoded(formats[n]) /\ (Takes(report, formats[n]) \/ supported_formats(report) = <<>>)
      BY <2>4, Zenon DEF Playable
    <3> QED BY <3>1, <3>2, Zenon DEF Decoded, Takes, taken
  <2>9. ASSUME NEW rate \in ToSet(report.rates), NEW depth \in ToSet(report.depths), report.channels # <<>>,
               NEW codec \in {"flac", "pcm"}
        PROVE  \E f \in ToSet(formats) : SubSeq(f, 1, 3) = <<codec, rate, depth>>
    <3>1. PICK i \in 1..Len(report.rates), j \in 1..Len(report.depths) :
              rate = report.rates[i] /\ depth = report.depths[j]
      <4>1. report.rates \in Seq(Nat \ {0}) /\ report.depths \in Seq(Nat \ {0})
        BY Zenon DEF OffersInv, Capable, Probed
      <4>2. DOMAIN report.rates = 1..Len(report.rates) /\ DOMAIN report.depths = 1..Len(report.depths)
        BY <4>1
      <4> QED BY <4>2, Zenon DEF ToSet
    <3>2. Both(formats, report.rates[i], report.depths[j])
      BY <2>4, <2>9, Zenon DEF Playable, Complete
    <3>3. PICK n \in 1..Len(formats) : SubSeq(formats[n], 1, 3) = <<codec, rate, depth>>
      BY <3>1, <3>2, Zenon DEF Both
    <3>4. formats[n] \in ToSet(formats)
      BY <2>7 DEF ToSet
    <3> QED BY <3>3, <3>4, Zenon
  <2>10. ASSUME NEW i \in DOMAIN formats, NEW j \in DOMAIN formats, i < j,
                starting = "offers" \/ formats[i] # pin
         PROVE  in_priority_order(Offered, formats[i], formats[j])
    <3>1. CASE starting = "offers"
      BY <2>6, <2>10, <3>1, Zenon DEF Falling
    <3>2. CASE formats[i] # pin
      BY <2>4, <2>7, <2>10, <3>2, Zenon DEF Playable
    <3> QED BY <2>10, <3>1, <3>2
  <2>11. formats # <<>> /\ IsInjective(formats)
    BY <2>4 DEF Playable
  <2> QED BY <2>5, <2>8, <2>9, <2>10, <2>11, Zenon DEF OffersWhatCanBePlayed, Offered
<1> QED BY <1>1, <1>2, OffersSteps, PTL
=============================================================================
