----------------------------- MODULE StateStore -----------------------------
(***************************************************************************)
(* What the daemon remembers (src/state_store.{h,cpp}): one small file,     *)
(* rewritten through a temporary on every change, by a player that may be   *)
(* killed or lose power between any two steps of that, and by a second      *)
(* player sharing the directory.                                            *)
(*                                                                          *)
(* set_all() and write() are cut at every call that reaches the file        *)
(* system, since a crash or the other player can come in between; a call    *)
(* may fail.  The callers are the volume callbacks of the player listener   *)
(* and a setter of one key, for all of the others.                          *)
(*                                                                          *)
(* `disk` is the file as processes see it and `durable` as it would be      *)
(* after a power cut.  A rename becomes durable some time after it is made, *)
(* and may do so ahead of bytes that were not synced.                       *)
(***************************************************************************)
EXTENDS Naturals, Sequences, FiniteSets

CONSTANTS
    Players,                \* processes; a process id may be used again
    Volumes,                \* volumes a server sets
    Servers,                \* values of the other key, "last-server"
    DEFAULT_SINK_VOLUME,
    None,
    Torn                    \* a file that is empty, cut short or still being written

Keys == {"volume", "muted", "last-server"}
Muted == {"false", "true"}
Values == [Keys -> Volumes \cup {DEFAULT_SINK_VOLUME} \cup Muted \cup Servers \cup {None}]

ASSUME StoreAssumption ==
    /\ {None, Torn} \cap (Volumes \cup Servers \cup {DEFAULT_SINK_VOLUME}) = {}
    /\ None # Torn
    /\ None \notin Values /\ Torn \notin Values

VARIABLES
    player,      \* each process: where it is in set_all(), and its memory
    temporaries, \* the temporary files, by the process id in their names
    disk,        \* the state file
    durable,     \* what a power cut leaves of it
    synced       \* the bytes of `disk` are on the device

vars == <<player, temporaries, disk, durable, synced>>

nothing == [k \in Keys |-> None]

\* What load() takes from a file: of one that does not parse, nothing.
contents(file) == IF file \in {None, Torn} THEN nothing ELSE file

update(values, pairs) == [k \in Keys |-> IF k \in DOMAIN pairs THEN pairs[k] ELSE values[k]]

value_or(value, default) == IF value = None THEN default ELSE value

down == [pc |-> "down", values |-> nothing, previous |-> nothing, pairs |-> <<>>,
         volume |-> DEFAULT_SINK_VOLUME, muted |-> "false", callbacks |-> <<>>]

Init ==
    /\ player = [p \in Players |-> down]
    /\ temporaries = [p \in Players |-> [content |-> None, synced |-> FALSE]]
    /\ disk = None /\ durable = None /\ synced = TRUE

\* The name of the temporary has the process id in it.
temporary(p) == p

-----------------------------------------------------------------------------
(* set_all() and write().                                                   *)

\* All of the pairs are already held: success without a write.
already_held(p, pairs) == \A k \in DOMAIN pairs : player[p].values[k] = pairs[k]

\* set_all() on behalf of a caller that has made the process `me`.
set_all(p, me, pairs) ==
    player' = [player EXCEPT ![p] =
        IF already_held(p, pairs)
        THEN [me EXCEPT !.pairs = pairs]
        ELSE [me EXCEPT !.pc = "open", !.pairs = pairs, !.previous = me.values,
                        !.values = update(@, pairs)]]

bug_not_rolled_back(p) ==
    player' = [player EXCEPT ![p].pc = "idle", ![p].pairs = <<>>, ![p].previous = nothing]

\* A failed write: what is held is what is on disk again, and the caller is told.
rolled_back(p) ==
    player' = [player EXCEPT ![p].pc = "idle", ![p].pairs = <<>>, ![p].previous = nothing,
                             ![p].values = player[p].previous]

\* The temporary goes, and with it this write.
abandon(p) ==
    /\ temporaries' = [temporaries EXCEPT ![temporary(p)] = [content |-> None, synced |-> FALSE]]
    /\ rolled_back(p)
    /\ UNCHANGED <<disk, durable, synced>>

\* No directory, or no file to be had.
WriteCannotOpen(p) ==
    /\ player[p].pc = "open"
    /\ rolled_back(p)
    /\ UNCHANGED <<temporaries, disk, durable, synced>>

\* A leftover is removed and the temporary created anew.
WriteOpen(p) ==
    /\ player[p].pc = "open"
    /\ temporaries' = [temporaries EXCEPT ![temporary(p)] = [content |-> Torn, synced |-> FALSE]]
    /\ player' = [player EXCEPT ![p].pc = "print"]
    /\ UNCHANGED <<disk, durable, synced>>

\* Every held key is printed.
WritePrint(p) ==
    /\ player[p].pc = "print"
    /\ temporaries' = [temporaries EXCEPT ![temporary(p)].content = player[p].values]
    /\ player' = [player EXCEPT ![p].pc = "sync"]
    /\ UNCHANGED <<disk, durable, synced>>

bug_no_fsync(p) ==
    /\ player[p].pc = "sync"
    /\ player' = [player EXCEPT ![p].pc = "rename"]
    /\ UNCHANGED <<temporaries, disk, durable, synced>>

\* fflush(), fsync() and fclose().
WriteSync(p) ==
    /\ player[p].pc = "sync"
    /\ temporaries' = [temporaries EXCEPT ![temporary(p)].synced = TRUE]
    /\ player' = [player EXCEPT ![p].pc = "rename"]
    /\ UNCHANGED <<disk, durable, synced>>

\* The rename puts the new file in the place of the old one.
WriteRename(p) ==
    /\ player[p].pc = "rename"
    /\ disk' = temporaries[temporary(p)].content
    /\ synced' = temporaries[temporary(p)].synced
    /\ temporaries' = [temporaries EXCEPT ![temporary(p)] = [content |-> None, synced |-> FALSE]]
    /\ player' = [player EXCEPT ![p].pc = "idle", ![p].previous = nothing]
    /\ UNCHANGED <<durable>>

\* A full disk shows at any of the three.
WriteFails(p) == player[p].pc \in {"print", "sync", "rename"} /\ abandon(p)

write(p) ==
    \/ WriteCannotOpen(p) \/ WriteOpen(p)
    \/ WritePrint(p) \/ WriteSync(p) \/ WriteRename(p) \/ WriteFails(p)

-----------------------------------------------------------------------------
(* The callers, on the main loop.                                           *)

\* main() loads the file, and restores what it held of the volume and the mute.
Start(p) ==
    /\ player[p].pc = "down"
    /\ LET held == contents(disk)
           me   == [down EXCEPT !.pc = "idle", !.values = held,
                       !.volume = value_or(held["volume"], DEFAULT_SINK_VOLUME),
                       !.muted = value_or(held["muted"], "false")]
       IN  player' = [player EXCEPT ![p] = me]
    /\ UNCHANGED <<temporaries, disk, durable, synced>>

between_commands(p) == player[p].pc = "idle" /\ player[p].callbacks = <<>>

\* A server sets the volume, the mute or both: one callback for each, in turn.
ServerCommand(p) ==
    /\ between_commands(p)
    /\ \E volume \in Volumes \cup {None}, muted \in Muted \cup {None} :
          /\ <<volume, muted>> # <<None, None>>
          /\ player' = [player EXCEPT ![p].callbacks =
                (IF volume = None THEN <<>> ELSE <<[key |-> "volume", value |-> volume]>>)
                \o (IF muted = None THEN <<>> ELSE <<[key |-> "muted", value |-> muted]>>)]
    /\ UNCHANGED <<temporaries, disk, durable, synced>>

\* The volume the sink applies, and both halves of the pair persisted.
on_volume_changed(p) ==
    /\ player[p].pc = "idle" /\ player[p].callbacks # <<>>
    /\ Head(player[p].callbacks).key = "volume"
    /\ LET me == [player[p] EXCEPT !.volume = Head(player[p].callbacks).value,
                                   !.callbacks = Tail(@)]
       IN  set_all(p, me, [k \in {"volume", "muted"} |->
                              IF k = "volume" THEN me.volume ELSE me.muted])
    /\ UNCHANGED <<temporaries, disk, durable, synced>>

on_mute_changed(p) ==
    /\ player[p].pc = "idle" /\ player[p].callbacks # <<>>
    /\ Head(player[p].callbacks).key = "muted"
    /\ LET me == [player[p] EXCEPT !.muted = Head(player[p].callbacks).value,
                                   !.callbacks = Tail(@)]
       IN  set_all(p, me, [k \in {"volume", "muted"} |->
                              IF k = "volume" THEN me.volume ELSE me.muted])
    /\ UNCHANGED <<temporaries, disk, durable, synced>>

\* The other setters, of one key each.
set_last_server(p) ==
    /\ between_commands(p)
    /\ \E server \in Servers : set_all(p, player[p], [k \in {"last-server"} |-> server])
    /\ UNCHANGED <<temporaries, disk, durable, synced>>

-----------------------------------------------------------------------------
(* The world.                                                               *)

\* The process is gone, wherever it was; the files stay.
Kill(p) ==
    /\ player[p].pc # "down"
    /\ player' = [player EXCEPT ![p] = down]
    /\ UNCHANGED <<temporaries, disk, durable, synced>>

\* The device catches up with the rename, whether or not it has the bytes.
Writeback ==
    /\ durable # disk
    /\ durable' = IF synced THEN disk ELSE Torn
    /\ UNCHANGED <<player, temporaries, disk, synced>>

PowerCut ==
    /\ player' = [p \in Players |-> down]
    /\ temporaries' = [p \in Players |->
          IF temporaries[p].synced \/ temporaries[p].content = None THEN temporaries[p]
          ELSE [content |-> Torn, synced |-> FALSE]]
    /\ disk' = durable /\ synced' = TRUE
    /\ UNCHANGED <<durable>>

Next ==
    \/ \E p \in Players :
          \/ write(p)
          \/ Start(p)
          \/ ServerCommand(p) \/ on_volume_changed(p) \/ on_mute_changed(p)
          \/ set_last_server(p)
          \/ Kill(p)
    \/ Writeback
    \/ PowerCut

Spec == Init /\ [][Next]_vars

-----------------------------------------------------------------------------
Files == Values \cup {None, Torn}

\* The file and its temporaries are files, and every process is at some step.
TypeOK ==
    /\ {disk, durable} \cup {temporaries[p].content : p \in Players} \subseteq Files
    /\ \A p \in Players :
          /\ player[p].pc \in {"down", "idle", "open", "print", "sync", "rename"}
          /\ {player[p].values, player[p].previous} \subseteq Values

\* "A kill mid-write leaves either the old file or the new one and never half of
\* either", and so does a power cut, and so do two players on one directory.
NeverTorn == Torn \notin {disk, durable}

\* "What is held keeps describing what is really on the disk": after a failed
\* write, of which there may have been several, and after every restart.
MemoryIsDisk ==
    \A p \in Players : player[p].pc = "idle" => player[p].values = contents(disk)

\* A setter that answers success, the one that wrote nothing because all was held
\* already included, leaves its values in the file.
SuccessIsOnDisk ==
    \A p \in Players : player[p].pc = "idle"
      => \A k \in DOMAIN player[p].pairs : contents(disk)[k] = player[p].pairs[k]
=============================================================================
