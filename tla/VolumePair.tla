----------------------------- MODULE VolumePair -----------------------------
(***************************************************************************)
(* Which pairs of volume and mute a server has set, beside StateStore: a    *)
(* server/command that sets both is one decision, whose callbacks come one  *)
(* after the other.                                                         *)
(***************************************************************************)
EXTENDS StateStore

VARIABLE chosen    \* history: the pairs decided on, the default and what a start restored

\* The pair a player has once the callbacks that are on their way have run.
pending(me, key, value) ==
    LET to == {i \in DOMAIN me.callbacks : me.callbacks[i].key = key}
    IN  IF to = {} THEN value ELSE me.callbacks[CHOOSE i \in to : TRUE].value
decided(me) == <<pending(me, "volume", me.volume), pending(me, "muted", me.muted)>>

PairInit == Init /\ chosen = {decided(down)}

PairNext == Next /\ chosen' = chosen \cup {decided(player'[p]) : p \in Players}

PairSpec == PairInit /\ [][PairNext]_<<vars, chosen>>

held_pair == <<value_or(contents(disk)["volume"], DEFAULT_SINK_VOLUME),
               value_or(contents(disk)["muted"], "false")>>

\* "Two separate writes would let a kill land between them and leave the new volume
\* beside the old mute -- a pair that was never true": a player that finds the file
\* after a kill restores a pair a server chose.
PairWasChosen == (\A p \in Players : player[p].pc = "down") => held_pair \in chosen
=============================================================================
