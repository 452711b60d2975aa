--------------------------- MODULE ControlSocket ---------------------------
(***************************************************************************)
(* The connections of a control socket, and the subcommands that make them: *)
(* ControlSocket::poll() of src/control_socket.cpp and                      *)
(* run_control_subcommand() of src/control_client.cpp, over the players of  *)
(* Instances.  The kernel's stream sockets are external: what is written    *)
(* before a close is read before the end, and a close over bytes that were  *)
(* not read resets the peer, which learns of it after what it was sent.     *)
(***************************************************************************)
EXTENDS Instances

CONSTANTS
    Clients,                    \* subcommands, one connection each
    MAX_CONTROL_CONNECTIONS,
    CONTROL_IDLE_TIMEOUT_MS

ASSUME ControlAssumption ==
    /\ MAX_CONTROL_CONNECTIONS \in Nat \ {0}
    /\ CONTROL_IDLE_TIMEOUT_MS \in Nat
    /\ IsFiniteSet(Clients)
    /\ None \notin {"no_daemon", "failed", "busy", "ok", "answer"}

VARIABLES
    client,   \* where run_control_subcommand() is, and the status it returns
    conn      \* each one's connection, as the kernel and the player have it

vars == <<instance_vars, client, conn>>

\* `unread`: what the client has written, a line or "part" of one; `begun`: the assembler
\* has such a part.
unconnected == [at |-> "none", player |-> None, unread |-> "", begun |-> FALSE, age |-> 0,
                reply |-> None, reset |-> FALSE, handled |-> FALSE]

opened == {c \in Clients : conn[c].at = "open"}

\* A player closes its end; over a request it has not read, with a reset.
closed(k) == [k EXCEPT !.at = "closed", !.reset = k.unread # ""]

ControlInit ==
    /\ Init
    /\ client = [c \in Clients |-> [at |-> "idle", status |-> None]]
    /\ conn = [c \in Clients |-> unconnected]

with_conn(c, k) == conn' = [conn EXCEPT ![c] = k]
with_client(c, where, status) ==
    client' = [client EXCEPT ![c] = [at |-> where, status |-> status]]

-----------------------------------------------------------------------------
(* poll(), one connection at a time.                                        *)

serving(c) == conn[c].player \in listening /\ at[conn[c].player] = "running"

poll_accepts(c) ==
    /\ serving(c) /\ conn[c].at = "queued"
    /\ Cardinality(opened) < MAX_CONTROL_CONNECTIONS
    /\ with_conn(c, [conn[c] EXCEPT !.at = "open"])

\* One over the limit is answered, unread, and closed.
poll_refuses(c) ==
    /\ serving(c) /\ conn[c].at = "queued"
    /\ Cardinality(opened) >= MAX_CONTROL_CONNECTIONS
    /\ with_conn(c, closed([conn[c] EXCEPT !.reply = "busy"]))

bug_every_byte_renews(c) ==
    /\ serving(c) /\ conn[c].at = "open"
    /\ conn[c].unread = "part"
    /\ with_conn(c, [conn[c] EXCEPT !.unread = "", !.begun = TRUE, !.age = 0])

\* Bytes that make no line are kept, and buy no time.
poll_assembles(c) ==
    /\ serving(c) /\ conn[c].at = "open"
    /\ conn[c].unread = "part" /\ client[c].at # "gone"
    /\ conn[c].age < CONTROL_IDLE_TIMEOUT_MS
    /\ with_conn(c, [conn[c] EXCEPT !.unread = "", !.begun = TRUE])

ended(k, c) == client[c].at = "gone" /\ (k.begun \/ k.unread = "part")

\* A whole line is handled and answered, and so is a part of one that the end of the
\* input terminates: that reply is written to nobody.
poll_answers(c) ==
    /\ serving(c) /\ conn[c].at = "open"
    /\ conn[c].unread = "line" \/ ended(conn[c], c)
    /\ with_conn(c, closed([conn[c] EXCEPT !.unread = "", !.reply = "answer", !.handled = TRUE]))

\* Nothing to answer: dropped when it has had its time, or when its client is gone.
poll_drops(c) ==
    /\ serving(c) /\ conn[c].at = "open"
    /\ conn[c].unread # "line" /\ ~ ended(conn[c], c)
    /\ client[c].at = "gone" \/ conn[c].age >= CONTROL_IDLE_TIMEOUT_MS
    /\ with_conn(c, closed([conn[c] EXCEPT !.unread = ""]))

poll(c) ==
    /\ \/ poll_accepts(c) \/ poll_refuses(c) \/ poll_assembles(c) \/ poll_answers(c)
       \/ poll_drops(c)
    /\ UNCHANGED <<instance_vars, client>>

-----------------------------------------------------------------------------
(* run_control_subcommand().                                                *)

returns(c, status) == with_client(c, "done", status)

\* No file, or a file with nothing behind it: two reasons, one status.
connect_to_socket(c) ==
    /\ client[c].at = "idle"
    /\ \/ /\ sock_file \in listening
          /\ with_conn(c, [unconnected EXCEPT !.at = "queued", !.player = sock_file])
          /\ with_client(c, "connected", None)
       \/ /\ sock_file \notin listening
          /\ returns(c, "no_daemon")
          /\ UNCHANGED conn
    /\ UNCHANGED instance_vars

\* A request is one line; something else than a subcommand may write less than that.
write_all(c) ==
    /\ client[c].at = "connected" /\ conn[c].at \in {"queued", "open"}
    /\ \/ conn[c].unread = "" /\ with_conn(c, [conn[c] EXCEPT !.unread = "line"])
          /\ with_client(c, "sent", None)
       \/ conn[c].unread = "" /\ with_conn(c, [conn[c] EXCEPT !.unread = "part"])
          /\ UNCHANGED client
    /\ UNCHANGED instance_vars

\* The player has closed first: nothing is sent, and what it said is still read.
write_fails(c) ==
    /\ client[c].at = "connected" /\ conn[c].at = "closed"
    /\ with_client(c, "unsent", None)
    /\ UNCHANGED <<conn, instance_vars>>

bug_reply_not_looked_at(c) ==
    /\ client[c].at \in {"sent", "unsent"} /\ conn[c].at = "closed"
    /\ returns(c, IF client[c].at = "sent" THEN "ok" ELSE "failed")
    /\ UNCHANGED <<conn, instance_vars>>

\* Up to the end, which is the player's close: a reset is an error although a reply was read.
read_reply(c) ==
    /\ client[c].at \in {"sent", "unsent"} /\ conn[c].at = "closed"
    /\ returns(c, IF conn[c].reset \/ conn[c].reply = None THEN "failed"
                  ELSE IF conn[c].reply = "busy" THEN "busy"
                  ELSE "ok")
    /\ UNCHANGED <<conn, instance_vars>>

\* The client is killed, or is no subcommand and hangs up.
HangsUp(c) ==
    /\ client[c].at \in {"connected", "sent"}
    /\ with_client(c, "gone", None)
    /\ UNCHANGED <<conn, instance_vars>>

ClientStep(c) == write_fails(c) \/ read_reply(c)

-----------------------------------------------------------------------------
\* What a player that stops or dies does to its connections.
severed(p) == conn' = [c \in Clients |-> IF conn[c].player = p /\ conn[c].at \in {"queued", "open"}
                                         THEN closed(conn[c]) ELSE conn[c]]

Lifetime ==
    /\ UNCHANGED client
    /\ \E p \in Players :
          \/ (Start(p) \/ Advance(p)) /\ UNCHANGED conn
          \/ (StopsListening(p) \/ Crash(p)) /\ severed(p)

Tick ==
    /\ \E c \in opened : conn[c].age < CONTROL_IDLE_TIMEOUT_MS
    /\ conn' = [c \in Clients |->
          IF c \in opened /\ conn[c].age < CONTROL_IDLE_TIMEOUT_MS
          THEN [conn[c] EXCEPT !.age = @ + 1] ELSE conn[c]]
    /\ UNCHANGED <<instance_vars, client>>

Next ==
    \/ Lifetime \/ Tick
    \/ \E c \in Clients :
          \/ poll(c)
          \/ connect_to_socket(c) \/ write_all(c) \/ ClientStep(c) \/ HangsUp(c)

\* A player's main loop runs and polls, and its clock moves; a client goes on reading.
Spec ==
    /\ ControlInit /\ [][Next]_vars
    /\ WF_vars(Tick)
    /\ \A c \in Clients : SF_vars(poll(c)) /\ WF_vars(ClientStep(c))

-----------------------------------------------------------------------------
TypeOK ==
    /\ \A c \in Clients :
          /\ client[c].at \in {"idle", "connected", "sent", "unsent", "done", "gone"}
          /\ client[c].status \in {None, "no_daemon", "failed", "busy", "ok"}
          /\ conn[c].at \in {"none", "queued", "open", "closed"}
          /\ conn[c].unread \in {"", "part", "line"}
          /\ conn[c].age \in 0..CONTROL_IDLE_TIMEOUT_MS
          /\ conn[c].reply \in {None, "busy", "answer"}
    /\ Cardinality(opened) <= MAX_CONTROL_CONNECTIONS

\* A subcommand that reports success has been carried out, and one that reports there is
\* no player, or one too busy, has not.
SaysWhatHappened ==
    TypeOK /\ \A c \in Clients :
        /\ client[c].status = "ok" => conn[c].handled
        /\ client[c].status \in {"no_daemon", "busy"} => ~ conn[c].handled

\* A connection does not keep its slot: its player answers it, drops it after
\* CONTROL_IDLE_TIMEOUT_MS however it trickles, or ends.
SlotsAreFreed == \A c \in Clients : (conn[c].at = "open") ~> (conn[c].at # "open")

=============================================================================
