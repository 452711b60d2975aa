----------------------------- MODULE MCControl -----------------------------
(* The control channel in four scenes: players against one another, with    *)
(* nobody to talk to them; one player, which may be restarted, with          *)
(* subcommands; what is said on one connection; and where the socket goes.   *)
EXTENDS ControlSocket, ControlProtocol, ControlPlace

CONSTANT Served    \* the player of the second scene

VARIABLE scene

control_vars == <<vars, conversation, env, scene>>

Words == {<<"seek">>, <<"seek-rel">>, <<"mute">>, <<"repeat">>, <<"vol">>, <<"delay">>}
Values == {<<ToString(n)>> : n \in 0..(2 * INT32_MAX + 2)}
          \cup {<<"-", ToString(n)>> : n \in 0..(INT32_MAX + 2)}
          \cup {<<"+", "1">>, <<"+", ToString(INT32_MAX + 1)>>, <<"on">>, <<"one">>, <<"-">>}
CommandLines ==
    {<<w>> : w \in Words \cup {<<"play">>, <<"status">>}}
    \cup {<<w, v>> : w \in Words, v \in Values}
    \cup {<<(<<"status">>), <<"1">>>>, <<(<<"mute">>), <<"on">>, <<"on">>>>}

OtherPeers ==
    UNION {[1..n -> {"status", SPACE, NL, CR, NUL}] : n \in 1..3}
    \cup {<<SPACE, "play", SPACE, "1", NL>>, <<"seek", SPACE, SPACE, "1", SPACE, NL>>,
          <<"seek", SPACE, SPACE, "1", NL, "play">>, <<"vol", SPACE, "+", "1", NUL>>}

MCInit ==
    /\ ControlInit
    /\ scene \in {"players", "subcommands", "conversation", "place"}
    /\ ConversationInit
    /\ source_only => scene = "conversation"
    /\ IF scene = "place" THEN PlaceInit
       ELSE env = [xdg |-> NoDir, platform |-> NoDir, no_control |-> FALSE,
                   daemonize |-> FALSE, given |-> 0, cwd |-> 0]

MCNext ==
    /\ UNCHANGED scene
    /\ \/ scene = "players" /\ client' = client /\ Next /\ UNCHANGED <<conversation, env>>
       \/ scene = "subcommands" /\ Next /\ (\A p \in Players \ {Served} : at'[p] = "off")
          /\ UNCHANGED <<conversation, env>>
       \/ scene = "conversation" /\ ConversationNext /\ UNCHANGED <<vars, env>>
       \/ scene = "place" /\ PlaceNext /\ UNCHANGED <<vars, conversation>>

MCSpec ==
    /\ MCInit /\ [][MCNext]_control_vars
    /\ WF_vars(Tick)
    /\ \A c \in Clients : SF_vars(poll(c)) /\ WF_vars(ClientStep(c))
=============================================================================
