--------------------------- MODULE ControlPlace ---------------------------
(***************************************************************************)
(* Where a player puts its control socket and a subcommand looks for it:    *)
(* control_runtime_dir() and its neighbours in src/control_common.cpp, and  *)
(* their use by parse_options() in src/cli.cpp.  A path is the directory it *)
(* is in and its length; the port's digits are part of the length.          *)
(***************************************************************************)
EXTENDS Naturals

CONSTANTS
    control_socket_path_limit,  \* sizeof(sockaddr_un::sun_path)
    NAME_LENGTH                 \* of "/" and the socket's file name
ASSUME PlaceAssumption == {control_socket_path_limit, NAME_LENGTH} \subseteq Nat

VARIABLE env    \* a player's flags and the host it runs on: `given`, the length of
                \* --control-socket, or 0; `cwd`, what an absolute path adds to it

Modes == {"private", "writable", "another's", "not a directory", "missing"}
Lengths == {1, control_socket_path_limit - NAME_LENGTH - 1, control_socket_path_limit - NAME_LENGTH}
Dirs == [mode : Modes, length : Lengths]
NoDir == [mode |-> "none", length |-> 0]

Given == {0, 1, control_socket_path_limit - 1}

is_private_runtime_dir(dir) == dir.mode = "private"

\* confstr() where there is one, and only what is private of it; NoDir on other hosts.
control_platform_runtime_dir(e) ==
    IF is_private_runtime_dir(e.platform) THEN [dir |-> e.platform, rejected |-> FALSE]
    ELSE [dir |-> NoDir, rejected |-> e.platform # NoDir]

bug_xdg_not_looked_at(e) ==
    IF e.xdg # NoDir THEN [dir |-> e.xdg, warning |-> FALSE, rejected |-> FALSE]
    ELSE [dir |-> control_platform_runtime_dir(e).dir, warning |-> FALSE,
          rejected |-> control_platform_runtime_dir(e).rejected]

\* $XDG_RUNTIME_DIR is what the user asked for: used whatever it is, and said aloud.
control_runtime_dir(e) ==
    IF e.xdg # NoDir
    THEN [dir |-> e.xdg, warning |-> ~ is_private_runtime_dir(e.xdg), rejected |-> FALSE]
    ELSE [dir |-> control_platform_runtime_dir(e).dir, warning |-> FALSE,
          rejected |-> control_platform_runtime_dir(e).rejected]

control_socket_path(dir) == IF dir = NoDir THEN 0 ELSE dir.length + NAME_LENGTH

\* The terminating NUL has to fit too.
control_socket_path_fits(path) == path # 0 /\ path < control_socket_path_limit

control_socket_absent_reason(runtime, path) ==
    IF runtime.dir = NoDir THEN IF runtime.rejected THEN "rejected" ELSE "no directory"
    ELSE IF control_socket_path_fits(path) THEN "" ELSE "too long"

NoPath == [dir |-> NoDir, length |-> 0, reason |-> "", warned |-> FALSE, fails |-> FALSE]

absolute_path(e) == IF e.daemonize THEN e.given + e.cwd ELSE e.given

\* What parse_options() makes of it, for a player and for a subcommand, which reads
\* neither --no-control nor a warning.
resolve(e, subcommand) ==
    LET runtime == control_runtime_dir(e)
        path == control_socket_path(runtime.dir)
        reason == control_socket_absent_reason(runtime, path)
    IN IF e.no_control /\ e.given > 0 THEN [NoPath EXCEPT !.fails = TRUE]
       ELSE IF e.no_control /\ ~ subcommand THEN NoPath
       ELSE IF e.given > 0
       THEN [NoPath EXCEPT !.length = absolute_path(e),
                           !.fails = ~ control_socket_path_fits(absolute_path(e))]
       ELSE [NoPath EXCEPT !.dir = IF reason = "" THEN runtime.dir ELSE NoDir,
                           !.length = IF reason = "" THEN path ELSE 0,
                           !.reason = reason,
                           !.warned = runtime.warning /\ ~ subcommand]

\* One host, and any flags.
PlaceInit ==
    env \in [xdg : Dirs \cup {NoDir}, platform : Dirs \cup {NoDir}, no_control : {FALSE},
            daemonize : {FALSE}, given : {0}, cwd : {0, 1}]
PlaceNext ==
    \E n, d \in BOOLEAN, length \in Given :
        env' = [env EXCEPT !.no_control = n, !.daemonize = d, !.given = length]
PlaceSpec == PlaceInit /\ [][PlaceNext]_env

-----------------------------------------------------------------------------
\* A player that says nothing listens, in a directory nobody else can write to, on a
\* path bind() takes whole, and the subcommand started beside it without flags looks
\* there: else it was told to be somewhere, warned, refused, or given the reason.
PlacedOrToldWhy ==
    LET player == resolve(env, FALSE)
        client == resolve([env EXCEPT !.no_control = FALSE, !.daemonize = FALSE], TRUE)
    IN /\ ~ player.fails /\ player.length > 0 => player.length < control_socket_path_limit
       /\ ~ player.fails /\ ~ env.no_control /\ env.given = 0 =>
             /\ (player.length = 0) = (player.reason # "")
             /\ player.length > 0 => player.warned \/ is_private_runtime_dir(player.dir)
             /\ <<client.dir, client.length>> = <<player.dir, player.length>>
=============================================================================
