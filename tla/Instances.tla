----------------------------- MODULE Instances -----------------------------
(***************************************************************************)
(* Players starting, stopping and being killed on one -P pidfile and one    *)
(* control socket: src/daemon.cpp, ControlSocket::open() and close() of     *)
(* src/control_socket.cpp, in the order main() calls them (src/main.cpp).   *)
(*                                                                          *)
(* The file system and flock() are external.  A pidfile is a name for an    *)
(* inode, which outlives its name while somebody has it open; the control   *)
(* socket's lock file is never unlinked, so its lock is all there is of it. *)
(* A lock dies with the process.                                            *)
(***************************************************************************)
EXTENDS FiniteSets, Naturals

CONSTANTS Players, None

Inodes == 1..(Cardinality(Players) + 1)

ASSUME InstancesAssumption ==
    /\ IsFiniteSet(Players)
    /\ None \notin Players
    /\ None \notin Inodes

VARIABLES
    at,         \* where main() is
    pid_fd,     \* the pidfile inode each has open
    pid_name,   \* the inode the path names
    pid_lock,   \* who holds flock() on each inode
    content,    \* the pid written in each inode
    ctl_lock,   \* who holds the control socket's lock
    sock_file,  \* whose socket the path names
    listening,  \* who accepts connections on theirs
    refused     \* history: refused as "already running" with nobody else alive

files == <<pid_fd, pid_name, pid_lock, content>>
socket == <<ctl_lock, sock_file, listening>>
instance_vars == <<at, files, socket, refused>>

alive == {p \in Players : at[p] # "off"}

Init ==
    /\ at = [p \in Players |-> "off"]
    /\ pid_fd = [p \in Players |-> None] /\ pid_name = None
    /\ pid_lock = [i \in Inodes |-> None] /\ content = [i \in Inodes |-> None]
    /\ ctl_lock = None /\ sock_file = None
    /\ listening = {}
    /\ refused = FALSE

goes(p, from, to) == at[p] = from /\ at' = [at EXCEPT ![p] = to]

turned_away(p) == refused' = (refused \/ alive = {p})

-----------------------------------------------------------------------------
(* lock_file(): open(), then flock().  O_TRUNC is deliberately absent.      *)

fresh == CHOOSE i \in Inodes : i # pid_name /\ \A p \in Players : pid_fd[p] # i

opens(p) ==
    LET inode == IF pid_name = None THEN fresh ELSE pid_name IN
    /\ pid_name' = inode
    /\ pid_fd' = [pid_fd EXCEPT ![p] = inode]
    /\ content' = IF pid_name = None THEN [content EXCEPT ![inode] = None] ELSE content
    /\ UNCHANGED pid_lock

locks(p) == pid_lock' = [pid_lock EXCEPT ![pid_fd[p]] = p]
pid_lock_is_free(p) == pid_lock[pid_fd[p]] = None

closes(p) ==
    /\ pid_fd' = [pid_fd EXCEPT ![p] = None]
    /\ pid_lock' = [i \in Inodes |-> IF pid_lock[i] = p THEN None ELSE pid_lock[i]]

-----------------------------------------------------------------------------
(* Under -z the parent looks first, so that "already running" reaches the   *)
(* terminal.                                                                *)

Start(p) ==
    \/ goes(p, "off", "forked") /\ UNCHANGED <<files, socket, refused>>
    \/ goes(p, "off", "probing") /\ opens(p) /\ UNCHANGED <<socket, refused>>

ProbePidfile(p) ==
    /\ UNCHANGED <<pid_name, content, socket>>
    /\ \/ /\ goes(p, "probing", "looked") /\ pid_lock_is_free(p)
          /\ locks(p)
          /\ UNCHANGED <<pid_fd, refused>>
       \/ /\ goes(p, "probing", "off") /\ ~ pid_lock_is_free(p)
          /\ closes(p) /\ turned_away(p)

\* This was a look: the child owns the real lock.
ProbeReleases(p) ==
    /\ goes(p, "looked", "probed")
    /\ closes(p)
    /\ UNCHANGED <<pid_name, content, socket, refused>>

\* Of the socket only the lock is probed, and only a held one stops the run.
probe_control_socket(p) ==
    /\ UNCHANGED <<files, sock_file, listening>>
    /\ \/ goes(p, "probed", "looking") /\ ctl_lock = None /\ ctl_lock' = p /\ UNCHANGED refused
       \/ goes(p, "probed", "off") /\ ctl_lock # None /\ turned_away(p) /\ UNCHANGED ctl_lock
       \/ goes(p, "probed", "forked") /\ UNCHANGED <<ctl_lock, refused>>    \* left to the child

\* The look ends, and daemonize() forks: from here p is the child.
daemonize(p) ==
    /\ goes(p, "looking", "forked")
    /\ ctl_lock' = None
    /\ UNCHANGED <<files, sock_file, listening, refused>>

-----------------------------------------------------------------------------
(* PidFile.                                                                 *)

OpensPidfile(p) ==
    /\ goes(p, "forked", "acquiring")
    /\ opens(p)
    /\ UNCHANGED <<socket, refused>>

\* The old content is dropped and the pid written with the lock held.  A write that
\* fails closes the file: this process never owned it.
acquire(p) ==
    /\ UNCHANGED <<pid_name, socket>>
    /\ \/ /\ goes(p, "acquiring", "acquired") /\ pid_lock_is_free(p)
          /\ locks(p)
          /\ content' = [content EXCEPT ![pid_fd[p]] = p]
          /\ UNCHANGED <<pid_fd, refused>>
       \/ /\ goes(p, "acquiring", "off") /\ pid_lock_is_free(p)
          /\ content' = [content EXCEPT ![pid_fd[p]] = None]
          /\ closes(p)
          /\ UNCHANGED refused
       \/ /\ goes(p, "acquiring", "off") /\ ~ pid_lock_is_free(p)
          /\ closes(p) /\ turned_away(p)
          /\ UNCHANGED content

\* ~PidFile: the name goes, whatever it names by now, and then the lock.
UnlinksPidfile(p) ==
    /\ goes(p, "leaving", "unlinked")
    /\ pid_name' = None
    /\ UNCHANGED <<pid_fd, pid_lock, content, socket, refused>>

ClosesPidfile(p) ==
    /\ goes(p, "unlinked", "off")
    /\ closes(p)
    /\ UNCHANGED <<pid_name, content, socket, refused>>

-----------------------------------------------------------------------------
(* ControlSocket.                                                           *)

\* A lock that is held stops the run; a socket that cannot be had does not.
LocksSocket(p) ==
    /\ UNCHANGED <<files, sock_file, listening>>
    /\ \/ goes(p, "acquired", "locked") /\ ctl_lock = None /\ ctl_lock' = p /\ UNCHANGED refused
       \/ goes(p, "acquired", "leaving") /\ ctl_lock # None /\ turned_away(p)
          /\ UNCHANGED ctl_lock
       \/ goes(p, "acquired", "running") /\ UNCHANGED <<ctl_lock, refused>>

bug_listens_without_the_lock(p) ==
    /\ UNCHANGED <<files, refused, listening>>
    /\ goes(p, "locked", "bound") /\ sock_file' = p /\ ctl_lock' = None

\* The stale file is unlinked under the lock: "this can only ever remove a socket no
\* live daemon owns".
BindsSocket(p) ==
    /\ UNCHANGED <<files, refused, listening>>
    /\ \/ goes(p, "locked", "bound") /\ sock_file' = p /\ UNCHANGED ctl_lock
       \/ /\ goes(p, "locked", "running")     \* no socket(), unlink() or bind()
          /\ sock_file' \in {sock_file, None} /\ ctl_lock' = None

ListensOnSocket(p) ==
    /\ UNCHANGED <<files, refused>>
    /\ \/ /\ goes(p, "bound", "running")
          /\ listening' = listening \cup {p}
          /\ UNCHANGED <<ctl_lock, sock_file>>
       \/ /\ goes(p, "bound", "running")      \* no listen(), or not a non-blocking one
          /\ sock_file' = None /\ ctl_lock' = None
          /\ UNCHANGED listening

\* close(): the connections and the listener, then the name, and the lock last.
StopsListening(p) ==
    /\ goes(p, "running", IF p \in listening THEN "closing" ELSE "leaving")
    /\ listening' = listening \ {p}
    /\ UNCHANGED <<files, ctl_lock, sock_file, refused>>

UnlinksSocket(p) ==
    /\ goes(p, "closing", "closed")
    /\ sock_file' = None
    /\ UNCHANGED <<files, ctl_lock, listening, refused>>

ReleasesSocket(p) ==
    /\ goes(p, "closed", "leaving")
    /\ ctl_lock' = None
    /\ UNCHANGED <<files, sock_file, listening, refused>>

\* SIGKILL, or a crash: every descriptor is closed and every file left behind.
Crash(p) ==
    /\ at[p] # "off"
    /\ at' = [at EXCEPT ![p] = "off"]
    /\ closes(p)
    /\ ctl_lock' = IF ctl_lock = p THEN None ELSE ctl_lock
    /\ listening' = listening \ {p}
    /\ UNCHANGED <<pid_name, content, sock_file, refused>>

\* What main() goes on to of itself.
Advance(p) ==
    \/ ProbePidfile(p) \/ ProbeReleases(p) \/ probe_control_socket(p) \/ daemonize(p)
    \/ OpensPidfile(p) \/ acquire(p) \/ UnlinksPidfile(p) \/ ClosesPidfile(p)
    \/ LocksSocket(p) \/ BindsSocket(p) \/ ListensOnSocket(p)
    \/ UnlinksSocket(p) \/ ReleasesSocket(p)

-----------------------------------------------------------------------------
Places == {"off", "probing", "looked", "probed", "looking", "forked", "acquiring", "acquired",
           "locked", "bound", "running", "closing", "closed", "leaving", "unlinked"}

\* The files, the locks and their holders.
InstancesTypeOK ==
    /\ at \in [Players -> Places]
    /\ pid_fd \in [Players -> Inodes \cup {None}] /\ pid_name \in Inodes \cup {None}
    /\ {pid_lock[i] : i \in Inodes} \cup {content[i] : i \in Inodes} \subseteq Players \cup {None}
    /\ {ctl_lock, sock_file} \subseteq Players \cup {None}
    /\ listening \subseteq alive

\* The path of the control socket leads to the player that is listening on it: no other,
\* starting, failing to start, or ending, has unlinked it or bound another over it.
SocketIsItsListeners == \A p \in listening : sock_file = p

\* While a pidfile has its name it tells the pid of the player that holds it, although
\* others open it to find out whether it is held.
PidfileNamesItsHolder ==
    pid_name # None =>
        LET p == pid_lock[pid_name] IN
        p # None /\ at[p] \in {"acquired", "locked", "bound", "running", "closing", "closed",
                               "leaving"}
            => content[pid_name] = p

\* "A process that crashed has its descriptors closed by the kernel": no file left behind,
\* and no look of its own at the lock, makes a player refuse to start as the second one.
NobodyIsRefusedAlone == ~ refused

\* Players may start, fail to start, end and crash in any order on the same files: the
\* socket stays its listener's, the pidfile tells of its holder for as long as it has a
\* name (another's exit may take the name away, and two may then run on one pidfile), and
\* none is kept out by what is left of another.
PlayersKeepTheirPlaces ==
    InstancesTypeOK /\ SocketIsItsListeners /\ PidfileNamesItsHolder /\ NobodyIsRefusedAlone
=============================================================================
