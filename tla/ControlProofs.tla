---------------------------- MODULE ControlProofs ----------------------------
(***************************************************************************)
(* The control channel, for any number of players and of clients, any      *)
(* number of slots and any limits.  In this order: players that start,     *)
(* fail to start, end and crash on one pidfile and one control socket;     *)
(* what a subcommand reports of what its player did; what a player         *)
(* answers, whatever it is sent; that it is sent what was typed; and where *)
(* the socket is put.                                                      *)
(***************************************************************************)
EXTENDS ControlSocket, ControlProtocol, ControlPlace, FirstOrderInduction, FiniteSetTheorems,
        SequenceTheorems, TLAPS

-----------------------------------------------------------------------------
(* Players against one another: the inductive invariant.                    *)

\* Where a player is that owns the pidfile's lock, and where its look at it is over.
Owning == {"acquired", "locked", "bound", "running", "closing", "closed", "leaving", "unlinked"}
Holding == Owning \cup {"looked"}
Opened == Holding \cup {"probing", "acquiring"}

\* Where a player is that has the control socket's lock, listening or not.
Locking == {"looking", "locked", "bound", "closing", "closed"}

PlayerTypes ==
    /\ at \in [Players -> Places]
    /\ pid_fd \in [Players -> Inodes \cup {None}] /\ pid_name \in Inodes \cup {None}
    /\ pid_lock \in [Inodes -> Players \cup {None}]
    /\ content \in [Inodes -> Players \cup {None}]
    /\ ctl_lock \in Players \cup {None} /\ sock_file \in Players \cup {None}
    /\ listening \in SUBSET Players

\* A pidfile's lock is held by who has it open and has been granted it, and what it says
\* is its owner's.
PidInv ==
    /\ \A p \in Players : at[p] \in Opened => pid_fd[p] \in Inodes
    /\ \A p \in Players : at[p] \in Holding => pid_lock[pid_fd[p]] = p
    /\ \A i \in Inodes : pid_lock[i] # None =>
          at[pid_lock[i]] \in Holding /\ pid_fd[pid_lock[i]] = i
    /\ \A p \in Players : at[p] \in Owning => content[pid_fd[p]] = p

\* The control socket's lock is held for as long as the path may be touched.
CtlInv ==
    /\ \A p \in Players : at[p] \in Locking => ctl_lock = p
    /\ \A p \in listening : at[p] = "running" /\ ctl_lock = p /\ sock_file = p
    /\ ctl_lock # None => at[ctl_lock] \in Locking \/ ctl_lock \in listening
    /\ \A p \in Players : at[p] = "bound" => sock_file = p

PlayersInv == PlayerTypes /\ PidInv /\ CtlInv /\ NobodyIsRefusedAlone

-----------------------------------------------------------------------------
\* There is one inode more than there are players to have one open.
LEMMA FreshIsFree ==
    ASSUME PlayerTypes, pid_name = None
    PROVE  fresh \in Inodes /\ \A p \in Players : pid_fd[p] # fresh
<1>. DEFINE free(i) == i # pid_name /\ \A p \in Players : pid_fd[p] # i
<1>1. \E i \in Inodes : free(i)
  <2>. SUFFICES ASSUME \A i \in Inodes : \E p \in Players : pid_fd[p] = i
                PROVE  FALSE
    BY InstancesAssumption
  <2>. DEFINE holder == [i \in Inodes |-> CHOOSE p \in Players : pid_fd[p] = i]
  <2>1. /\ holder \in [Inodes -> Players]
        /\ \A i \in Inodes : pid_fd[holder[i]] = i
    OBVIOUS
  <2>2. Cardinality(Players) \in Nat
    BY InstancesAssumption, FS_CardinalityType
  <2>3. IsFiniteSet(Inodes) /\ Cardinality(Players) < Cardinality(Inodes)
    BY <2>2, FS_Interval DEF Inodes
  <2>4. \E i, j \in Inodes : i # j /\ holder[i] = holder[j]
    <3>. HIDE DEF holder
    <3>. QED
      BY <2>1, <2>3, InstancesAssumption, FS_PigeonHole
  <2>. QED
    BY <2>1, <2>4
<1>. QED
  BY <1>1 DEF fresh

\* What opening the pidfile leaves as it was: everything but p's descriptor and, of a new
\* file, what it says.
LEMMA Opens ==
    ASSUME PlayerTypes, NEW p \in Players, opens(p)
    PROVE  /\ pid_fd'[p] \in Inodes
           /\ pid_fd' = [pid_fd EXCEPT ![p] = pid_fd'[p]]
           /\ pid_name' \in Inodes
           /\ content' \in [Inodes -> Players \cup {None}]
           /\ pid_lock' = pid_lock
           /\ \A q \in Players : pid_fd[q] \in Inodes => content'[pid_fd[q]] = content[pid_fd[q]]
<1>1. CASE pid_name = None
  BY <1>1, FreshIsFree DEF opens, PlayerTypes
<1>2. CASE pid_name # None
  BY <1>2 DEF opens, PlayerTypes
<1>. QED
  BY <1>1, <1>2

\* With nobody started, every place is free.
LEMMA InitPlayersInv == ControlInit => PlayersInv
  BY InstancesAssumption
     DEF ControlInit, Init, PlayersInv, PlayerTypes, PidInv, CtlInv, NobodyIsRefusedAlone,
         Places, Owning, Holding, Opened, Locking

\* Opening the pidfile disturbs nobody.
LEMMA StartKeeps ==
    ASSUME PlayersInv, NEW p \in Players, Start(p)
    PROVE  PlayersInv'
<1>. USE InstancesAssumption
     DEF PlayersInv, PlayerTypes, PidInv, CtlInv, NobodyIsRefusedAlone, Places, Owning, Holding,
         Opened, Locking, goes, files, socket
<1>1. CASE goes(p, "off", "forked") /\ UNCHANGED <<files, socket, refused>>
  BY <1>1
<1>2. CASE goes(p, "off", "probing") /\ opens(p) /\ UNCHANGED <<socket, refused>>
  BY <1>2, Opens
<1>. QED
  BY <1>1, <1>2 DEF Start

\* Opening the pidfile to take it disturbs nobody either.
LEMMA OpensPidfileKeeps ==
    ASSUME PlayersInv, NEW p \in Players, OpensPidfile(p)
    PROVE  PlayersInv'
  BY Opens, InstancesAssumption DEF OpensPidfile, PlayersInv, PlayerTypes, PidInv, CtlInv,
     NobodyIsRefusedAlone, Places, Owning, Holding, Opened, Locking, goes, files, socket

\* Whoever is turned away is not alone: a lock has a holder, who is alive.
LEMMA NotAlone ==
    ASSUME NEW p \in Players, NEW q \in Players, q # p, at[q] # "off",
           NobodyIsRefusedAlone, turned_away(p)
    PROVE  NobodyIsRefusedAlone'
<1>1. q \in alive /\ q \notin {p}
  BY DEF alive
<1>. QED
  BY <1>1, Zenon DEF turned_away, NobodyIsRefusedAlone

\* Who is turned away from the pidfile is turned away by a player that holds it.
LEMMA PidfileIsHeld ==
    ASSUME PlayersInv, NEW p \in Players, at[p] \in {"probing", "acquiring"}, ~ pid_lock_is_free(p),
           turned_away(p)
    PROVE  NobodyIsRefusedAlone'
<1>. DEFINE q == pid_lock[pid_fd[p]]
<1>1. q \in Players /\ q # p /\ at[q] # "off"
  BY DEF PlayersInv, PlayerTypes, PidInv, pid_lock_is_free, Owning, Holding, Opened
<1>. QED
  BY <1>1, NotAlone DEF PlayersInv

\* Who is turned away from the control socket is turned away by one that holds its lock.
LEMMA SocketIsHeld ==
    ASSUME PlayersInv, NEW p \in Players, at[p] \in {"probed", "acquired"}, ctl_lock # None,
           turned_away(p)
    PROVE  NobodyIsRefusedAlone'
<1>1. ctl_lock \in Players /\ ctl_lock # p /\ at[ctl_lock] # "off"
  BY DEF PlayersInv, PlayerTypes, CtlInv, Locking
<1>. QED
  BY <1>1, NotAlone DEF PlayersInv

\* A probe takes the pidfile's lock only when nobody has it.
LEMMA ProbePidfileKeeps ==
    ASSUME PlayersInv, NEW p \in Players, ProbePidfile(p)
    PROVE  PlayersInv'
<1>. USE InstancesAssumption
     DEF PlayerTypes, PidInv, CtlInv, Places, Owning, Holding, Opened, Locking, goes, files, socket, closes
<1>1. CASE goes(p, "probing", "looked") /\ pid_lock_is_free(p) /\ locks(p)
           /\ UNCHANGED <<pid_fd, refused>>
  BY <1>1 DEF ProbePidfile, PlayersInv, NobodyIsRefusedAlone, locks, pid_lock_is_free
<1>2. CASE goes(p, "probing", "off") /\ ~ pid_lock_is_free(p) /\ closes(p) /\ turned_away(p)
  <2>1. NobodyIsRefusedAlone'
    BY <1>2, PidfileIsHeld
  <2>. QED
    BY <1>2, <2>1 DEF ProbePidfile, PlayersInv
<1>. QED
  BY <1>1, <1>2 DEF ProbePidfile

\* Acquiring the pidfile writes the pid of whoever was granted its lock.
LEMMA AcquireKeeps ==
    ASSUME PlayersInv, NEW p \in Players, acquire(p)
    PROVE  PlayersInv'
<1>. USE InstancesAssumption
     DEF PlayerTypes, PidInv, CtlInv, Places, Owning, Holding, Opened, Locking, goes, files, socket, closes
<1>1. CASE /\ goes(p, "acquiring", "acquired") /\ pid_lock_is_free(p) /\ locks(p)
           /\ content' = [content EXCEPT ![pid_fd[p]] = p]
           /\ UNCHANGED <<pid_fd, refused>>
  BY <1>1 DEF acquire, PlayersInv, NobodyIsRefusedAlone, locks, pid_lock_is_free
<1>2. CASE /\ goes(p, "acquiring", "off") /\ pid_lock_is_free(p)
           /\ content' = [content EXCEPT ![pid_fd[p]] = None]
           /\ closes(p)
           /\ UNCHANGED refused
  BY <1>2 DEF acquire, PlayersInv, NobodyIsRefusedAlone, pid_lock_is_free
<1>3. CASE /\ goes(p, "acquiring", "off") /\ ~ pid_lock_is_free(p)
           /\ closes(p) /\ turned_away(p)
           /\ UNCHANGED content
  <2>1. NobodyIsRefusedAlone'
    BY <1>3, PidfileIsHeld
  <2>. QED
    BY <1>3, <2>1 DEF acquire, PlayersInv
<1>. QED
  BY <1>1, <1>2, <1>3 DEF acquire

\* A look at the control socket takes its lock, or is turned away by the lock's holder.
LEMMA ProbeControlSocketKeeps ==
    ASSUME PlayersInv, NEW p \in Players, probe_control_socket(p)
    PROVE  PlayersInv'
<1>. USE InstancesAssumption
     DEF PlayerTypes, PidInv, CtlInv, Places, Owning, Holding, Opened, Locking, goes, files, socket
<1>1. CASE goes(p, "probed", "off") /\ ctl_lock # None /\ turned_away(p) /\ UNCHANGED ctl_lock
  <2>1. NobodyIsRefusedAlone'
    BY <1>1, SocketIsHeld
  <2>. QED
    BY <1>1, <2>1 DEF probe_control_socket, PlayersInv
<1>2. CASE UNCHANGED refused
  BY <1>2 DEF probe_control_socket, PlayersInv, NobodyIsRefusedAlone
<1>. QED
  BY <1>1, <1>2 DEF probe_control_socket

\* Opening the control socket starts with its lock, whatever is left at its path.
LEMMA LocksSocketKeeps ==
    ASSUME PlayersInv, NEW p \in Players, LocksSocket(p)
    PROVE  PlayersInv'
<1>. USE InstancesAssumption
     DEF PlayerTypes, PidInv, CtlInv, Places, Owning, Holding, Opened, Locking, goes, files, socket
<1>1. CASE goes(p, "acquired", "leaving") /\ ctl_lock # None /\ turned_away(p)
           /\ UNCHANGED ctl_lock
  <2>1. NobodyIsRefusedAlone'
    BY <1>1, SocketIsHeld
  <2>. QED
    BY <1>1, <2>1 DEF LocksSocket, PlayersInv
<1>2. CASE UNCHANGED refused
  BY <1>2 DEF LocksSocket, PlayersInv, NobodyIsRefusedAlone
<1>. QED
  BY <1>1, <1>2 DEF LocksSocket

\* Everything else a player does on its way through main(), and a crash anywhere on it.
LEMMA OthersKeep ==
    ASSUME PlayersInv, NEW p \in Players,
           \/ ProbeReleases(p) \/ daemonize(p) \/ UnlinksPidfile(p) \/ ClosesPidfile(p)
           \/ BindsSocket(p) \/ ListensOnSocket(p) \/ StopsListening(p)
           \/ UnlinksSocket(p) \/ ReleasesSocket(p) \/ Crash(p)
    PROVE  PlayersInv'
<1>. USE InstancesAssumption
     DEF PlayersInv, PlayerTypes, PidInv, CtlInv, NobodyIsRefusedAlone, Places, Owning, Holding, Opened, Locking,
         goes, files, socket, closes
<1>1. CASE ProbeReleases(p)
  BY <1>1 DEF ProbeReleases
<1>2. CASE daemonize(p)
  BY <1>2 DEF daemonize
<1>3. CASE UnlinksPidfile(p)
  BY <1>3 DEF UnlinksPidfile
<1>4. CASE ClosesPidfile(p)
  BY <1>4 DEF ClosesPidfile
<1>5. CASE BindsSocket(p)
  BY <1>5 DEF BindsSocket
<1>6. CASE ListensOnSocket(p)
  BY <1>6 DEF ListensOnSocket
<1>7. CASE StopsListening(p)
  BY <1>7 DEF StopsListening
<1>8. CASE UnlinksSocket(p)
  BY <1>8 DEF UnlinksSocket
<1>9. CASE ReleasesSocket(p)
  BY <1>9 DEF ReleasesSocket
<1>10. CASE Crash(p)
  BY <1>10 DEF Crash
<1>. QED
  BY <1>1, <1>2, <1>3, <1>4, <1>5, <1>6, <1>7, <1>8, <1>9, <1>10

\* Every step keeps the inductive invariant.
LEMMA NextPlayersInv == PlayersInv /\ [Next]_vars => PlayersInv'
<1>. SUFFICES ASSUME PlayersInv, [Next]_vars
              PROVE  PlayersInv'
  OBVIOUS
<1>1. CASE Lifetime
  <2>. PICK p \in Players : Start(p) \/ Advance(p) \/ StopsListening(p) \/ Crash(p)
    BY <1>1 DEF Lifetime
  <2>. QED
    BY StartKeeps, ProbePidfileKeeps, ProbeControlSocketKeeps, OpensPidfileKeeps, AcquireKeeps,
       LocksSocketKeeps, OthersKeep DEF Advance
<1>2. CASE UNCHANGED instance_vars
  BY <1>2 DEF instance_vars, files, socket, PlayersInv, PlayerTypes, PidInv, CtlInv, NobodyIsRefusedAlone
<1>3. CASE Tick \/ (\E c \in Clients : poll(c) \/ connect_to_socket(c) \/ write_all(c)
                                        \/ ClientStep(c) \/ HangsUp(c))
  BY <1>2, <1>3
     DEF Tick, poll, connect_to_socket, write_all, ClientStep, write_fails, read_reply, HangsUp
<1>. QED
  BY <1>1, <1>2, <1>3 DEF Next, vars

\* The inductive invariant says what is wanted.
LEMMA PlayersAreSafe == PlayersInv => PlayersKeepTheirPlaces
  BY InstancesAssumption
     DEF PlayersInv, PlayerTypes, PidInv, CtlInv, Owning, Holding, Opened, Locking, PlayersKeepTheirPlaces,
         InstancesTypeOK, SocketIsItsListeners, PidfileNamesItsHolder, alive

\* Players that start, fail to start, end and crash in any order: the socket's path leads
\* to the one that listens, the pidfile tells its holder's pid for as long as it has its
\* name, and nobody is refused as "already running" but for another that is (src/daemon.cpp, src/control_socket.cpp).
THEOREM PlacesKept == Spec => []PlayersKeepTheirPlaces
<1>1. Spec => []PlayersInv
  BY InitPlayersInv, NextPlayersInv, PTL DEF Spec
<1>. QED
  BY <1>1, PlayersAreSafe, PTL

-----------------------------------------------------------------------------
(* Players and their clients: the inductive invariant.                      *)

Client == [at : {"idle", "connected", "sent", "unsent", "done", "gone"},
           status : {None, "no_daemon", "failed", "busy", "ok"}]

Conn == [at : {"none", "queued", "open", "closed"}, player : Players \cup {None},
         unread : {"", "part", "line"}, begun : BOOLEAN, age : 0..CONTROL_IDLE_TIMEOUT_MS,
         reply : {None, "busy", "answer"}, reset : BOOLEAN, handled : BOOLEAN]

\* The player replies as it closes, once, and an answer is of what it has handled.
ReplyInv(k) ==
    /\ k.at # "closed" => k.reply = None
    /\ k.handled = (k.reply = "answer")

\* A status is the reply the client has read, or tells that there was no connection.
StatusInv(u, k) ==
    /\ u.at = "idle" => k.at = "none"
    /\ u.status = "no_daemon" => k.at = "none"
    /\ u.status = "busy" => k.at = "closed" /\ k.reply = "busy"
    /\ u.status = "ok" => k.at = "closed" /\ k.reply = "answer"

ConnInv(u, k) == u \in Client /\ k \in Conn /\ ReplyInv(k) /\ StatusInv(u, k)

ClientsInv ==
    /\ client \in [Clients -> Client]
    /\ conn \in [Clients -> Conn]
    /\ \A c \in Clients : ConnInv(client[c], conn[c])
    /\ Cardinality(opened) <= MAX_CONTROL_CONNECTIONS
    /\ listening \subseteq Players /\ sock_file \in Players \cup {None}

-----------------------------------------------------------------------------
\* Closing says nothing of what was replied or handled.
LEMMA Closes ==
    ASSUME NEW u, NEW k, ConnInv(u, k), k.at \in {"queued", "open"}
    PROVE  ConnInv(u, closed(k))
  BY ControlAssumption DEF ConnInv, Conn, Client, closed, ReplyInv, StatusInv

\* Slots are a finite set, and no more of them are taken when nobody is let in.
LEMMA Slots ==
    ASSUME ClientsInv
    PROVE  /\ IsFiniteSet(opened)
           /\ opened' \subseteq opened => Cardinality(opened') <= MAX_CONTROL_CONNECTIONS
<1>1. opened \subseteq Clients
  BY DEF opened
<1>2. IsFiniteSet(opened) /\ Cardinality(opened) \in Nat
  BY <1>1, ControlAssumption, FS_Subset, FS_CardinalityType
<1>3. ASSUME opened' \subseteq opened
      PROVE  Cardinality(opened') <= MAX_CONTROL_CONNECTIONS
  <2>1. Cardinality(opened') \in Nat /\ Cardinality(opened') <= Cardinality(opened)
    BY <1>2, <1>3, FS_Subset, FS_CardinalityType
  <2> QED BY <2>1, <1>2, ControlAssumption DEF ClientsInv
<1> QED BY <1>2, <1>3

\* A step about one client keeps the invariant if it keeps that client's part of it, and
\* lets it in only where there is room.
LEMMA OneClient ==
    ASSUME ClientsInv, NEW c \in Clients, NEW u, NEW k,
           client' = [client EXCEPT ![c] = u], conn' = [conn EXCEPT ![c] = k],
           ConnInv(u, k),
           k.at = "open" => conn[c].at = "open" \/ Cardinality(opened) < MAX_CONTROL_CONNECTIONS,
           UNCHANGED instance_vars
    PROVE  ClientsInv'
<1>1. client' \in [Clients -> Client] /\ conn' \in [Clients -> Conn]
  BY DEF ClientsInv, ConnInv
<1>2. \A d \in Clients : ConnInv(client'[d], conn'[d])
  BY DEF ClientsInv
<1>3. Cardinality(opened') <= MAX_CONTROL_CONNECTIONS
  <2>1. CASE k.at = "open" /\ conn[c].at # "open"
    <3>1. opened' = opened \cup {c} /\ c \notin opened
      BY <2>1 DEF opened, ClientsInv
    <3>2. Cardinality(opened') = Cardinality(opened) + 1
      BY <3>1, Slots, FS_AddElement
    <3>3. Cardinality(opened) \in Nat /\ Cardinality(opened) < MAX_CONTROL_CONNECTIONS
      BY <2>1, Slots, FS_CardinalityType
    <3> QED BY <3>2, <3>3, ControlAssumption
  <2>2. CASE ~ (k.at = "open" /\ conn[c].at # "open")
    <3>1. opened' \subseteq opened
      BY <2>2 DEF opened, ClientsInv
    <3> QED BY <3>1, Slots
  <2> QED BY <2>1, <2>2
<1>4. listening' \subseteq Players /\ sock_file' \in Players \cup {None}
  BY DEF ClientsInv, instance_vars, socket
<1> QED BY <1>1, <1>2, <1>3, <1>4 DEF ClientsInv

-----------------------------------------------------------------------------
\* Nobody has connected to a player that has not been started.
LEMMA InitClientsInv == ControlInit => ClientsInv
<1> SUFFICES ASSUME ControlInit PROVE ClientsInv
  OBVIOUS
<1>1. [at |-> "idle", status |-> None] \in Client
  BY DEF Client
<1>2. unconnected \in Conn
  BY ControlAssumption DEF unconnected, Conn
<1>3. \A c \in Clients : ConnInv(client[c], conn[c])
  BY <1>1, <1>2, ControlAssumption DEF ControlInit, ConnInv, ReplyInv, StatusInv, unconnected
<1>4. opened = {}
  BY DEF ControlInit, opened, unconnected
<1>5. Cardinality(opened) <= MAX_CONTROL_CONNECTIONS
  BY <1>4, FS_EmptySet, ControlAssumption
<1> QED BY <1>1, <1>2, <1>3, <1>5 DEF ControlInit, Init, ClientsInv

\* Each branch of poll() keeps its connection's bookkeeping, and only the first takes a slot.
LEMMA PollKeeps ==
    ASSUME ClientsInv, NEW c \in Clients, poll(c)
    PROVE  ClientsInv'
<1> DEFINE k == conn[c]
<1>0. /\ ConnInv(client[c], k) /\ client \in [Clients -> Client]
      /\ client' = [client EXCEPT ![c] = client[c]] /\ UNCHANGED instance_vars
  BY DEF ClientsInv, poll
<1>1. CASE poll_accepts(c)
  <2> DEFINE to == [k EXCEPT !.at = "open"]
  <2>1. ConnInv(client[c], to)
    BY <1>0, <1>1 DEF poll_accepts, ConnInv, Conn, Client, ReplyInv, StatusInv
  <2>2. conn' = [conn EXCEPT ![c] = to] /\ Cardinality(opened) < MAX_CONTROL_CONNECTIONS
    BY <1>1 DEF poll_accepts, with_conn
  <2> HIDE DEF to
  <2> QED BY <1>0, <2>1, <2>2, OneClient
<1>2. CASE poll_refuses(c)
  <2> DEFINE to == closed([k EXCEPT !.reply = "busy"])
  <2>1. ConnInv(client[c], to) /\ to.at # "open"
    BY <1>0, <1>2, ControlAssumption
       DEF poll_refuses, closed, ConnInv, Conn, Client, ReplyInv, StatusInv
  <2>2. conn' = [conn EXCEPT ![c] = to]
    BY <1>2 DEF poll_refuses, with_conn
  <2> HIDE DEF to
  <2> QED BY <1>0, <2>1, <2>2, OneClient
<1>3. CASE poll_assembles(c)
  <2> DEFINE to == [k EXCEPT !.unread = "", !.begun = TRUE]
  <2>1. ConnInv(client[c], to)
    BY <1>0, <1>3 DEF poll_assembles, ConnInv, Conn, Client, ReplyInv, StatusInv
  <2>2. conn' = [conn EXCEPT ![c] = to] /\ k.at = "open"
    BY <1>3 DEF poll_assembles, with_conn
  <2> HIDE DEF to
  <2> QED BY <1>0, <2>1, <2>2, OneClient
<1>4. CASE poll_answers(c)
  <2> DEFINE to == closed([k EXCEPT !.unread = "", !.reply = "answer", !.handled = TRUE])
  <2>1. ConnInv(client[c], to) /\ to.at # "open"
    BY <1>0, <1>4, ControlAssumption
       DEF poll_answers, closed, ConnInv, Conn, Client, ReplyInv, StatusInv
  <2>2. conn' = [conn EXCEPT ![c] = to]
    BY <1>4 DEF poll_answers, with_conn
  <2> HIDE DEF to
  <2> QED BY <1>0, <2>1, <2>2, OneClient
<1>5. CASE poll_drops(c)
  <2> DEFINE to == closed([k EXCEPT !.unread = ""])
  <2>1. ConnInv(client[c], to) /\ to.at # "open"
    BY <1>0, <1>5, ControlAssumption
       DEF poll_drops, closed, ConnInv, Conn, Client, ReplyInv, StatusInv
  <2>2. conn' = [conn EXCEPT ![c] = to]
    BY <1>5 DEF poll_drops, with_conn
  <2> HIDE DEF to
  <2> QED BY <1>0, <2>1, <2>2, OneClient
<1> QED BY <1>1, <1>2, <1>3, <1>4, <1>5 DEF poll

\* A client knows of its connection what the kernel has told it.
LEMMA ClientKeeps ==
    ASSUME ClientsInv, NEW c \in Clients,
           connect_to_socket(c) \/ write_all(c) \/ ClientStep(c) \/ HangsUp(c)
    PROVE  ClientsInv'
<1> DEFINE k == conn[c]
<1>0. /\ ConnInv(client[c], k) /\ UNCHANGED instance_vars
      /\ client \in [Clients -> Client] /\ conn \in [Clients -> Conn]
      /\ client = [client EXCEPT ![c] = client[c]] /\ conn = [conn EXCEPT ![c] = conn[c]]
  BY DEF ClientsInv, connect_to_socket, write_all, ClientStep, write_fails, read_reply, HangsUp
<1>1. CASE connect_to_socket(c)
  <2>1. CASE sock_file \in listening
    <3> DEFINE to == [unconnected EXCEPT !.at = "queued", !.player = sock_file]
               u == [at |-> "connected", status |-> None]
    <3>1. sock_file \in Players
      BY <2>1 DEF ClientsInv
    <3>2. ConnInv(u, to) /\ to.at # "open"
      <4>1. u \in Client /\ u.at = "connected" /\ u.status = None
        BY DEF Client
      <4>2. to \in Conn
        <5>1. unconnected \in Conn
          BY ControlAssumption DEF unconnected, Conn
        <5> QED BY <5>1, <3>1 DEF Conn
      <4>3. to.at = "queued" /\ to.reply = None /\ to.handled = FALSE
        BY DEF unconnected
      <4> HIDE DEF u, to
      <4> QED BY <4>1, <4>2, <4>3, ControlAssumption DEF ConnInv, ReplyInv, StatusInv
    <3>3. conn' = [conn EXCEPT ![c] = to] /\ client' = [client EXCEPT ![c] = u]
      BY <1>1, <2>1 DEF connect_to_socket, with_conn, with_client
    <3> HIDE DEF to, u
    <3> QED BY <1>0, <3>2, <3>3, OneClient
  <2>2. CASE sock_file \notin listening
    <3> DEFINE u == [at |-> "done", status |-> "no_daemon"]
    <3>1. ConnInv(u, k) /\ k.at # "open"
      BY <1>0, <1>1, ControlAssumption
         DEF connect_to_socket, ConnInv, Conn, Client, ReplyInv, StatusInv
    <3>2. conn' = [conn EXCEPT ![c] = k] /\ client' = [client EXCEPT ![c] = u]
      BY <1>0, <1>1, <2>2 DEF connect_to_socket, returns, with_client
    <3> HIDE DEF u
    <3> QED BY <1>0, <3>1, <3>2, OneClient
  <2> QED BY <2>1, <2>2
<1>2. CASE write_all(c)
  <2>0. client[c].at = "connected" /\ k.at \in {"queued", "open"}
    BY <1>2 DEF write_all
  <2>1. CASE with_conn(c, [k EXCEPT !.unread = "line"]) /\ with_client(c, "sent", None)
    <3> DEFINE to == [k EXCEPT !.unread = "line"]
               u == [at |-> "sent", status |-> None]
    <3>1. ConnInv(u, to) /\ to.at = k.at
      BY <1>0, <2>0, ControlAssumption DEF ConnInv, Conn, Client, ReplyInv, StatusInv
    <3>2. conn' = [conn EXCEPT ![c] = to] /\ client' = [client EXCEPT ![c] = u]
      BY <2>1 DEF with_conn, with_client
    <3> HIDE DEF to, u
    <3> QED BY <1>0, <3>1, <3>2, OneClient
  <2>2. CASE with_conn(c, [k EXCEPT !.unread = "part"]) /\ UNCHANGED client
    <3> DEFINE to == [k EXCEPT !.unread = "part"]
    <3>1. ConnInv(client[c], to) /\ to.at = k.at
      BY <1>0, <2>0 DEF ConnInv, Conn, Client, ReplyInv, StatusInv
    <3>2. conn' = [conn EXCEPT ![c] = to] /\ client' = [client EXCEPT ![c] = client[c]]
      BY <1>0, <2>2 DEF with_conn
    <3> HIDE DEF to
    <3> QED BY <1>0, <3>1, <3>2, OneClient
  <2> QED BY <1>2, <2>1, <2>2 DEF write_all
<1>3. CASE write_fails(c)
  <2> DEFINE u == [at |-> "unsent", status |-> None]
  <2>1. ConnInv(u, k)
    BY <1>0, <1>3, ControlAssumption DEF write_fails, ConnInv, Conn, Client, ReplyInv, StatusInv
  <2>2. conn' = [conn EXCEPT ![c] = k] /\ client' = [client EXCEPT ![c] = u]
    BY <1>0, <1>3 DEF write_fails, with_client
  <2> HIDE DEF u
  <2> QED BY <1>0, <2>1, <2>2, OneClient
<1>4. CASE read_reply(c)
  <2> DEFINE status == IF k.reset \/ k.reply = None THEN "failed"
                       ELSE IF k.reply = "busy" THEN "busy" ELSE "ok"
             u == [at |-> "done", status |-> status]
  <2>1. /\ status \in {"failed", "busy", "ok"} /\ k.at = "closed"
        /\ status = "busy" => k.reply = "busy"
        /\ status = "ok" => k.reply = "answer"
    BY <1>0, <1>4 DEF read_reply, ConnInv, Conn
  <2>2. conn' = [conn EXCEPT ![c] = k] /\ client' = [client EXCEPT ![c] = u]
    BY <1>0, <1>4 DEF read_reply, returns, with_client
  <2> HIDE DEF status
  <2>3. ConnInv(u, k)
    BY <1>0, <2>1 DEF ConnInv, Client, StatusInv
  <2> HIDE DEF u
  <2> QED BY <1>0, <2>1, <2>2, <2>3, OneClient
<1>5. CASE HangsUp(c)
  <2> DEFINE u == [at |-> "gone", status |-> None]
  <2>1. ConnInv(u, k)
    BY <1>0, <1>5, ControlAssumption DEF HangsUp, ConnInv, Conn, Client, ReplyInv, StatusInv
  <2>2. conn' = [conn EXCEPT ![c] = k] /\ client' = [client EXCEPT ![c] = u]
    BY <1>0, <1>5 DEF HangsUp, with_client
  <2> HIDE DEF u
  <2> QED BY <1>0, <2>1, <2>2, OneClient
<1> QED BY <1>1, <1>2, <1>3, <1>4, <1>5 DEF ClientStep

\* A clock that moves changes ages only, and none beyond the limit.
LEMMA TickKeeps == ClientsInv /\ Tick => ClientsInv'
<1> SUFFICES ASSUME ClientsInv, Tick PROVE ClientsInv'
  OBVIOUS
<1> DEFINE older(k) == [k EXCEPT !.age = @ + 1]
<1>1. ASSUME NEW c \in Clients
      PROVE  ConnInv(client'[c], conn'[c]) /\ (conn'[c].at = conn[c].at)
  <2>0. ConnInv(client[c], conn[c]) /\ client' = client
    BY DEF ClientsInv, Tick, vars
  <2>1. CASE c \in opened /\ conn[c].age < CONTROL_IDLE_TIMEOUT_MS
    <3>1. conn'[c] = older(conn[c])
      BY <2>1 DEF Tick
    <3>2. conn[c] \in Conn /\ conn[c].age + 1 \in 0..CONTROL_IDLE_TIMEOUT_MS
      <4>1. conn[c] \in Conn /\ conn[c].age \in 0..CONTROL_IDLE_TIMEOUT_MS
        BY <2>0 DEF ConnInv, Conn
      <4> HIDE DEF Conn
      <4> DEFINE age == conn[c].age
      <4>2. age < CONTROL_IDLE_TIMEOUT_MS /\ age \in 0..CONTROL_IDLE_TIMEOUT_MS
        BY <2>1, <4>1
      <4> HIDE DEF age
      <4>3. age + 1 \in 0..CONTROL_IDLE_TIMEOUT_MS
        BY <4>2, ControlAssumption
      <4> QED BY <4>1, <4>3 DEF age
    <3>3. /\ older(conn[c]) \in Conn
          /\ older(conn[c]).at = conn[c].at /\ older(conn[c]).reply = conn[c].reply
          /\ older(conn[c]).handled = conn[c].handled
      BY <3>2 DEF Conn
    <3> HIDE DEF older
    <3>4. ConnInv(client[c], older(conn[c])) /\ older(conn[c]).at = conn[c].at
      BY <2>0, <3>3 DEF ConnInv, ReplyInv, StatusInv
    <3> QED BY <2>0, <3>1, <3>4
  <2>2. CASE ~ (c \in opened /\ conn[c].age < CONTROL_IDLE_TIMEOUT_MS)
    <3>1. conn'[c] = conn[c]
      BY <2>2 DEF Tick
    <3> QED BY <2>0, <3>1
  <2> QED BY <2>1, <2>2
<1>2. opened' = opened
  BY <1>1 DEF opened
<1>3. conn' \in [Clients -> Conn] /\ client' \in [Clients -> Client]
  <2>1. conn' = [c \in Clients |-> conn'[c]]
    BY DEF Tick
  <2>2. \A c \in Clients : conn'[c] \in Conn
    BY <1>1 DEF ConnInv
  <2> QED BY <2>1, <2>2 DEF ClientsInv, Tick
<1> QED BY <1>1, <1>2, <1>3 DEF ClientsInv, Tick, instance_vars, socket

\* What players do on their way changes no connection; what they sever has had no reply.
LEMMA LifetimeKeeps == ClientsInv /\ Lifetime => ClientsInv'
<1> SUFFICES ASSUME ClientsInv, Lifetime PROVE ClientsInv'
  OBVIOUS
<1>1. PICK p \in Players :
         \/ (Start(p) \/ Advance(p)) /\ UNCHANGED conn
         \/ (StopsListening(p) \/ Crash(p)) /\ severed(p)
  BY DEF Lifetime
<1>2. listening' \subseteq Players /\ sock_file' \in Players \cup {None}
  BY <1>1 DEF ClientsInv, Start, Advance, ProbePidfile, ProbeReleases, probe_control_socket, daemonize,
              OpensPidfile, acquire, UnlinksPidfile, ClosesPidfile, LocksSocket, BindsSocket,
              ListensOnSocket, UnlinksSocket, ReleasesSocket, StopsListening, Crash, socket
<1>3. CASE UNCHANGED conn
  BY <1>2, <1>3, Slots DEF ClientsInv, Lifetime, opened
<1>4. CASE severed(p)
  <2>0. client' = client
    BY DEF Lifetime
  <2>1. ASSUME NEW c \in Clients
        PROVE  ConnInv(client[c], conn'[c]) /\ (conn'[c].at = "open" => conn[c].at = "open")
    <3>0. ConnInv(client[c], conn[c])
      BY DEF ClientsInv
    <3>1. CASE conn[c].player = p /\ conn[c].at \in {"queued", "open"}
      <4>1. conn'[c] = closed(conn[c])
        BY <1>4, <3>1 DEF severed
      <4>2. closed(conn[c]).at # "open"
        BY <3>0 DEF closed, ConnInv, Conn
      <4> QED BY <3>0, <3>1, <4>1, <4>2, Closes
    <3>2. CASE ~ (conn[c].player = p /\ conn[c].at \in {"queued", "open"})
      <4>1. conn'[c] = conn[c]
        BY <1>4, <3>2 DEF severed
      <4> QED BY <3>0, <4>1
    <3> QED BY <3>1, <3>2
  <2>2. conn' \in [Clients -> Conn]
    <3>1. conn' = [c \in Clients |-> conn'[c]]
      BY <1>4 DEF severed
    <3>2. \A c \in Clients : conn'[c] \in Conn
      BY <2>1 DEF ConnInv
    <3> QED BY <3>1, <3>2
  <2>3. opened' \subseteq opened
    BY <2>1 DEF opened
  <2> QED BY <1>2, <2>0, <2>1, <2>2, <2>3, Slots DEF ClientsInv
<1> QED BY <1>1, <1>3, <1>4

\* Every step keeps the inductive invariant.
LEMMA NextClientsInv == ClientsInv /\ [Next]_vars => ClientsInv'
<1> SUFFICES ASSUME ClientsInv, [Next]_vars PROVE ClientsInv'
  OBVIOUS
<1>1. CASE UNCHANGED vars
  BY <1>1, Slots DEF ClientsInv, vars, instance_vars, socket, opened
<1>2. CASE Next
  BY <1>2, PollKeeps, ClientKeeps, TickKeeps, LifetimeKeeps DEF Next
<1> QED BY <1>1, <1>2

\* The inductive invariant says what is wanted.
LEMMA ClientsAreSafe == ClientsInv => SaysWhatHappened
<1> SUFFICES ASSUME ClientsInv PROVE SaysWhatHappened
  OBVIOUS
<1>1. \A c \in Clients : ConnInv(client[c], conn[c])
  BY DEF ClientsInv
<1>2. TypeOK
  BY <1>1 DEF ClientsInv, TypeOK, ConnInv, Client, Conn
<1>3. ASSUME NEW c \in Clients
      PROVE  /\ client[c].status = "ok" => conn[c].handled
             /\ client[c].status \in {"no_daemon", "busy"} => ~ conn[c].handled
  <2>1. /\ StatusInv(client[c], conn[c]) /\ ReplyInv(conn[c])
    BY <1>1 DEF ConnInv
  <2> QED BY <2>1, ControlAssumption DEF StatusInv, ReplyInv
<1> QED BY <1>2, <1>3 DEF SaysWhatHappened

-----------------------------------------------------------------------------
\* Whatever clients trickle, hang up or are cut off, and whichever player ends or crashes
\* under them: a subcommand that reports success was carried out, and one that reports
\* no player, or one too busy, was not (src/control_client.cpp, src/control_socket.cpp).
THEOREM StatusIsTrue == Spec => []SaysWhatHappened
  BY InitClientsInv, NextClientsInv, ClientsAreSafe, PTL DEF Spec

-----------------------------------------------------------------------------
(* What a player answers: the inductive invariant.                          *)

Server == [connected : BOOLEAN, supported_commands : Offers, seek_max_ms : {{}, {1}},
           repeat : {"off", "one"}]

\* What is shown of a server this connection's server has told, and a lost connection
\* leaves nothing that could be offered or shown.
ServerInv ==
    /\ server \in Server
    /\ ~ server.connected => server.supported_commands = {}
    /\ server.supported_commands # {} => server.repeat = told

AnswerInv == ServerInv /\ AnswerIsTrue

\* Every request a line could be read as is of its first word.
LEMMA Parsed ==
    ASSUME NEW words, NEW r \in parse_control_request(words)
    PROVE  /\ r.command = words[1][1] /\ r = [command |-> r.command, value |-> r.value]
           /\ r.command = "seek" => r.value.number \in Int
<1>1. PICK v : /\ r = [command |-> words[1][1], value |-> v]
               /\ v \in IF arity(words[1][1]) = 0 THEN words_of({Nothing})
                        ELSE argument(words[1][1], words[2])
  BY DEF parse_control_request
<1>2. words[1][1] = "seek" => v \in numbers(parse_unsigned(words[2], 2 * INT32_MAX + 1))
  BY <1>1 DEF argument, arity, Bare
<1>3. v \in numbers(parse_unsigned(words[2], 2 * INT32_MAX + 1)) => v.number \in Int
  BY ProtocolAssumption DEF numbers, parse_unsigned
<1> QED BY <1>1, <1>2, <1>3

\* What may be said of an answer.
True(o) ==
    /\ \A r \in o.asked : (o.status = "not-connected") <=> (~ server.connected /\ r.command \notin Locally)
    /\ o.did # <<>> /\ o.did[1] = "sends" =>
          /\ protocol_command(o.did[2]) \in server.supported_commands
          /\ o.did[2].command = "seek" =>
                \A max \in server.seek_max_ms : o.did[2].value.number <= max
    /\ o.did # <<>> /\ o.did[1] = "reports" => o.did[2].repeat \in {Nothing, told}

\* Whatever the player has read, its answer is true of the server as it then is.
LEMMA Answers ==
    ASSUME ServerInv, source_only = FALSE, NEW bytes
    PROVE  True(handle_control_request(bytes))
<1> DEFINE requests == parse_control_request(split_control_line(bytes))
           o == handle_control_request(bytes)
<1>1. CASE requests = {}
  <2>1. o = [did |-> <<>>, asked |-> {}, status |-> "usage"]
    BY <1>1 DEF handle_control_request, NotHandled
  <2> QED BY <2>1 DEF True
<1>2. CASE requests # {}
  <2> DEFINE request == CHOOSE r \in requests : TRUE
             refusal == control_refusal(request)
             did == IF refusal # Nothing THEN <<>>
                    ELSE CASE request.command = "status" -> <<"reports", format_status(server)>>
                           [] request.command = "delay" -> <<"delays">>
                           [] OTHER -> <<"sends", request>>
  <2>1. request \in requests
    BY <1>2
  <2>2. /\ o.asked = requests /\ o.did = did
        /\ o.status = IF refusal = Nothing THEN "ok" ELSE refusal
    BY <1>2 DEF handle_control_request
  <2>3. \A r \in requests : r.command = request.command
    BY <2>1, Parsed
  <2>4. request.command = "seek" => request.value.number \in Int
    BY <2>1, Parsed
  <2> SUFFICES True(o)
    OBVIOUS
  <2> HIDE DEF requests, request, o
  <2>5. /\ (refusal = "not-connected") <=> (~ server.connected /\ request.command \notin Locally)
        /\ refusal = Nothing /\ request.command \notin Locally =>
              /\ protocol_command(request) \in server.supported_commands
              /\ request.command = "seek" =>
                    \A max \in server.seek_max_ms : ~ request.value.number > max
    <3>1. request.command \in Locally => refusal = Nothing
      BY Zenon DEF control_refusal
    <3>2. request.command \notin Locally /\ ~ server.connected => refusal = "not-connected"
      BY Zenon DEF control_refusal
    <3>3. CASE request.command \notin Locally /\ server.connected
      <4>1. /\ refusal # "not-connected"
            /\ refusal = Nothing => protocol_command(request) \in server.supported_commands
        BY <3>3 DEF control_refusal, Nothing
      <4>2. refusal = Nothing /\ request.command = "seek" =>
               \A max \in server.seek_max_ms : ~ request.value.number > max
        BY <3>3 DEF control_refusal, Nothing
      <4> HIDE DEF refusal
      <4> QED BY <3>3, <4>1, <4>2
    <3> HIDE DEF refusal
    <3> QED BY <3>1, <3>2, <3>3 DEF Nothing
  <2>6. format_status(server).repeat \in {Nothing, told}
    BY DEF format_status, ServerInv
  <2>7. server.seek_max_ms \subseteq Int
    BY DEF ServerInv, Server
  <2>8. \A r \in o.asked : (o.status = "not-connected") <=> (~ server.connected /\ r.command \notin Locally)
    BY <2>2, <2>3, <2>5 DEF Nothing
  <2>9. \/ did \in {<<>>, <<"delays">>, <<"reports", format_status(server)>>}
        \/ did = <<"sends", request>> /\ refusal = Nothing /\ request.command \notin Locally
    <3> HIDE DEF refusal
    <3> QED BY DEF Locally
  <2> HIDE DEF did, refusal
  <2>10. CASE did \in {<<>>, <<"delays">>}
    BY <2>8, <2>10, <2>2 DEF True
  <2>11. CASE did = <<"reports", format_status(server)>>
    <3>1. o.did[1] = "reports" /\ o.did[2] = format_status(server)
      BY <2>2, <2>11
    <3> QED BY <2>8, <2>6, <3>1 DEF True
  <2>12. CASE did = <<"sends", request>> /\ refusal = Nothing /\ request.command \notin Locally
    <3>1. request.command = "seek" => \A max \in server.seek_max_ms : request.value.number <= max
      BY <2>12, <2>5, <2>4, <2>7
    <3>2. o.did[1] = "sends" /\ o.did[2] = request
      BY <2>2, <2>12
    <3> QED BY <2>8, <2>12, <2>5, <3>1, <3>2 DEF True
  <2> QED BY <2>9, <2>10, <2>11, <2>12
<1> QED BY <1>1, <1>2

\* Before anything is asked, nothing has been answered.
LEMMA InitAnswerInv == ConversationInit => AnswerInv
  BY DEF ConversationInit, AnswerInv, ServerInv, AnswerIsTrue, NoServer, Server, Offers

\* The server speaks while nothing is answered; what is answered is of what it said last.
LEMMA NextAnswerInv == AnswerInv /\ [ConversationNext]_conversation => AnswerInv'
<1> SUFFICES ASSUME AnswerInv, [ConversationNext]_conversation PROVE AnswerInv'
  OBVIOUS
<1> USE DEF AnswerInv
<1>1. CASE ServerSpeaks
  <2>1. phase' # "answered"
    BY <1>1 DEF ServerSpeaks
  <2>2. ServerInv'
    <3>1. CASE ~ server.connected /\ server' = [server EXCEPT !.connected = TRUE] /\ UNCHANGED told
      BY <3>1 DEF ServerInv, Server
    <3>2. CASE server' = NoServer
      BY <3>2 DEF ServerInv, Server, NoServer, Offers
    <3>3. ASSUME NEW commands \in Offers, NEW max \in {{}, {1}}, NEW mode \in {"off", "one"},
                 server' = [connected |-> TRUE, supported_commands |-> commands,
                            seek_max_ms |-> max, repeat |-> mode],
                 told' = mode
          PROVE  ServerInv'
      BY <3>3 DEF ServerInv, Server
    <3> QED BY <1>1, <3>1, <3>2, <3>3 DEF ServerSpeaks
  <2> QED BY <2>1, <2>2 DEF AnswerIsTrue
<1>2. CASE phase' # "answered" /\ UNCHANGED connected_to
  BY <1>2 DEF ServerInv, connected_to, AnswerIsTrue
<1>3. ASSUME NEW got, Reads(got) PROVE AnswerInv'
  <2>1. ServerInv' /\ UNCHANGED <<connected_to, source_only>>
    BY <1>3 DEF Reads, ServerInv, connected_to
  <2>2. CASE got.state = "Incomplete"
    BY <1>3, <2>1, <2>2 DEF Reads, AnswerIsTrue, connected_to
  <2>3. CASE got.state # "Incomplete" /\ got.state # "Ready"
    <3>1. outcome' = [did |-> <<>>, asked |-> {}, status |-> "usage"]
      BY <1>3, <2>3 DEF Reads, NotHandled
    <3> QED BY <2>1, <3>1 DEF AnswerIsTrue
  <2>4. CASE got.state = "Ready"
    <3>1. outcome' = handle_control_request(got.line)
      BY <1>3, <2>4 DEF Reads
    <3>2. source_only = FALSE => True(outcome')
      BY <3>1, Answers
    <3> QED BY <2>1, <3>2 DEF True, AnswerIsTrue, connected_to
  <2> QED BY <2>2, <2>3, <2>4
<1>4. CASE UNCHANGED conversation
  BY <1>4 DEF conversation, connected_to, ServerInv, AnswerIsTrue
<1>5. CASE ReadsTheEnd \/ \E n \in 1..Len(wire) : ReadsBytes(n)
  BY <1>5, <1>3 DEF ReadsTheEnd, ReadsBytes
<1>6. CASE \/ ReadsTheReply \/ Again \/ \E words \in Typed : Types(words)
           \/ \E bytes \in Peers : PeerWrites(bytes)
  BY <1>2, <1>6 DEF ReadsTheReply, Again, Types, PeerWrites
<1> QED BY <1>1, <1>4, <1>5, <1>6 DEF ConversationNext

\* Whatever bytes a connection brings and however the server changes meanwhile: a refusal
\* gives the reason that is the case, a command is sent only to a server that offers it,
\* and a status shows only what this connection's server told (src/control_common.cpp).
THEOREM AnswersAreTrue == ConversationSpec => []AnswerIsTrue
  BY InitAnswerInv, NextAnswerInv, PTL DEF ConversationSpec, AnswerInv

-----------------------------------------------------------------------------
(* A line on a connection.                                                  *)

\* Where the read of some bytes ends: at the end of the line, or where the line is found
\* to be too long.
Stop(bytes) ==
    IF line_ends(bytes) - 1 > MAX_CONTROL_LINE_BYTES THEN MAX_CONTROL_LINE_BYTES + 1
    ELSE line_ends(bytes)

\* What the assembler holds after k of the bytes.
After(bytes, k) ==
    IF k < Stop(bytes)
    THEN [state |-> "Incomplete", buffer |-> SubSeq(bytes, 1, k), line |-> <<>>]
    ELSE [state |-> LineIn(bytes).state, line |-> LineIn(bytes).line,
          buffer |-> IF LineIn(bytes).state = "Ready" THEN <<>>
                     ELSE SubSeq(bytes, 1, Stop(bytes) - 1)]

\* A line ends somewhere.
LEMMA LineEnds ==
    ASSUME NEW S, NEW bytes \in Seq(S)
    PROVE  /\ line_ends(bytes) \in 1..(Len(bytes) + 1)
           /\ line_ends(bytes) <= Len(bytes) => bytes[line_ends(bytes)] \in {NL, NUL}
           /\ \A i \in 1..Len(bytes) : i < line_ends(bytes) => bytes[i] \notin {NL, NUL}
           /\ Stop(bytes) \in 1..line_ends(bytes)
<1> DEFINE E == {i \in DOMAIN bytes : bytes[i] \in {NL, NUL}} \cup {Len(bytes) + 1}
<1>1. DOMAIN bytes = 1..Len(bytes) /\ Len(bytes) \in Nat
  OBVIOUS
<1>2. E \in SUBSET Nat /\ E # {}
  BY <1>1
<1>3. PICK x \in E : \A y \in E : x <= y
  BY <1>2, LeastElement
<1>4. line_ends(bytes) = CHOOSE n \in E : \A y \in E : n <= y
  BY Zenon DEF line_ends, Min
<1>5. line_ends(bytes) \in E /\ \A y \in E : line_ends(bytes) <= y
  <2> HIDE DEF E
  <2> QED BY <1>3, <1>4, Zenon
<1>6. /\ line_ends(bytes) \in 1..(Len(bytes) + 1)
      /\ line_ends(bytes) <= Len(bytes) => bytes[line_ends(bytes)] \in {NL, NUL}
      /\ \A i \in 1..Len(bytes) : i < line_ends(bytes) => bytes[i] \notin {NL, NUL}
  BY <1>1, <1>5
<1>7. MAX_CONTROL_LINE_BYTES \in Nat
  BY ProtocolAssumption
<1> HIDE DEF E
<1>8. Stop(bytes) \in 1..line_ends(bytes)
  BY <1>1, <1>6, <1>7 DEF Stop
<1> QED BY <1>6, <1>8

\* What a byte does to a line that is being read.
Begun(b) == [state |-> "Incomplete", buffer |-> b, line |-> <<>>]

\* A byte ends the line, is refused, or is one more of it.
LEMMA EatenIs ==
    ASSUME NEW b, NEW byte
    PROVE  /\ byte = NUL => eaten(Begun(b), byte) = [state |-> "Invalid", buffer |-> b, line |-> <<>>]
           /\ byte = NL =>
                eaten(Begun(b), byte) = [state |-> "Ready", buffer |-> <<>>, line |-> stripped(b)]
           /\ byte \notin {NL, NUL} /\ Len(b) >= MAX_CONTROL_LINE_BYTES =>
                eaten(Begun(b), byte) = [state |-> "TooLong", buffer |-> b, line |-> <<>>]
           /\ byte \notin {NL, NUL} /\ ~ (Len(b) >= MAX_CONTROL_LINE_BYTES) =>
                eaten(Begun(b), byte) = Begun(Append(b, byte))
           /\ Begun(b).state = "Incomplete" /\ Begun(b).buffer = b
<1> DEFINE got == Begun(b)
<1>1. got.state = "Incomplete" /\ got.buffer = b
  BY DEF Begun
<1>2. /\ [got EXCEPT !.state = "Invalid"] = [state |-> "Invalid", buffer |-> b, line |-> <<>>]
      /\ [got EXCEPT !.state = "TooLong"] = [state |-> "TooLong", buffer |-> b, line |-> <<>>]
      /\ [got EXCEPT !.buffer = Append(got.buffer, byte)] = Begun(Append(b, byte))
  BY DEF Begun
<1>3. NL # NUL
  BY DEF NL, NUL
<1> HIDE DEF got
<1> QED BY <1>1, <1>2, <1>3 DEF eaten, got

\* One more byte of them.
LEMMA EatenNext ==
    ASSUME NEW S, NEW bytes \in Seq(S), NEW k \in 1..Len(bytes)
    PROVE  eaten(After(bytes, k - 1), bytes[k]) = After(bytes, k)
<1> DEFINE end == line_ends(bytes)
           stop == Stop(bytes)
<1>1. /\ end \in 1..(Len(bytes) + 1) /\ Len(bytes) \in Nat /\ k \in Nat /\ k > 0
      /\ end <= Len(bytes) => bytes[end] \in {NL, NUL}
      /\ \A i \in 1..Len(bytes) : i < end => bytes[i] \notin {NL, NUL}
      /\ stop \in 1..end
      /\ stop = IF end - 1 > MAX_CONTROL_LINE_BYTES THEN MAX_CONTROL_LINE_BYTES + 1 ELSE end
      /\ MAX_CONTROL_LINE_BYTES \in Nat
  BY LineEnds, ProtocolAssumption DEF Stop
<1>2. LineIn(bytes) =
        IF end - 1 > MAX_CONTROL_LINE_BYTES THEN [state |-> "TooLong", line |-> <<>>]
        ELSE IF end <= Len(bytes) /\ bytes[end] = NUL THEN [state |-> "Invalid", line |-> <<>>]
        ELSE [state |-> "Ready", line |-> stripped(SubSeq(bytes, 1, end - 1))]
  BY Zenon DEF LineIn
<1>3. NL # NUL /\ LineIn(bytes).state \in {"TooLong", "Invalid", "Ready"}
  BY <1>2 DEF NL, NUL
<1>4. \A n \in 0..Len(bytes) : Len(SubSeq(bytes, 1, n)) = n
  OBVIOUS
<1>5. SubSeq(bytes, 1, k) = Append(SubSeq(bytes, 1, k - 1), bytes[k])
  OBVIOUS
<1>6. PICK b, byte : b = SubSeq(bytes, 1, k - 1) /\ byte = bytes[k]
  OBVIOUS
<1> HIDE DEF end, stop
<1>7. CASE k < stop
  <2>1. After(bytes, k - 1) = Begun(SubSeq(bytes, 1, k - 1))
    BY <1>1, <1>7 DEF After, stop, Begun
  <2>2. After(bytes, k) = Begun(SubSeq(bytes, 1, k))
    BY <1>7 DEF After, stop, Begun
  <2>3. bytes[k] # NL /\ bytes[k] # NUL /\ ~ (Len(SubSeq(bytes, 1, k - 1)) >= MAX_CONTROL_LINE_BYTES)
    <3>1. k < end /\ k - 1 < MAX_CONTROL_LINE_BYTES
      BY <1>1, <1>7
    <3> QED BY <1>1, <1>4, <3>1
  <2>4. eaten(Begun(b), byte) = Begun(Append(b, byte))
    BY <1>6, <2>3, EatenIs
  <2> QED BY <1>5, <1>6, <2>1, <2>2, <2>4, Zenon
<1>8. CASE k = stop
  <2>1. After(bytes, k - 1) = Begun(SubSeq(bytes, 1, k - 1))
    BY <1>1, <1>8 DEF After, stop, Begun
  <2>2. After(bytes, k) =
          [state |-> LineIn(bytes).state, line |-> LineIn(bytes).line,
           buffer |-> IF LineIn(bytes).state = "Ready" THEN <<>> ELSE SubSeq(bytes, 1, k - 1)]
    BY <1>1, <1>8 DEF After, stop
  <2>3. CASE end - 1 > MAX_CONTROL_LINE_BYTES
    <3>1. bytes[k] # NL /\ bytes[k] # NUL /\ Len(SubSeq(bytes, 1, k - 1)) >= MAX_CONTROL_LINE_BYTES
      <4>1. k < end /\ k - 1 = MAX_CONTROL_LINE_BYTES
        BY <1>1, <1>8, <2>3
      <4> QED BY <1>1, <1>4, <4>1
    <3>2. LineIn(bytes) = [state |-> "TooLong", line |-> <<>>]
      BY <1>2, <2>3
    <3>3. eaten(Begun(b), byte) = [state |-> "TooLong", buffer |-> b, line |-> <<>>]
      BY <1>6, <3>1, EatenIs
    <3>4. After(bytes, k) = [state |-> "TooLong", buffer |-> b, line |-> <<>>]
      BY <1>6, <2>2, <3>2
    <3> QED BY <1>6, <2>1, <3>3, <3>4, Zenon
  <2>4. CASE ~ (end - 1 > MAX_CONTROL_LINE_BYTES) /\ bytes[k] = NUL
    <3>1. k = end /\ end <= Len(bytes)
      BY <1>1, <1>8, <2>4
    <3>2. LineIn(bytes) = [state |-> "Invalid", line |-> <<>>]
      BY <1>2, <2>4, <3>1
    <3>3. eaten(Begun(b), byte) = [state |-> "Invalid", buffer |-> b, line |-> <<>>]
      BY <1>6, <2>4, EatenIs
    <3>4. After(bytes, k) = [state |-> "Invalid", buffer |-> b, line |-> <<>>]
      BY <1>6, <2>2, <3>2
    <3> QED BY <1>6, <2>1, <3>3, <3>4, Zenon
  <2>5. CASE ~ (end - 1 > MAX_CONTROL_LINE_BYTES) /\ bytes[k] # NUL
    <3>1. k = end /\ end <= Len(bytes)
      BY <1>1, <1>8, <2>5
    <3>2. bytes[k] = NL
      BY <1>1, <2>5, <3>1
    <3>3. LineIn(bytes) = [state |-> "Ready", line |-> stripped(SubSeq(bytes, 1, k - 1))]
      BY <1>2, <2>5, <3>1
    <3> QED BY <2>1, <2>2, <3>2, <3>3, EatenIs
  <2> QED BY <2>3, <2>4, <2>5
<1>9. CASE k > stop
  <2>1. After(bytes, k) = After(bytes, k - 1) /\ After(bytes, k).state = LineIn(bytes).state
    BY <1>1, <1>9 DEF After, stop
  <2> QED BY <1>3, <2>1 DEF eaten
<1> QED BY <1>1, <1>7, <1>8, <1>9

\* What feed() makes of some more bytes is what one read of all would have made of them.
LEMMA FeedIs ==
    ASSUME NEW S, NEW bytes \in Seq(S), NEW d \in 0..Len(bytes), NEW n \in 1..Len(bytes),
           d + n <= Len(bytes),
           [state |-> "Incomplete", buffer |-> buffer, line |-> line] = After(bytes, d)
    PROVE  feed(SubSeq(bytes, d + 1, d + n)) = After(bytes, d + n)
<1> DEFINE more == SubSeq(bytes, d + 1, d + n)
           start == [state |-> "Incomplete", buffer |-> buffer, line |-> line]
           body(g) == [i \in 0..Len(more) |-> IF i = 0 THEN start ELSE eaten(g[i - 1], more[i])]
           f == CHOOSE g : g = [i \in 0..Len(more) |-> IF i = 0 THEN start ELSE eaten(g[i - 1], more[i])]
           read == [i \in 0..Len(more) |-> After(bytes, d + i)]
<1>1. Len(more) = n /\ \A i \in 1..n : more[i] = bytes[d + i]
  OBVIOUS
<1>2. feed(more) = f[Len(more)]
  BY DEF feed
<1> HIDE DEF more, start
<1>3. \A i \in 1..n : eaten(After(bytes, d + (i - 1)), more[i]) = After(bytes, d + i)
  <2> TAKE i \in 1..n
  <2>1. PICK k : k = d + i
    OBVIOUS
  <2>2. k \in 1..Len(bytes) /\ k - 1 = d + (i - 1)
    BY <2>1
  <2>3. eaten(After(bytes, k - 1), bytes[k]) = After(bytes, k)
    BY <2>2, EatenNext
  <2> QED BY <1>1, <2>1, <2>2, <2>3
<1>4. start = After(bytes, d + 0)
  <2>1. d + 0 = d
    OBVIOUS
  <2> QED BY <2>1 DEF start
<1>5. read = body(read)
  <2>1. \A i \in 0..Len(more) : read[i] = IF i = 0 THEN start ELSE eaten(read[i - 1], more[i])
    <3> TAKE i \in 0..Len(more)
    <3>1. CASE i = 0
      BY <1>4, <3>1
    <3>2. CASE i # 0
      <4>1. i \in 1..n /\ i - 1 \in 0..Len(more) /\ i \in 0..Len(more)
        BY <1>1, <3>2
      <4>2. read[i - 1] = After(bytes, d + (i - 1)) /\ read[i] = After(bytes, d + i)
        BY <4>1
      <4> QED BY <1>3, <3>2, <4>1, <4>2
    <3> QED BY <3>1, <3>2
  <2> QED BY <2>1
<1>6. f = body(f)
  <2> HIDE DEF read
  <2> QED BY <1>5, Zenon
<1> HIDE DEF f
<1>7. f[0] = start /\ \A i \in 1..n : f[i] = eaten(f[i - 1], more[i])
  BY <1>1, <1>6
<1> DEFINE T == {i \in Nat : i <= n => f[i] = After(bytes, d + i)}
<1>8. 0 \in T
  BY <1>4, <1>7
<1>9. ASSUME NEW i \in Nat, i \in T PROVE i + 1 \in T
  <2>1. CASE i + 1 <= n
    <3>1. i + 1 \in 1..n /\ (i + 1) - 1 = i
      BY <2>1
    <3>2. f[i] = After(bytes, d + i)
      BY <1>9, <2>1
    <3>3. f[i + 1] = eaten(f[i], more[i + 1])
      BY <1>7, <3>1
    <3>4. eaten(After(bytes, d + i), more[i + 1]) = After(bytes, d + (i + 1))
      BY <1>3, <3>1
    <3> QED BY <3>2, <3>3, <3>4
  <2>2. CASE ~ (i + 1 <= n)
    BY <2>2
  <2> QED BY <2>1, <2>2
<1> HIDE DEF T
<1>10. n \in T
  BY <1>8, <1>9, InductionOverNat
<1> QED BY <1>1, <1>2, <1>10 DEF T, more

-----------------------------------------------------------------------------
(* A request on a line.                                                     *)

\* The words that have ended and the one that has not.
Split(words, word) == [words |-> words, word |-> word]

\* A byte goes on the word.
LEMMA WordGoesOn ==
    ASSUME NEW ws, NEW w, NEW b, b # SPACE
    PROVE  parted(Split(ws, w), b) = Split(ws, Append(w, b))
<1>1. [Split(ws, w) EXCEPT !.word = Append(Split(ws, w).word, b)] = Split(ws, Append(w, b))
  BY DEF Split
<1> QED BY <1>1, Zenon DEF parted

\* A blank ends a word, and so does the end of the line.
LEMMA WordEnds ==
    ASSUME NEW ws, NEW w, w # <<>>
    PROVE  /\ parted(Split(ws, w), SPACE) = Split(Append(ws, w), <<>>)
           /\ word_ends(Split(ws, w)).words = Append(ws, w)
<1> DEFINE r == Split(ws, w)
<1>1. r.words = ws /\ r.word = w
  BY DEF Split
<1>2. word_ends(r) = Split(Append(ws, w), <<>>)
  <2> HIDE DEF r
  <2> QED BY <1>1 DEF word_ends, Split
<1>3. Split(Append(ws, w), <<>>).words = Append(ws, w)
  BY DEF Split
<1>4. parted(r, SPACE) = word_ends(r)
  BY Zenon DEF parted
<1> QED BY <1>2, <1>3, <1>4

\* What a short line is split into, byte by byte.
Reading(bytes, c1, c2, c3, c4) ==
    /\ Len(bytes) \in 1..4
    /\ c1 = parted(Split(<<>>, <<>>), bytes[1])
    /\ Len(bytes) >= 2 => c2 = parted(c1, bytes[2])
    /\ Len(bytes) >= 3 => c3 = parted(c2, bytes[3])
    /\ Len(bytes) >= 4 => c4 = parted(c3, bytes[4])

LEMMA SplitIs ==
    ASSUME NEW bytes, NEW c1, NEW c2, NEW c3, NEW c4, Reading(bytes, c1, c2, c3, c4)
    PROVE  /\ Len(bytes) = 1 => split_control_line(bytes) = word_ends(c1).words
           /\ Len(bytes) = 3 => split_control_line(bytes) = word_ends(c3).words
           /\ Len(bytes) = 4 => split_control_line(bytes) = word_ends(c4).words
<1> DEFINE start == [words |-> <<>>, word |-> <<>>]
           body(h) == [i \in 0..Len(bytes) |-> IF i = 0 THEN start ELSE parted(h[i - 1], bytes[i])]
           f == CHOOSE h : h = [i \in 0..Len(bytes) |->
                                   IF i = 0 THEN start ELSE parted(h[i - 1], bytes[i])]
           g == [i \in 0..Len(bytes) |->
                    IF i = 0 THEN start ELSE IF i = 1 THEN c1 ELSE IF i = 2 THEN c2
                    ELSE IF i = 3 THEN c3 ELSE c4]
<1>L. PICK n \in 1..4 : n = Len(bytes)
  BY DEF Reading
<1>0. /\ c1 = parted(Split(<<>>, <<>>), bytes[1])
      /\ Len(bytes) >= 2 => c2 = parted(c1, bytes[2])
      /\ Len(bytes) >= 3 => c3 = parted(c2, bytes[3])
      /\ Len(bytes) >= 4 => c4 = parted(c3, bytes[4])
  BY DEF Reading
<1>1. split_control_line(bytes) = word_ends(f[Len(bytes)]).words
  BY DEF split_control_line
<1>2. start = Split(<<>>, <<>>)
  BY DEF Split
<1> HIDE DEF start
<1>3. g = body(g)
  <2> SUFFICES ASSUME NEW i \in 0..Len(bytes) PROVE g[i] = body(g)[i]
    BY <1>L
  <2>1. i = 0 \/ i = 1 \/ i = 2 \/ i = 3 \/ i = 4
    BY <1>L
  <2> QED BY <1>0, <1>2, <1>L, <2>1
<1>4. f = body(f)
  <2> HIDE DEF g
  <2> QED BY <1>3, Zenon
<1> HIDE DEF f, g
<1>5. f[0] = start /\ \A i \in 1..Len(bytes) : f[i] = parted(f[i - 1], bytes[i])
  BY <1>L, <1>4
<1>6. f[1] = c1 /\ (Len(bytes) >= 2 => f[2] = c2) /\ (Len(bytes) >= 3 => f[3] = c3)
      /\ (Len(bytes) >= 4 => f[4] = c4)
  BY <1>0, <1>2, <1>L, <1>5
<1>7. split_control_line(bytes) = word_ends(f[n]).words
  BY <1>1, <1>L, Zenon
<1>8. /\ n = 1 => f[n] = c1
      /\ n = 3 => f[n] = c3
      /\ n = 4 => f[n] = c4
  <2>1. f[1] = c1 /\ (n >= 3 => f[3] = c3) /\ (n >= 4 => f[4] = c4)
    BY <1>6, <1>L, Zenon
  <2>2. 3 >= 3 /\ 4 >= 4
    OBVIOUS
  <2> QED BY <2>1, <2>2, Zenon
<1>9. \A c : f[n] = c => split_control_line(bytes) = word_ends(c).words
  BY <1>7, Zenon
<1>10. /\ Len(bytes) = 1 => f[n] = c1
       /\ Len(bytes) = 3 => f[n] = c3
       /\ Len(bytes) = 4 => f[n] = c4
  BY <1>8, <1>L
<1> QED BY <1>9, <1>10, Zenon

\* Short sequences, put together.
LEMMA Joined ==
    ASSUME NEW a, NEW b, NEW c
    PROVE  /\ Append(<<>>, a) = <<a>> /\ Append(<<a>>, b) = <<a, b>>
           /\ <<a>> \o <<>> = <<a>>
           /\ <<a>> \o (<<b>> \o <<c>>) = <<a, b, c>>
<1> DEFINE S == {a, b, c}
<1>1. ASSUME NEW s \in Seq(S), NEW t \in Seq(S), Len(s) = Len(t), \A i \in 1..Len(s) : s[i] = t[i]
      PROVE  s = t
  BY <1>1, SeqEqual
<1>2. Append(<<>>, a) = <<a>> /\ <<a>> \o <<>> = <<a>>
  OBVIOUS
<1>3. Append(<<a>>, b) = <<a, b>>
  <2> DEFINE s == Append(<<a>>, b)
             t == <<a, b>>
  <2>1. s \in Seq(S) /\ Len(s) = 2 /\ s[1] = a /\ s[2] = b
    OBVIOUS
  <2>2. t \in Seq(S) /\ Len(t) = 2 /\ t[1] = a /\ t[2] = b
    OBVIOUS
  <2> HIDE DEF s, t
  <2>3. \A i \in 1..Len(s) : s[i] = t[i]
    BY <2>1, <2>2
  <2> QED BY <1>1, <2>1, <2>2, <2>3 DEF s, t
<1>4. <<a>> \o (<<b>> \o <<c>>) = <<a, b, c>>
  <2> DEFINE s == <<a>> \o (<<b>> \o <<c>>)
             t == <<a, b, c>>
  <2>1. s \in Seq(S) /\ Len(s) = 3 /\ s[1] = a /\ s[2] = b /\ s[3] = c
    OBVIOUS
  <2>2. t \in Seq(S) /\ Len(t) = 3 /\ t[1] = a /\ t[2] = b /\ t[3] = c
    OBVIOUS
  <2> HIDE DEF s, t
  <2>3. \A i \in 1..Len(s) : s[i] = t[i]
    BY <2>1, <2>2
  <2> QED BY <1>1, <2>1, <2>2, <2>3 DEF s, t
<1> QED BY <1>2, <1>3, <1>4

\* And one token more.
LEMMA JoinedFour ==
    ASSUME NEW a, NEW b, NEW c, NEW d
    PROVE  <<a>> \o (<<b>> \o <<c, d>>) = <<a, b, c, d>>
<1> DEFINE S == {a, b, c, d}
           s == <<a>> \o (<<b>> \o <<c, d>>)
           t == <<a, b, c, d>>
<1>1. s \in Seq(S) /\ Len(s) = 4 /\ s[1] = a /\ s[2] = b /\ s[3] = c /\ s[4] = d
  OBVIOUS
<1>2. t \in Seq(S) /\ Len(t) = 4 /\ t[1] = a /\ t[2] = b /\ t[3] = c /\ t[4] = d
  OBVIOUS
<1> HIDE DEF s, t
<1>3. \A i \in 1..Len(s) : s[i] = t[i]
  BY <1>1, <1>2
<1>4. s = t
  BY <1>1, <1>2, <1>3, SeqEqual
<1> QED BY <1>4 DEF s, t

\* Not a byte that a line is cut at.
Plain(x) == x \notin {SPACE, NL, CR, NUL}

\* A command, a blank and a value of two tokens are two words.
SplitsInTwo(a, x, y) == split_control_line(<<a, SPACE, x, y>>) = <<(<<a>>), <<x, y>>>>

\* A command alone, and one with a value of one token or of two.
LEMMA CommandSplit ==
    ASSUME NEW a, NEW x, NEW y, Plain(a), Plain(x), Plain(y)
    PROVE  /\ split_control_line(<<a>>) = <<(<<a>>)>>
           /\ split_control_line(<<a, SPACE, x>>) = <<(<<a>>), <<x>>>>
           /\ SplitsInTwo(a, x, y)
<1> DEFINE A == <<a>>
           X == <<x>>
           XY == <<x, y>>
           AX == <<A, X>>
           AXY == <<A, XY>>
           W == <<A>>
<1>P. a # SPACE /\ x # SPACE /\ y # SPACE
  BY DEF Plain
<1>0. A # <<>> /\ X # <<>> /\ XY # <<>>
  OBVIOUS
<1>1. /\ Append(<<>>, a) = A /\ Append(<<>>, x) = X /\ Append(X, y) = XY
      /\ Append(<<>>, A) = W /\ Append(W, X) = AX /\ Append(W, XY) = AXY
  BY Joined, Zenon
<1> HIDE DEF A, X, XY, AX, AXY, W
<1>2. /\ parted(Split(<<>>, <<>>), a) = Split(<<>>, A)
      /\ parted(Split(<<>>, A), SPACE) = Split(W, <<>>)
      /\ parted(Split(W, <<>>), x) = Split(W, X)
      /\ parted(Split(W, X), y) = Split(W, XY)
  <2>1. parted(Split(<<>>, <<>>), a) = Split(<<>>, Append(<<>>, a))
    BY <1>P, WordGoesOn, Zenon
  <2>2. parted(Split(<<>>, A), SPACE) = Split(Append(<<>>, A), <<>>)
    BY <1>0, WordEnds, Zenon
  <2>3. parted(Split(W, <<>>), x) = Split(W, Append(<<>>, x))
    BY <1>P, WordGoesOn, Zenon
  <2>4. parted(Split(W, X), y) = Split(W, Append(X, y))
    BY <1>P, WordGoesOn, Zenon
  <2> QED BY <1>1, <2>1, <2>2, <2>3, <2>4, Zenon
<1>3. /\ word_ends(Split(<<>>, A)).words = W
      /\ word_ends(Split(W, X)).words = AX
      /\ word_ends(Split(W, XY)).words = AXY
  <2>1. /\ word_ends(Split(<<>>, A)).words = Append(<<>>, A)
        /\ word_ends(Split(W, X)).words = Append(W, X)
        /\ word_ends(Split(W, XY)).words = Append(W, XY)
    BY <1>0, WordEnds, Zenon
  <2> QED BY <1>1, <2>1, Zenon
<1>4. split_control_line(A) = W
  <2>1. Len(A) = 1 /\ A[1] = a
    BY DEF A
  <2>2. split_control_line(A) = word_ends(Split(<<>>, A)).words
    <3>1. Reading(A, Split(<<>>, A), A, A, A)
      BY <1>2, <2>1 DEF Reading
    <3> QED BY <2>1, <3>1, SplitIs, Zenon
  <2> QED BY <1>3, <2>2, Zenon
<1>5. split_control_line(<<a, SPACE, x>>) = AX
  <2>1. PICK b, c1, c2, c3 : /\ b = <<a, SPACE, x>> /\ c1 = Split(<<>>, A)
                            /\ c2 = Split(W, <<>>) /\ c3 = Split(W, X)
    OBVIOUS
  <2>2. Len(b) = 3 /\ b[1] = a /\ b[2] = SPACE /\ b[3] = x
    BY <2>1
  <2>3. /\ c1 = parted(Split(<<>>, <<>>), b[1])
        /\ c2 = parted(c1, b[2])
        /\ c3 = parted(c2, b[3])
    BY <1>2, <2>1, <2>2, Zenon
  <2> HIDE <2>1
  <2>4. split_control_line(b) = word_ends(c3).words
    <3>1. Reading(b, c1, c2, c3, c3)
      BY <2>2, <2>3 DEF Reading
    <3> QED BY <2>2, <3>1, SplitIs, Zenon
  <2> QED BY <1>3, <2>1, <2>4, Zenon
<1>6. split_control_line(<<a, SPACE, x, y>>) = AXY
  <2>1. PICK b, c1, c2, c3, c4 :
            /\ b = <<a, SPACE, x, y>> /\ c1 = Split(<<>>, A)
            /\ c2 = Split(W, <<>>) /\ c3 = Split(W, X) /\ c4 = Split(W, XY)
    OBVIOUS
  <2>2. Len(b) = 4 /\ b[1] = a /\ b[2] = SPACE /\ b[3] = x /\ b[4] = y
    BY <2>1
  <2>3. /\ c1 = parted(Split(<<>>, <<>>), b[1])
        /\ c2 = parted(c1, b[2])
        /\ c3 = parted(c2, b[3])
        /\ c4 = parted(c3, b[4])
    BY <1>2, <2>1, <2>2, Zenon
  <2> HIDE <2>1
  <2>4. split_control_line(b) = word_ends(c4).words
    <3>1. Reading(b, c1, c2, c3, c4)
      BY <2>2, <2>3 DEF Reading
    <3> QED BY <2>2, <3>1, SplitIs, Zenon
  <2> QED BY <1>3, <2>1, <2>4, Zenon
<1> QED BY <1>4, <1>5, <1>6 DEF A, W, X, AX, XY, AXY, SplitsInTwo

\* A number that is read is the number that was written.
LEMMA UnsignedIs ==
    ASSUME NEW max \in Nat, 0..max \subseteq Numerals, NEW word, NEW n \in parse_unsigned(word, max)
    PROVE  /\ n \in 0..max /\ Plain(ToString(n)) /\ ToString(n) \notin {"-", "+"}
           /\ parse_unsigned(word, max) = {n}
           /\ parse_unsigned(<<ToString(n)>>, max) = {n}
<1>1. n \in 0..max /\ word = <<ToString(n)>>
  BY DEF parse_unsigned
<1>2. \A m \in 0..max : ToString(m) = ToString(n) => m = n
  BY <1>1, NumeralsAssumption, Zenon
<1>3. \A m : <<ToString(m)>> = <<ToString(n)>> => ToString(m) = ToString(n)
  OBVIOUS
<1>4. parse_unsigned(<<ToString(n)>>, max) = {n}
  BY <1>1, <1>2, <1>3 DEF parse_unsigned
<1>5. Plain(ToString(n)) /\ ToString(n) \notin {"-", "+"}
  <2>1. n \in Numerals
    BY <1>1
  <2>2. ToString(n) \notin {SPACE, NL, CR, NUL, "-", "+"}
    BY <2>1, NumeralsAssumption, Zenon
  <2> QED BY <2>2 DEF Plain
<1> QED BY <1>1, <1>4, <1>5

\* A sign and what comes after it.
LEMMA Signed ==
    ASSUME NEW a, NEW x
    PROVE  <<a, x>> # <<>> /\ Head(<<a, x>>) = a /\ Tail(<<a, x>>) = <<x>>
<1> DEFINE s == Tail(<<a, x>>)
           t == <<x>>
<1>1. s \in Seq({a, x}) /\ Len(s) = 1 /\ s[1] = x
  OBVIOUS
<1>2. t \in Seq({a, x}) /\ Len(t) = 1 /\ t[1] = x
  OBVIOUS
<1>3. <<a, x>> # <<>> /\ Head(<<a, x>>) = a
  OBVIOUS
<1> HIDE DEF s, t
<1>4. \A i \in 1..Len(s) : s[i] = t[i]
  BY <1>1, <1>2
<1>5. s = t
  BY <1>1, <1>2, <1>4, SeqEqual
<1> QED BY <1>3, <1>5 DEF s, t

\* And so is one with a sign, whichever way it was typed.
LEMMA Int32Is ==
    ASSUME NEW word, NEW n \in parse_int32(word)
    PROVE  /\ n \in Int /\ parse_int32(word) = {n} /\ parse_int32(numeral(n)) = {n}
           /\ \E x : Plain(x) /\ (numeral(n) = <<x>> \/ numeral(n) = <<"-", x>>)
<1>1. /\ INT32_MAX \in Nat /\ INT32_MAX + 1 \in Nat
      /\ 0..INT32_MAX \subseteq Numerals /\ 0..(INT32_MAX + 1) \subseteq Numerals
  BY ProtocolAssumption DEF Numerals
<1>2. ASSUME NEW m \in 0..(INT32_MAX + 1), parse_unsigned(<<ToString(m)>>, INT32_MAX + 1) = {m},
             m > 0, Plain(ToString(m))
      PROVE  /\ parse_int32(numeral(-m)) = {-m}
             /\ numeral(-m) = <<"-", ToString(m)>>
  <2>1. numeral(-m) = <<"-", ToString(m)>>
    <3>1. -m < 0 /\ -(-m) = m
      BY <1>2
    <3> QED BY <3>1 DEF numeral
  <2>2. PICK t, x : t = <<"-", x>> /\ x = ToString(m)
    OBVIOUS
  <2>3. t # <<>> /\ Head(t) = "-" /\ Tail(t) = <<x>>
    BY <2>2, Signed, Zenon
  <2>4. parse_int32(t) = {-k : k \in parse_unsigned(Tail(t), INT32_MAX + 1)}
    BY <2>3 DEF parse_int32
  <2>5. parse_int32(t) = {-k : k \in {m}}
    BY <1>2, <2>2, <2>3, <2>4, Zenon
  <2>6. {-k : k \in {m}} = {-m}
    OBVIOUS
  <2> QED BY <2>1, <2>2, <2>5, <2>6, Zenon
<1>3. ASSUME NEW m \in 0..INT32_MAX, Plain(ToString(m)), ToString(m) \notin {"-", "+"},
             parse_unsigned(<<ToString(m)>>, INT32_MAX) = {m}
      PROVE  parse_int32(numeral(m)) = {m} /\ numeral(m) = <<ToString(m)>>
  <2>1. numeral(m) = <<ToString(m)>>
    BY DEF numeral
  <2>2. PICK t, x : t = <<x>> /\ x = ToString(m)
    OBVIOUS
  <2>3. Head(t) # "-" /\ Head(t) # "+"
    BY <1>3, <2>2
  <2>4. parse_int32(t) = parse_unsigned(t, INT32_MAX)
    BY <2>3 DEF parse_int32
  <2> QED BY <1>3, <2>1, <2>2, <2>4, Zenon
<1>4. CASE word # <<>> /\ Head(word) = "-"
  <2>1. parse_int32(word) = {-k : k \in parse_unsigned(Tail(word), INT32_MAX + 1)}
    BY <1>4 DEF parse_int32
  <2>2. PICK m \in parse_unsigned(Tail(word), INT32_MAX + 1) : n = -m
    BY <2>1
  <2>3. /\ m \in 0..(INT32_MAX + 1) /\ Plain(ToString(m)) /\ ToString(m) \notin {"-", "+"}
        /\ parse_unsigned(Tail(word), INT32_MAX + 1) = {m}
        /\ parse_unsigned(<<ToString(m)>>, INT32_MAX + 1) = {m}
    BY <1>1, <2>2, UnsignedIs
  <2>4. parse_int32(word) = {n}
    BY <2>1, <2>2, <2>3
  <2>5. CASE m > 0
    BY <1>2, <2>2, <2>3, <2>4, <2>5
  <2>6. CASE ~ (m > 0)
    <3>1. m = 0 /\ n = 0 /\ 0 \in 0..INT32_MAX
      BY <1>1, <2>2, <2>3, <2>6
    <3>2. 0 \in parse_unsigned(<<ToString(0)>>, INT32_MAX)
      BY <3>1 DEF parse_unsigned
    <3>3. parse_unsigned(<<ToString(0)>>, INT32_MAX) = {0}
      BY <1>1, <3>2, UnsignedIs
    <3>4. parse_int32(numeral(0)) = {0} /\ numeral(0) = <<ToString(0)>>
      BY <1>3, <2>3, <3>1, <3>3
    <3> QED BY <2>3, <2>4, <3>1, <3>4
  <2> QED BY <2>5, <2>6
<1>5. CASE ~ (word # <<>> /\ Head(word) = "-")
  <2>1. PICK w : parse_int32(word) = parse_unsigned(w, INT32_MAX)
    <3>1. CASE word # <<>> /\ Head(word) = "+"
      BY <1>5, <3>1 DEF parse_int32
    <3>2. CASE ~ (word # <<>> /\ Head(word) = "+")
      BY <1>5, <3>2 DEF parse_int32
    <3> QED BY <3>1, <3>2
  <2>2. /\ n \in 0..INT32_MAX /\ Plain(ToString(n)) /\ ToString(n) \notin {"-", "+"}
        /\ parse_unsigned(w, INT32_MAX) = {n}
        /\ parse_unsigned(<<ToString(n)>>, INT32_MAX) = {n}
    BY <1>1, <2>1, UnsignedIs
  <2> QED BY <1>1, <1>3, <2>1, <2>2
<1> QED BY <1>4, <1>5

\* What the value of a request is written as.
Value(command, v) ==
    IF command \in Numeric THEN numeral(v.number) ELSE <<v.word>>

\* A value that a word is read as is the one it has, and the one that what is written of
\* it is read as.
LEMMA ArgumentIs ==
    ASSUME NEW command \in control_subcommands \ Bare, NEW word, NEW v \in argument(command, word)
    PROVE  /\ argument(command, word) = {v} /\ argument(command, Value(command, v)) = {v}
           /\ \E x : Plain(x) /\ (Value(command, v) = <<x>> \/ Value(command, v) = <<"-", x>>)
<1>1. command \in {"vol", "delay", "seek", "seek-rel", "mute", "shuffle", "repeat"}
  BY DEF control_subcommands
<1>2. /\ MAX_VOLUME \in Nat /\ MAX_STATIC_DELAY_MS \in Nat /\ 2 * INT32_MAX + 1 \in Nat
      /\ 0..MAX_VOLUME \subseteq Numerals /\ 0..MAX_STATIC_DELAY_MS \subseteq Numerals
      /\ 0..(2 * INT32_MAX + 1) \subseteq Numerals
  BY ProtocolAssumption DEF Numerals
<1>3. ASSUME NEW max \in Nat, 0..max \subseteq Numerals, command \in Numeric,
             \A w : argument(command, w) = numbers(parse_unsigned(w, max))
      PROVE  /\ argument(command, word) = {v} /\ argument(command, Value(command, v)) = {v}
             /\ \E x : Plain(x) /\ Value(command, v) = <<x>>
  <2>1. PICK n \in parse_unsigned(word, max) : v = [number |-> n, word |-> Nothing]
    BY <1>3 DEF numbers
  <2>2. /\ n \in 0..max /\ Plain(ToString(n))
        /\ parse_unsigned(word, max) = {n} /\ parse_unsigned(<<ToString(n)>>, max) = {n}
    BY <1>3, UnsignedIs
  <2>3. Value(command, v) = <<ToString(n)>>
    <3>1. v.number = n /\ ~ (n < 0)
      BY <2>1, <2>2
    <3> QED BY <1>3, <3>1 DEF Value, numeral
  <2>4. numbers({n}) = {v}
    BY <2>1 DEF numbers
  <2> QED BY <1>3, <2>2, <2>3, <2>4, Zenon
<1>4. ASSUME NEW accepted, \A w \in accepted : Plain(w), command \notin Numeric,
             \A w : argument(command, w) = words_of(parse_word(w, accepted))
      PROVE  /\ argument(command, word) = {v} /\ argument(command, Value(command, v)) = {v}
             /\ \E x : Plain(x) /\ Value(command, v) = <<x>>
  <2>1. PICK w \in parse_word(word, accepted) : v = [number |-> 0, word |-> w]
    BY <1>4 DEF words_of
  <2>2. w \in accepted /\ word = <<w>>
    BY <2>1 DEF parse_word
  <2>3. parse_word(<<w>>, accepted) = {w}
    BY <2>2 DEF parse_word
  <2>4. Value(command, v) = <<w>>
    BY <1>4, <2>1 DEF Value
  <2>5. words_of({w}) = {v}
    BY <2>1 DEF words_of
  <2> QED BY <1>4, <2>2, <2>3, <2>4, <2>5, Zenon
<1>5. CASE command = "vol"
  <2>1. command \in Numeric /\ \A w : argument(command, w) = numbers(parse_unsigned(w, MAX_VOLUME))
    BY <1>5 DEF argument, Numeric
  <2> QED BY <1>2, <1>3, <2>1
<1>6. CASE command = "delay"
  <2>1. /\ command \in Numeric
        /\ \A w : argument(command, w) = numbers(parse_unsigned(w, MAX_STATIC_DELAY_MS))
    BY <1>6 DEF argument, Numeric
  <2> QED BY <1>2, <1>3, <2>1
<1>7. CASE command = "seek"
  <2>1. /\ command \in Numeric
        /\ \A w : argument(command, w) = numbers(parse_unsigned(w, 2 * INT32_MAX + 1))
    BY <1>7 DEF argument, Numeric
  <2> QED BY <1>2, <1>3, <2>1
<1>8. CASE command = "seek-rel"
  <2>1. command \in Numeric /\ \A w : argument(command, w) = numbers(parse_int32(w))
    BY <1>8 DEF argument, Numeric
  <2>2. PICK n \in parse_int32(word) : v = [number |-> n, word |-> Nothing]
    BY <2>1 DEF numbers
  <2>3. /\ parse_int32(word) = {n} /\ parse_int32(numeral(n)) = {n}
        /\ \E x : Plain(x) /\ (numeral(n) = <<x>> \/ numeral(n) = <<"-", x>>)
    BY Int32Is
  <2>4. Value(command, v) = numeral(n)
    BY <2>1, <2>2 DEF Value
  <2>5. numbers({n}) = {v}
    BY <2>2 DEF numbers
  <2> QED BY <2>1, <2>3, <2>4, <2>5, Zenon
<1>9. CASE command \in {"mute", "shuffle"}
  <2>1. /\ command \notin Numeric
        /\ \A w : argument(command, w) = words_of(parse_word(w, {"on", "off"}))
    BY <1>9 DEF argument, Numeric
  <2>2. \A w \in {"on", "off"} : Plain(w)
    BY DEF Plain, SPACE, NL, CR, NUL
  <2> QED BY <1>4, <2>1, <2>2
<1>10. CASE command = "repeat"
  <2>1. /\ command \notin Numeric
        /\ \A w : argument(command, w) = words_of(parse_word(w, {"off", "one", "all"}))
    BY <1>10 DEF argument, Numeric
  <2>2. \A w \in {"off", "one", "all"} : Plain(w)
    BY DEF Plain, SPACE, NL, CR, NUL
  <2> QED BY <1>4, <2>1, <2>2
<1> QED BY <1>1, <1>5, <1>6, <1>7, <1>8, <1>9, <1>10

\* The requests of a command with the values it may have.
Requests(c, values) == {[command |-> c, value |-> v] : v \in values}

\* The values that words give a command.
ValuesOf(c, words) == IF arity(c) = 0 THEN words_of({Nothing}) ELSE argument(c, words[2])

\* Words are a request, or are none.
LEMMA ParseIs ==
    ASSUME NEW words
    PROVE  /\ \A c \in control_subcommands :
                (words # <<>> /\ Len(words[1]) = 1 /\ words[1][1] = c /\ Len(words) = 1 + arity(c))
                    => parse_control_request(words) = Requests(c, ValuesOf(c, words))
           /\ parse_control_request(words) # {} =>
                \E c \in control_subcommands :
                    parse_control_request(words) = Requests(c, ValuesOf(c, words))
<1>1. ASSUME NEW c \in control_subcommands, words # <<>>, Len(words[1]) = 1,
             words[1][1] = c, Len(words) = 1 + arity(c)
      PROVE  parse_control_request(words) = Requests(c, ValuesOf(c, words))
  BY <1>1, Zenon DEF parse_control_request, Requests, ValuesOf
<1>2. ASSUME parse_control_request(words) # {}
      PROVE  \E c \in control_subcommands :
                 parse_control_request(words) = Requests(c, ValuesOf(c, words))
  <2> DEFINE none == words = <<>> \/ Len(words[1]) # 1 \/ words[1][1] \notin control_subcommands
                     \/ Len(words) # 1 + arity(words[1][1])
  <2>1. ~ none
    BY <1>2, Zenon DEF parse_control_request
  <2> QED BY <1>1, <2>1, Zenon
<1> QED BY <1>1, <1>2, Zenon

\* A command's name is a byte like others, and its arity what there is to write of it.
LEMMA CommandIs ==
    ASSUME NEW c \in control_subcommands
    PROVE  /\ Plain(c) /\ arity(c) \in {0, 1}
           /\ arity(c) = 0 \/ (arity(c) = 1 /\ c \in control_subcommands \ Bare)
<1>1. Plain(c)
  BY DEF control_subcommands, Bare, Plain, SPACE, NL, CR, NUL
<1>2. arity(c) = IF c \in Bare THEN 0 ELSE 1
  BY Zenon DEF arity
<1> QED BY <1>1, <1>2

\* Some bytes that are a line: a name, and at most a value of two.
Short(bytes) ==
    \E a, x, y : /\ Plain(a) /\ Plain(x) /\ Plain(y)
               /\ bytes \in {<<a>>, <<a, SPACE, x>>, <<a, SPACE, x, y>>}

\* A request that words are parsed as is the only one, and the one that its own line is
\* parsed as.
LEMMA RequestIs ==
    ASSUME NEW words, NEW r \in parse_control_request(words)
    PROVE  /\ parse_control_request(words) = {r}
           /\ parse_control_request(split_control_line(encode_control_request(r))) = {r}
           /\ Short(encode_control_request(r))
<1>1. PICK c \in control_subcommands :
          parse_control_request(words) = Requests(c, ValuesOf(c, words))
  BY ParseIs
<1>2. PICK v \in ValuesOf(c, words) : r = [command |-> c, value |-> v]
  BY <1>1, Zenon DEF Requests
<1>3. Plain(c) /\ arity(c) \in {0, 1}
      /\ (arity(c) = 0 \/ (arity(c) = 1 /\ c \in control_subcommands \ Bare))
  BY CommandIs
<1>4. r.command = c /\ r.value = v
  BY <1>2
<1>5. encode_control_request(r) =
        <<c>> \o (IF arity(c) = 0 THEN <<>> ELSE <<SPACE>> \o Value(c, v))
  BY <1>4, Zenon DEF encode_control_request, Value
<1>6. c # SPACE
  BY <1>3 DEF Plain
<1>7. Requests(c, {v}) = {r}
  BY <1>2 DEF Requests
<1>8. CASE arity(c) = 0
  <2>1. encode_control_request(r) = <<c>>
    BY <1>5, <1>8, Joined, Zenon
  <2>2. split_control_line(<<c>>) = <<(<<c>>)>>
    BY <1>3, CommandSplit
  <2>3. PICK ws : ws = <<(<<c>>)>>
    OBVIOUS
  <2>4. ws # <<>> /\ Len(ws[1]) = 1 /\ ws[1][1] = c /\ Len(ws) = 1 + arity(c)
    BY <1>8, <2>3
  <2>5. parse_control_request(ws) = Requests(c, ValuesOf(c, ws))
    BY <2>4, ParseIs, Zenon
  <2>6. ValuesOf(c, ws) = words_of({Nothing}) /\ ValuesOf(c, words) = words_of({Nothing})
    BY <1>8, Zenon DEF ValuesOf
  <2>7. words_of({Nothing}) = {v}
    BY <1>2, <2>6 DEF words_of
  <2>8. Short(<<c>>)
    BY <1>3, Zenon DEF Short
  <2> QED BY <1>1, <1>7, <2>1, <2>2, <2>3, <2>5, <2>6, <2>7, <2>8, Zenon
<1>9. CASE arity(c) = 1 /\ c \in control_subcommands \ Bare
  <2>1. ValuesOf(c, words) = argument(c, words[2])
    BY <1>9 DEF ValuesOf
  <2>2. PICK x : /\ argument(c, words[2]) = {v} /\ argument(c, Value(c, v)) = {v}
                 /\ Plain(x) /\ (Value(c, v) = <<x>> \/ Value(c, v) = <<"-", x>>)
    <3>1. PICK w : w = words[2]
      OBVIOUS
    <3>2. v \in argument(c, w) /\ c \in control_subcommands \ Bare
      BY <1>2, <1>9, <2>1, <3>1
    <3>3. /\ argument(c, w) = {v} /\ argument(c, Value(c, v)) = {v}
          /\ \E x : Plain(x) /\ (Value(c, v) = <<x>> \/ Value(c, v) = <<"-", x>>)
      BY <3>2, ArgumentIs
    <3> QED BY <3>1, <3>3, Zenon
  <2>3. PICK s : s = "-"
    OBVIOUS
  <2>4. Plain(s)
    BY <2>3 DEF Plain, SPACE, NL, CR, NUL
  <2>5. s # SPACE /\ x # SPACE
    BY <2>2, <2>4 DEF Plain
  <2>6. encode_control_request(r) = <<c>> \o (<<SPACE>> \o Value(c, v))
    BY <1>5, <1>9
  <2>7. \/ encode_control_request(r) = <<c, SPACE, x>> /\ Value(c, v) = <<x>>
        \/ encode_control_request(r) = <<c, SPACE, s, x>> /\ Value(c, v) = <<s, x>>
    <3>1. <<c>> \o (<<SPACE>> \o <<x>>) = <<c, SPACE, x>>
      BY Joined, Zenon
    <3>2. <<c>> \o (<<SPACE>> \o <<s, x>>) = <<c, SPACE, s, x>>
      BY JoinedFour
    <3> QED BY <2>2, <2>3, <2>6, <3>1, <3>2, Zenon
  <2>8. split_control_line(encode_control_request(r)) = <<(<<c>>), Value(c, v)>>
    <3>1. /\ split_control_line(<<c, SPACE, x>>) = <<(<<c>>), <<x>>>>
          /\ split_control_line(<<c, SPACE, s, x>>) = <<(<<c>>), <<s, x>>>>
      <4>1. split_control_line(<<c, SPACE, x>>) = <<(<<c>>), <<x>>>>
        BY <1>3, <2>2, CommandSplit
      <4>2. split_control_line(<<c, SPACE, s, x>>) = <<(<<c>>), <<s, x>>>>
        <5>1. SplitsInTwo(c, s, x)
          BY <1>3, <2>2, <2>4, CommandSplit, Zenon
        <5> QED BY <5>1 DEF SplitsInTwo
      <4> QED BY <4>1, <4>2
    <3> QED BY <2>7, <3>1, Zenon
  <2>9. PICK ws, val : ws = <<(<<c>>), val>> /\ val = Value(c, v)
    OBVIOUS
  <2>10. ws # <<>> /\ Len(ws[1]) = 1 /\ ws[1][1] = c /\ Len(ws) = 1 + arity(c) /\ ws[2] = val
    BY <1>9, <2>9
  <2>11. parse_control_request(ws) = Requests(c, ValuesOf(c, ws))
    BY <2>10, ParseIs, Zenon
  <2>12. ValuesOf(c, ws) = argument(c, val)
    BY <1>9, <2>10 DEF ValuesOf
  <2>13. Short(encode_control_request(r))
    BY <1>3, <2>2, <2>4, <2>7, Zenon DEF Short
  <2> QED BY <1>1, <1>7, <2>1, <2>2, <2>8, <2>9, <2>11, <2>12, <2>13, Zenon
<1> QED BY <1>3, <1>8, <1>9

\* A line that fits, with a newline after it and nothing in it that ends it, is found.
LEMMA WholeLine ==
    ASSUME NEW S, NEW b \in Seq(S), Len(b) \in 1..MAX_CONTROL_LINE_BYTES,
           \A i \in 1..Len(b) : b[i] \notin {NL, NUL}, b[Len(b)] # CR
    PROVE  /\ LineIn(b \o <<NL>>) = [state |-> "Ready", line |-> b]
           /\ b \o <<NL>> \in Seq(S \cup {NL})
<1> DEFINE w == b \o <<NL>>
           end == line_ends(w)
           n == Len(b)
<1>1. /\ w \in Seq(S \cup {NL}) /\ Len(w) = n + 1 /\ w[n + 1] = NL /\ n \in Nat /\ n > 0
      /\ \A i \in 1..n : w[i] = b[i]
  OBVIOUS
<1>2. SubSeq(w, 1, n) = b
  <2>1. /\ SubSeq(w, 1, n) \in Seq(S \cup {NL}) /\ Len(SubSeq(w, 1, n)) = n
        /\ \A i \in 1..n : SubSeq(w, 1, n)[i] = w[i]
    <3> HIDE DEF w
    <3> QED BY <1>1
  <2>2. b \in Seq(S \cup {NL})
    OBVIOUS
  <2> HIDE DEF w
  <2> QED BY <1>1, <2>1, <2>2, SeqEqual
<1>3. stripped(b) = b
  BY DEF stripped, Last
<1> HIDE DEF w
<1>4. /\ end \in 1..(Len(w) + 1)
      /\ end <= Len(w) => w[end] \in {NL, NUL}
      /\ \A i \in 1..Len(w) : i < end => w[i] \notin {NL, NUL}
  BY <1>1, LineEnds
<1>5. end = n + 1
  <2> HIDE DEF end
  <2>1. ~ (end <= n)
    BY <1>1, <1>4
  <2>2. ~ (end > n + 1)
    BY <1>1, <1>4
  <2> QED BY <1>1, <1>4, <2>1, <2>2
<1>6. LineIn(w) =
        IF end - 1 > MAX_CONTROL_LINE_BYTES THEN [state |-> "TooLong", line |-> <<>>]
        ELSE IF end <= Len(w) /\ w[end] = NUL THEN [state |-> "Invalid", line |-> <<>>]
        ELSE [state |-> "Ready", line |-> stripped(SubSeq(w, 1, end - 1))]
  BY Zenon DEF LineIn
<1> HIDE DEF end
<1>7. ~ (end - 1 > MAX_CONTROL_LINE_BYTES) /\ w[end] = NL /\ end - 1 = n
  BY <1>1, <1>5, ProtocolAssumption
<1>8. NL # NUL
  BY DEF NL, NUL
<1>9. LineIn(w) = [state |-> "Ready", line |-> b]
  BY <1>2, <1>3, <1>6, <1>7, <1>8
<1> QED BY <1>1, <1>9 DEF w

\* The line of a request is such a one.
LEMMA ShortLine ==
    ASSUME NEW bytes, Short(bytes)
    PROVE  /\ LineIn(bytes \o <<NL>>) = [state |-> "Ready", line |-> bytes]
           /\ \E S : bytes \o <<NL>> \in Seq(S)
<1>1. PICK a, x, y : /\ Plain(a) /\ Plain(x) /\ Plain(y)
                    /\ bytes \in {<<a>>, <<a, SPACE, x>>, <<a, SPACE, x, y>>}
  BY DEF Short
<1> DEFINE S == {a, SPACE, x, y}
<1>2. bytes \in Seq(S) /\ Len(bytes) \in 1..4 /\ bytes[Len(bytes)] \in {a, x, y}
  <2>1. CASE bytes = <<a>>
    BY <2>1
  <2>2. CASE bytes = <<a, SPACE, x>>
    BY <2>2
  <2>3. CASE bytes = <<a, SPACE, x, y>>
    BY <2>3
  <2> QED BY <1>1, <2>1, <2>2, <2>3
<1>3. \A z \in S : z \notin {NL, NUL}
  BY <1>1 DEF Plain, SPACE, NL, NUL
<1>4. bytes[Len(bytes)] # CR
  BY <1>1, <1>2 DEF Plain
<1> HIDE DEF S
<1>5. \A i \in 1..Len(bytes) : bytes[i] \notin {NL, NUL}
  BY <1>2, <1>3
<1>6. Len(bytes) \in 1..MAX_CONTROL_LINE_BYTES
  <2>1. \A n \in 1..4 : n \in 1..MAX_CONTROL_LINE_BYTES
    BY ProtocolAssumption
  <2> QED BY <1>2, <2>1, Zenon
<1> QED BY <1>2, <1>4, <1>5, <1>6, WholeLine

-----------------------------------------------------------------------------
(* The invariant of a conversation.                                         *)

\* What has been written is a sequence, and what has been read is some of it.
WireInv ==
    /\ wire \in Seq({wire[i] : i \in DOMAIN wire})
    /\ delivered \in 0..Len(wire)

\* In the shell nothing is said yet; until the line has come, what the player holds is
\* what the bytes so far make of it.
HeldInv ==
    /\ phase = "shell" =>
          /\ typed = {} /\ wire = <<>> /\ delivered = 0
          /\ buffer = <<>> /\ state = "Incomplete" /\ line = <<>>
    /\ phase = "sending" =>
          /\ state = "Incomplete"
          /\ [state |-> state, buffer |-> buffer, line |-> line] = After(wire, delivered)

\* A request is the one that its own line is parsed as.
Sent(r) ==
    /\ wire = encode_control_request(r) \o <<NL>>
    /\ parse_control_request(split_control_line(encode_control_request(r))) = {r}
    /\ Short(encode_control_request(r))

TypedInv == phase = "sending" => typed = {} \/ \E r \in typed : typed = {r} /\ Sent(r)

LineInv == WireInv /\ HeldInv /\ TypedInv /\ LineArrives

\* A sequence is one of what is in it.
LEMMA OfItsOwn ==
    ASSUME NEW S, NEW w \in Seq(S)
    PROVE  w \in Seq({w[i] : i \in DOMAIN w})
  OBVIOUS

\* Before anything is read the player holds nothing; a read that is over has found the
\* line; and one that all bytes have not ended holds them all, as the line they are.
LEMMA AfterIs ==
    ASSUME NEW S, NEW bytes \in Seq(S), NEW k \in 0..Len(bytes)
    PROVE  /\ After(bytes, 0) = [state |-> "Incomplete", buffer |-> <<>>, line |-> <<>>]
           /\ After(bytes, k).state # "Incomplete" =>
                [state |-> After(bytes, k).state, line |-> After(bytes, k).line] = LineIn(bytes)
           /\ After(bytes, Len(bytes)).state = "Incomplete" =>
                LineIn(bytes) = [state |-> "Ready",
                                 line |-> stripped(After(bytes, Len(bytes)).buffer)]
<1> DEFINE end == line_ends(bytes)
           stop == Stop(bytes)
<1>1. /\ end \in 1..(Len(bytes) + 1) /\ Len(bytes) \in Nat
      /\ stop \in 1..end
      /\ stop = IF end - 1 > MAX_CONTROL_LINE_BYTES THEN MAX_CONTROL_LINE_BYTES + 1 ELSE end
      /\ MAX_CONTROL_LINE_BYTES \in Nat
  BY LineEnds, ProtocolAssumption DEF Stop
<1>2. LineIn(bytes) =
        IF end - 1 > MAX_CONTROL_LINE_BYTES THEN [state |-> "TooLong", line |-> <<>>]
        ELSE IF end <= Len(bytes) /\ bytes[end] = NUL THEN [state |-> "Invalid", line |-> <<>>]
        ELSE [state |-> "Ready", line |-> stripped(SubSeq(bytes, 1, end - 1))]
  BY Zenon DEF LineIn
<1>3. /\ LineIn(bytes).state # "Incomplete"
      /\ [state |-> LineIn(bytes).state, line |-> LineIn(bytes).line] = LineIn(bytes)
  <2>1. PICK st, li : LineIn(bytes) = [state |-> st, line |-> li]
                      /\ st \in {"TooLong", "Invalid", "Ready"}
    BY <1>2
  <2> QED BY <2>1
<1> HIDE DEF end, stop
<1>4. \A n \in 0..Len(bytes) : n < stop =>
        After(bytes, n) = [state |-> "Incomplete", buffer |-> SubSeq(bytes, 1, n), line |-> <<>>]
  BY Zenon DEF After, stop
<1>5. \A n \in 0..Len(bytes) : ~ (n < stop) =>
        /\ After(bytes, n).state = LineIn(bytes).state
        /\ After(bytes, n).line = LineIn(bytes).line
  BY DEF After, stop
<1>6. After(bytes, 0) = [state |-> "Incomplete", buffer |-> <<>>, line |-> <<>>]
  <2>1. 0 < stop /\ 0 \in 0..Len(bytes)
    BY <1>1
  <2>2. SubSeq(bytes, 1, 0) = <<>>
    OBVIOUS
  <2> QED BY <1>4, <2>1, <2>2
<1>7. ASSUME After(bytes, k).state # "Incomplete"
      PROVE  [state |-> After(bytes, k).state, line |-> After(bytes, k).line] = LineIn(bytes)
  <2>1. ~ (k < stop)
    BY <1>4, <1>7
  <2> QED BY <1>3, <1>5, <2>1
<1>8. ASSUME After(bytes, Len(bytes)).state = "Incomplete"
      PROVE  LineIn(bytes) = [state |-> "Ready",
                              line |-> stripped(After(bytes, Len(bytes)).buffer)]
  <2>1. Len(bytes) \in 0..Len(bytes)
    BY <1>1
  <2>2. Len(bytes) < stop
    BY <1>3, <1>5, <1>8, <2>1
  <2>3. end = Len(bytes) + 1 /\ ~ (end - 1 > MAX_CONTROL_LINE_BYTES)
    BY <1>1, <2>2
  <2>4. After(bytes, Len(bytes)).buffer = SubSeq(bytes, 1, Len(bytes))
    BY <1>4, <2>1, <2>2
  <2>5. LineIn(bytes) = [state |-> "Ready", line |-> stripped(SubSeq(bytes, 1, end - 1))]
    <3>1. ~ (end <= Len(bytes))
      BY <1>1, <2>3
    <3> QED BY <1>2, <2>3, <3>1, Zenon
  <2>6. end - 1 = Len(bytes)
    BY <1>1, <2>3
  <2> QED BY <2>4, <2>5, <2>6
<1> QED BY <1>6, <1>7, <1>8

\* A line that is one request's is handled as that.
LEMMA Handled ==
    ASSUME NEW bytes, NEW r, parse_control_request(split_control_line(bytes)) = {r}
    PROVE  handle_control_request(bytes).asked = {r}
<1> DEFINE requests == parse_control_request(split_control_line(bytes))
           request == CHOOSE q \in requests : TRUE
           refusal == IF source_only /\ request.command # "status" THEN "unsupported"
                      ELSE control_refusal(request)
<1>1. PICK did, status : handle_control_request(bytes) =
                           [asked |-> requests, did |-> did, status |-> status]
  <2>1. requests # {}
    OBVIOUS
  <2> QED BY <2>1, Zenon DEF handle_control_request
<1> QED BY <1>1

\* Nothing of a read is lost, and its line is the first of what was written.
LEMMA ReadsKeeps ==
    ASSUME LineInv, NEW got, Reads(got), delivered' \in 0..Len(wire),
           got.state = "Incomplete" => got = After(wire, delivered'),
           got.state # "Incomplete" => [state |-> got.state, line |-> got.line] = LineIn(wire),
           got = [state |-> got.state, buffer |-> got.buffer, line |-> got.line]
    PROVE  LineInv'
<1>1. /\ phase = "sending" /\ UNCHANGED <<typed, wire>>
      /\ state' = got.state /\ buffer' = got.buffer /\ line' = got.line
      /\ phase' \in {"sending", "answered"}
      /\ phase' = "answered" <=> got.state # "Incomplete"
  BY DEF Reads
<1>2. WireInv'
  BY <1>1 DEF WireInv, LineInv
<1>3. CASE got.state = "Incomplete"
  <2>1. phase' = "sending"
    BY <1>1, <1>3
  <2>2. [state |-> state', buffer |-> buffer', line |-> line'] = After(wire', delivered')
    <3>1. [state |-> state', buffer |-> buffer', line |-> line'] = got
      BY <1>1, Zenon
    <3> QED BY <1>1, <1>3, <3>1, Zenon
  <2>3. HeldInv'
    BY <1>1, <1>3, <2>1, <2>2 DEF HeldInv
  <2>4. TypedInv'
    BY <1>1 DEF TypedInv, LineInv, Sent
  <2>5. LineArrives'
    BY <2>1 DEF LineArrives, RequestSurvives, AnyCutGivesTheLine
  <2> QED BY <1>2, <2>3, <2>4, <2>5 DEF LineInv
<1>4. CASE got.state # "Incomplete"
  <2>1. phase' = "answered"
    BY <1>1, <1>4
  <2>2. HeldInv' /\ TypedInv'
    BY <2>1 DEF HeldInv, TypedInv
  <2>3. AnyCutGivesTheLine'
    BY <1>1, <1>4, Zenon DEF AnyCutGivesTheLine, LineIn, line_ends
  <2>4. RequestSurvives'
    <3>1. SUFFICES ASSUME typed # {} PROVE outcome'.asked = typed
      BY <1>1 DEF RequestSurvives
    <3>2. PICK r : typed = {r} /\ Sent(r)
      BY <1>1, <3>1 DEF LineInv, TypedInv
    <3>3. LineIn(wire) = [state |-> "Ready", line |-> encode_control_request(r)]
      BY <3>2, ShortLine, Zenon DEF Sent
    <3>4. got.state = "Ready" /\ got.line = encode_control_request(r)
      <4>1. [state |-> got.state, line |-> got.line] =
               [state |-> "Ready", line |-> encode_control_request(r)]
        BY <1>4, <3>3
      <4> QED BY <4>1
    <3>5. outcome' = handle_control_request(got.line)
      BY <1>4, <3>4 DEF Reads
    <3>6. parse_control_request(split_control_line(got.line)) = {r}
      BY <3>2, <3>4, Zenon DEF Sent
    <3>7. handle_control_request(got.line).asked = {r}
      <4>1. PICK bytes : bytes = got.line
        OBVIOUS
      <4> QED BY <3>6, <4>1, Handled
    <3> QED BY <3>2, <3>5, <3>7
  <2> QED BY <1>2, <2>2, <2>3, <2>4 DEF LineInv, LineArrives
<1> QED BY <1>3, <1>4

LEMMA InitLineInv == ConversationInit => LineInv
<1> SUFFICES ASSUME ConversationInit PROVE LineInv
  OBVIOUS
<1>1. /\ phase = "shell" /\ typed = {} /\ wire = <<>> /\ delivered = 0
      /\ buffer = <<>> /\ state = "Incomplete" /\ line = <<>>
  BY DEF ConversationInit
<1>2. WireInv
  BY <1>1 DEF WireInv
<1> QED BY <1>1, <1>2 DEF LineInv, HeldInv, TypedInv, LineArrives, RequestSurvives,
           AnyCutGivesTheLine

\* What is written on a connection that nothing has been read from.
LEMMA WritesKeeps ==
    ASSUME LineInv, phase = "shell", phase' = "sending",
           NEW S, wire' \in Seq(S), UNCHANGED <<delivered, buffer, state, line>>,
           typed' = {} \/ \E r \in typed' : typed' = {r} /\ Sent(r)'
    PROVE  LineInv'
<1>1. delivered' = 0 /\ buffer' = <<>> /\ state' = "Incomplete" /\ line' = <<>>
  BY DEF LineInv, HeldInv
<1>2. WireInv'
  <2>1. PICK w : w = wire'
    OBVIOUS
  <2>2. w \in Seq({w[i] : i \in DOMAIN w}) /\ Len(w) \in Nat
    BY <2>1, OfItsOwn
  <2>3. 0 \in 0..Len(w)
    BY <2>2
  <2> QED BY <1>1, <2>1, <2>2, <2>3 DEF WireInv
<1>3. After(wire', 0) = [state |-> "Incomplete", buffer |-> <<>>, line |-> <<>>]
  <2>1. PICK w : w = wire'
    OBVIOUS
  <2>2. 0 \in 0..Len(w)
    BY <2>1
  <2>3. After(w, 0) = [state |-> "Incomplete", buffer |-> <<>>, line |-> <<>>]
    BY <2>1, <2>2, AfterIs
  <2> QED BY <2>1, <2>3
<1>4. HeldInv'
  BY <1>1, <1>3 DEF HeldInv
<1> QED BY <1>2, <1>4 DEF LineInv, TypedInv, LineArrives, RequestSurvives, AnyCutGivesTheLine

LEMMA NextLineInv == LineInv /\ [ConversationNext]_conversation => LineInv'
<1> SUFFICES ASSUME LineInv, [ConversationNext]_conversation PROVE LineInv'
  OBVIOUS
<1>1. CASE UNCHANGED <<phase, typed, connection, outcome>>
  <2>1. UNCHANGED <<phase, typed, wire, delivered, buffer, state, line, outcome>>
    BY <1>1 DEF connection
  <2> QED BY <2>1, Zenon DEF LineInv, WireInv, HeldInv, TypedInv, Sent, LineArrives, RequestSurvives,
             AnyCutGivesTheLine, LineIn, line_ends
<1>2. CASE ServerSpeaks \/ UNCHANGED conversation
  BY <1>1, <1>2 DEF ServerSpeaks, conversation
<1>3. ASSUME NEW words \in Typed, Types(words)
      PROVE  LineInv'
  <2>1. PICK asked : asked = parse_control_request(split_subcommand(words))
    OBVIOUS
  <2>2. /\ phase = "shell" /\ typed' = asked
        /\ UNCHANGED <<delivered, buffer, state, line>>
    BY <1>3, <2>1 DEF Types
  <2>3. CASE asked = {}
    <3>1. phase' = "exited" /\ UNCHANGED wire
      BY <1>3, <2>2, <2>3 DEF Types
    <3>2. WireInv'
      BY <2>2, <3>1 DEF WireInv, LineInv
    <3> QED BY <3>1, <3>2 DEF LineInv, HeldInv, TypedInv, LineArrives, RequestSurvives,
               AnyCutGivesTheLine
  <2>4. CASE asked # {}
    <3>1. PICK r : r \in asked
      BY <2>4
    <3>2. /\ asked = {r}
          /\ parse_control_request(split_control_line(encode_control_request(r))) = {r}
          /\ Short(encode_control_request(r))
      BY <2>1, <3>1, RequestIs
    <3>3. (CHOOSE q \in asked : TRUE) = r
      BY <3>2
    <3>4. phase' = "sending" /\ wire' = encode_control_request(r) \o <<NL>>
      BY <1>3, <2>2, <2>4, <3>3 DEF Types
    <3>5. PICK S : wire' \in Seq(S)
      BY <3>2, <3>4, ShortLine
    <3>6. Sent(r)'
      BY <3>2, <3>4 DEF Sent
    <3> QED BY <2>2, <3>2, <3>4, <3>5, <3>6, WritesKeeps
  <2> QED BY <2>3, <2>4
<1>4. ASSUME NEW bytes \in Peers, PeerWrites(bytes)
      PROVE  LineInv'
  <2>1. /\ phase = "shell" /\ phase' = "sending" /\ wire' = bytes
        /\ UNCHANGED <<typed, delivered, buffer, state, line>>
    BY <1>4 DEF PeerWrites
  <2>2. typed' = {} /\ wire' \in Seq(STRING)
    BY <1>4, <2>1, ProtocolAssumption DEF LineInv, HeldInv
  <2> QED BY <2>1, <2>2, WritesKeeps
<1>5. ASSUME NEW n \in 1..Len(wire), ReadsBytes(n)
      PROVE  LineInv'
  <2>1. /\ delivered + n <= Len(wire) /\ delivered' = delivered + n
        /\ Reads(feed(SubSeq(wire, delivered + 1, delivered + n)))
        /\ phase = "sending"
    BY <1>5 DEF ReadsBytes, Reads
  <2>2. PICK S : wire \in Seq(S) /\ delivered \in 0..Len(wire)
    BY DEF LineInv, WireInv
  <2>3. [state |-> "Incomplete", buffer |-> buffer, line |-> line] = After(wire, delivered)
    BY <2>1 DEF LineInv, HeldInv
  <2>4. feed(SubSeq(wire, delivered + 1, delivered + n)) = After(wire, delivered + n)
    BY <2>1, <2>2, <2>3, FeedIs
  <2>5. PICK got, k : got = After(wire, k) /\ k = delivered + n
    OBVIOUS
  <2>6. k \in 0..Len(wire) /\ delivered' = k /\ Reads(got)
    BY <2>1, <2>2, <2>4, <2>5
  <2>7. /\ got.state # "Incomplete" => [state |-> got.state, line |-> got.line] = LineIn(wire)
        /\ got = [state |-> got.state, buffer |-> got.buffer, line |-> got.line]
    <3>1. got.state # "Incomplete" => [state |-> got.state, line |-> got.line] = LineIn(wire)
      BY <2>2, <2>5, <2>6, AfterIs
    <3>2. PICK st, bu, li : got = [state |-> st, buffer |-> bu, line |-> li]
      BY <2>5 DEF After
    <3> QED BY <3>1, <3>2
  <2> QED BY <2>5, <2>6, <2>7, ReadsKeeps
<1>6. ASSUME ReadsTheEnd
      PROVE  LineInv'
  <2>1. /\ delivered = Len(wire) /\ buffer # <<>> /\ delivered' = delivered
        /\ Reads(finish) /\ phase = "sending"
    BY <1>6 DEF ReadsTheEnd, Reads
  <2>2. PICK S : wire \in Seq(S) /\ delivered \in 0..Len(wire)
    BY DEF LineInv, WireInv
  <2>3. finish = [state |-> "Ready", buffer |-> <<>>, line |-> stripped(buffer)]
    BY <2>1 DEF finish
  <2>4. [state |-> "Incomplete", buffer |-> buffer, line |-> line] = After(wire, delivered)
    BY <2>1 DEF LineInv, HeldInv
  <2>5. LineIn(wire) = [state |-> "Ready", line |-> stripped(buffer)]
    <3>1. After(wire, Len(wire)).state = "Incomplete" /\ After(wire, Len(wire)).buffer = buffer
      BY <2>1, <2>4
    <3>2. LineIn(wire) = [state |-> "Ready", line |-> stripped(After(wire, Len(wire)).buffer)]
      BY <2>2, <3>1, AfterIs
    <3> QED BY <3>1, <3>2, Zenon
  <2>6. PICK got : got = finish
    OBVIOUS
  <2>7. /\ got.state = "Ready" /\ got.line = stripped(buffer)
        /\ got = [state |-> got.state, buffer |-> got.buffer, line |-> got.line]
    BY <2>3, <2>6
  <2> QED BY <2>1, <2>2, <2>5, <2>6, <2>7, ReadsKeeps
<1>7. ASSUME ReadsTheReply
      PROVE  LineInv'
  <2>1. phase' = "exited" /\ UNCHANGED <<wire, delivered>>
    BY <1>7 DEF ReadsTheReply, connection
  <2>2. WireInv'
    BY <2>1 DEF WireInv, LineInv
  <2> QED BY <2>1, <2>2 DEF LineInv, HeldInv, TypedInv, LineArrives, RequestSurvives,
             AnyCutGivesTheLine
<1>8. ASSUME Again
      PROVE  LineInv'
  <2>1. /\ phase' = "shell" /\ typed' = {} /\ wire' = <<>> /\ delivered' = 0
        /\ buffer' = <<>> /\ state' = "Incomplete" /\ line' = <<>>
    BY <1>8 DEF Again
  <2>2. WireInv'
    BY <2>1 DEF WireInv
  <2> QED BY <2>1, <2>2 DEF LineInv, HeldInv, TypedInv, LineArrives, RequestSurvives,
             AnyCutGivesTheLine
<1> QED BY <1>2, <1>3, <1>4, <1>5, <1>6, <1>7, <1>8 DEF ConversationNext

\* Whatever is typed, whatever a peer writes and however the stream is cut into reads: the
\* line that the player finds is the first of what was written, and the request it parses
\* from it is the one that the shell parsed (src/control_common.cpp, src/main.cpp).
THEOREM LineCarried == ConversationSpec => []LineArrives
  BY InitLineInv, NextLineInv, PTL DEF ConversationSpec, LineInv

-----------------------------------------------------------------------------
(* Where the socket is put.                                                 *)

\* Any host and any flags.
PlaceInv ==
    env \in [xdg : Dirs \cup {NoDir}, platform : Dirs \cup {NoDir}, no_control : BOOLEAN,
             daemonize : BOOLEAN, given : Given, cwd : {0, 1}]

\* What is resolved of a host and its flags.
LEMMA Placed == PlaceInv => PlacedOrToldWhy
<1> SUFFICES ASSUME PlaceInv PROVE PlacedOrToldWhy
  OBVIOUS
<1> DEFINE runtime == control_runtime_dir(env)
           path == control_socket_path(runtime.dir)
           reason == control_socket_absent_reason(runtime, path)
           asked == [env EXCEPT !.no_control = FALSE, !.daemonize = FALSE]
           player == resolve(env, FALSE)
           sub == resolve(asked, TRUE)
<1> DEFINE says(p, c) ==
       /\ ~ p.fails /\ p.length > 0 => p.length < control_socket_path_limit
       /\ ~ p.fails /\ ~ env.no_control /\ env.given = 0 =>
             /\ (p.length = 0) = (p.reason # "")
             /\ p.length > 0 => p.warned \/ is_private_runtime_dir(p.dir)
             /\ c.dir = p.dir /\ c.length = p.length
<1> SUFFICES says(player, sub)
  BY DEF PlacedOrToldWhy
<1> HIDE DEF says
<1>1. control_runtime_dir(asked) = runtime /\ asked.given = env.given /\ asked.no_control = FALSE
  BY DEF PlaceInv, control_runtime_dir, control_platform_runtime_dir
<1>2. runtime.dir # NoDir => runtime.warning \/ is_private_runtime_dir(runtime.dir)
  BY DEF PlaceInv, control_runtime_dir, control_platform_runtime_dir
<1>3. path \in Int /\ env.given \in Int
  BY PlaceAssumption DEF PlaceInv, control_runtime_dir, control_platform_runtime_dir,
     control_socket_path, Dirs, Lengths, NoDir, Given
<1>4. reason = "" => runtime.dir # NoDir /\ path # 0 /\ path < control_socket_path_limit
  BY DEF control_socket_absent_reason, control_socket_path_fits
<1>5. CASE env.given > 0
  <2>1. \/ player = [NoPath EXCEPT !.fails = TRUE]
        \/ player.fails \/ player.length < control_socket_path_limit
    BY <1>5 DEF resolve, control_socket_path_fits, NoPath
  <2> HIDE DEF player, sub
  <2>2. player.fails \/ player.length < control_socket_path_limit
    BY <2>1 DEF NoPath
  <2>3. env.given # 0
    BY <1>5
  <2> QED BY <2>2, <2>3 DEF says
<1>6. CASE ~ env.given > 0 /\ env.no_control
  <2>1. player = NoPath
    BY <1>6 DEF resolve
  <2> HIDE DEF player, sub
  <2>2. player.length = 0
    BY <2>1 DEF NoPath
  <2> QED BY <1>6, <2>2 DEF says
<1>7. CASE ~ env.given > 0 /\ ~ env.no_control
  <2>1. player = [NoPath EXCEPT !.dir = IF reason = "" THEN runtime.dir ELSE NoDir,
                                !.length = IF reason = "" THEN path ELSE 0,
                                !.reason = reason, !.warned = runtime.warning /\ ~ FALSE]
    BY <1>7 DEF resolve
  <2>2. sub = [NoPath EXCEPT !.dir = IF reason = "" THEN runtime.dir ELSE NoDir,
                                !.length = IF reason = "" THEN path ELSE 0,
                                !.reason = reason, !.warned = runtime.warning /\ ~ TRUE]
    BY <1>7, <1>1 DEF resolve
  <2> HIDE DEF player, sub, reason, path, runtime
  <2>3. /\ player.length < control_socket_path_limit \/ ~ player.length > 0
        /\ (player.length = 0) = (player.reason # "")
        /\ player.length > 0 => player.warned \/ is_private_runtime_dir(player.dir)
        /\ sub.dir = player.dir /\ sub.length = player.length
    <3>1. /\ player.dir = sub.dir /\ player.length = sub.length
          /\ player.dir = (IF reason = "" THEN runtime.dir ELSE NoDir)
          /\ player.length = (IF reason = "" THEN path ELSE 0)
          /\ player.reason = reason
      BY <2>1, <2>2 DEF NoPath
    <3>2. player.warned <=> runtime.warning
      BY <2>1 DEF NoPath
    <3>3. (player.length = 0) = (player.reason # "")
      BY <1>3, <1>4, <3>1
    <3>4. player.length < control_socket_path_limit \/ ~ player.length > 0
      <4>1. CASE reason = ""
        BY <1>4, <3>1, <4>1
      <4>2. CASE reason # ""
        <5>1. player.length = 0
          BY <3>1, <4>2
        <5> QED BY <5>1
      <4> QED BY <4>1, <4>2
    <3>5. player.length > 0 => player.warned \/ is_private_runtime_dir(player.dir)
      <4>1. CASE reason = ""
        BY <1>2, <1>4, <3>1, <3>2, <4>1
      <4>2. CASE reason # ""
        <5>1. player.length = 0
          BY <3>1, <4>2
        <5> QED BY <5>1
      <4> QED BY <4>1, <4>2
    <3> QED BY <3>1, <3>3, <3>4, <3>5
  <2> QED BY <2>3 DEF says
<1> QED BY <1>5, <1>6, <1>7 DEF PlaceInv

\* For any limit on a path and any lengths: a player that is given nothing listens where
\* nobody else can write, on a path that fits, and its subcommand looks there; else it
\* warned, was refused, or has the reason (src/control_common.cpp, src/cli.cpp).
THEOREM PlaceFound == PlaceSpec => []PlacedOrToldWhy
<1>1. PlaceInit => PlaceInv
  BY DEF PlaceInit, PlaceInv, Given
<1>2. PlaceInv /\ [PlaceNext]_env => PlaceInv'
  BY DEF PlaceNext, PlaceInv
<1> QED BY <1>1, <1>2, Placed, PTL DEF PlaceSpec
=============================================================================
