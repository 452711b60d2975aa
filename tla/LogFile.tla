------------------------------ MODULE LogFile ------------------------------
(***************************************************************************)
(* The log under rotation (src/log.cpp): the file that fd 2 appends to, a   *)
(* logrotate that renames it away and sends SIGHUP, and the main loop that  *)
(* reopens it, step by step.  Files are numbered in the order they are      *)
(* created under the log's name.                                            *)
(***************************************************************************)
EXTENDS Naturals

CONSTANT MaxFiles       \* bounds the rotations

VARIABLES
    named,      \* the file the name is of, 0 when it was renamed away
    created,    \* how many there have been
    stderr,     \* the file fd 2 is of; 0 would be a closed descriptor
    g_reopen_requested,
    reopening,  \* the main loop in log_reopen_if_requested(): "no", "open" or "dup"
    opened,     \* the descriptor it has got
    wanted,     \* the youngest file a SIGHUP has asked for
    told        \* the youngest of those whose failure was written to a log

log == <<named, created, stderr, g_reopen_requested, reopening, opened, wanted, told>>

\* -f was opened before the fork, and the handler is installed.
LogInit ==
    /\ named = 1 /\ created = 1 /\ stderr = 1
    /\ g_reopen_requested = FALSE /\ reopening = "no" /\ opened = 0
    /\ wanted = 1 /\ told = 1

\* O_CREAT makes the file again.
file_to_open == IF named = 0 THEN created + 1 ELSE named

\* A turn of the loop: the request is taken before it is served, so that the next
\* rotation's is not taken with it.
TakeRequest ==
    /\ reopening = "no" /\ g_reopen_requested
    /\ g_reopen_requested' = FALSE /\ reopening' = "open"
    /\ UNCHANGED <<named, created, stderr, opened, wanted, told>>

\* The descriptor in use is left alone until there is another.
Open ==
    /\ reopening = "open"
    /\ opened' = file_to_open /\ named' = file_to_open
    /\ created' = IF named = 0 THEN created + 1 ELSE created
    /\ reopening' = "dup"
    /\ UNCHANGED <<stderr, g_reopen_requested, wanted, told>>

\* dup2() replaces fd 2 at once, between two lines of any thread.
Dup ==
    /\ reopening = "dup"
    /\ stderr' = opened /\ opened' = 0 /\ reopening' = "no"
    /\ UNCHANGED <<named, created, g_reopen_requested, wanted, told>>

bug_freopen ==
    /\ reopening \in {"open", "dup"}
    /\ stderr' = 0 /\ opened' = 0 /\ reopening' = "no"
    /\ UNCHANGED <<named, created, g_reopen_requested, wanted, told>>

\* No such directory, no descriptor to be had: the complaint goes where the log went.
ReopenFails ==
    /\ reopening \in {"open", "dup"}
    /\ told' = IF stderr = 0 THEN told ELSE wanted
    /\ opened' = 0 /\ reopening' = "no"
    /\ UNCHANGED <<named, created, stderr, g_reopen_requested, wanted>>

\* logrotate: first one, then the other.
Rename ==
    /\ named # 0 /\ created < MaxFiles
    /\ named' = 0
    /\ UNCHANGED <<created, stderr, g_reopen_requested, reopening, opened, wanted, told>>

Sighup ==
    /\ file_to_open <= MaxFiles
    /\ g_reopen_requested' = TRUE
    /\ wanted' = file_to_open
    /\ UNCHANGED <<named, created, stderr, reopening, opened, told>>

log_reopen_if_requested == TakeRequest \/ Open \/ Dup \/ ReopenFails

LogNext == log_reopen_if_requested \/ Rename \/ Sighup

-----------------------------------------------------------------------------
\* Every rotation that is signalled is followed: the log moves to the file that was
\* asked for or one younger, unless it cannot, and then the reader of the file that was
\* rotated away is told so.
RotationFollowedOrToldOf ==
    \A file \in 1..MaxFiles :
        (wanted = file) ~> (stderr >= file \/ told >= file)
=============================================================================
