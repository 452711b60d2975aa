-------------------------------- MODULE Mdns --------------------------------
(***************************************************************************)
(* MdnsService over dns_sd.h (src/mdns_dnssd.cpp), and what the main loop   *)
(* chooses from it (src/mdns_common.cpp).  All of it runs on the main loop: *)
(* one poll_once() is a snapshot of the refs, then DNSServiceProcessResult()*)
(* on each readable one, which calls back any number of times before it     *)
(* returns, then the clearing up.  The mDNS daemon is external: it goes     *)
(* down, comes up a service at a time, and reports what it likes in between.*)
(*                                                                          *)
(* A ref is what it was made for; `allocated` counts the ones the library   *)
(* has given out and not been given back.  An instance is a number, in the  *)
(* order of the names.  restart_at_ms is what is left of the wait, and      *)
(* resolved_seq is renumbered without gaps, since only its order is used.   *)
(***************************************************************************)
EXTENDS RetryDelays

CONSTANTS
    Instances,          \* server instances the browse may report
    Interfaces,         \* of each: the network interfaces it may be reported on
    Addresses,          \* what a host may answer with: "v4", "v6", "unusable"
    ADDRESS_SETTLE_MS

ASSUME MdnsAssumption ==
    /\ Instances \subseteq Nat
    /\ Addresses \subseteq {"v4", "v6", "unusable"}
    /\ ADDRESS_SETTLE_MS \in Nat

VARIABLES
    wanted,        \* advertise_wanted, browse_wanted
    register_ref, browse_ref,
    candidates,    \* the map
    contexts,      \* the instances that have a CandidateContext
    retired, doomed,
    restart,       \* restart_at_ms and restart_attempt
    progress,      \* where poll_once() is: what is left of refs, the ref being processed
    daemon,        \* the mDNS daemon: "down", "starting" or "up"
    dead,          \* the refs made with a daemon that is gone
    allocated,     \* the refs the library has out
    reported,      \* the interfaces the browse has reported each instance on
    dropped        \* history: instances given up for what they are, while still reported

service == <<wanted, register_ref, browse_ref, candidates, contexts, retired, doomed, restart,
          progress, daemon, dead, allocated, reported, dropped>>

Families == Addresses \ {"unusable"}

Ref(kind, i) == [kind |-> kind, instance |-> i]
RegisterRef == Ref("register", None)
BrowseRef == Ref("browse", None)
CandidateRefs == {Ref(kind, i) : kind \in {"resolve"} \cup Families, i \in Instances}
Refs == {RegisterRef, BrowseRef} \cup CandidateRefs

ASSUME NoneAssumption == None \notin Instances /\ None \notin Refs

Candidate ==
    [ interfaces : SUBSET UNION {Interfaces[i] : i \in Instances}, refs : SUBSET ({"resolve"} \cup Families),
      txt : {"unread", "named", "other", "undialable"},   \* path, port and name
      addresses : SUBSET Addresses,
      age : -1..ADDRESS_SETTLE_MS,                        \* since first_address_ms
      resolved_seq : Nat,
      unusable : BOOLEAN ]

new_candidate(interface) ==
    [interfaces |-> {interface}, refs |-> {"resolve"}, txt |-> "unread", addresses |-> {},
     age |-> -1, resolved_seq |-> 0, unusable |-> FALSE]

known == DOMAIN candidates
held == (IF register_ref THEN {RegisterRef} ELSE {}) \cup (IF browse_ref THEN {BrowseRef} ELSE {})
        \cup UNION {{Ref(kind, i) : kind \in candidates[i].refs} : i \in known}
times_retired(ref) == Cardinality({k \in DOMAIN retired : retired[k] = ref})

without(f, gone) == [i \in (DOMAIN f) \ gone |-> f[i]]
given(refs) == [ref \in Refs |-> allocated[ref] + (IF ref \in refs THEN 1 ELSE 0)]
nothing == [i \in {} |-> new_candidate(None)]
never_restart == [at |-> -1, attempt |-> 0]
in_main == [at |-> "main", refs |-> {}, ref |-> None]

MdnsInit ==
    /\ wanted = [advertise |-> FALSE, browse |-> FALSE]
    /\ register_ref = FALSE /\ browse_ref = FALSE
    /\ candidates = nothing /\ contexts = {} /\ retired = <<>> /\ doomed = {}
    /\ restart = never_restart
    /\ progress = in_main
    /\ daemon \in {"down", "starting", "up"} /\ dead = {}
    /\ allocated = [ref \in Refs |-> 0]
    /\ reported = [i \in Instances |-> {}] /\ dropped = {}

-----------------------------------------------------------------------------
(* What is dialled.                                                         *)

\* discovered_server_url(): IPv4 before IPv6, and neither when it names no host.
discovered_server_url(c) ==
    IF c.txt \in {"unread", "undialable"} THEN None
    ELSE IF "v4" \in c.addresses THEN "v4"
    ELSE IF "v6" \in c.addresses THEN "v6"
    ELSE None

dialable(i) == discovered_server_url(candidates[i]) # None

bug_trusted_from_settle_time == {i \in known : candidates[i].resolved_seq # 0}

\* What has resolved; an address may have been withdrawn since.
servers == {i \in known : candidates[i].resolved_seq # 0 /\ dialable(i)}

\* The remembered server if it is there, else the first, of those the filter lets by.
selected(filtered, remembered) ==
    LET matching == {i \in servers : filtered => candidates[i].txt = "named"} IN
    IF matching = {} THEN None
    ELSE IF remembered \in matching THEN remembered
    ELSE CHOOSE i \in matching :
            \A j \in matching : candidates[i].resolved_seq <= candidates[j].resolved_seq

-----------------------------------------------------------------------------
(* Starting, and starting again.                                            *)

may_start(ok) ==
    \/ daemon = "up" /\ ok
    \/ daemon = "down" /\ ~ ok
    \/ daemon = "starting"

schedule_restart(r) ==
    [at |-> next_retry_delay_ms[r.attempt],
     attempt |-> IF next_retry_delay_ms[r.attempt] < MAX_RETRY_DELAY_MS THEN r.attempt + 1
                 ELSE r.attempt]

rest == <<candidates, contexts, retired, doomed, progress, daemon, reported, dropped>>

\* One of advertise() and browse(), at startup: a player that dials does not advertise.
\* A failure is left to poll().
advertise ==
    /\ progress.at = "main" /\ ~ wanted.advertise /\ ~ wanted.browse
    /\ wanted' = [wanted EXCEPT !.advertise = TRUE]
    /\ \E ok \in BOOLEAN :
          /\ may_start(ok)
          /\ register_ref' = ok
          /\ allocated' = given(IF ok THEN {RegisterRef} ELSE {})
    /\ UNCHANGED <<browse_ref, restart, dead, rest>>

browse ==
    /\ progress.at = "main" /\ ~ wanted.browse /\ ~ wanted.advertise
    /\ wanted' = [wanted EXCEPT !.browse = TRUE]
    /\ \E ok \in BOOLEAN :
          /\ may_start(ok)
          /\ browse_ref' = ok
          /\ allocated' = given(IF ok THEN {BrowseRef} ELSE {})
          /\ restart' = IF ok THEN [restart EXCEPT !.attempt = 0] ELSE restart
    /\ UNCHANGED <<register_ref, dead, rest>>

missing == (wanted.advertise /\ ~ register_ref) \/ (wanted.browse /\ ~ browse_ref)

\* restart(): only what is wanted and missing.
restarts(registers, browses) ==
    LET starting == (IF registers /\ ~ register_ref THEN {RegisterRef} ELSE {})
                    \cup (IF browses /\ ~ browse_ref THEN {BrowseRef} ELSE {})
    IN  /\ register_ref' = (register_ref \/ RegisterRef \in starting)
        /\ browse_ref' = (browse_ref \/ BrowseRef \in starting)
        /\ allocated' = given(starting)

\* Where live_refs() lists a ref: the two, then the candidates in the order of their names.
place(ref) ==
    IF ref = RegisterRef THEN 0
    ELSE IF ref = BrowseRef THEN 1
    ELSE 3 * ref.instance + (IF ref.kind = "resolve" THEN 2 ELSE IF ref.kind = "v4" THEN 3 ELSE 4)

bug_never_scheduled == restart

owed == IF missing /\ restart.at < 0 THEN schedule_restart(restart) ELSE restart

\* poll_once() up to its snapshot.
PollStarts ==
    /\ progress.at = "main"
    /\ IF owed.at # 0
       THEN restart' = owed /\ UNCHANGED <<register_ref, browse_ref, allocated>>
       ELSE \E registers, browses \in BOOLEAN :
               /\ may_start(registers) /\ may_start(browses)
               /\ restarts(wanted.advertise /\ registers, wanted.browse /\ browses)
               /\ restart' = [at |-> -1,
                              attempt |-> IF browse_ref' /\ ~ browse_ref THEN 0 ELSE owed.attempt]
    /\ UNCHANGED <<wanted, candidates, contexts, retired, doomed, daemon, dead, reported, dropped>>
    /\ progress' = [at |-> "processing", refs |-> held', ref |-> None]

-----------------------------------------------------------------------------
(* One ref of the snapshot.                                                 *)

is_live(ref) == ref \in held

\* The next ref of the snapshot to be read: those before it have nothing to read, or
\* were retired by a callback of this very tick.  A dead ref is always readable.
reads(ref) ==
    /\ progress.at = "processing" /\ progress.ref = None
    /\ ref \in progress.refs /\ is_live(ref)
    /\ \A r \in progress.refs : place(r) < place(ref) => r \notin dead \cap held

DNSServiceProcessResult(ref) ==
    /\ reads(ref) /\ ref \notin dead
    /\ progress' = [progress EXCEPT !.ref = ref,
                                   !.refs = {r \in @ : place(ref) < place(r)}]
    /\ UNCHANGED <<wanted, register_ref, browse_ref, candidates, contexts, retired, doomed,
                   restart, daemon, dead, allocated, reported, dropped>>

ProcessReturns ==
    /\ progress.at = "processing" /\ progress.ref # None
    /\ progress' = [progress EXCEPT !.ref = None]
    /\ UNCHANGED <<wanted, register_ref, browse_ref, candidates, contexts, retired, doomed,
                   restart, daemon, dead, allocated, reported, dropped>>

\* teardown(): the retired refs first, then those of the candidates, then the two.
torn_down ==
    /\ allocated' = [ref \in Refs |-> allocated[ref] - times_retired(ref)
                                                     - (IF ref \in held THEN 1 ELSE 0)]
    /\ register_ref' = FALSE /\ browse_ref' = FALSE
    /\ candidates' = nothing /\ contexts' = {} /\ retired' = <<>> /\ doomed' = {}
    /\ reported' = [i \in Instances |-> {}] /\ dropped' = {}
    /\ dead' = {}

\* fail(): one ref's connection is every ref's.  The loop over the snapshot breaks.
ProcessFails(ref) ==
    /\ reads(ref) /\ ref \in dead
    /\ torn_down
    /\ restart' = schedule_restart(restart)
    /\ progress' = [progress EXCEPT !.refs = {}]
    /\ UNCHANGED <<wanted, daemon>>

-----------------------------------------------------------------------------
(* The callbacks.                                                           *)

inside(kind) == progress.ref # None /\ progress.ref.kind = kind
others == <<wanted, register_ref, browse_ref, progress, daemon, dead>>

\* The daemon's answer, a rename included; a refusal changes nothing.
register_callback ==
    /\ inside("register")
    /\ restart' = [restart EXCEPT !.attempt = 0]
    /\ UNCHANGED <<others, candidates, contexts, retired, doomed, allocated, reported, dropped>>

\* A departure from one interface, and so perhaps from the last.
browse_lost(i, interface) ==
    /\ inside("browse") /\ interface \in reported[i]
    /\ reported' = [reported EXCEPT ![i] = @ \ {interface}]
    /\ dropped' = IF reported'[i] = {} THEN dropped \ {i} ELSE dropped
    /\ IF i \notin known THEN UNCHANGED <<candidates, doomed>>
       ELSE /\ candidates' = [candidates EXCEPT ![i].interfaces = @ \ {interface}]
            /\ doomed' = IF candidates'[i].interfaces = {} THEN doomed \cup {i} ELSE doomed
    /\ UNCHANGED <<others, contexts, retired, restart, allocated>>

browse_found(i, interface) ==
    /\ inside("browse") /\ interface \notin reported[i]
    /\ reported' = [reported EXCEPT ![i] = @ \cup {interface}]
    /\ \/ /\ i \in known
          /\ candidates' = [candidates EXCEPT ![i].interfaces = @ \cup {interface}]
          /\ UNCHANGED <<contexts, allocated, dropped>>
       \/ /\ i \notin known      \* resolved on whichever interface answers
          /\ candidates' = [k \in known \cup {i} |->
                               IF k = i THEN new_candidate(interface) ELSE candidates[k]]
          /\ contexts' = contexts \cup {i}
          /\ allocated' = given({Ref("resolve", i)})
          /\ UNCHANGED dropped
       \/ /\ i \notin known      \* DNSServiceResolve() would not have it
          /\ dropped' = dropped \cup {i}
          /\ contexts' = contexts \ {i}
          /\ UNCHANGED <<candidates, allocated>>
    /\ UNCHANGED <<others, retired, doomed, restart>>

bug_released_at_once(i) ==
    /\ inside("resolve") /\ progress.ref.instance = i /\ i \in known
    /\ candidates' = without(candidates, {i})
    /\ contexts' = contexts \ {i}
    /\ allocated' = [allocated EXCEPT ![progress.ref] = 0]
    /\ dropped' = dropped \cup {i}
    /\ UNCHANGED <<others, retired, doomed, restart, reported>>

\* Not released here: this is the ref's own callback.
resolve_failed(i) ==
    /\ inside("resolve") /\ progress.ref.instance = i /\ i \in known
    /\ candidates' = [candidates EXCEPT ![i].unusable = TRUE]
    /\ doomed' = doomed \cup {i}
    /\ dropped' = dropped \cup {i}
    /\ UNCHANGED <<others, contexts, retired, restart, allocated, reported>>

\* The first reply is the one: its ref is retired, not released, and the queries for
\* both families start.  The replies behind it, one per interface, find no resolve_ref.
resolve_callback(i, txt, queries) ==
    /\ inside("resolve") /\ progress.ref.instance = i /\ i \in known
    /\ "resolve" \in candidates[i].refs
    /\ candidates' = [candidates EXCEPT ![i].refs = queries, ![i].txt = txt,
                                        ![i].unusable = @ \/ queries = {}]
    /\ retired' = Append(retired, progress.ref)
    /\ allocated' = given({Ref(kind, i) : kind \in queries})
    /\ doomed' = IF queries = {} THEN doomed \cup {i} ELSE doomed
    /\ dropped' = IF queries = {} THEN dropped \cup {i} ELSE dropped
    /\ UNCHANGED <<others, contexts, restart, reported>>

\* add_address(), of the family that was asked for or of no use.
query_callback(i, address) ==
    /\ progress.ref # None /\ progress.ref.instance = i /\ i \in known
    /\ progress.ref.kind \in Families /\ address \in {progress.ref.kind, "unusable"}
    /\ candidates' =
          IF address \in candidates[i].addresses
          THEN [candidates EXCEPT ![i].addresses = @ \ {address}]
          ELSE [candidates EXCEPT ![i].addresses = @ \cup {address},
                                  ![i].age = IF @ < 0 THEN 0 ELSE @]
    /\ UNCHANGED <<others, contexts, retired, doomed, restart, allocated, reported, dropped>>

Callback ==
    \/ register_callback
    \/ \E i \in Instances :
          \/ \E interface \in Interfaces[i] : browse_lost(i, interface) \/ browse_found(i, interface)
          \/ resolve_failed(i)
          \/ \E txt \in {"named", "other", "undialable"}, queries \in SUBSET Families :
                resolve_callback(i, txt, queries)
          \/ \E address \in Addresses : query_callback(i, address)

-----------------------------------------------------------------------------
(* The end of poll_once().                                                  *)

bug_gone_although_back(i) == TRUE

\* A doomed candidate that nothing has put an interface back on, or that is no use.
purged(i) == candidates[i].unusable \/ candidates[i].interfaces = {}

settled(i) == candidates[i].age >= ADDRESS_SETTLE_MS /\ dialable(i)

\* drain_retired(), then the refs forget() releases.
released(gone) ==
    [ref \in Refs |-> allocated[ref] - times_retired(ref)
         - (IF ref \in held /\ ref.instance \in gone THEN 1 ELSE 0)]

\* settle_addresses() gives the next number to each candidate it makes dialable, in the
\* order of the names.
no_later(j, i, newly) ==
    IF i \in newly THEN j \in newly => j <= i
    ELSE j \notin newly /\ candidates[j].resolved_seq <= candidates[i].resolved_seq

numbered(stays, newly) ==
    LET resolved == newly \cup {i \in stays : candidates[i].resolved_seq # 0} IN
    [i \in stays |->
        [candidates[i] EXCEPT !.resolved_seq =
            IF i \in resolved THEN Cardinality({j \in resolved : no_later(j, i, newly)}) ELSE 0]]

PollEnds ==
    /\ progress.at = "processing" /\ progress.ref = None
    /\ progress.refs \cap dead \cap held = {}
    /\ LET gone == {i \in doomed \cap known : purged(i)}
           newly == {i \in known \ gone : candidates[i].resolved_seq = 0 /\ settled(i)}
       IN  /\ allocated' = released(gone)
           /\ candidates' = numbered(known \ gone, newly)
           /\ contexts' = contexts \ gone
    /\ retired' = <<>> /\ doomed' = {}
    /\ progress' = in_main
    /\ UNCHANGED <<wanted, register_ref, browse_ref, restart, daemon, reported, dropped>>
    /\ dead' = dead \cap held'

\* The registration is withdrawn before the client disconnects; nothing follows.
stop ==
    /\ progress.at = "main"
    /\ wanted' = [advertise |-> FALSE, browse |-> FALSE]
    /\ restart' = [restart EXCEPT !.at = -1]
    /\ torn_down
    /\ progress' = [progress EXCEPT !.at = "stopped"]
    /\ UNCHANGED daemon

\* A millisecond of the model's, between two polls.
TimePasses ==
    /\ progress.at = "main"
    /\ restart.at > 0 \/ \E i \in known : candidates[i].age \in 0..(ADDRESS_SETTLE_MS - 1)
    /\ restart' = [restart EXCEPT !.at = IF @ > 0 THEN @ - 1 ELSE @]
    /\ candidates' = [i \in known |->
          [candidates[i] EXCEPT !.age = IF @ \in 0..(ADDRESS_SETTLE_MS - 1) THEN @ + 1 ELSE @]]
    /\ UNCHANGED <<wanted, register_ref, browse_ref, contexts, retired, doomed, progress,
                   daemon, dead, allocated, reported, dropped>>

\* The mDNS daemon goes, with all it had registered, or comes back.
DaemonChanges ==
    /\ progress.at # "processing"
    /\ daemon' = CASE daemon = "down" -> "starting"
                   [] daemon = "starting" -> "up"
                   [] daemon = "up" -> "down"
    /\ dead' = IF daemon' = "down" THEN held ELSE dead
    /\ UNCHANGED <<wanted, register_ref, browse_ref, candidates, contexts, retired, doomed,
                   restart, progress, allocated, reported, dropped>>

Poll ==
    \/ PollStarts \/ ProcessReturns \/ PollEnds
    \/ \E ref \in progress.refs : DNSServiceProcessResult(ref) \/ ProcessFails(ref)

MdnsNext == advertise \/ browse \/ stop \/ Poll \/ Callback \/ TimePasses \/ DaemonChanges

\* The main loop polls for ever, a library call returns, and the clock moves between polls.
MdnsSpec == MdnsInit /\ [][MdnsNext]_service /\ WF_service(Poll) /\ SF_service(TimePasses)

-----------------------------------------------------------------------------
ServiceTypes ==
    /\ known \subseteq Instances /\ contexts \subseteq Instances /\ doomed \subseteq Instances
    /\ candidates \in [known -> Candidate]
    /\ retired \in Seq(Refs)
    /\ restart.at \in -1..MAX_RETRY_DELAY_MS
    /\ allocated \in [Refs -> Nat]
    /\ dead \subseteq Refs
    /\ progress \in [at : {"main", "processing", "stopped"}, refs : SUBSET Refs,
                    ref : Refs \cup {None}]

\* Every ref the library has out is held in exactly one place, and none is released
\* twice, started over, or left behind by a candidate, a restart or a teardown.
RefsAccountedFor ==
    \A ref \in Refs :
        allocated[ref] = times_retired(ref) + (IF ref \in held THEN 1 ELSE 0)

\* "Deallocating a ref from inside its own DNSServiceProcessResult() is asking the daemon
\* to free what it is still using"; and its callbacks' context outlives it.
NothingFreedInUse ==
    /\ progress.ref # None => allocated[progress.ref] > 0
    /\ \A ref \in CandidateRefs : allocated[ref] > 0 => ref.instance \in contexts

\* The lifetime of everything handed to the library: accounted for, and freed when it is
\* no longer in use and not before.
RefsAreManaged == ServiceTypes /\ RefsAccountedFor /\ NothingFreedInUse

\* A server the browse still reports has not been lost by a flap, by leaving one of its
\* interfaces, or by a restart: the browse would not report it again.
ReportedServersAreFollowed ==
    progress.at = "main" =>
        \A i \in Instances :
            i \notin dropped => IF reported[i] = {} THEN i \notin known
                               ELSE i \in known /\ candidates[i].interfaces = reported[i]

\* Whatever has been withdrawn since it resolved, what is chosen can be dialled, is the
\* remembered server or the first that resolved, and is something when anything can be: "one such candidate at the front of the
\* list would otherwise block every good server behind it".
ChoosesWhatCanBeDialled ==
    \A filtered \in BOOLEAN, remembered \in Instances \cup {None} :
        LET fit == {i \in known : /\ candidates[i].resolved_seq # 0 /\ dialable(i)
                                  /\ filtered => candidates[i].txt = "named"}
            choice == selected(filtered, remembered)
        IN  IF fit = {} THEN choice = None
            ELSE /\ choice \in fit
                 /\ \A i \in fit \ {choice} :
                       choice = remembered \/ candidates[choice].resolved_seq < candidates[i].resolved_seq

\* "Anything asked for but not running is owed a retry, whichever way it stopped": with
\* the mDNS daemon up for good, what is wanted runs.
ServiceReturns ==
    <>[](daemon = "up") => <>[](~ missing)
=============================================================================
