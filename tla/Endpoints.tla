---- MODULE Endpoints ----
\* What the server listens on: its descriptors, and its certificates.
EXTENDS Sequences, FiniteSets, Integers

----
\* Who owns which descriptor (Socket.cpp, UdpSocket.cpp, Listener.cpp): a
\* listener that starts, possibly again, accepts and closes, and a datagram
\* socket. The kernel hands out the lowest free number, so a descriptor that
\* is closed twice would be somebody else's.

CONSTANTS SkFds,        \* descriptor numbers the process may have, from 1 on
          SkMaxAddrs    \* bound: addresses a name resolves to

ASSUME SkAssumption == SkFds \subseteq Nat \ {0} /\ SkMaxAddrs \in Nat

VARIABLES skOpen,    \* descriptors open in the kernel
          skFd,      \* fd_ of every Socket object
          skAt,      \* where Listener::start() is
          skLeft     \* addresses it has not tried yet

skVars == <<skOpen, skFd, skAt, skLeft>>

INVALID_SOCKET_FD == 0
Objects_ == {"listener", "candidate", "accepted", "connection", "udp"}
Lowest == CHOOSE f \in SkFds \ skOpen : \A g \in SkFds \ skOpen : f <= g

SkInit ==
  /\ skOpen = {} /\ skFd = [o \in Objects_ |-> INVALID_SOCKET_FD]
  /\ skAt = "idle" /\ skLeft = 0

\* Socket(fd): the object takes a descriptor the kernel has just opened.
Wrap(o) ==
  /\ SkFds \ skOpen # {}
  /\ skOpen' = skOpen \cup {Lowest}
  /\ skFd' = [skFd EXCEPT ![o] = Lowest]

\* Socket::close(), and the destructor; close_socket() ignores an invalid one.
Close(o) ==
  /\ skOpen' = skOpen \ {skFd[o]}
  /\ skFd' = [skFd EXCEPT ![o] = INVALID_SOCKET_FD]

\* Mutant: the source keeps its descriptor.
Move_Kept(from, to) ==
  /\ skOpen' = skOpen \ {skFd[to]}
  /\ skFd' = [skFd EXCEPT ![to] = skFd[from]]

\* Socket& operator=(Socket&&): what the target had is closed, what the source
\* had is the target's, and the source's no more.
Move(from, to) ==
  /\ skOpen' = skOpen \ {skFd[to]}
  /\ skFd' = [skFd EXCEPT ![to] = skFd[from], ![from] = INVALID_SOCKET_FD]

Enter(where, left) == skAt' = where /\ skLeft' = left

\* start(): the name is resolved, or start() throws.
Resolve ==
  /\ skAt = "idle"
  /\ \E n \in 0..SkMaxAddrs : Enter(IF n = 0 THEN "idle" ELSE "create", n)
  /\ UNCHANGED <<skOpen, skFd>>

\* The for loop over the addresses is through: without a valid socket start()
\* throws, with one (an earlier start()'s counts too) it listens.
Exhausted == skLeft = 1
After == IF Exhausted THEN IF skFd["listener"] # INVALID_SOCKET_FD THEN "listen" ELSE "idle" ELSE "create"

\* bind_address()
Create == skAt = "create" /\ Wrap("candidate") /\ Enter("bind", skLeft)
CreateFails == skAt = "create" /\ Enter(After, skLeft - 1) /\ UNCHANGED <<skOpen, skFd>>
OptionsFail == skAt = "bind" /\ Close("candidate") /\ Enter("idle", 0)
BindFails == skAt = "bind" /\ Close("candidate") /\ Enter(After, skLeft - 1)
Bound == skAt = "bind" /\ Move("candidate", "listener") /\ Enter("listen", 0)

\* listen() fails: start() throws, and the socket stays bound.
Listen ==
  /\ skAt = "listen"
  /\ Enter("idle", 0)
  /\ UNCHANGED <<skOpen, skFd>>

\* accept_connection() gives its Socket to the caller, who moves it into a
\* connection in place of the one before.
accept_connection ==
  /\ skFd["listener"] # INVALID_SOCKET_FD /\ skFd["accepted"] = INVALID_SOCKET_FD
  /\ Wrap("accepted") /\ UNCHANGED <<skAt, skLeft>>
HandOver == skFd["accepted"] # INVALID_SOCKET_FD /\ Move("accepted", "connection") /\ UNCHANGED <<skAt, skLeft>>

UdpSocket == skFd["udp"] = INVALID_SOCKET_FD /\ Wrap("udp") /\ UNCHANGED <<skAt, skLeft>>
CloseAny(o) == o \notin {"candidate", "accepted"} /\ Close(o) /\ UNCHANGED <<skAt, skLeft>>

SkNext ==
  \/ Resolve \/ Create \/ CreateFails \/ OptionsFail \/ BindFails \/ Bound \/ Listen
  \/ accept_connection \/ HandOver \/ UdpSocket
  \/ \E o \in Objects_ : CloseAny(o)

SkSpec == SkInit /\ [][SkNext]_skVars

SkTypeOK == skOpen \subseteq SkFds /\ skFd \in [Objects_ -> SkFds \cup {INVALID_SOCKET_FD}]

\* Along every path of start(), the failing and the repeated ones too, each
\* open descriptor belongs to exactly one Socket object and no object holds
\* one that is closed: none leaks, none is closed twice (Socket.cpp:27).
DescriptorsOwned ==
  /\ skOpen = {skFd[o] : o \in Objects_} \ {INVALID_SOCKET_FD}
  /\ \A o, q \in Objects_ : skFd[o] = skFd[q] /\ skFd[o] # INVALID_SOCKET_FD => o = q

----
\* The certificates of a server (TlsContext.cpp): re-read from their files by
\* two threads (the signal handler's and the periodic check's) while somebody
\* rewrites the files one after the other and clients open connections.

CONSTANTS TlReloaders,   \* threads that may call reload()
          TlMaxRewrites  \* bound: how often a file is rewritten

ASSUME TlAssumption == TlMaxRewrites \in Nat

VARIABLES disk,     \* the files: default certificate and key, SNI certificate and key
          certs,    \* certs_: what was read from each file, << >> before the first load
          stamp,    \* stamp_: what the modification times said of the loaded files
          job,      \* the reload() of each thread: how far it is, and its findings
          served    \* the last handshake: the certificate and the protocol

tlVars == <<disk, certs, stamp, job, served>>

TlFiles == 1..4                      \* in the order they are stamped and loaded
NoServed == [got |-> 0, proto |-> ""]
NoJob == [at |-> 0, stamp |-> << >>, set |-> << >>]

\* A negative version of a file is one that is missing. The names a certificate
\* of some version is for: the SNI certificate changes its own from time to
\* time.
certificate_names(v) == IF v % 2 = 1 THEN {"a.x", "*.y"} ELSE {"a.x", "b.y"}

TlInit ==
  /\ disk = [f \in TlFiles |-> 1]
  /\ certs = << >> /\ stamp = << >>
  /\ job = [r \in TlReloaders |-> NoJob]
  /\ served = NoServed

Missing(v) == v <= 0
Age(v) == IF v < 0 THEN -v ELSE v

Rewrite(f) ==
  /\ \E v \in {Age(disk[f]) + 1, -(Age(disk[f]) + 1)} :
       disk' = [disk EXCEPT ![f] = v]
  /\ Age(disk[1]) + Age(disk[2]) + Age(disk[3]) + Age(disk[4]) < 4 + TlMaxRewrites
  /\ UNCHANGED <<certs, stamp, job, served>>

\* file_stamp() looks at one file after the other. A stamp stands for size and
\* modification time: 0 for a missing file, else another one for every version.
StampOf(v) == IF Missing(v) THEN 0 ELSE v

file_stamp(r) ==
  /\ job[r].at < 4
  /\ job' = [job EXCEPT ![r].at = @ + 1, ![r].stamp = Append(@, StampOf(disk[job[r].at + 1]))]
  /\ UNCHANGED <<disk, certs, stamp, served>>

\* load(): the next file is read; a key has to match its certificate. A file
\* that does not load ends the reload, and the current certificates stay.
Loads(set, f) == ~Missing(disk[f]) /\ (f % 2 = 0 => set[f - 1] = disk[f])

load(r) ==
  LET j == job[r]
      f == j.at - 3
  IN /\ j.at \in 4..7
     /\ job' = [job EXCEPT ![r] =
          IF Loads(j.set, f) THEN [j EXCEPT !.at = @ + 1, !.set = Append(@, disk[f])] ELSE NoJob]
     /\ UNCHANGED <<disk, certs, stamp, served>>

\* As if the stamp were taken once everything is loaded.
install_StampAfter(r) ==
  /\ job[r].at = 8
  /\ certs' = job[r].set /\ stamp' = [f \in TlFiles |-> StampOf(disk[f])]
  /\ job' = [job EXCEPT ![r] = NoJob]
  /\ UNCHANGED <<disk, served>>

install(r) ==
  /\ job[r].at = 8
  /\ certs' = job[r].set /\ stamp' = job[r].stamp
  /\ job' = [job EXCEPT ![r] = NoJob]
  /\ UNCHANGED <<disk, served>>

files_changed == stamp # [f \in TlFiles |-> StampOf(disk[f])]

\* CertSet::select: an exact name, a wildcard for its parent domain, the
\* default.
Parent == [n \in {"a.x", "b.y", "c.y", "y", ""} |-> IF n \in {"b.y", "c.y"} THEN "*.y" ELSE IF n = "a.x" THEN "*.x" ELSE "none"]

select(set, name) ==
  LET names == certificate_names(set[3])
  IN IF name # "" /\ (name \in names \/ Parent[name] \in names) THEN 3 ELSE 1

\* alpn_select_cb: the first of the server's protocols that the client offers.
Protocols == [v \in {"1.1", "2", "3"} |->
  IF v = "1.1" THEN <<"http/1.1">> ELSE IF v = "2" THEN <<"h2", "http/1.1">> ELSE <<"h3", "h2", "http/1.1">>]

alpn_select_cb(version, offered) ==
  LET both == SelectSeq(Protocols[version], LAMBDA p : \E i \in DOMAIN offered : offered[i] = p)
  IN IF both = << >> THEN "" ELSE both[1]

\* servername_cb, then the handshake goes on with the chosen context.
servername_cb(name, version, offered) ==
  /\ certs # << >>
  /\ served' = [got |-> certs[select(certs, name)], proto |-> alpn_select_cb(version, offered)]
  /\ UNCHANGED <<disk, certs, stamp, job>>

\* reload() is called by the constructor, by SIGHUP, and by the periodic check
\* when files_changed(); the first two do not ask.
TlNext ==
  \/ \E f \in TlFiles : Rewrite(f)
  \/ \E r \in TlReloaders : file_stamp(r) \/ load(r) \/ install(r)
  \/ \E n \in DOMAIN Parent, v \in {"2"}, o \in {<<"http/1.1", "h2">>, <<"h3">>} : servername_cb(n, v, o)

TlSpec == TlInit /\ [][TlNext]_tlVars

TlTypeOK == /\ disk \in [TlFiles -> -(1 + TlMaxRewrites)..(1 + TlMaxRewrites)]
            /\ \A r \in TlReloaders : job[r].at \in 0..8

\* Whatever reloads overlap and whatever is rewritten between two reads: the
\* certificates in force are whole pairs, and as long as the files are there
\* and one differs from what is in force files_changed() says so, so that a
\* change made while the files were being loaded is picked up by the next
\* check (TlsContext.cpp:164, TlsContext::reload).
StaleCertsNoticed ==
  certs # << >> =>
    /\ certs[1] = certs[2] /\ certs[3] = certs[4]
    /\ (\A f \in TlFiles : ~Missing(disk[f])) /\ (\E f \in TlFiles : certs[f] # disk[f]) => files_changed
====
