-------------------------------- MODULE Tunnel --------------------------------
(***************************************************************************)
(* mu job tunnel: a job on a cluster, an ssh ControlMaster that carries a  *)
(* port-forward to it, and the registry of records that is all a later mu  *)
(* knows of either (internal/cli/jobtunnel.go, tunnelreg.go,               *)
(* tunnelmanage.go, internal/hpc/session.go).  One laptop, one cluster;    *)
(* several mu run at once: one sets up, holds or reattaches each tunnel,   *)
(* and ls and close are run beside them at any time.                       *)
(***************************************************************************)
EXTENDS Integers, FiniteSets

CONSTANTS
  Tunnels,     \* mu handles, each opened once; the job a tunnel submits goes by its handle
  Ports,       \* local ports
  Adopters,    \* tunnels opened on a job that exists (--job)
  Timed,       \* tunnels whose walltime mu knows
  Foreground,  \* tunnels held by the mu that opened them
  Wall,        \* the walltime, in ticks
  Requeues     \* tunnels whose job the scheduler may put back in the queue

\* An adopter submits nothing, so it does not know the walltime.
ASSUME TunnelAssumption ==
  /\ Wall \in Nat \ {0}
  /\ Adopters \subseteq Tunnels /\ Foreground \subseteq Tunnels /\ Requeues \subseteq Tunnels
  /\ Timed \subseteq Tunnels \ Adopters
  /\ Tunnels \cap Ports = {}

VARIABLES
  job,      \* the scheduler: each job's state, and how long it has been running
  master,   \* the control sockets that a master answers
  fwd,      \* the forward a master carries
  rec,      \* the registry
  age,      \* time since the mu of a tunnel saw its job running; beyond Wall it is over
  mu,       \* the mu that sets up, holds or reattaches a tunnel
  \* History, read by the properties only.
  trusted,  \* tunnel and job, once reported up and recorded, until the owner lets go
  loose     \* why nobody answers for a socket: mu was cut short, or its record was pruned

sshVars == <<master, fwd>>
regVars == <<rec, age>>
vars    == <<job, sshVars, regVars, mu, trusted, loose>>

\* The background master is named for the local port (mu-tun-<node>-<port>), the
\* foreground one for its process.
Socks == Ports \cup Foreground

None == [port |-> {}]            \* no forward, no record, no mu

Forward == [job: Tunnels, port: Ports]
Record  == [job: Tunnels, port: Ports, sock: Socks]

Setup    == {"submit", "wait", "forward"}
Reattach == {"list", "reforward"}
Mu       == [pc: {"hold"} \cup Setup \cup Reattach, job: Tunnels, port: Ports, sock: Socks]

TypeOK ==
  /\ job \in [Tunnels -> [st: {"none", "queued", "running", "ended"}, age: 0 .. Wall]]
  /\ master \in SUBSET Socks
  /\ fwd \in [Socks -> Forward \cup {None}]
  /\ rec \in [Tunnels -> Record \cup {None}]
  /\ age \in [Tunnels -> 0 .. Wall + 1]
  /\ mu \in [Tunnels -> Mu \cup {None}]
  /\ trusted \in SUBSET (Tunnels \X Tunnels)
  /\ loose \in [Socks -> {"no", "cut", "pruned"}]

Live(j)     == job[j].st \in {"queued", "running"}
Taken(p)    == \E s \in Socks : fwd[s] # None /\ fwd[s].port = p
Recorded(t) == rec[t] # None
Idle(t)     == mu[t] = None
At(t, pcs)  == ~Idle(t) /\ mu[t].pc \in pcs
Goto(t, pc) == mu' = [mu EXCEPT ![t].pc = pc]
Exit(t)     == mu' = [mu EXCEPT ![t] = None]

Init ==
  /\ job = [j \in Tunnels |-> [st |-> "none", age |-> 0]]
  /\ master = {}
  /\ fwd = [s \in Socks |-> None]
  /\ rec = [t \in Tunnels |-> None]
  /\ age = [t \in Tunnels |-> 0]
  /\ mu = [t \in Tunnels |-> None]
  /\ trusted = {}
  /\ loose = [s \in Socks |-> "no"]

-----------------------------------------------------------------------------
(* The ssh side: OpenSession, Close, and a master that goes away.          *)

\* OpenSession removes a socket nobody answers.  When a master answers, the new ssh
\* declines to multiplex and the check that follows talks to that master: mu rides it.
OpenMaster(s) ==
  /\ master' = master \cup {s}
  /\ UNCHANGED <<fwd, loose>>

\* -O exit: the master goes, whoever else rides it, with its forward and its socket.
CloseMaster(s) ==
  /\ master' = master \ {s}
  /\ fwd' = [fwd EXCEPT ![s] = None]
  /\ loose' = [loose EXCEPT ![s] = "no"]

\* The socket s is left without the mu that held it or the record that named it.
Leave(s, why) == loose' = IF s \in master THEN [loose EXCEPT ![s] = why] ELSE loose

\* A slept laptop, a dropped link, a kill.
MasterDies(s) ==
  /\ s \in master
  /\ CloseMaster(s)
  /\ UNCHANGED <<job, regVars, mu, trusted>>

-----------------------------------------------------------------------------
(* jobTunnel: the setup.  A command that finds no master at its socket     *)
(* dials its own connection, so only the forward needs the master.         *)

\* pickLocalPort binds the port only to try it, then OpenSession.
Open(t, p) ==
  /\ Idle(t) /\ ~Recorded(t) /\ job[t].st = "none" /\ age[t] = 0
  /\ \A r \in trusted : r[1] # t
  /\ ~Taken(p)
  /\ \E j \in Tunnels :
       /\ IF t \in Adopters THEN job[j].st # "none" ELSE j = t
       /\ mu' = [mu EXCEPT ![t] =
            [pc |-> IF t \in Adopters THEN "wait" ELSE "submit", job |-> j, port |-> p,
             sock |-> IF t \in Foreground THEN t ELSE p]]
       /\ OpenMaster(mu'[t].sock)
  /\ UNCHANGED <<job, regVars, trusted>>

\* The script is pushed (see StagedScripts) and submitted.  The scheduler may refuse it, or
\* take it without mu learning the id (the link drops, the answer does not parse): mu gives up.
Submit(t) ==
  /\ At(t, {"submit"})
  /\ \/ /\ job' = [job EXCEPT ![t].st = "queued"]
        /\ Goto(t, "wait")
        /\ UNCHANGED <<sshVars, loose>>
     \/ /\ \E st \in {"none", "queued"} : job' = [job EXCEPT ![t].st = st]
        /\ Exit(t)
        /\ CloseMaster(mu[t].sock)
  /\ UNCHANGED <<regVars, trusted>>

\* waitRunning.
Running(t) ==
  /\ At(t, {"wait"}) /\ job[mu[t].job].st = "running"
  /\ Goto(t, "forward")
  /\ UNCHANGED <<job, sshVars, regVars, trusted, loose>>

\* Mutant: once the job runs, the master is told to outlive mu, forward or no forward.
GiveUpKeepsMaster(t) ==
  /\ At(t, Setup \cup Reattach)
  /\ IF At(t, {"forward"}) THEN UNCHANGED <<sshVars, loose>> ELSE CloseMaster(mu[t].sock)
  /\ Exit(t)
  /\ UNCHANGED <<job, regVars, trusted>>

\* Any leg fails, the wait runs out, the job is over before it was seen running, the owner
\* presses Ctrl-C: the deferred Close takes the master down.  A submitted job stays.
GiveUp(t) ==
  /\ At(t, Setup \cup Reattach)
  /\ CloseMaster(mu[t].sock)
  /\ Exit(t)
  /\ UNCHANGED <<job, regVars, trusted>>

\* Asking a master for the forward it carries already is granted; a bound port is not.
AddForward(t) ==
  LET f == [job |-> mu[t].job, port |-> mu[t].port]
  IN  /\ mu[t].sock \in master
      /\ ~Taken(f.port) \/ fwd[mu[t].sock] = f
      /\ fwd' = [fwd EXCEPT ![mu[t].sock] = f]
      /\ UNCHANGED master

\* A record that cannot be written costs a warning.
SaveTunnel(t) ==
  \/ /\ rec' = [rec EXCEPT ![t] = [job |-> mu[t].job, port |-> mu[t].port, sock |-> mu[t].sock]]
     /\ trusted' = trusted \cup {<<t, mu[t].job>>}
     /\ UNCHANGED loose
  \/ /\ Leave(mu[t].sock, "cut")
     /\ UNCHANGED <<rec, trusted>>

\* The tunnel is up: background mu is done, its master lives on; foreground mu holds it.
GoUp(t) ==
  /\ At(t, {"forward"})
  /\ AddForward(t)
  /\ SaveTunnel(t)
  /\ IF t \in Foreground THEN Goto(t, "hold") ELSE Exit(t)
  /\ UNCHANGED <<job, age>>

\* Foreground: Ctrl-C, or the connection drops.
Release(t) ==
  /\ At(t, {"hold"})
  /\ rec' = [rec EXCEPT ![t] = None]
  /\ trusted' = {r \in trusted : r[1] # t}
  /\ CloseMaster(mu[t].sock)
  /\ Exit(t)
  /\ UNCHANGED <<job, age>>

\* mu is killed where it stands and cleans nothing up.
Killed(t) ==
  /\ ~Idle(t)
  /\ Leave(mu[t].sock, "cut")
  /\ Exit(t)
  /\ UNCHANGED <<job, sshVars, regVars, trusted>>

-----------------------------------------------------------------------------
(* ls, reattach, close.                                                    *)

\* masterAlive: the socket the record names answers.
MasterAlive(t) == rec[t].sock \in master

\* Mutant: the walltime counts as spent in its last tick.
ExpiredEarly(t) == t \in Timed /\ age[t] >= Wall

\* expired: the walltime is known and has passed since mu saw the job running.
Expired(t) == t \in Timed /\ age[t] > Wall

\* forgetTunnel.  The record goes; a master that still answers stays.
Forget(t) ==
  /\ rec' = [rec EXCEPT ![t] = None]
  /\ Leave(rec[t].sock, "pruned")

\* ls, as far as it changes anything: offline it drops an expired record whose master is
\* gone, and after a listing that worked one whose master lives and whose job is absent.
Ls(t) ==
  /\ Recorded(t)
  /\ IF MasterAlive(t) THEN ~Live(rec[t].job) ELSE Expired(t)
  /\ Forget(t)
  /\ UNCHANGED <<job, sshVars, age, mu, trusted>>

\* Mutant: reattach opens its master without Persist, at a socket named for its process.
ReattachElsewhere(t) ==
  /\ Recorded(t) /\ Idle(t) /\ ~MasterAlive(t) /\ ~Expired(t) /\ ~Taken(rec[t].port)
  /\ mu' = [mu EXCEPT ![t] =
       [pc |-> "list", job |-> rec[t].job, port |-> rec[t].port, sock |-> t]]
  /\ OpenMaster(t)
  /\ UNCHANGED <<job, regVars, trusted>>

\* reattach leaves an open tunnel alone and drops an expired one as ls does.
StartReattach(t) ==
  /\ Recorded(t) /\ Idle(t) /\ ~MasterAlive(t) /\ ~Expired(t) /\ ~Taken(rec[t].port)
  /\ mu' = [mu EXCEPT ![t] =
       [pc |-> "list", job |-> rec[t].job, port |-> rec[t].port, sock |-> rec[t].port]]
  /\ OpenMaster(rec[t].port)
  /\ UNCHANGED <<job, regVars, trusted>>

\* A listing without the job drops the record; a job that is not running ends the try
\* (GiveUp), and so does a listing that failed.
List(t) ==
  /\ At(t, {"list"})
  /\ \/ /\ job[mu[t].job].st = "running"
        /\ Goto(t, "reforward")
        /\ UNCHANGED <<sshVars, rec, loose>>
     \/ /\ ~Live(mu[t].job)
        /\ rec' = [rec EXCEPT ![t] = None]
        /\ CloseMaster(mu[t].sock)
        /\ Exit(t)
  /\ UNCHANGED <<job, age, trusted>>

\* The record is written as it was loaded, host and socket apart: Running stays.
Reforward(t) ==
  /\ At(t, {"reforward"})
  /\ AddForward(t)
  /\ SaveTunnel(t)
  /\ Exit(t)
  /\ UNCHANGED <<job, age>>

\* close: the cancel is best effort, the master and the record go in any case.
Close(t, keep) ==
  /\ Recorded(t)
  /\ \/ UNCHANGED job
     \/ /\ ~keep /\ Live(rec[t].job)
        /\ job' = [job EXCEPT ![rec[t].job] = [st |-> "ended", age |-> 0]]
  /\ CloseMaster(rec[t].sock)
  /\ rec' = [rec EXCEPT ![t] = None]
  /\ trusted' = {r \in trusted : r[1] # t}
  /\ UNCHANGED <<age, mu>>

-----------------------------------------------------------------------------
(* The scheduler and the clock.                                            *)

JobStarts(j) ==
  /\ job[j].st = "queued"
  /\ job' = [job EXCEPT ![j] = [st |-> "running", age |-> 0]]
  /\ UNCHANGED <<sshVars, regVars, mu, trusted, loose>>

\* It finishes, fails, or is deleted by other means.
JobEnds(j) ==
  /\ Live(j)
  /\ job' = [job EXCEPT ![j] = [st |-> "ended", age |-> 0]]
  /\ UNCHANGED <<sshVars, regVars, mu, trusted, loose>>

JobRequeued(j) ==
  /\ j \in Requeues /\ job[j].st = "running"
  /\ job' = [job EXCEPT ![j] = [st |-> "queued", age |-> 0]]
  /\ UNCHANGED <<sshVars, regVars, mu, trusted, loose>>

\* A tick.  The scheduler kills a job at its walltime before more time passes, and the
\* forward is asked for in the tick that saw the job running.
Advance ==
  /\ \A t \in Tunnels : ~At(t, {"forward"})
  /\ \A j \in Tunnels : job[j].st = "running" => job[j].age < Wall
  /\ job' = [j \in Tunnels |-> IF job[j].st = "running" THEN [job[j] EXCEPT !.age = @ + 1]
                               ELSE job[j]]
  /\ age' = [t \in Tunnels |-> IF (Recorded(t) \/ At(t, Reattach)) /\ age[t] <= Wall
                              THEN age[t] + 1 ELSE age[t]]
  /\ UNCHANGED <<sshVars, rec, mu, trusted, loose>>

-----------------------------------------------------------------------------

\* What the owner runs, and what the mu he ran does.
Owner(t) ==
  \/ \E p \in Ports : Open(t, p)
  \/ Ls(t) \/ StartReattach(t) \/ \E keep \in BOOLEAN : Close(t, keep)
Step(t) ==
  \/ Submit(t) \/ Running(t) \/ GoUp(t) \/ Release(t)
  \/ List(t) \/ Reforward(t) \/ GiveUp(t) \/ Killed(t)

Next ==
  \/ \E t \in Tunnels :
       Owner(t) \/ Step(t) \/ JobStarts(t) \/ JobEnds(t) \/ JobRequeued(t)
  \/ \E s \in Socks : MasterDies(s)
  \/ Advance

Spec == Init /\ [][Next]_vars

-----------------------------------------------------------------------------

\* A tunnel that was reported up and recorded, and that its owner has not closed, keeps its
\* record for as long as its job is in the queue: no ls, no reattach, no race of the two
\* with a dying master or the clock drops it (splitByMaster, expired, reattachTunnel).
NothingStranded == \A r \in trusted : Live(r[2]) => Recorded(r[1])

Held(s) ==
  \/ \E t \in Tunnels : ~Idle(t) /\ mu[t].sock = s
  \/ \E t \in Tunnels : Recorded(t) /\ rec[t].sock = s

\* A master that answers is held by a mu at work or named by a record, unless a mu was cut
\* short before it could write one, or the record was pruned with its job: a setup or a
\* reattach that fails leaves none behind (the keepMux defers).
MasterAccounted == \A s \in master : Held(s) \/ loose[s] # "no"

\* A local port is held by nobody's leave: the registry or a mu at work has a handle on every
\* master, except where a mu was cut short (the header of tunnelreg.go).
PortHasHandle == \A s \in master : Held(s) \/ loose[s] = "cut"

\* A record whose socket answers has its own forward behind it, so that open means open and
\* close closes this tunnel and no other (masterAlive).
AliveIsOurs ==
  \A t \in Tunnels :
    Recorded(t) /\ MasterAlive(t) /\ fwd[rec[t].sock] # None => fwd[rec[t].sock].job = rec[t].job

=============================================================================
