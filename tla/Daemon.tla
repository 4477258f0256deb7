------------------------------- MODULE Daemon -------------------------------
(***************************************************************************)
(* The daemon's life, runDaemon in main.go with handleSignals, on Windows  *)
(* the service around it, and the redirection it installs and removes by   *)
(* commands, each of which may fail. The rules are the system's: they      *)
(* outlive the process. The goroutine of runDaemon ("main") and the one of *)
(* proxy.Start may clean up at once.                                       *)
(***************************************************************************)
EXTENDS Naturals, Sequences

\* Redirections of port 53 by protocol, the blocking of known resolvers, the DNS
\* server of an interface, and pf enabled, without which its rules do nothing
Redirects == {"udp4", "tcp4", "udp6", "tcp6"}
Rules == Redirects \union {"resolvers", "dns", "pf"}

\* A command that adds rules; the installation gives up when one that must
\* succeed fails, as one always does whose input the tool refuses.
Adds(rs, must) == [rules |-> rs, must |-> must, refused |-> FALSE]
Refused(rs) == [rules |-> rs, must |-> TRUE, refused |-> TRUE]

\* A command that removes rules: at any time, of an interface whose setting was
\* saved, or of one that is up
Takes(rs) == [rules |-> rs, if |-> "always"]
Resets(which) == [rules |-> {"dns"}, if |-> which]

\* pfctl loads an anchor at once; any of its flushes empties it. Cleanup leaves
\* pf enabled.
Anchor == Redirects \union {"resolvers"}
PF == [install |-> <<Adds(Anchor, TRUE), Adds({"pf"}, FALSE)>>,
       cleanup |-> <<Takes(Anchor), Takes(Anchor), Takes({})>>, service |-> FALSE]

\* nft would load both tables at once, but there are no rules outside of a chain,
\* where the blocking of the resolvers stands (lines 94-97).
Nft == [install |-> <<Refused(Anchor)>>,
        cleanup |-> <<Takes({"udp4", "tcp4", "resolvers"}), Takes({"udp6", "tcp6"})>>,
        service |-> FALSE]

\* iptables has a command per rule, ip6tables only where it is installed.
Iptables4 == [install |-> <<Adds({"udp4"}, TRUE), Adds({"tcp4"}, TRUE), Adds({"resolvers"}, FALSE)>>,
              cleanup |-> <<Takes({"udp4"}), Takes({"tcp4"}), Takes({"resolvers"})>>,
              service |-> FALSE]
Iptables == [install |-> Iptables4.install \o <<Adds({"udp6"}, FALSE), Adds({"tcp6"}, FALSE)>>,
             cleanup |-> Iptables4.cleanup \o <<Takes({"udp6"}), Takes({"tcp6"})>>,
             service |-> FALSE]

\* netsh: the DNS server of each interface that is up, and proxies of the port
\* unless the daemon listens on 53 itself. Cleanup resets the interfaces it saved,
\* then those that are up.
PortProxy == [install |-> <<Adds({"resolvers"}, FALSE), Adds({"tcp4"}, TRUE), Adds({"udp4"}, FALSE)>>,
              cleanup |-> <<Resets("saved"), Resets("up"),
                            Takes({"tcp4"}), Takes({"udp4"}), Takes({"resolvers"})>>,
              service |-> TRUE]
SystemDNS53 == [install |-> <<Adds({"resolvers"}, FALSE), Adds({"dns"}, TRUE)>>,
                cleanup |-> PortProxy.cleanup, service |-> TRUE]
SystemDNS == [install |-> SystemDNS53.install \o <<Adds({"tcp4"}, TRUE), Adds({"udp4"}, FALSE)>>,
              cleanup |-> PortProxy.cleanup, service |-> TRUE]

Backends == {PF, Nft, Iptables4, Iptables, SystemDNS53, SystemDNS, PortProxy}

VARIABLES
    backend,    \* the firewall this host has; on Windows the daemon is a service
    up,         \* the host's network interface is up
    rules,      \* what the kernel has of our rules, and whether pf is enabled
    saved,      \* originalDNS has the interface
    unset,      \* history: there was no interface whose DNS server could be set
    manager,    \* fwMgr # nil
    pc,         \* where the two goroutines stand
    step,       \* the next command each of them issues
    stopping,   \* the service has cancelled the context of runDaemon
    ended,      \* how the last process ended, unless it runs
    failed      \* history: rules for whose removal a command of this process failed,
                \* or found no interface up

\* How many commands there are
ToInstall == Len(backend.install)
ToRemove == Len(backend.cleanup)

host == <<backend, up>>
dns == <<saved, unset>>
vars == <<host, rules, dns, manager, pc, step, stopping, ended, failed>>

Goroutines == {"main", "server"}
CleansUp == {"cleanup", "deferred", "closing"}

Init ==
    /\ backend \in Backends
    /\ up \in BOOLEAN
    /\ rules \in IF backend = PF THEN {{}, {"pf"}} ELSE {{}}
    /\ saved = FALSE /\ unset = FALSE
    /\ manager = FALSE
    /\ pc = [g \in Goroutines |-> "off"]
    /\ step = [g \in Goroutines |-> 1]
    /\ stopping = FALSE
    /\ ended = "never"
    /\ failed = {}

Running == pc["main"] # "off"

Goto(g, stage) ==
    /\ pc' = [pc EXCEPT ![g] = stage]
    /\ step' = [step EXCEPT ![g] = 1]

EndsMainOnly(how) ==
    /\ pc' = [pc EXCEPT !["main"] = "off"]
    /\ step' = [g \in Goroutines |-> 1]
    /\ ended' = how
\* The process ends and both goroutines with it.
Ends(how) ==
    /\ pc' = [g \in Goroutines |-> "off"]
    /\ step' = [g \in Goroutines |-> 1]
    /\ ended' = how

\* runDaemon: the supervisor or the user starts the process; a configuration
\* that does not load ends it.
Start ==
    /\ ~Running
    /\ \/ Goto("main", "install") /\ ended' = "running"
       \/ Ends("fatal")
    /\ manager' = FALSE
    /\ stopping' = FALSE
    /\ failed' = {}
    /\ saved' = FALSE /\ unset' = FALSE
    /\ UNCHANGED <<host, rules>>

-----------------------------------------------------------------------------
(* initFirewall and InstallRedirect.                                        *)

Installing == pc["main"] = "install"
Command == backend.install[step["main"]]

NextCommand ==
    /\ step' = [step EXCEPT !["main"] = @ + 1]
    /\ UNCHANGED <<pc, manager>>

\* No manager: the daemon goes on without a redirection.
GivesUp ==
    /\ Goto("main", "create")
    /\ UNCHANGED <<rules, manager>>

\* It is not enabled, or the tool is not found.
NoFirewall ==
    /\ Installing
    /\ step["main"] = 1
    /\ GivesUp
    /\ UNCHANGED <<host, dns, stopping, ended, failed>>

Issues == Installing /\ step["main"] <= ToInstall
SetsDNS == "dns" \in Command.rules

\* A command succeeds, or finds its rule there already. That of the DNS server
\* is preceded by a look at the present ones, which is saved if there are any.
Installs ==
    /\ Issues /\ ~Command.refused
    /\ SetsDNS => up
    /\ rules' = rules \union Command.rules
    /\ IF SetsDNS THEN saved' \in BOOLEAN ELSE UNCHANGED saved
    /\ NextCommand
    /\ UNCHANGED <<host, unset, stopping, ended, failed>>

\* installSystemDNS has no interface to go through.
Skips ==
    /\ Issues /\ SetsDNS /\ ~up
    /\ unset' = TRUE
    /\ NextCommand
    /\ UNCHANGED <<host, rules, saved, stopping, ended, failed>>

InstallFailsQuietly ==
    /\ Issues
    /\ NextCommand
    /\ UNCHANGED <<host, rules, dns, stopping, ended, failed>>
InstallFails ==
    /\ Issues
    /\ IF Command.must THEN GivesUp ELSE NextCommand /\ UNCHANGED rules
    /\ UNCHANGED <<host, dns, stopping, ended, failed>>

Installed ==
    /\ Installing
    /\ step["main"] > ToInstall
    /\ Goto("main", "create")
    /\ manager' = TRUE
    /\ UNCHANGED <<host, rules, dns, stopping, ended, failed>>

-----------------------------------------------------------------------------
(* The rest of runDaemon, and the goroutine it starts the proxy in.         *)

\* A goroutine that is done with the rules, or has none to remove, ends the
\* process by os.Exit or by the return of main.
CleanUpThen(g, stage) == Goto(g, IF manager THEN stage ELSE "exit")

\* dnsproxy.New
Create ==
    /\ pc["main"] = "create"
    /\ \/ pc' = [main |-> "boot", server |-> "listen"] /\ UNCHANGED step
       \/ CleanUpThen("main", "closing")
    /\ UNCHANGED <<host, rules, dns, manager, stopping, ended, failed>>

\* ListenAndServe
Listen ==
    /\ pc["server"] = "listen"
    /\ Goto("server", "serve")
    /\ UNCHANGED <<host, rules, dns, manager, stopping, ended, failed>>

ServerFailsUncleaned ==
    /\ pc["server"] \in {"listen", "serve"}
    /\ Goto("server", "exit")
    /\ UNCHANGED <<host, rules, dns, manager, stopping, ended, failed>>
\* ... returns an error, before or after it came to listen.
ServerFails ==
    /\ pc["server"] \in {"listen", "serve"}
    /\ CleanUpThen("server", "closing")
    /\ UNCHANGED <<host, rules, dns, manager, stopping, ended, failed>>

\* signal.Notify: until here the signals have their default effect, Killed.
Notify ==
    /\ pc["main"] = "boot"
    /\ Goto("main", "signals")
    /\ UNCHANGED <<host, rules, dns, manager, stopping, ended, failed>>

\* SIGINT or SIGTERM: clean up, cancel the context and return
Terminate ==
    /\ ~backend.service
    /\ pc["main"] = "signals"
    /\ CleanUpThen("main", "cleanup")
    /\ UNCHANGED <<host, rules, dns, manager, stopping, ended, failed>>

\* Execute of the service: a stop or a shutdown cancels the context, whatever
\* runDaemon is at, and the process ends two seconds later.
ServiceStop ==
    /\ backend.service /\ Running /\ ~stopping
    /\ stopping' = TRUE
    /\ UNCHANGED <<host, rules, dns, manager, pc, step, ended, failed>>

ServiceEnds ==
    /\ stopping /\ Running
    /\ Ends("stopped")
    /\ UNCHANGED <<host, rules, dns, manager, stopping, failed>>

\* handleSignals on Windows returns two seconds after the cancellation, so that
\* the deferred Cleanup races with the end of the process.
Cancelled ==
    /\ stopping
    /\ pc["main"] = "signals"
    /\ CleanUpThen("main", "closing")
    /\ UNCHANGED <<host, rules, dns, manager, stopping, ended, failed>>

AfterCleanupNoReturn(g) == IF pc[g] = "cleanup" THEN "signals" ELSE "exit"
\* The deferred Cleanup of runDaemon comes after that of handleSignals.
AfterCleanup(g) == IF pc[g] = "cleanup" THEN "deferred" ELSE "exit"

\* A command of Cleanup; its failure is ignored.
Removes(g) ==
    /\ pc[g] \in CleansUp
    /\ step[g] <= ToRemove
    /\ LET command == backend.cleanup[step[g]]
           issued == command.if = "saved" => saved
       IN  \/ /\ issued /\ (command.if = "up" => up)
              /\ rules' = rules \ command.rules /\ UNCHANGED failed
           \/ issued /\ failed' = failed \union command.rules /\ UNCHANGED rules
           \/ ~issued /\ UNCHANGED <<rules, failed>>
    /\ step' = [step EXCEPT ![g] = @ + 1]
    /\ UNCHANGED <<host, dns, manager, pc, stopping, ended>>

Removed(g) ==
    /\ pc[g] \in CleansUp
    /\ step[g] > ToRemove
    /\ Goto(g, AfterCleanup(g))
    /\ UNCHANGED <<host, rules, dns, manager, stopping, ended, failed>>

\* proxy.Start returns when the context is cancelled, by the service or after
\* the clean-up of handleSignals; which context it waits for is a race.
ServerStops ==
    /\ stopping \/ pc["main"] \in {"deferred", "exit"}
    /\ pc["server"] \in {"listen", "serve"}
    /\ Goto("server", "off")
    /\ UNCHANGED <<host, rules, dns, manager, stopping, ended, failed>>

\* os.Exit or the end of main, for which a finished runDaemon leaves it to the
\* service
Exits(g) ==
    /\ pc[g] = "exit"
    /\ Ends("exit")
    /\ UNCHANGED <<host, rules, dns, manager, stopping, failed>>

\* SIGKILL, or a signal before it is handled
Killed ==
    /\ Running
    /\ Ends("killed")
    /\ UNCHANGED <<host, rules, dns, manager, stopping, failed>>

\* A query's handler panics: it runs in a goroutine of the DNS library's own,
\* where the recover around proxy.Start does not reach.
Panics ==
    /\ pc["server"] = "serve"
    /\ Ends("panic")
    /\ UNCHANGED <<host, rules, dns, manager, stopping, failed>>

\* A Windows host's network goes and comes back.
LinkChanges ==
    /\ backend.service
    /\ up' = ~up
    /\ UNCHANGED <<backend, rules, dns, manager, pc, step, stopping, ended, failed>>

Install == NoFirewall \/ Installs \/ Skips \/ InstallFails \/ Installed
Work(g) ==
    \/ g = "main" /\ (Install \/ Create \/ Notify \/ Cancelled)
    \/ g = "server" /\ Listen
    \/ Removes(g) \/ Removed(g) \/ Exits(g)

Next ==
    \/ Start
    \/ \E g \in Goroutines : Work(g)
    \/ Terminate \/ ServiceStop \/ ServiceEnds \/ ServerFails \/ ServerStops \/ Killed \/ Panics
    \/ LinkChanges

\* Goroutines are scheduled, commands end and so do sleeps. Nothing makes a signal arrive, a
\* listener fail, or a user start the daemon again.
Spec == Init /\ [][Next]_vars /\ WF_vars(ServiceEnds)
        /\ \A g \in Goroutines : WF_vars(Work(g))

Stages == {"off", "install", "create", "boot", "signals", "listen", "serve",
           "cleanup", "deferred", "closing", "exit"}

(* The goroutines are in their own code, and each is at a command there is.  *)
TypeOK ==
    /\ backend \in Backends
    /\ rules \subseteq Rules /\ failed \subseteq Rules
    /\ up \in BOOLEAN /\ saved \in BOOLEAN /\ unset \in BOOLEAN
    /\ manager \in BOOLEAN /\ stopping \in BOOLEAN
    /\ pc \in [Goroutines -> Stages]
    /\ pc["server"] # "off" => Running
    /\ step \in [Goroutines -> Nat]
    /\ step["main"] \in 1..(IF Installing THEN ToInstall + 1 ELSE ToRemove + 1)
    /\ step["server"] \in 1..(ToRemove + 1)
    /\ ended \in {"never", "running", "fatal", "exit", "stopped", "killed", "panic"}

(* A manager means a redirection: every rule that must be there is, also      *)
(* those an earlier process left, until a goroutine starts to clean up. Only  *)
(* the DNS server is not set where no interface was up; installSystemDNS      *)
(* succeeds all the same. That pf is enabled does not follow (pf.go 50-52).   *)
RedirectionWhole ==
    manager /\ Running /\ (\A g \in Goroutines : pc[g] \notin CleansUp \union {"exit"}) =>
        \A i \in 1..ToInstall : backend.install[i].must =>
            backend.install[i].rules \ rules \subseteq IF unset THEN {"dns"} ELSE {}

\* What the daemon answers for; pf may have been enabled before.
Own == rules \ {"pf"}

(* When handleSignals has cleaned up, and when the process has ended in       *)
(* order, nothing is left of this process's rules, nor of those a crashed one *)
(* left behind, except what a command was to remove that failed or found the  *)
(* interface down.                                                            *)
NothingLeft ==
    manager /\ (ended = "exit" \/ \E g \in Goroutines : pc[g] \in {"deferred", "exit"}) =>
        Own \subseteq failed

(* A stop that has been asked for, by a signal or by the service manager,     *)
(* comes to its end, though the server's goroutine may clean up at the same   *)
(* time.                                                                      *)
StopEnds == pc["main"] = "cleanup" \/ stopping ~> ~Running

(* Cleanup is called on graceful shutdown, crash, and panic.                  *)
PanicLeavesNothing == manager /\ ended = "panic" => Own \subseteq failed
=============================================================================
