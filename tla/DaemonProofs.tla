---------------------------- MODULE DaemonProofs ----------------------------
(***************************************************************************)
(* For every backend, through any number of lives of the daemon: what its  *)
(* firewall rules are while it runs and when it has ended, and that its    *)
(* goroutines advance.                                                     *)
(***************************************************************************)
EXTENDS Daemon, TLAPS

Adding == 1..ToInstall
Removing == 1..ToRemove

\* The commands of Cleanup that are issued whatever InstallRedirect has saved
Sure == {i \in Removing : backend.cleanup[i].if # "saved"}

\* Every rule of ours that is there is one that some such command removes.
Removable == \A r \in Own : \E i \in Sure : r \in backend.cleanup[i].rules

\* What may be missing from a redirection
Excused == IF unset THEN {"dns"} ELSE {}

\* The installation has done what it must, and a clean-up what it could, up to
\* the command it is at. A goroutine does not leave before it has cleaned up.
Progress ==
    /\ Installing => \A i \in Adding :
          i < step["main"] /\ backend.install[i].must => backend.install[i].rules \ rules \subseteq Excused
    /\ \A g \in Goroutines :
          /\ pc[g] \in CleansUp => \A i \in Sure :
                i < step[g] => backend.cleanup[i].rules \intersect rules \subseteq failed
          /\ manager /\ pc[g] \in {"deferred", "exit"} => Own \subseteq failed
    /\ manager /\ ended = "exit" => Own \subseteq failed

\* The server's goroutine runs when the installation is over.
ServerLast == pc["main"] \in {"off", "install", "create"} => pc["server"] = "off"

DaemonInv ==
    /\ TypeOK /\ Removable /\ Progress /\ ServerLast /\ RedirectionWhole
    /\ Installing => ~manager
    /\ Running => ended = "running"

-----------------------------------------------------------------------------

\* What each backend installs it also removes.
LEMMA BackendsAreWhole ==
    ASSUME NEW b \in Backends
    PROVE  /\ Len(b.install) \in Nat /\ Len(b.cleanup) \in Nat
           /\ \A i \in 1..Len(b.install) :
                 /\ b.install[i].rules \subseteq Rules
                 /\ "dns" \in b.install[i].rules => b.install[i].rules = {"dns"}
                 /\ \A r \in b.install[i].rules \ {"pf"} : \E j \in 1..Len(b.cleanup) :
                       b.cleanup[j].if # "saved" /\ r \in b.cleanup[j].rules
           /\ \A j \in 1..Len(b.cleanup) : b.cleanup[j].rules \subseteq Rules
<1> USE DEF Rules, Redirects, Anchor, Adds, Refused, Takes, Resets
<1>1. CASE b = PF
  BY <1>1 DEF PF
<1>2. CASE b = Nft
  BY <1>2 DEF Nft
<1>3. CASE b = Iptables4
  BY <1>3 DEF Iptables4
<1>4. CASE b = Iptables
  BY <1>4 DEF Iptables, Iptables4
<1>5. CASE b = SystemDNS53
  BY <1>5 DEF SystemDNS53, PortProxy
<1>6. CASE b = SystemDNS
  BY <1>6 DEF SystemDNS, SystemDNS53, PortProxy
<1>7. CASE b = PortProxy
  BY <1>7 DEF PortProxy
<1> QED BY <1>1, <1>2, <1>3, <1>4, <1>5, <1>6, <1>7 DEF Backends

\* A step of the installation, alone with the rules.
LEMMA InstallStep ==
    ASSUME DaemonInv, Install
    PROVE  DaemonInv'
<1> USE DEF host, dns
<1>1. /\ pc["main"] = "install" /\ pc["server"] = "off" /\ ~manager /\ ended = "running"
      /\ backend \in Backends /\ up \in BOOLEAN /\ saved \in BOOLEAN /\ unset \in BOOLEAN
      /\ manager \in BOOLEAN /\ rules \subseteq Rules /\ failed \subseteq Rules
      /\ pc \in [Goroutines -> Stages] /\ step \in [Goroutines -> Nat] /\ stopping \in BOOLEAN
  BY DEF DaemonInv, ServerLast, Installing, Running, TypeOK, Install, NoFirewall, Issues, Installs,
         Skips, InstallFails, Installed
<1>2. PICK i \in 1..(ToInstall + 1) :
         i = step["main"] /\ step["server"] \in 1..(ToRemove + 1)
  BY <1>1 DEF DaemonInv, TypeOK, Installing
<1>3. UNCHANGED <<backend, up, stopping, ended, failed, ToInstall, ToRemove, Adding, Removing, Sure>>
  BY DEF Install, NoFirewall, Installs, Skips, InstallFails, Installed, ToInstall, ToRemove, Adding,
         Removing, Sure
<1>3a. i \in Nat /\ ToInstall \in Nat /\ ToRemove \in Nat
  BY <1>1, <1>2, BackendsAreWhole DEF ToInstall, ToRemove
<1>4. \A j \in Adding : /\ backend.install[j].rules \subseteq Rules
                        /\ \A r \in backend.install[j].rules \ {"pf"} :
                              \E k \in Sure : r \in backend.cleanup[k].rules
  BY <1>1, BackendsAreWhole DEF Adding, Removing, Sure, ToInstall, ToRemove
<1>5. \A j \in Adding : j < i /\ backend.install[j].must => backend.install[j].rules \ rules \subseteq Excused
  BY <1>1, <1>2 DEF DaemonInv, Progress, Installing
<1>6. Removable
  BY DEF DaemonInv
<1>7. ASSUME i \in Adding, step' = [step EXCEPT !["main"] = i + 1], UNCHANGED <<pc, manager>>,
             saved' \in BOOLEAN, unset' \in BOOLEAN, unset => unset',
             rules' \in {rules, rules \union backend.install[i].rules},
             backend.install[i].must => backend.install[i].rules \ rules' \subseteq Excused'
      PROVE  DaemonInv'
  <2>1. rules' \subseteq Rules /\ rules \subseteq rules' /\ Excused \subseteq Excused'
    BY <1>1, <1>4, <1>7 DEF Excused
  <2>2. step' \in [Goroutines -> Nat] /\ step'["main"] = i + 1 /\ step'["server"] = step["server"]
    BY <1>1, <1>2, <1>3a, <1>7 DEF Goroutines
  <2>3. TypeOK'
    BY <1>1, <1>2, <1>3, <1>3a, <1>7, <2>1, <2>2 DEF TypeOK, Installing, Adding, DaemonInv
  <2>4. Removable'
    BY <1>3, <1>4, <1>6, <1>7 DEF Removable, Own
  <2>5. \A j \in Adding : j < i + 1 /\ backend.install[j].must =>
            backend.install[j].rules \ rules' \subseteq Excused'
    BY <1>2, <1>3a, <1>5, <1>7, <2>1 DEF Adding
  <2>6. Progress'
    BY <1>1, <1>3, <1>7, <2>2, <2>5 DEF Progress, Installing, CleansUp, Goroutines, Adding
  <2> QED BY <1>1, <1>3, <1>7, <2>3, <2>4, <2>6
          DEF DaemonInv, ServerLast, RedirectionWhole, Installing, Running
<1>8. ASSUME Goto("main", "create"), UNCHANGED <<rules, saved, unset>>, manager' \in BOOLEAN,
             manager' => i = ToInstall + 1
      PROVE  DaemonInv'
  <2>1. /\ pc' \in [Goroutines -> Stages] /\ pc'["main"] = "create" /\ pc'["server"] = "off"
        /\ step' \in [Goroutines -> Nat] /\ step'["main"] = 1 /\ step'["server"] = step["server"]
    BY <1>1, <1>8 DEF Goto, Goroutines, Stages
  <2>2. TypeOK'
    BY <1>1, <1>2, <1>3, <1>3a, <1>8, <2>1 DEF TypeOK, Installing, Running
  <2>3. Removable'
    BY <1>3, <1>6, <1>8 DEF Removable, Own
  <2>4. Progress'
    BY <1>1, <1>3, <1>8, <2>1 DEF Progress, Installing, CleansUp, Goroutines
  <2>5. RedirectionWhole'
    BY <1>2, <1>3, <1>3a, <1>5, <1>8 DEF RedirectionWhole, Adding, Excused
  <2> QED BY <1>1, <1>3, <2>1, <2>2, <2>3, <2>4, <2>5 DEF DaemonInv, ServerLast, Installing, Running
<1>9. CASE NoFirewall
  BY <1>1, <1>8, <1>9 DEF NoFirewall, GivesUp
<1>10. CASE Installs \/ Skips \/ (InstallFails /\ ~Command.must)
  <2>1. i \in Adding /\ step' = [step EXCEPT !["main"] = i + 1] /\ UNCHANGED <<pc, manager>>
    BY <1>2, <1>3a, <1>10 DEF Installs, Skips, InstallFails, Issues, NextCommand, Adding
  <2>2. CASE Installs
    BY <1>1, <1>2, <1>7, <2>1, <2>2 DEF Installs, Command
  <2>3. CASE Skips
    <3>1. backend.install[i].must => backend.install[i].rules \subseteq {"dns"}
      BY <1>1, <1>2, <2>1, <2>3, BackendsAreWhole DEF Skips, SetsDNS, Command, Adding, ToInstall
    <3> QED BY <1>1, <1>7, <2>1, <2>3, <3>1 DEF Skips, Excused
  <2>4. CASE InstallFails /\ ~Command.must
    BY <1>1, <1>2, <1>7, <2>1, <2>4 DEF InstallFails, Command
  <2> QED BY <1>10, <2>2, <2>3, <2>4
<1>11. CASE InstallFails /\ Command.must
  BY <1>1, <1>8, <1>11 DEF InstallFails, GivesUp
<1>12. CASE Installed
  BY <1>2, <1>3a, <1>8, <1>12 DEF Installed
<1> QED BY <1>9, <1>10, <1>11, <1>12 DEF Install

\* A command of a clean-up: what is left of its rules, a failure explains.
LEMMA RemoveStep ==
    ASSUME DaemonInv, NEW g \in Goroutines, Removes(g)
    PROVE  DaemonInv'
<1> USE DEF host, dns
<1>1. /\ pc[g] \in CleansUp
      /\ UNCHANGED <<backend, up, saved, unset, manager, pc, stopping, ended, ToInstall, ToRemove, Sure>>
      /\ backend \in Backends /\ ToRemove \in Nat /\ step \in [Goroutines -> Nat]
      /\ pc \in [Goroutines -> Stages] /\ ~Installing
  BY BackendsAreWhole DEF DaemonInv, TypeOK, ServerLast, Removes, ToInstall, ToRemove, CleansUp,
     Goroutines, Installing, Sure, Removing
<1>2. PICK i \in Removing : i = step[g]
  <2>1. step[g] >= 1 /\ step[g] <= ToRemove
    BY <1>1 DEF DaemonInv, TypeOK, Goroutines, Removes
  <2> QED BY <1>1, <2>1 DEF Removing, ToRemove
<1>3. backend.cleanup[i].rules \subseteq Rules
  BY <1>1, BackendsAreWhole DEF Removing, ToRemove
<1>4. /\ rules' \subseteq rules /\ failed \subseteq failed' /\ failed' \subseteq Rules
      /\ i \in Sure => backend.cleanup[i].rules \intersect rules' \subseteq failed'
  BY <1>2, <1>3 DEF Removes, DaemonInv, TypeOK, Sure
<1>5. /\ step' = [step EXCEPT ![g] = i + 1] /\ step' \in [Goroutines -> Nat]
      /\ i \in Nat /\ i <= ToRemove
  BY <1>1, <1>2 DEF Removes, Removing, ToRemove
<1>6. TypeOK'
  BY <1>1, <1>2, <1>4, <1>5 DEF DaemonInv, TypeOK, Goroutines, Installing, Running
<1>7. Removable'
  BY <1>1, <1>4 DEF DaemonInv, Removable, Own
<1>8. Progress'
  <2>1. ASSUME NEW h \in Goroutines, pc[h] \in CleansUp, NEW j \in Sure, j < step'[h]
        PROVE  backend.cleanup[j].rules \intersect rules' \subseteq failed'
    <3>1. CASE j = i
      BY <1>4, <3>1
    <3>2. CASE j < step[h]
      BY <1>4, <2>1, <3>2 DEF DaemonInv, Progress
    <3>3. j = i \/ j < step[h]
      BY <1>1, <1>2, <1>5, <2>1 DEF Removing, Sure
    <3> QED BY <3>1, <3>2, <3>3
  <2>2. \A h \in Goroutines : manager /\ pc[h] \in {"deferred", "exit"} => Own' \subseteq failed'
    BY <1>4 DEF DaemonInv, Progress, Own
  <2>3. manager /\ ended = "exit" => Own' \subseteq failed'
    BY <1>4 DEF DaemonInv, Progress, Own
  <2> QED BY <1>1, <2>1, <2>2, <2>3 DEF Progress, Installing
<1>9. RedirectionWhole'
  BY <1>1 DEF RedirectionWhole
<1> QED BY <1>1, <1>6, <1>7, <1>8, <1>9 DEF DaemonInv, ServerLast, Installing, Running

\* A step of one goroutine that leaves the rules alone. It may start to clean up,
\* and it leaves with the rules only when no manager owns them.
LEMMA MoveStep ==
    ASSUME DaemonInv, NEW g \in Goroutines, Running, pc[g] # "off", ~Installing,
           UNCHANGED <<host, rules, dns, manager, stopping, ended, failed>>,
           NEW stage \in Stages \ {"off", "install", "create"}, Goto(g, stage),
           manager /\ stage \in {"deferred", "exit"} => Own \subseteq failed,
           pc[g] \in CleansUp \union {"exit"} => stage \in CleansUp \union {"exit"},
           pc["main"] = "create" => g = "main"
    PROVE  DaemonInv'
<1> USE DEF host, dns
<1>1. /\ pc' = [pc EXCEPT ![g] = stage] /\ step' = [step EXCEPT ![g] = 1]
      /\ pc \in [Goroutines -> Stages] /\ step \in [Goroutines -> Nat]
      /\ ToRemove \in Nat /\ ToInstall \in Nat /\ UNCHANGED <<ToInstall, ToRemove, Sure, Own, Excused>>
  BY BackendsAreWhole DEF Goto, DaemonInv, TypeOK, ToInstall, ToRemove, Removing, Sure, Own, Excused
<1>2. pc' \in [Goroutines -> Stages] /\ step' \in [Goroutines -> Nat]
  BY <1>1
<1>3. pc'["main"] # "install" /\ pc'["main"] # "off" /\ pc["main"] # "off"
  BY <1>1 DEF Installing, Running, Goroutines
<1>4. TypeOK'
  BY <1>1, <1>2, <1>3 DEF DaemonInv, TypeOK, Goroutines, Installing, Running
<1>5. Removable'
  BY <1>1 DEF DaemonInv, Removable
<1>6. Progress'
  <2>1. \A h \in Goroutines : pc'[h] \in CleansUp =>
            \A j \in Sure : j < step'[h] => backend.cleanup[j].rules \intersect rules \subseteq failed
    BY <1>1 DEF DaemonInv, Progress, CleansUp, Sure, Removing
  <2>2. \A h \in Goroutines : manager /\ pc'[h] \in {"deferred", "exit"} => Own \subseteq failed
    BY <1>1 DEF DaemonInv, Progress
  <2>3. manager /\ ended = "exit" => Own \subseteq failed
    BY DEF DaemonInv, Progress
  <2> QED BY <1>1, <1>3, <2>1, <2>2, <2>3 DEF Progress, Installing
<1>7. ServerLast'
  BY <1>1, <1>3 DEF DaemonInv, ServerLast, Goroutines
<1>8. RedirectionWhole'
  BY <1>1, <1>3 DEF DaemonInv, RedirectionWhole, Running
<1> QED BY <1>3, <1>4, <1>5, <1>6, <1>7, <1>8 DEF DaemonInv, Installing, Running

\* The process is started, or ends: both goroutines are gone, the rules stay.
LEMMA ProcessStep ==
    ASSUME DaemonInv, Start \/ ServiceEnds \/ Killed \/ Panics \/ \E g \in Goroutines : Exits(g)
    PROVE  DaemonInv'
<1> USE DEF host, dns
<1>1. /\ UNCHANGED <<backend, up, rules, ToInstall, ToRemove, Sure, Own>> /\ up \in BOOLEAN
      /\ saved' \in BOOLEAN /\ unset' \in BOOLEAN
      /\ backend \in Backends /\ rules \subseteq Rules /\ failed \subseteq Rules
      /\ ToRemove \in Nat /\ ToInstall \in Nat /\ manager \in BOOLEAN
      /\ pc \in [Goroutines -> Stages] /\ step \in [Goroutines -> Nat] /\ stopping' \in BOOLEAN
  BY BackendsAreWhole DEF DaemonInv, TypeOK, Start, ServiceEnds, Killed, Panics, Exits, ToInstall, ToRemove,
     Removing, Sure, Own
<1>2. Removable'
  BY <1>1 DEF DaemonInv, Removable
<1>3. ASSUME NEW how \in {"fatal", "exit", "stopped", "killed", "panic"}, Ends(how), failed' \subseteq Rules,
             stopping' \in BOOLEAN, manager' \in BOOLEAN, manager' /\ how = "exit" => Own \subseteq failed'
      PROVE  DaemonInv'
  <2>1. /\ pc' \in [Goroutines -> Stages] /\ step' \in [Goroutines -> Nat] /\ ended' = how
        /\ \A g \in Goroutines : pc'[g] = "off" /\ step'[g] = 1
    BY <1>3 DEF Ends, Stages
  <2>2. pc'["main"] = "off" /\ pc'["server"] = "off" /\ step'["main"] = 1 /\ step'["server"] = 1
    BY <2>1 DEF Goroutines
  <2>3. TypeOK'
    BY <1>1, <1>3, <2>1, <2>2 DEF TypeOK, Installing, Running
  <2>4. Progress'
    BY <1>1, <1>3, <2>1, <2>2 DEF Progress, Installing, CleansUp
  <2> QED BY <1>2, <2>2, <2>3, <2>4 DEF DaemonInv, ServerLast, RedirectionWhole, Installing, Running
<1>4. CASE Killed
  BY <1>1, <1>3, <1>4 DEF Killed
<1>5. CASE Panics \/ ServiceEnds
  BY <1>1, <1>3, <1>5 DEF Panics, ServiceEnds
<1>6. ASSUME NEW g \in Goroutines, Exits(g) PROVE DaemonInv'
  BY <1>1, <1>3, <1>6 DEF Exits, DaemonInv, Progress
<1>7. CASE Start
  <2>1. manager' = FALSE /\ stopping' = FALSE /\ failed' = {} /\ ~Running
    BY <1>7 DEF Start
  <2>2. CASE Ends("fatal")
    BY <1>3, <2>1, <2>2
  <2>3. CASE Goto("main", "install") /\ ended' = "running"
    <3>1. pc["server"] = "off"
      BY <2>1 DEF DaemonInv, TypeOK, Running
    <3>2. /\ pc' \in [Goroutines -> Stages] /\ step' \in [Goroutines -> Nat]
          /\ pc'["main"] = "install" /\ pc'["server"] = "off"
          /\ step'["main"] = 1 /\ step'["server"] = step["server"]
      BY <1>1, <2>3, <3>1 DEF Goto, Goroutines, Stages
    <3>3. step["server"] \in 1..(ToRemove + 1)
      BY DEF DaemonInv, TypeOK
    <3>4. TypeOK'
      <4>1. 1 \in 1..(ToInstall + 1) /\ failed' \subseteq Rules
        BY <1>1, <2>1
      <4> QED BY <1>1, <2>1, <2>3, <3>2, <3>3, <4>1 DEF TypeOK, Installing, Running
    <3>5. Progress'
      BY <2>1, <2>3, <3>2 DEF Progress, Installing, CleansUp, Goroutines, Adding
    <3> QED BY <1>2, <2>1, <2>3, <3>2, <3>4, <3>5
            DEF DaemonInv, ServerLast, RedirectionWhole, Installing, Running
  <2> QED BY <1>7, <2>2, <2>3 DEF Start
<1> QED BY <1>4, <1>5, <1>6, <1>7

\* Every step of main, its goroutines, the signals and the system keeps the invariant.
LEMMA DaemonStep ==
    ASSUME DaemonInv, [Next]_vars
    PROVE  DaemonInv'
<1> USE DEF Goroutines, host, dns
<1>1. pc \in [Goroutines -> Stages] /\ (pc["server"] # "off" => Running)
  BY DEF DaemonInv, TypeOK
<1>2. CASE Create
  <2>1. pc["main"] = "create" /\ pc["server"] = "off"
        /\ UNCHANGED <<host, rules, dns, manager, stopping, ended, failed>>
    BY <1>2 DEF Create, DaemonInv, ServerLast
  <2>2. CASE CleanUpThen("main", "closing")
    BY <2>1, <2>2, MoveStep DEF CleanUpThen, Running, Installing, Stages, CleansUp
  <2>3. CASE pc' = [main |-> "boot", server |-> "listen"] /\ UNCHANGED step
    <3>1. /\ pc'["main"] = "boot" /\ pc'["server"] = "listen" /\ pc' \in [Goroutines -> Stages]
          /\ UNCHANGED <<ToInstall, ToRemove, Sure, Own>>
      BY <2>1, <2>3 DEF Stages, ToInstall, ToRemove, Removing, Sure, Own
    <3>2. TypeOK'
      BY <2>1, <2>3, <3>1 DEF DaemonInv, TypeOK, Installing, Running
    <3>3. Removable' /\ Progress'
      BY <2>1, <2>3, <3>1 DEF DaemonInv, Removable, Progress, Installing, CleansUp
    <3> QED BY <2>1, <3>1, <3>2, <3>3
            DEF DaemonInv, ServerLast, RedirectionWhole, Installing, Running, CleansUp
  <2> QED BY <1>2, <2>2, <2>3 DEF Create
<1>3. CASE Notify
  BY <1>3, MoveStep DEF Notify, Running, Installing, Stages, CleansUp
<1>4. CASE Terminate
  BY <1>4, MoveStep DEF Terminate, CleanUpThen, Running, Installing, Stages, CleansUp
<1>5. CASE Listen
  BY <1>1, <1>5, MoveStep DEF Listen, DaemonInv, ServerLast, Running, Installing, Stages, CleansUp
<1>6. CASE ServerFails
  BY <1>1, <1>6, MoveStep
     DEF ServerFails, CleanUpThen, DaemonInv, ServerLast, Running, Installing, Stages, CleansUp
<1>7. ASSUME NEW g \in Goroutines, Removed(g) PROVE DaemonInv'
  <2>1. /\ pc[g] \in CleansUp /\ step[g] > ToRemove /\ Goto(g, AfterCleanup(g))
        /\ UNCHANGED <<host, rules, dns, manager, stopping, ended, failed>> /\ AfterCleanup(g) \in {"deferred", "exit"}
    BY <1>7 DEF Removed, AfterCleanup
  <2>2. Own \subseteq failed
    <3>1. ToRemove \in Nat /\ step[g] \in Nat
      BY BackendsAreWhole DEF DaemonInv, TypeOK, ToRemove
    <3>2. \A i \in Sure : backend.cleanup[i].rules \intersect rules \subseteq failed
      BY <2>1, <3>1 DEF DaemonInv, Progress, Sure, Removing, ToRemove
    <3> QED BY <3>2 DEF DaemonInv, Removable, Own
  <2> QED BY <1>1, <2>1, <2>2, MoveStep
          DEF DaemonInv, ServerLast, Running, Installing, Stages, CleansUp
<1>8. CASE Cancelled
  BY <1>8, MoveStep DEF Cancelled, CleanUpThen, Running, Installing, Stages, CleansUp
<1>9. CASE ServerStops
  <2>1. /\ pc' = [pc EXCEPT !["server"] = "off"] /\ step' = [step EXCEPT !["server"] = 1]
        /\ UNCHANGED <<host, rules, dns, manager, stopping, ended, failed, ToInstall, ToRemove, Sure, Own>>
        /\ pc["server"] \in {"listen", "serve"} /\ ToRemove \in Nat
    BY <1>9, BackendsAreWhole
       DEF ServerStops, Goto, DaemonInv, TypeOK, ToInstall, ToRemove, Removing, Sure, Own
  <2>2. /\ pc' \in [Goroutines -> Stages] /\ pc'["main"] = pc["main"] /\ pc'["server"] = "off"
        /\ step' \in [Goroutines -> Nat] /\ step'["main"] = step["main"] /\ step'["server"] = 1
        /\ ~Installing
    BY <1>1, <2>1 DEF DaemonInv, TypeOK, ServerLast, Installing, Stages
  <2>3. TypeOK'
    BY <2>1, <2>2 DEF DaemonInv, TypeOK, Installing, Running
  <2>4. Removable' /\ Progress'
    BY <2>1, <2>2 DEF DaemonInv, Removable, Progress, Installing, CleansUp
  <2> QED BY <2>1, <2>2, <2>3, <2>4
          DEF DaemonInv, ServerLast, RedirectionWhole, Installing, Running, CleansUp
<1>10. CASE /\ UNCHANGED <<backend, rules, dns, manager, pc, step, ended, failed>>
            /\ up' \in BOOLEAN /\ stopping' \in BOOLEAN
  BY <1>10 DEF DaemonInv, TypeOK, Removable, Removing, Progress, ServerLast, RedirectionWhole,
               Installing, Running, Adding, Sure, Own, Excused, ToInstall, ToRemove
<1>11. CASE ServiceStop \/ LinkChanges \/ UNCHANGED vars
  BY <1>10, <1>11 DEF ServiceStop, LinkChanges, vars, DaemonInv, TypeOK
<1> QED BY <1>2, <1>3, <1>4, <1>5, <1>6, <1>7, <1>8, <1>9, <1>11, InstallStep, RemoveStep, ProcessStep
        DEF Next, Work

\* It holds before main has run its first line.
LEMMA DaemonStart == Init => DaemonInv
<1> SUFFICES ASSUME Init PROVE DaemonInv
  OBVIOUS
<1>1. /\ ToInstall \in Nat /\ ToRemove \in Nat
      /\ pc \in [Goroutines -> Stages] /\ step \in [Goroutines -> Nat]
      /\ pc["main"] = "off" /\ pc["server"] = "off" /\ step["main"] = 1 /\ step["server"] = 1
  BY BackendsAreWhole DEF Init, ToInstall, ToRemove, Goroutines, Stages
<1>2. TypeOK
  <2>1. 1 \in 1..(ToRemove + 1) /\ rules \subseteq Rules /\ failed \subseteq Rules
    BY <1>1 DEF Init, Rules
  <2> QED BY <1>1, <2>1 DEF Init, TypeOK, Installing, Running
<1>3. Progress
  BY <1>1 DEF Init, Progress, Installing, CleansUp, Goroutines
<1> QED BY <1>1, <1>2, <1>3
        DEF Init, DaemonInv, Removable, Own, ServerLast, RedirectionWhole, Installing, Running

(* The invariant of the daemon's life cycle: the redirection is whole before  *)
(* the server runs, and what is left of it can still be removed.              *)
THEOREM DaemonInvHolds == Spec => []DaemonInv
BY DaemonStart, DaemonStep, PTL DEF Spec

(* The goroutines stay in their own code, and none issues a command that      *)
(* Cleanup or InstallRedirect does not have, whatever fails or is killed.     *)
THEOREM DaemonTypeCorrect == Spec => []TypeOK
<1>1. DaemonInv => TypeOK
  BY DEF DaemonInv
<1> QED BY <1>1, DaemonInvHolds, PTL

(* While runDaemon has a manager and no goroutine cleans up, every rule that  *)
(* InstallRedirect must install is there, but for the DNS server where no     *)
(* interface was up to set it on.                                             *)
THEOREM RedirectionIsWhole == Spec => []RedirectionWhole
<1>1. DaemonInv => RedirectionWhole
  BY DEF DaemonInv
<1> QED BY <1>1, DaemonInvHolds, PTL

(* A process that ends in order leaves no rule behind, its own or an earlier  *)
(* process's, except what a command of its Cleanup was to remove that failed  *)
(* or found the interface down.                                               *)
THEOREM NothingIsLeft == Spec => []NothingLeft
<1>1. DaemonInv => NothingLeft
  BY DEF DaemonInv, Progress, NothingLeft
<1> QED BY <1>1, DaemonInvHolds, PTL

-----------------------------------------------------------------------------

\* The order of a goroutine's stages. A server's goroutine that is not there has
\* yet to be started, or has returned.
Rank ==
    [off |-> 0, install |-> 1, create |-> 2, boot |-> 3, listen |-> 3, signals |-> 4, serve |-> 4,
     cleanup |-> 5, deferred |-> 6, closing |-> 7, exit |-> 8]
Returned(g) == g = "server" /\ pc[g] = "off" /\ pc["main"] \notin {"off", "install", "create"}
Place(g) == IF Returned(g) THEN 9 ELSE Rank[pc[g]]

(* While the process lives no goroutine of it is sent back, to a stage or to a *)
(* command, and its own work takes it on: with the finite lists of commands,   *)
(* neither an installation nor two clean-ups at once can run for ever.         *)
WorkAdvances ==
    Running /\ Running' =>
        \A g \in Goroutines :
            /\ Place(g)' > Place(g) \/ (Place(g)' = Place(g) /\ step'[g] >= step[g])
            /\ Work(g) => Place(g)' > Place(g) \/ step'[g] > step[g]

\* What a goroutine's own work does to it
LEMMA WorkMoves ==
    ASSUME DaemonInv, NEW g \in Goroutines, Work(g), Running, Running'
    PROVE  \/ pc' = pc /\ step' = [step EXCEPT ![g] = step[g] + 1]
           \/ \E stage \in Stages : Goto(g, stage) /\ pc[g] # "off" /\ Rank[stage] > Rank[pc[g]]
           \/ g = "main" /\ pc["main"] = "create" /\ pc["server"] = "off"
                 /\ pc' = [main |-> "boot", server |-> "listen"] /\ UNCHANGED step
<1> USE DEF Rank, Stages
<1>1. pc \in [Goroutines -> Stages] /\ (pc["main"] \in {"install", "create"} => pc["server"] = "off")
  BY DEF DaemonInv, TypeOK, ServerLast
<1>2. CASE g = "main" /\ Install
  BY <1>1, <1>2 DEF Install, NoFirewall, Installs, Skips, InstallFails, Installed, GivesUp,
                      NextCommand, Installing, Issues
<1>3. CASE g = "main" /\ (Create \/ Notify \/ Cancelled)
  BY <1>1, <1>3 DEF Create, Notify, Cancelled, CleanUpThen
<1>4. CASE g = "server" /\ Listen
  BY <1>4 DEF Listen
<1>5. CASE Removes(g)
  BY <1>5 DEF Removes
<1>6. CASE Removed(g)
  BY <1>6 DEF Removed, AfterCleanup, CleansUp
<1>7. CASE Exits(g)
  BY <1>7 DEF Exits, Ends, Running, Goroutines
<1> QED BY <1>2, <1>3, <1>4, <1>5, <1>6, <1>7 DEF Work

\* What anyone else does to the goroutines while the process lives
LEMMA OthersMove ==
    ASSUME DaemonInv, [Next]_vars, Running, Running', \A g \in Goroutines : ~Work(g)
    PROVE  \/ UNCHANGED <<pc, step>>
           \/ \E g \in Goroutines, stage \in Stages : Goto(g, stage) /\ pc[g] # "off" /\ Rank[stage] > Rank[pc[g]]
           \/ pc["main"] \notin {"off", "install", "create"} /\ pc["server"] # "off" /\ Goto("server", "off")
<1> USE DEF Rank, Stages, Goroutines
<1>1. CASE Start \/ ServiceEnds \/ Killed \/ Panics
  BY <1>1 DEF Start, ServiceEnds, Killed, Panics, Ends, Running
<1>2. CASE Terminate
  BY <1>2 DEF Terminate, CleanUpThen
<1>3. CASE ServerFails
  BY <1>3 DEF ServerFails, CleanUpThen
<1>4. CASE ServerStops
  BY <1>4 DEF ServerStops, DaemonInv, ServerLast
<1>5. CASE ServiceStop \/ LinkChanges \/ UNCHANGED vars
  BY <1>5 DEF ServiceStop, LinkChanges, vars
<1> QED BY <1>1, <1>2, <1>3, <1>4, <1>5 DEF Next

\* A goroutine that moves on leaves the other where it is, or finds it returned.
LEMMA MovesOn ==
    ASSUME DaemonInv, Running, NEW g \in Goroutines, NEW stage \in Stages, Goto(g, stage),
           pc[g] # "off", Rank[stage] > Rank[pc[g]], NEW h \in Goroutines
    PROVE  /\ Place(h)' > Place(h) \/ (Place(h)' = Place(h) /\ step'[h] >= step[h])
           /\ h = g => Place(h)' > Place(h)
<1> USE DEF Rank, Stages, Goroutines
<1>1. /\ pc \in [Goroutines -> Stages] /\ step \in [Goroutines -> Nat] /\ pc["main"] # "off"
      /\ pc["main"] \in {"install", "create"} => pc["server"] = "off"
  BY DEF DaemonInv, TypeOK, ServerLast, Running
<1>2. pc'[g] = stage /\ stage # "off"
  BY <1>1 DEF Goto
<1>3. CASE h = g
  <2>1. ~Returned(h)'
    BY <1>2, <1>3 DEF Returned
  <2>2. ~Returned(h)
    BY <1>3 DEF Returned
  <2> QED BY <1>2, <1>3, <2>1, <2>2 DEF Place
<1>4. CASE h # g
  <2>1. pc'[h] = pc[h] /\ step'[h] = step[h] /\ step[h] \in Nat
    BY <1>1, <1>4 DEF Goto
  <2>2. Returned(h) => Returned(h)'
    BY <1>1, <1>2, <1>4, <2>1 DEF Returned
  <2>3. CASE Returned(h) <=> Returned(h)'
    <3>1. Place(h)' = Place(h)
      BY <2>1, <2>3 DEF Place
    <3> QED BY <1>4, <2>1, <3>1
  <2>4. CASE ~Returned(h) /\ Returned(h)'
    <3>1. Place(h)' = 9 /\ Place(h) \in 0..8
      BY <1>1, <2>4 DEF Place
    <3> QED BY <1>4, <3>1
  <2> QED BY <2>2, <2>3, <2>4
<1> QED BY <1>3, <1>4

(* The measure behind StopEnds, for every backend and however commands fail.  *)
THEOREM WorkAlwaysAdvances == Spec => [][WorkAdvances]_vars
<1>1. DaemonInv /\ [Next]_vars => WorkAdvances
  <2> SUFFICES ASSUME DaemonInv, [Next]_vars, Running, Running', NEW h \in Goroutines
               PROVE  /\ Place(h)' > Place(h) \/ (Place(h)' = Place(h) /\ step'[h] >= step[h])
                      /\ Work(h) => Place(h)' > Place(h) \/ step'[h] > step[h]
    BY DEF WorkAdvances
  <2>1. /\ pc \in [Goroutines -> Stages] /\ step \in [Goroutines -> Nat]
        /\ pc["main"] \in {"install", "create"} => pc["server"] = "off"
        /\ pc["main"] # "off"
    BY DEF DaemonInv, TypeOK, ServerLast, Running
  <2>2. ASSUME NEW g \in Goroutines, Work(g)
        PROVE  /\ Place(h)' > Place(h) \/ (Place(h)' = Place(h) /\ step'[h] >= step[h])
               /\ h = g => Place(h)' > Place(h) \/ step'[h] > step[h]
    <3>1. CASE pc' = pc /\ step' = [step EXCEPT ![g] = step[g] + 1]
      <4>1. Place(h)' = Place(h)
        BY <3>1 DEF Place, Returned
      <4>2. step[h] \in Nat /\ step'[h] = IF h = g THEN step[h] + 1 ELSE step[h]
        BY <2>1, <3>1
      <4> QED BY <4>1, <4>2
    <3>2. CASE \E stage \in Stages : Goto(g, stage) /\ pc[g] # "off" /\ Rank[stage] > Rank[pc[g]]
      BY <3>2, MovesOn
    <3>3. CASE /\ g = "main" /\ pc["main"] = "create" /\ pc["server"] = "off"
               /\ pc' = [main |-> "boot", server |-> "listen"] /\ UNCHANGED step
      <4>1. pc'["main"] = "boot" /\ pc'["server"] = "listen"
        BY <3>3
      <4>2. Place(h)' = 3 /\ Place(h) \in {0, 2}
        BY <3>3, <4>1 DEF Place, Returned, Rank, Goroutines
      <4> QED BY <4>2
    <3> QED BY <2>2, <3>1, <3>2, <3>3, WorkMoves
  <2>3. ASSUME \A g \in Goroutines : ~Work(g)
        PROVE  Place(h)' > Place(h) \/ (Place(h)' = Place(h) /\ step'[h] >= step[h])
    <3>1. CASE UNCHANGED <<pc, step>>
      <4>1. Place(h)' = Place(h) /\ step'[h] = step[h] /\ step[h] \in Nat
        BY <2>1, <3>1 DEF Place, Returned
      <4> QED BY <4>1
    <3>2. CASE \E g \in Goroutines, stage \in Stages :
                  Goto(g, stage) /\ pc[g] # "off" /\ Rank[stage] > Rank[pc[g]]
      BY <3>2, MovesOn
    <3>3. CASE pc["main"] \notin {"off", "install", "create"} /\ pc["server"] # "off" /\ Goto("server", "off")
      <4>1. pc'["server"] = "off" /\ pc'["main"] = pc["main"] /\ step'["main"] = step["main"]
        BY <2>1, <3>3 DEF Goto, Goroutines
      <4>2. CASE h = "server"
        <5>1. Place(h)' = 9 /\ Place(h) \in 0..8
          BY <2>1, <3>3, <4>1, <4>2 DEF Place, Returned, Rank, Stages
        <5> QED BY <5>1
      <4>3. CASE h = "main"
        <5>1. Place(h)' = Place(h) /\ step'[h] = step[h] /\ step[h] \in Nat
          BY <2>1, <4>1, <4>3 DEF Place, Returned
        <5> QED BY <5>1
      <4> QED BY <4>2, <4>3 DEF Goroutines
    <3> QED BY <2>3, <3>1, <3>2, <3>3, OthersMove
  <2> QED BY <2>2, <2>3
<1> QED BY <1>1, DaemonInvHolds, PTL DEF Spec
=============================================================================
