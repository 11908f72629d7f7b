# Verification of the Containerlab renderer and its deployment tools

The repository turns a *canonical network-realization bundle* (JSON, plus a
renderer inventory) into a Containerlab topology, a Nix file with the host
bridges, and, per container, a list of shell commands (addresses, routes,
policy routing, nftables, FRR, Kea, Unbound, PPPoE, a DNS proxy). Around the
renderer are the programs that build the container image, deploy the topology,
bring its services up and decide whether the result may be called ready.

The renderer is one sequential computation. The programs around it are where
order, failure and time decide: shells that watch processes, kill and restart
them, share files, a docker tag and a host-wide lock, and leave markers that
others read. This project models those first, and then the parts of the renderer
with the most behaviour of their own: the routes and policy rules of a node, which
five phases write and only the kernel puts together; its firewall, while its
scripts build it; its services, from what is mounted and labelled to what a
deployment calls ready; and the resolvers of a lab, through which a query goes
from one to the next.

## 1. Inventory

| Part | State it keeps | Operations | What is hard | What makes it correct |
|---|---|---|---|---|
| `deploy_lab`, `run_containerlab_deploy_once` (`deploy-clab.sh` 459-587) | attempt counter, log file, fifo, two flags, the lab on the host | clean up, materialise bridges, start, read, stop, wait, accept / retry / fail | two processes and a kernel that closes, kills and reaps in its own order; deploy and idle timeouts; a fifo nobody drains | only clean attempts are accepted; nothing is left running; each retry has a cause; it ends |
| `s-router-clab-render-live` and its boot unit (`host-module.nix` 64-585) | status marker, two links, the lock, containers | render, lock, link, destroy, deploy, reconcile, verify, mark | several runs, kills, reboots, restarts; markers survive a reboot, links and lock do not | a success marker reached through the link speaks of the deployed lab; a run verifies its own lab; runs end |
| image builder (`docker-clab-frr-plus-tooling/build.sh`) | docker tag, archive and id file of each cache key | load, decide, build, save, seed, diagnose | no lock; kill between two writes; images of other origin | the cache holds what its key says; ready means built and cached |
| `deploy-clab.sh` as a command (1-455, 589-735) | work directory, bridges, `dnsmasq` processes, containers | render, plan bridges, wait for docker, ensure image, deploy, lab emulation, reconcile, verify | stale pids, several deadlines, no lock against the host program | phases in order; nothing is verified that was not reconciled |
| protected materializers (`protected-*.py`) | Kea configuration, DNS include file | read source, validate, write DNS, compare, write Kea | the source is read twice, two files replaced one after the other | each file is whole; the two name the same reservations |
| access advertisements and their reconcile scripts (`access_advertisements.py`, `deploy-clab.sh` 617-648) | Kea configurations, scripts, pid files, sockets, daemons in a container | render a scope; kill, wait for the interface, start, wait for the socket | old and new daemon alive together, readiness asked of the wrong socket | ready means the new daemon answers, from its own reservations |
| services of a node (`linux_runtime.py`, `site/node_runtime.py`) | commands, binds and labels of a container | render commands, mount sources, label for the loops | three renderings of the same facts; shells that go on after a failure | nothing is missing that was mounted or labelled |
| protected prefix materializer (`protected-ipv6-materializer.py`) | none | derive a tenant's prefix or address from a file | the size of the prefix, the slot and the identifier are known only at run time | what is derived lies in the prefix and is nobody else's |
| Unbound (`unbound_service.py`, `deploy-clab.sh` 650-680) | configuration, included files, pid file, sockets | render; stop, wait for addresses, start, wait for sockets | readiness asked of whoever has the socket, a pid file that comes late | ready means this run's daemon, a failure leaves none |
| DNS contract, authority and selection (`dns_authority.py`, `dns_service.py`) | input and output rules, `resolv.conf`, an egress table | validate, open to requesters, guard against public resolvers, select the egress | what one resolver refuses another passes on | local names stay, requesters are served and confined |
| DNS proxy (`dns_proxy_*.py`) | threads and sockets | answer, block, forward | a thread that ends | as of the DNS contract |
| PPPoE (`pppoe_runtime.py`) | `pppd`, a supervisor, credentials | pair, dial, supervise | a supervisor that races what it supervises | a session that ends is dialled again |
| lab emulation (`lab_emulation*.py`, `deploy-clab.sh` 272-400) | provider containers, `dnsmasq` of the host, NAT chains | validate requests, render providers, start and replace `dnsmasq` | two programs materialise the same request | what was asked for is what is emulated |
| VM runner, cache updater (`run-in-vm.sh`, `start-vm.sh`, `update-repo-cache-with-vm.sh`) | a VM, deadlines | boot, wait for ssh, copy, deploy inside, fetch | deadlines, retry by reboot | no result without a finished deploy |
| `scripts/seed.sh`, generator wrappers | sockets and files of input data | skip if present, fetch, write | partial files taken for complete ones | what is skipped is complete |
| policy routing (`linux_policy_routes.py`, `relation_selection_rules.py`) | the lanes collected, the destinations claimed, the commands | five phases over lanes and pairs of lanes, then validation | order of claims; two phases writing one table; priorities; failures that are hidden | what returns reaches its access; traffic keeps its lane; no two rules disagree |
| static, default and uplink routes (`linux_routes.py`, `linux_uplink_routes.py`, `linux_route_*.py`) | next hops by destination | collect, select a gateway, drop conflicts | gateways of other links, own addresses | one route per destination, by a gateway of its link |
| WAN route synchronisation (`linux_wan_dynamic.py`) | a loop in the container, two routing tables | read, copy, delete, retry, listen | the routes change between two commands; the loop hears its own writes | at rest the tables agree; it comes to rest |
| addressing, BGP (`linux_addressing.py`, `linux_bgp.py`, ...) | none | addresses, FRR configuration | a peer among several | peers are on the link |
| firewall and NAT (`cpm_firewall_rules.py`, `policy_firewall.py`, `firewall_wan.py`, `nat.py`) | none; in the container rules and connections | one statement per rule, family and match; WAN chains; translation | order decides what is accepted; rules of several modules in one hook; what is opened before the rules are there | nothing is opened but what the intent accepts; what it accepts is answered |
| node orchestration (`EM/base.py`, `CM/base.py`, `linux_runtime.py`) | none | translate names, add PPPoE rules, order the modules | names of other nodes, rules behind rules | the order in which a node becomes what it is |
| exec bundles (`site/node_runtime.py`) | markers in the container's `/tmp` | wait for the predecessor, run, leave a marker | all scripts start at once; markers survive a restart; a wait of 60 s | the commands run in order, and stop at the first that fails |
| enterprise and site model (`enterprise/*`, `site/*`) | none | merge, rename, number interfaces | name collisions | names are unique and stable |
| bundle input (`canonical_bundle.py`, `cpm_*.py`, ...) | none | validate, translate | malformed input | raw control-plane input is rejected |

How they interact: `deploy-clab.sh` and the host program both call the
renderer, the image builder and `containerlab`; the containers' commands write
reconcile scripts that the same two programs later run with `docker exec`; the
host program's runs meet at a `flock`, at two links and at one lab called
`fabric`; everything that builds the image meets at one docker tag.

## 2. Modules

| Module | Models | State and actions against the code |
|---|---|---|
| `ClabDeploy` | the attempt loop and the watcher | `pc` is the position in the two functions, one action per command that can change the course of events (`CleanupStaleLab`, `StartAttempt`, `ReadLine`, `ReadFails`, `ProbeDeployPid`, `StopTerm`, `StopKill`, `WaitDeployPid`, `AcceptAttempt`, `RetryAttempt`, `GiveUp`, `InspectLab`); the other end of the fifo is two processes, `timeout` (`leader`) and `containerlab` (`clab`), with `ClabWrites`, `ClabExits`, `DeployTimer`, `LeaderExits`, `LeaderReaped` |
| `ClabDeployProps`, `MCClabDeploy` | - | its properties and the refinement mapping; the kinds of line |
| `DeployContract` | what a caller of `deploy_lab` may rely on | abstract: bounded tries, success only with a complete lab, a decided lab is left alone |
| `ClabDeployProofs` | - | the theorems about `ClabDeploy` and about `ToolingCache` |
| `RenderLive` | the host program and its boot unit | one `pc` per run; `lock` is the flock, `marker` the status file of each work directory, `current` and `artifacts` the two links, `nodes` the containers; `CommandFails`/`OnFailure` the ERR trap; `Killed`, `RestartUnit`, `Reboot`, `ContainerChanges` the world |
| `RenderLiveProofs` | - | the theorems about `RenderLive`, whose properties close that module |
| `ToolingCache` | the image builder | one `pc` and three flags per run; `image` the docker tag, `tar` and `idFile` the cache |
| `Reservations` | the two readers of a reservation source | functions: `KeaAccepts`, `KeaRecords` (`materialize_records`), `DnsAccepts`, `ForwardData`, `PtrData` (`materialize_dns_lines`) |
| `ReservationMaterializer` | one container's materializer runs | `pc` is the position in `main`; `source` is the mounted file, `forKea` and `forDns` what the two materializers of the run hold of it, `keaFile` and `dnsFile` the files in place; `Rotate` replaces the source between any two steps, `WriteFails` and `Kill` end a run anywhere |
| `ReservationMaterializerProofs` | - | the theorems about `ReservationMaterializer`, whose properties close that module |
| `KeaReconcile` | the Kea reconcile scripts and the loop that runs them | `pc`, `pos` and `tries` are the place in the loop and in the script; `daemon` is the state of each daemon ever started, `pidFile` what the script left; `OpensSocket`, `GoesOnMute` (Kea's own retries used up) and `Exits` are the daemons' |
| `KeaReconcileProofs` | - | likewise |
| `WanSync` | the script that copies the route an interface learns by router advertisements to the DNS egress table | `pc` is the place in the script, `read` and `selected` its two shell variables; `learned` and `copied` are the kernel's main table and the copy, `pending` the lines of `ip monitor` not read yet; `Announce`, `Expire` and `LinkDown` are the world |
| `KernelRouting` | routing tables and policy rules of Linux, as far as used (external) | `Execute` is one `ip` command; `Lookup` the way of a packet |
| `NodeData` | a node's data and what is read out of it | functions: lanes, `EffectiveVia`, groups of next hops |
| `MainRoutes` | connected, static, default and uplink routes | functions: one per `_render_*_routes` |
| `PolicyRoutes` | lanes and the commands of the five phases | functions: `RouteMatchesIngress`, `Surface`, `LaneGroups`, `SharedInterfaces`, `LaneTables`, `NewClaims`, `CrossPairs`, `Augmentation` |
| `RelationSelection` | the rules of relations and their contract | functions: `Relations`, `RelationRules` |
| `NodeRouting` | `render` of a node, the FS-370 validation and the deployment | `stage` is the phase and `at` the lane, pair or command it has come to; `lanes`, `claimed` and `cmds` are `render`'s variables; `RunCommand` is Containerlab running the next command |
| `NodeRoutingProps`, `NodeRoutingProofs` | - | its properties; the theorems about `NodeRouting` and about `WanSync` |
| `NodeExec` | the scripts that a node's commands are cut into | `pc`, `at` and `waited` are the place of each script; `ready` are the markers in `/tmp`, named by the life (`life`) of the container; `ran` is what has been run in this life |
| `Netfilter` | chains, rules and the way of a packet (external) | `Execute` is one `nft` command; `Forwards`, `Translates`, `Tracks` |
| `NodeFirewall` | from a node's intent to its commands | functions: `NameMap`, `PppRules`, `RulesForCpmRule`, `PolicyRules`, `PolicyFirewall`, `WanFilter`, `NatTables`, `Commands`; `Refused` is every exception |
| `NodeBoot` | a node that boots while packets cross it | `NodeExec` with the commands of `NodeFirewall`: `Run` executes the next, `Fail` ends a script, `FailUnnoticed` loses one of the commands with `\|\| true`, `Traffic` opens connections, `Reboot` takes rules and connections away |
| `NodeBootProps`, `NodeBootProofs` | - | its properties and theorems |
| `NodeServices` | what is rendered for the services of a node | functions of a node: `Refused`, `ServiceCommands` (in the order in which they are run), `ProtectedBinds`, `HasKeaRuntime`, `HasUnboundRuntime` (the labels), `Derived`, `DerivedAddress` (the prefix materializer) |
| `UnboundReconcile` | Unbound's reconcile script and the loop that runs it | as `KeaReconcile`, with addresses instead of interfaces; a daemon binds, then writes its pid file, then serves |
| `ServiceDeploy` | the services of a lab, from the boot of its nodes to the end of the deployment | `NodeServices` and `UnboundReconcile` together: `Run` executes a node's next command, `StartLoops` begins the loops, `DnsLoop` is a step of `UnboundReconcile`, `FindScripts` and `RunScript` the Kea loop (TERM, a second, the new daemon, `kill -0`, `ss`), `KeaDaemons` what the daemons do meanwhile; `config`, `include`, `scripts` are files in the containers, `kea` the daemons of Kea that live, `served` and `lone` what each script's last daemon opened its socket for, and whether it was started alone |
| `DnsContract` | a node's DNS contract | functions: one for each complaint of `normalize_dns_authority`, `RootForwarders`, the selection of the egress |
| `UnboundService` | Unbound's configuration and what Unbound does with it | functions: `AccessControl`, `LocalZones`, `ForwardZones`; `Verdicts`, `Asked`; an Unbound that iterates asks the root and whom it is referred to (`Hierarchy`) |
| `DnsProxy` | the proxy for contracts without a recursion mode | functions: `ProxyVerdict`, `Forwarders` |
| `DnsService` | the resolvers of a lab and a query among them | `UnboundReconcile` with a query: `Ask`, `IsKeptOut`, `IsDecided`, `IsSentOn`, `IsStopped`, `Leaves`; `guarded` says whether the commands of a node's guard have succeeded; `trail` is who has sent it on; `ThreadEnds` takes a proxy's listener |
| `ServiceProofs` | - | the theorems about `UnboundReconcile`, `ServiceDeploy` and `DnsService`, which share the loop |
| `ListOps`, `ListLemmas` | - | operators on sequences that the renderer's modules share, and what holds of them |
| `MC*` | - | the instances TLC checks |

Seven modelling decisions carry much of the weight:

* **The kernel's order.** An exiting process first has its files closed and only
  then becomes a zombie that the shell can reap. `leader = "closed"` is that
  interval: the reader sees end-of-file and `kill -0` still succeeds, and the script
  stops and retries a deploy that has ended well as if it had been silent
  (`deploy-clab.sh:501-503`). The model has that behaviour; `RetryHasCause` counts
  the idle flag as a cause.
* **What a record is.** A reservation is an id, an identity, an address, a name
  and a publication class; whether a field is well formed is a member of a small
  set rather than text. The comparison in lower case is kept as a function.
* **What a prefix is.** A prefix is a name, the default route covers all of them
  and different subnets never overlap; a host is called after its subnet. A
  gateway is the neighbour of a link, an address of the node, or missing. So a
  lookup is by the subnet and then by the default, which is what longest match
  comes to for subnets that do not overlap. Every property of the run speaks of the
  kernel after all commands have run, and therefore of all phases at once.
* **What a rule is.** An nftables rule is the set of packets it matches, field by
  field; a packet is an incoming and an outgoing interface, a source and a
  destination subnet, a service and a connection state. What the intent means is
  said a second time in `NodeBootProps` (`Covers`), packet by packet and without
  families, prefixes by family or statements, and the two are compared.
* **What a query is.** A query is a name of a small tree, a class, and the resolver that
  sends it on with a source and a destination. Access lists and zones are decided by the
  closest prefix and the closest namespace, as Unbound decides them; where two entries
  tie, the choice is left open. Whether a namespace ends at a resolver is said a second
  time in `DnsService` (`KeptAtUnbound`), from the contract and not from the
  configuration. A type of zone that Unbound does not know is refused
  (`unbound_service.py:62-66`, `ZoneTypeRefused`), so that what is deployed has only zones
  whose meaning the model states.
* **What a protected source is.** A file that is mounted or not, accepted by the
  materializer or not; a prefix is its first address and its length in a space of
  `Width` bits, so that what is derived from it is computed and not assumed.
* **What a line is.** A line is the set of marks the script greps for (`ERRO`,
  the two retryable errors). Nothing else of its text decides anything.

The operators of these modules that no action uses and that stand beside a
definition of nearly the same shape (`LogKept` beside `FreshLog`, `EnterUnlocked`
beside `AcquireLock`, ...) are the faulty variants that show that a property is
able to fail.

## 3. Runs

| Run | Question | Bounds |
|---|---|---|
| `clab_deploy_retry` | acceptance, clean-up, retry causes, termination and the contract, with and without `setsid` | the default of 3 attempts, a fifo of 2 lines, 4 kinds of line |
| `clab_deploy_erro` | does every ERRO line fail its attempt? No: finding | 2 attempts |
| `render_live_runs` | overlapping runs, failures, kills, one restart or reboot | 2 runs with work directories of their own, 2 containers, different topologies |
| `tooling_cache_overlap` | overlapping, repeated and interrupted builders of two versions of the inputs on one docker tag | 3 runs, which begin 4 times in all, 2 keys |
| `reservations_sources` | replaced sources, failures, kills and repeated runs of the materializer | 10 contents that both readers, one or none accept, 2 jobs, rotation at any step |
| `reservations_agree` | does success mean that the two files agree? No: finding | 5 contents |
| `kea_reconcile_families` | both families of a scope, the loop run twice, anything late or failing | 2 scripts, 2 runs of the loop, 2 tries of each wait |
| `service_deploy` | labs with protected scopes, resolvers, routes and firewall addresses are rendered, booted and reconciled, twice: is anything missing, and is what is called ready served? | 15 labs of one or two nodes, 6 of which are refused or cannot boot; addresses of 4 bits, 2 contents of a prefix file, 2 tries of each wait, 2 runs of the loops |
| `dns_service` | labs of resolvers and proxies are reconciled, and queries go from requesters through them | 44 labs, many refused: a core, a recursive and a local-only resolver or a proxy, each varied in one or two fields, with a guard set up or not; a root, public or controlled, that refers to other name servers, one of which is a denied resolver; 4 queries, 3 hops, both families, 1 try of each wait, 1 run of the loop |
| `wan_sync` | routers come and go, links go down, while the route script retries and listens | 3 routers, 3 attempts, 2 counted events |
| `node_routing` | rendering, refusal and deployment of a node: returns, lanes, shared interfaces, relations, resolvers, denied lanes | 232 nodes of 2 accesses and up to 4 interfaces: both selectors, policy nodes (also with 2 uplinks), access nodes with 2 tenant networks, a BGP core; 4 orders of priorities; relations numbered before every lane, and right before the lane of their policy with lanes of the other access or one of their own in front; every choice of accesses with a default route per family; 5 kinds of node that are refused |
| `node_boot` | a node's scripts build its firewall, fail, wait and are run again, while hosts open connections | 12 nodes, 5 of which are refused, 1 or 2 scripts, 1 look for the marker, 2 lives of the container; a network namespace that forwards from the start or does not |

Why the bounds are enough. In `ClabDeploy` an attempt begins by resetting
everything but the lab and a possible stray, so what the third attempt can
inherit from the second it can also inherit from the first; the fifo needs room
for a line that is read and a line behind it. In `RenderLive` two runs are what
a lock, a link and a lab can be fought over by, and one reboot is what separates
what survives from what does not. In `ToolingCache` two builds are what the
archive and the id file can come from. In
`ReservationMaterializer` a run reads twice, so a source that changes between
the reads needs two contents; there are one with an id less, one with an address
moved, and one for each way in which the readers disagree on two records (the
checks never relate more than two). In `KeaReconcile` a second run of the loop meets
the daemons of the first, which is all that a third could meet; two tries tell
"again" from "out of tries" (the code has 60 and 30). In `WanSync` three routers give a list whose first, middle or
last one expires, three attempts a first, a middle and a last one (the code has 50); a
third event waiting would be read with the same effect as the second. In `NodeRouting` every
decision relates at most two lanes (which of them claims, which of them is the
other's return way) or a lane and a shared interface, so two accesses and the
interfaces between them meet each; the four orders of priorities put each kind of
interface before and after each other kind. In `NodeBoot` a
marker of an earlier life needs two lives; one wait tells "again" from "too late"; the
longest list of commands is cut into two scripts, so that each script is a
predecessor or has one. The packets are those of both families, both directions
and one service of each kind, on every pair of interfaces some node has a rule or a
WAN on. In `ServiceDeploy` two nodes are what a queue of containers, a resolver that
includes what its neighbour publishes and a node with routes beside one with scopes
need; two scopes of a family share a device, a stem or neither; four bits give two
slots with room for an identifier, and one slot too many. Two runs of the loops are as
for `KeaReconcile`. In `DnsService` three hops are the longest way there is (local-only,
recursive, core); the labs vary one field at a time, since each check and each
statement of the configuration reads one or two; one run of the loop is what the state
space allows, and repetition is checked by `service_deploy`, where the same script runs
twice. `TLC` explores unbounded repetition of
lines (`ClabWrites` is bounded only by the room in the fifo).

`CHECK_DEADLOCK FALSE` is said where the modelled programs end
(`RenderLive`, `ToolingCache`, `KeaReconcile`, `ServiceDeploy`, `DnsService`,
`NodeRouting`, `NodeBoot`); `ClabDeploy` has an explicit `Finished` step.

### Fairness

`ClabDeploy`: the watcher takes its next step (its `read` has a timeout, its other
waits are for a process that has exited or has been killed, and the `ip` commands of
`materialize_bridges` return), and the kernel completes an exit. Nothing is assumed of
Containerlab and Docker: the deployment may hang for ever, and so may the two steps
of the script that wait for them without a timeout, the cleanup (`docker rm -f`,
and a `containerlab destroy` that ignores the TERM of its timeout) and
`containerlab inspect`. `DeployEnds` therefore says that deploy_lab ends or hangs in
one of these two. It has the premise that output ends: a Containerlab that ignores TERM
and keeps writing is stopped by nothing, since `timeout` is given no
`--kill-after`. `RenderLive`: a run that can take a step takes one; every
command it runs has a timeout or is assumed to end. `ToolingCache` states no
liveness: `docker` has no timeout there. `KeaReconcile`: the script takes its next
step, since it only sleeps for a second and asks questions that are answered at
once; nothing is assumed of interfaces and daemons. `WanSync`: the script takes its next step,
since its commands return; nothing is assumed of routers, and `Converges` speaks only of
runs in which they settle. `ReservationMaterializer`
states no liveness: it has no loop. `NodeBoot`: the scripts take their next step, for they
sleep a counted number of times and their commands return. `NodeRouting`, `ServiceDeploy` and `DnsService` state none
either: the first has loops over lists only, the others ask what holds when a loop has
ended, and that a counted wait ends is `ReconcileEnds`.

### What was found

With a run that shows it:

* An ERRO line written between a timed-out `read` and the probe is lost
  (`deploy-clab.sh:500`, run `clab_deploy_erro`).
* The materializer's two reads may see different sources with the same ids; the
  run succeeds and Kea and DNS disagree on an address
  (`protected-reservation-materializer.py:406`, run `reservations_agree`).

Met while a module was written; what a property would otherwise say too much about is
part of its premise. Deployment:

* A container that has exited passes the verification (`host-module.nix:238`;
  `deploy-clab.sh:681` is the same), although a test's acceptance list says
  otherwise (`tests/lib/FS-960-HDS-010-SDS-016-SMS-010/...clab-autostart.sh:13`).
* `deploy-clab.sh` takes no lock, and the lock of the host program does not keep it
  out: both replace the one lab called `fabric` (`deploy-clab.sh:727`). An interrupt of
  the script does not reach the `containerlab` that `setsid` has put into a session of
  its own (488).
* Two runs of the host program started by hand within a second share a work directory
  (`host-module.nix:70`): the premise `DistinctDirs`.
* `deploy-clab.sh` cannot deploy a lab with a controlled DNS authority. The renderer
  wants an `isolated` bridge for it (`lab_emulation_runtime.py:391`), which
  `materialize_bridges` refuses (`deploy-clab.sh:262`), and makes it a fake provider without live
  upstream, which `materialize_lab_emulation` refuses (374). The host program does
  neither.
* A fake provider is materialised twice: `dnsmasq` of the host and `udhcpd` of the
  provider's container get the same address and serve the same range on one bridge. One
  without `dhcp4` is left out by the renderer and refused by the deployment.
  `dnsmasq` removes its pid file when it ends; since nothing waits for the one that is
  replaced (305), it may remove that of its successor.
* The WAN retry runs `udhcpc -s /bin/true` (`deploy-clab.sh:612`), which obtains a lease and configures
  nothing.

Routes and firewall:

* A lane without any route has a blackhole for IPv4 and none for IPv6
  (`linux_policy_routes.py:816`; the comment at 700 speaks of both):
  `DeniedIPv4IsSilent` says what holds.
* The default route of a downstream selector takes the gateway from the access's
  link and the device from the policy's (`linux_routes.py:305`).
* A firewall rule that names a family, but no prefix of it, matches the other
  family too; a rule with sources of one family only accepts every source of the
  other; a rule for a runtime address is rendered without its sources
  (`cpm_firewall_rules.py:314-353`, 241-274): the premise `Tight` of `NodeBoot`'s
  policy properties.
* On a node with two WANs the rule that keeps ssh from one lets it in by the other
  (`firewall_wan.py`).
* A PPPoE node whose peer interface has a shortened name is refused, since names
  that are already translated are translated again (`EM/base.py:284`).
* Where a fake provider serves a WAN, `ip addr flush dev` takes its IPv6 addresses, too
  (`linux_wan_dynamic.py:220`).

Services:

* The boot shells of Kea and Unbound run without `set -e`: a reservation set that the
  materializer rejects, or a configuration that `unbound-checkconf` rejects, does not
  stop the boot. Only the commands of routes and of the firewall do (`sh -eu`).
* The readiness probe asks for a port, not for a daemon: a deployment can call a lab
  ready whose scope is not served, where another scope's daemon or `udhcpd` holds the
  port of its family on the node (the premise `Only` of `ReadyMeansServed`), or where
  a daemon of an earlier round is still stopping when the new one is started: the script
  gives it a second and does not ask whether it is gone (the premise `lone`, as `alone`
  in `KeaReconcile`). The first round of a deployment has no earlier daemon.
* Two scopes of one family on one device share configuration and script; the second
  overwrites the first. Two whose ids have the same stem share the file for Unbound,
  which is refused only where one resolver publishes both.
* The label that sends the DNS loop to a node compares its addresses to listen at as they
  are written, the command that writes the script in canonical form and without empty ones:
  a loopback address in another form, or an empty string, labels a node without a script.
  `NothingIsMissing` speaks of addresses in canonical form.
* A contract's protected publications are not compared with the scopes of the node: a
  name that nobody publishes ends the loop, at deployment.
* Sources of interfaces that are not realized are mounted all the same.
* Plain DHCP is started at boot, although the comment of its neighbour
  (`access_advertisements.py:470`) says that Containerlab may still replace the
  interface.
* Unbound opens its sockets before it writes its pid file: a loop that is repeated at
  once may not find the daemon it has to stop. The premise `alone`.
* Two protected files may say the same prefix, and nothing compares them: two tenants
  then have the same route. The premise of `RoutesServed` that the other files' prefixes
  do not overlap; the attempt to prove it without showed that it is needed.

Resolvers:

* The check for shadowed namespaces compares names exactly (`dns_authority.py:297`): a
  static zone above a forwarded namespace, or the root zone that a local-only resolver
  refuses (`unbound_service.py:207`), ends that namespace unless a transparent zone
  reopens it.
* The other way round, a transparent zone of a local-only resolver that no forward zone
  matches is resolved by recursion, although nothing non-local is to be resolved there
  (`dns_authority.py:374`); and a forward zone is not asked to lead into the lab. The
  premises `ForwardsOpened` and `ForwardsWithin` of two properties, which the attempts to
  prove them without showed to be needed.
* Nothing keeps an Unbound from forwarding to itself or in a circle; the proxy is
  checked for the first.
* The proxy forwards a query for AAAA although it has an A record of that name, matches
  namespaces as text (`athome.` is in `home.`), and has no input rules; of a contract's
  requesters and publications it knows nothing.
* A listener of the proxy whose address is not there yet, or whose `sendto` fails, ends
  by itself; the process lives on.
* The egress rule marks all that leaves for port 53, an empty table falls through to the
  main one, the rules by mark are added with `|| true` (`dns_service.py:264-268`), and the
  shell of these commands runs without `-e` (`dns_service.py:20`): a resolver is running
  although its queries go out by whatever uplink `main` has. So no property says by
  which uplink a query leaves; `NodeRouting` says it of a table that has routes.
* The guard against public resolvers is made in that shell too: where one of its commands
  fails the resolver serves without it, or with a part of it. `NothingLeavesAside` and
  `RequestersServed` speak of guards whose commands have succeeded (`guarded`).
* The rules that let requesters in name no interface; they are taken to be in force.

## 4. Proofs

`ClabDeployProofs` proves, for every number of attempts, every set of output
lines and every size of the fifo:

| Theorem | Says |
|---|---|
| `TypeCorrect` | `Spec => []TypeOK` |
| `AcceptedClean` | `Spec => []AcceptedIsClean` |
| `NothingLeft` | `Spec => []NothingLeftRunning` |
| `AcceptedStays` | `Spec => []AcceptedLabStays` |
| `RetryCaused` | `Spec => RetryHasCause` |
| `Refinement` | `Spec => ImplementsContract`, with or without `setsid` |

Assumptions: the three on the constants in `ClabDeploy`. The argument is one
inductive invariant, `IInv`: the type invariant; where in the script which flag
can be set; what the marks in the log and in the fifo have to do with the marks
written by this attempt; that a leader that returned 0 had a child that did, and
that no timer fired; and, with `setsid`, that outside the watcher no process is
alive. None of the four properties is inductive by itself: acceptance, for
instance, looks at `rc`, which says something about `clab` only because of what
`leaderRc` was when the leader exited. The lemma `NextIInv` has one step per
action.

`RenderLiveProofs`, for every set of runs, boots and containers:

| Theorem | Says |
|---|---|
| `TypeCorrect` | `Spec => []TypeOK` |
| `OwnLab` | `Spec => []VerifiesOwnLab` |
| `NoSuccessBefore` | `Spec => []NoSuccessUnderWay` |
| `CurrentSuccess` | `Spec => []CurrentSuccessIsDeployed` |

The invariant is built from "a run is in the locked section exactly if it holds
the lock" (`LockInv`). From it follows that the two links, and after the deploy
the lab, are that run's (`OwnInv`); what remains is the gap between the release
of the lock and the success marker, where another run may already have taken
both, but then has also moved the link (`MarkInv`).

`ClabDeployProofs`, about `ToolingCache`, for every set of runs, keys and repetitions:

| Theorem | Says |
|---|---|
| `CacheOfKey` | `CacheSpec => []CacheHoldsItsKey` |
| `ReadyCached` | `CacheSpec => []ReadyMeansCached` |
| `RefusedSeeded` | `CacheSpec => []RefusedRunSeeded` |

There is no lock to argue from. What makes it work is that nothing takes an
archive away (`ArchiveInv`: the place of a run says that its key has one), that
every image has the key its id was built for (`NamesInv`), that a run which has found
the tag usable, or has built, finds there an image of its own inputs or none
(`TagInv`), and so that what is saved under a key has that key (`FilesInv`). The
second half of it needs `KeptApart`: runs of *different* inputs share the tag too, and
`docker save` (`build.sh:195`) saves what the tag names by then. Builders of one
version may overlap and be killed as they like, and versions may follow each other on
the tag; that builders of two versions do not overlap is something the script neither
checks nor ensures, and if they do an archive of the wrong version can get into the
cache. `mixed` remembers whether they have.

`ReservationMaterializerProofs`, for every set of sources and jobs:

| Theorem | Says |
|---|---|
| `TypeCorrect` | `Spec => []TypeOK`: what is in place is a whole file |
| `Follows` | `Spec => KeaFollowsDns`: Kea's file is put in place only beside a DNS file of the same ids |
| `Kept` | `Spec => []FailureKeepsKea` |
| `Distinctness` | `Spec => []LeasesDistinct` |
| `OnePtr` | `Spec => []OneNamePerAddress` |
| `QuietAgreement` | `Spec => []QuietRunAgrees` |

The invariant says, for each place in `main`, what is known of the two reads:
after the first check that Kea accepts the one, after the second that DNS accepts
the other, after the comparison that they have the same ids, and as long as the
source has not been replaced that they are the same. The facts about what a reader emits
from what it accepts are lemmas about `Reservations` alone.

`KeaReconcileProofs`, for every list of scripts, every assignment of ports and
every limit:

| Theorem | Says |
|---|---|
| `TypeCorrect` | `Spec => []TypeOK` |
| `NoneForgotten` | `Spec => []NoForgottenDaemon` |
| `ReadyServing` | `Spec => []ReadyMeansServing` |

`NoForgottenDaemon` is inductive once the step that starts a daemon knows that the
old one was told to stop, which is so because `KillOld` precedes it. For
`ReadyMeansServing` the invariant says that a daemon that holds its socket is
among those that opened it, that no daemon of a later run exists, and that where
the current daemon was started alone, nobody else on its port can be the holder
the probe sees.

`NodeRoutingProofs`, for every set of nodes:

| Theorem | Says |
|---|---|
| `TypeCorrect` | `Spec => []TypeOK` |
| `EachClaimedOnce` | `Spec => []ClaimedOnce` |
| `OneRuleDeployed` | `Spec => []OneRulePerDestination` |
| `Inductive` | `Spec => []IInv`, the inductive invariant all of these follow from |
| `SelectionFollows` | `Spec => [](SelectorsFit(node) /\ AddressesApart(node) => SelectionDecides)` |
| `DeniedIsDropped` | `Spec => [](Apart /\ DenialsFit(node) => DeniedIPv4IsSilent)` |
| `ResolverAnswers` | `Spec => [](Apart /\ ResolversFit(node) => ResolverAnswersFindTheirWay)` |
| `ReturnsReach` | `Spec => [](Apart /\ ReturnsFit(node) => ReturnReachesDownstream)` |
| `SharedFollowsOwner` | `Spec => [](Apart /\ OwnersFit(node) => SharedTrafficFindsItsOwner)` |
| `AccessKeepsLane` | `Spec => [](Apart /\ AccessesFit(node) => AccessTrafficKeepsItsLane)` |

where `Apart` is `TablesApart(node) /\ AddressesApart(node)`.

*The invariant* `IInv` has four parts besides `ClaimedOnce`. `TypeInv` is about the
variables. `ListInv` says that every command stems from the node (`Listing`) and every
claim from a lane or a pair of lanes (`ClaimInv`). `LoopInv` has a conjunct per loop
(`RelationInv`, `LaneInv`, `TableInv`, `CrossInv`, `AugmentInv`), each of the form: what
the loop has passed, it has asked for. `KernelInv` says that the kernel has
nothing that no command asked for (`KernelOf`, which `ExecuteIs` carries through a
command, whatever `ip` refuses), that it is empty until the validator has passed, and that
each command that has run is in force (`InForce`): its rule is there, or, if `ip` can read
the command, a route for its destination in its table. Not necessarily its own route:
`replace` may have taken that away again, and `add` is refused where there is one.

*The argument.* `OneRulePerDestination` is about the kernel and the validator about the list
of commands; the invariant joins them. For where packets go, the rules and routes a
node may ask for are described once (`RuleOf`, `RouteOf`), whichever phase asks. A node that
is ready is `Settled`: all the loops should ask for is in force, and nothing else. Then:

* `TableStands`: the lane's table has a route for every destination the lane carries.
* `MatchingRules`: a rule that can match a packet from outside is a selector's or one of
  three kinds of a lane's rules, and which lanes these are is known (`Asked`).
* `LaneRouteIs`, `TableBehind`: each route in a lane's table stems from that lane, or from one
  of the lanes of its access, or is the subnet of a resolver, and leaves by the interfaces
  that these know the destination behind.
* `DecidingIs`: if some rule decides and all rules that decide before it lead to a set of
  tables, so does the rule that decides, and a route is found there.

`SelectionFollows` rests on `Numbered`: every rule of a lane has a number of a lane that
serves the interface the rule is about, also where a lane claims for another's table; only
those of resolvers are about no interface, and a relation's source is no address of the
node (`SourceIsKnown`).
`ReturnsReach` and `SharedFollowsOwner` follow by one lemma (`DirectedReaches`): some rule
sends the destination to a table that has it, and every table that could be asked
leads to the right interfaces. `AccessKeepsLane` adds that the main table, where the routes
of two accesses meet, is asked after every lane.

*The premises* are operators of `NodeRoutingProps`, and say what the control plane model has
to hand over beyond what the renderer checks of it:

| Premise | Says |
|---|---|
| `TablesApart` | no two lanes share a table, and none uses `main` |
| `AddressesApart` | an address of the node is not written like a subnet |
| `SelectorsFit` | selectors for the same packets agree, and the policy's lane takes the granted route |
| `DenialsFit` | nothing is behind a lane without routes |
| `ResolversFit` | the addresses of resolvers differ, and their subnets are where they are |
| `ReturnsFit` | nothing is behind the upstream side; what the downstream side lists is, for every lane that is asked, behind it |
| `OwnersFit` | the lane of a shared interface takes the subnets the policies list, and every lane that is asked puts them behind their access |
| `AccessesFit` | the main table is asked last, and the lanes that are asked lead out by the access or by none |

They are premises because the properties need not hold without them and nothing in the
renderer refuses such a node: two lanes with one table mix their routes, for one.
`SelectionDecides` has a premise of its own, `InFront(s) = {}`: a lane that serves the
incoming interface and has a lower number than the selector is asked first, and
`relation_selection_rules.py:146` does not refuse it, since it compares a selector only
with the allocation of its own policy interface. The run has an accepted node of that
kind, where the lane in front decides instead of the policy, so without the premise the
property is false there; it also has nodes where only lanes of other interfaces are in
front, and there it holds. The premises are about data, and not about
what the renderer makes of it: they use the renderer's own operators on a node
(`IsLane`, `SharedInterfaces`, `Eligible`, `Surface`), but no command and no kernel. All
212 nodes of the run that are not refused satisfy every one of them (`NodesFit` in
`MCNodeRouting`, which TLC evaluates), and the properties have something to say
there: 152 nodes have returns to deliver, 32 a lane that is denied, 12 a resolver, 8 two
selectors, 8 a shared interface with owners, 188 an access with a default route.

The one assumption on the constants is `NodesAssumption`: nodes are `WellShaped`, that is,
what the source iterates over is a list, priorities are numbers, references are to
interfaces that exist, and no connected subnet is called `default`.

The same module, about `WanSync`, for every set of routers, number of attempts and of
counted events:

| Theorem | Says |
|---|---|
| `SyncTypeCorrect` | `SyncSpec => []SyncTypeOK` |
| `RestFollows` | `SyncSpec => []RestMeansFollowing` |

The invariant says what the script knows as long as no event waits and none was
missed: after the first read that the main table is still what it read, after
the second that both are. Any change either leaves an event, which `Known`
then says nothing about, or, before the subscription, is `missed`, and only
reading the main table again makes up for that.

`NodeBootProofs`, for every set of nodes, size of the scripts, number of waits and
of restarts:

| Theorem | Says |
|---|---|
| `BootImplementsExec` | `Spec => ExecSpec`: kernel and traffic do not disturb the scripts |
| `ExecOrder` | `ExecSpec => []InOrder /\ []FailureStopsTheNode` |
| `BootInOrder` | `Spec => []InOrder` |
| `BootFailureStops` | `Spec => []FailureStopsTheNode` |
| `BootTypes` | `Spec => []TypeOK` |
| `BootLetsOnlyAllowedPass` | `Spec => []OnlyAllowedPasses` |
| `BootLetsAllowedPass` | `Spec => []AllowedPasses` |
| `BootLeavesNothingAside` | `Spec => []NothingOutlivesBoot` |
| `BootTranslatesAsListed` | `Spec => TranslatedAsListed` |

The invariant says of each script whose turn it is (`Turn`): a script that waits or
has not begun has run nothing, one that runs has exactly the commands before its place
behind it, and a marker of this life means that all commands up to the end of its
script have been run. The arithmetic of the cuts is in the lemmas `Products` and `Cuts`.

The four about the firewall hold for every intent: any list of rules, matches, sessions,
WANs and translated interfaces. The argument goes from a rule to the kernel:

1. *A rule.* `RuleSpeaks`: a packet is matched by some statement that
   `rules_for_cpm_rule` renders for a rule exactly if the rule covers it (`Covers`, which
   knows neither families nor statements), provided the rule is `Tight`, not refused and
   has no statement that `nft` cannot parse; all statements of a rule have its verdict. A
   statement that cannot be parsed stops the script, so that nothing behind it is built.
2. *The rules together.* `ForwardingRulesAre` and `PolicyRulesAre` say what the list of
   statements is after the names have been translated, the sessions added and
   repetitions dropped: each statement is that of a rule, and those of all earlier rules stand
   before it. So the first statement that matches decides as the first rule
   that covers (`PolicyVerdict`), and a rule that was dropped because it was there
   already would have decided the same.
3. *The commands.* Going through the renderers one by one, `CommandsAre` says of the whole
   list which kinds of command each chain can get (`Fits`), and that in the chains of the
   WAN and of the policy the rule for answers comes first and the statements of the
   policy keep their order (`Good`, which `GoodJoin` carries through concatenation).
4. *The kernel.* `Built` says what the first `k` commands have made of the ruleset:
   which chains there are, and that the rules of each are in the order of the
   commands that added them. `ExecuteBuilds` is the step from `k` to `k + 1`. `ChainSays`
   then says what a chain answers in terms of commands instead of rules.
5. *The node.* The invariant `KernelInv` adds to `ExecInv` that the ruleset is what the commands
   that have run in this life have built (`OnTheWay`), less those that were lost unnoticed
   (`Kept`), that forwarding is on once it was
   enabled, and, on a node without WAN and translation, that what the tracker
   knows is accepted by the intent (`NoneAside`): no chain that comes before the policy's
   asks for a state there, so that nothing is tracked before the policy is
   (`TracksLate`). `OnlyAllowedPasses` is `FwSound` at any `k`; `AllowedPasses` is
   `FwComplete` at the end, together with the chains of WAN and guard (`OthersPass`) and
   the rule for answers (`EstablishedPasses`), if it is there; `TranslatedAsListed` is `TranslationIs`.

That the first two are equivalences, and not only the implication for acceptance, is what
the order of rules costs: a statement of an earlier rule that denies must neither be
missing nor match too much.

Assumptions: those of `NodeExec` on the numbers; `FamiliesAssumption` and `PacketsAssumption`
(every subnet has a family and the two ends of a packet the same one, and a new connection
does not go to a client's own port); `NodesAssumption`: the lists of a node are lists, a
rule says family 4, 6 or none and matches protocols that `cpm_firewall_rules.py` knows, and
a name that an interface has in the container is not the logical name of another. The
last one is not checked by the code, which translates names that have been translated
before (`EM/base.py:284`, `EM/interface_names.py`): with `eth1` as the logical name of
what becomes `eth2`, a session's rules would name the wrong interface.

`ServiceProofs`, for every lab, every content of the protected files, every table of names
and prefixes, and every number of runs of the loop, of tries and of hops:

| Theorem | Says |
|---|---|
| `LoopTruthful` | `ServiceSpec => []LoopTellsTheTruth` |
| `NothingMissing` | `ServiceSpec => []NothingIsMissing` |
| `DeployedIsServed` | `ServiceSpec => []ReadyMeansServed` |
| `LocalNamesKept` | `DnsSpec => []LocalNamesStay` |
| `ConfinedStay` | `DnsSpec => []RequestersConfined` |
| `RequestersHeard` | `DnsSpec => []RequestersServed` |
| `NothingAside` | `DnsSpec => []NothingLeavesAside` |

The seven rest on one invariant of the loop, `LoopInv`, which both specifications keep
because each of their steps is one of the loop or leaves it alone (`ServiceStepLoops`,
`DnsStepLoops`): where the loop is says which resolvers have been stopped and started
(`Places`), a resolver the loop has not come to has no daemon of this run (`Unstarted`),
one that was started alone is the only one that can hold its sockets (`Lonely`), and a
loop that gave up did so at a resolver whose daemon it has killed (`GivenUp`).

For the deployment, `BootInv` adds the order of the phases and what the commands that
have run have left (`FileInv`): the files of a container are exactly those its commands so
far write. That is where the model's operators matter, and most of the lemmas are about
them: which commands a node's list has and in which order (`CommandsAre`, from
`RouteCommandsAre` to `DnsCommandsAre`, on lemmas about concatenation and filtering), and
how the command that writes a script follows the one that writes its configuration.
`NothingMissing` follows. For `DeployedIsServed` there are two more invariants: the
script of a scope that is alone on its port is still to come or its last daemon, if it
was started alone, has opened its socket (`ServedInv`), and a daemon of Unbound that holds
its sockets has found the files it includes (`NamesInv`). The first rests on what is known
of the daemons of Kea that live (`KeaInv`): each was started from a configuration that is
still there, none that serves has gone unrecorded, and between the start of a daemon and
the end of its script there is none on its port that was told to stop, if none was there
when it was started. That the derived prefixes and addresses of
two tenants differ and lie within what they are derived from is arithmetic
(`TwoToSum`, `SlotsApart`, `PartsApart`, `AddressInside`).

For the resolvers, `QueryInv` says that a query exists only at rest or on its way, that
its trail is a path of steps that each resolver was configured to make, and that nothing
is asked by who is kept out. The properties are about the contract, the steps about
Unbound's configuration: `KeptIsNotResolved`, `ConfinedIsNotResolved` and
`BlockedIsNotResolved` say that for what the contract keeps the closest zone or access
entry of the configuration is one that does not resolve, whatever else it lists.

Assumptions: `LoopAssumption` (counts are numbers), `ServiceLabsAssumption` and
`ContentsAssumption` (lists are lists, lengths are numbers, a source that is named is
one of those there are), `WidthAssumption`, `NamesAssumption` (the namespaces that
enclose a name are a list with the root in it), `HostsAssumption` (prefixes are finite and
nested or disjoint), `QueriesAssumption` and `LabsAssumption` (a query is of a known name, a
lab is finite and its prefixes are known). Each says what kind of data there is; none says
what the renderer makes of it.

Some theorems are about facts that no run lists, since its properties are about more:
`TypeCorrect` of each module and `BootTypes`, `Inductive`, `AcceptedLabStays`, `RefusedRunSeeded`,
`KeaFollowsDns`, `OneNamePerAddress` and `ClaimedOnce`.

The library's induction theorems take an operator as a parameter and cannot be used
here, but a set of numbers can be given in its place: `Least` (a set of numbers has a least
one) follows from the theorem on well-founded relations that has no such parameter,
`Induction` and `Recursion` (what is defined step by step exists) from it, and in
`ListLemmas` and `ServiceProofs` everything proved about sequences and sums from these. So what is defined by
recursive functions is within reach; the operators of the community modules that fold
with a `LAMBDA` are not, and the definitions that proofs look into are written without.

Only model-checked:

* `DeployEnds`, `RunsEnd`, `ReconcileEnds`, `BootEnds` and `Converges`: liveness under
  fairness, out of the prover's reach.

## 5. Plan

In this order, the behaviour that matters most first. Done:

1. `ClabDeploy`, `DeployContract` and their proofs.
2. `RenderLive` and its proofs.
3. `ToolingCache` and its proofs.
4. `Reservations`, `ReservationMaterializer` and their proofs.
5. `KeaReconcile` and its proofs; `UnboundReconcile`; `NodeServices` and `ServiceDeploy`,
   which compose them with what is rendered for a node.
6. `NodeRouting` and its proofs; `WanSync` and its proofs; `NodeExec`, `NodeFirewall`,
   `NodeBoot` and their proofs.
7. `DnsContract`, `UnboundService`, `DnsProxy` and `DnsService`.
8. Proofs about packets (`NodeBootProofs`), for which `NodeFirewall` is written without
   folds, except for the map of names, which no proof looks into; and about where the
   routing of a node sends them (`NodeRoutingProofs`).

Left:

9. `DeployCommand`: the rest of `deploy-clab.sh`, bridges, wait for docker, lab emulation
   and verification, beside a run of the host program; with it the `dnsmasq` processes
   that are replaced from deployment to deployment.
10. `PppoeClient` with its supervisor.
11. `VmRunner` and `InputSeed`: the VM's deadlines, the near-copy of the deploy loop, the
    cache updater, skipping what is present.
12. `SiteLinks` (interface numbering, bridge names) and `EnterpriseMerge`, each against a
    reference definition over bounded inputs.

## 6. Not modelled, and why

* The text of what is rendered, logging, JSON and YAML layout: no property is
  about them.
* `containerlab`, `docker`, `systemd` and the kernel beyond what the scripts use
  of them: external; their behaviour is a choice of the model's environment.
* Nix packaging (`flake.nix`, `vm*.nix`): declarative, evaluated by Nix.
* An interrupt of `deploy-clab.sh` itself, and `deploy-clab.sh` against the host
  program: planned (9).
* `CLAB_DEPLOY_ATTEMPTS=0`, where the loop has no iteration and the script fails.
* The two reconcile loops (command and host program) at once. In `ServiceDeploy` a
  scope's pools, addresses and options are one flag, router advertisements a command
  without effect, the counted waits of a Kea script may end at any time (`KeaReconcile`
  counts them), and the audit sidecars are left out.
* In the materializer: a template's own reservations (the renderer writes none),
  the pool flag and file modes.
* In `DnsService`: the table and the rules of the DNS egress; who answers a query outside the lab; wire format and TCP; that `unbound-checkconf` accepts what is
  rendered, and that the routes between the nodes are there, is assumed; a circle of
  forwarders ends at the bound on hops.
* PPPoE, lab emulation, the VM runner, the tooling cache updater, the enterprise and site
  models: planned (9 to 12). Bundle input and provenance: validation and reports,
  shapes rather than behaviour.
* Runs of the host program that share a work directory: the marker properties
  are stated for distinct ones.
* In `NodeRouting`: overlay interfaces, loopbacks and WAN peers; routes of
  runtime-delegated prefixes, which are in `NodeServices`; destinations a lane's own table has both directly
  and by a gateway (the program prints a route the kernel takes in part);
  malformed values, which earlier validation rejects; BGP itself.
* In `NodeBoot`, a command that fails has done nothing. The chain of the policy, its
  rule for answers and its rules for eth0 are added with `|| true`
  (`policy_firewall.py:119-124`): a node that is complete may lack each of them, which
  `lost` records. Without the rule for answers, connections that the node opens get
  none: `AllowedPasses` promises answers where that rule is there. Without the chain no rule of the intent can be added, and
  the script stops at the first.
* In `NodeBoot`: policies by tenant and `snat`, which `EM` never hands on; the clamp of
  segment sizes, output chains and `ct state invalid`; on a node with a WAN or with
  translation, what was opened before the policy existed stays open
  (`NothingOutlivesBoot` has that premise).
* In `WanSync`: a change between the last attempt and the subscription of `ip
  monitor` is heard by nobody, and two routers give two lines that `ip` refuses
  (`linux_wan_dynamic.py:96-99`); the properties say so as premises. That `ip`
  prints a copied route as it prints the original is assumed. The DHCP
  hook, a restart of the script and the rest of the file are left out.
* In `ToolingCache`: a run that uses an image built by something else, and is
  refused for it, first saves that image as the archive of the current key
  (`build.sh:206`), so that a repeated run is ready without a build. The theorem
  `RefusedSeeded` is about the saving; the claim of the tests that only a build makes
  ready has no run.
