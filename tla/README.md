# weft-operator: TLA+ specifications

weft-operator is a Kubernetes operator for weft tunnels. It mirrors an
aquaduct.dev account into the cluster, registers domain names there, turns
Gateways and tunnels into Deployments, and keeps in-cluster traffic to tunnel
hostnames inside the cluster. This directory models the parts of it whose
correctness depends on the order in which controllers, users, pods and a remote
API act, checks them with TLC and proves the central results with TLAPS.

## Inventory

| Component (source) | State it keeps | Operations | Talks to | What makes it correct |
|---|---|---|---|---|
| AquaductTaaS controller (`internal/controller/aquaducttaas/reconciler.go`) | finalizer `suspend-on-delete`, `status.bastions`, `status.lastSyncTime`; finalizer `aquaducttaas-token-in-use` on the Secret; mirrored WeftServers | sync pass: read token, pin Secret, list bastions, upsert and prune WeftServers, commit status; deletion pass: cascade DNSRecords, suspend bastions, release Secret, drop finalizer | aquaduct.dev, DNSRecord controller (through objects) | nothing the account still has to clean up is cut off from its token or its object; every deletion ends |
| DNSRecord controller (`internal/controller/dnsrecord/reconciler.go`) | finalizer `unregister-on-delete`, conditions | resolve TaaS and token, select bastions, GET, then PUT or PATCH, lookup, commit; DELETE and drop finalizer | aquaduct.dev, status of AquaductTaaS | a registered name always has somebody who will unregister it; registration converges on the running bastions |
| aquaduct.dev client (`aquaducttaas/client.go`, `domain.go`) | a cached JWT per token, shared by both controllers | login, one retry on 401, bastion and domain calls | HTTP | tells "not ours" from "failed"; a rotation of the JWTs is hidden from the callers |
| WeftLocalDNSReflector controller (`internal/controller/weftlocaldnsreflector/`) | finalizer; one key in the shared ConfigMap `coredns-custom`; proxy Deployment, Service, node agent DaemonSet | claims, routes, certificates, trust bundle, trust gate, proxy, CoreDNS key, node agent; finalize | CoreDNS, tunnels, other reflectors | no hostname in two zones, no key without its reflector, DNS only towards a proxy that answers and pods that trust it |
| Certificates and trust bundle (`certs.go`, `trust.go`, `internal/trust/`, `internal/pki/`) | CA and serving Secrets, ConfigMap `weft-trust-bundle` per namespace | generate, issue, publish, count untrusted pods | reflector controller, webhook | the gate is open exactly while all running pods trust the CA |
| Trust injection webhook (`internal/webhook/trustinjector/`) | the Secret with its CA and certificate, the files each replica serves from, the caBundle of its registration | admit: build bundle, create ConfigMap if missing, mount and annotate; `Setup` in every replica at its start and daily in the leader (`Renewer`) | API server, kubelet, other replicas | the annotation tells the truth; a pod never gets somebody else's ConfigMap; the API server trusts what the replicas answer with |
| Default reflector (`default.go`) | one labelled reflector | create, update or delete it, at start and every ten minutes | reflector controller, administrators | never touches an administrator's reflector; the configuration wins in the end |
| Gateway controller (`internal/controller/weftgateway/`) | finalizer, WeftTunnels and DNSRecords per Gateway | accept class, attach routes to listeners, write and prune tunnels, stamp and prune records; clean-up | AquaductTaaS, routes, tunnels, DNSRecords | tunnels follow routes and backends, records the listeners, though nothing polls; no record outlives its Gateway |
| WeftTunnel controller (`internal/controller/wefttunnel/`) | Deployment per matching WeftServer, Available condition | resolve servers, create, update, delete obsolete, status | WeftServer, Deployments | no event is missed; Available is right at rest; its own writes do not keep it going |
| WeftServer controller (`internal/controller/weftserver/reconciler.go`) | PersistentVolumeClaim, Deployment and Service per server inside the cluster, cached weft clients, Available condition | create, update or delete the three objects, ask the server for its tunnels, commit; again after 30 seconds, and on changes of a spec | weft servers, garbage collector | the objects belong to the present server and follow its location; a cached client does not outlive its failure |
| NodeProber (`weftserver/node_prober.go`) | probe Jobs; WeftServers labelled with their node | at start and every three hours: probe each node without a server (polled for 60 seconds), create servers, delete those of nodes that are gone | nodes, WeftServer controller | servers follow nodes; nobody else's server is deleted |
| Node agent (`internal/nodeagent/`) | managed blocks in `/etc/hosts` and the CA bundle, directories under certs.d | tick: probe the proxy, write or remove the blocks; clean-up on SIGTERM | proxy, agents of other reflectors, programs of the host | foreign lines of host files survive; a stopped agent leaves nothing behind; the node points at the proxy only while it answers |
| Resource helper, command, chart, tools, end-to-end tests | none of their own | | | |

Hard behaviours: every controller has one worker, but different controllers,
the webhook, users and the cloud interleave at every API call; a pass acts on
objects it read earlier; any call may fail, or be applied with its answer lost;
the operator restarts between any two steps; aquaduct.dev and public DNS change
behind its back; clean-up is spread over finalizers of three kinds of objects
that wait for each other. `PROJECT.json` lists these hazards line by line.

## Plan

1. *Done*: teardown of the aquaduct.dev side (AquaductTaaS and DNSRecord
   together), safety and liveness; types and `NoLeakedDomain` proved.
2. *Done*: reflector claims, passes and CoreDNS keys; disjoint claims and
   `NoOrphanedOverride` proved.
3. *Done*: the trust gate.
4. *Done*: the two controllers that live on events alone, WeftTunnel and Gateway.
5. *Done*: the remaining components that share something with parties they do
   not know of: JWT cache, node agent with the managed-block algorithm,
   WeftServer controller and NodeProber together, default reflector, the
   webhook's certificate.
6. *Done*: `NameCustody`, what the DNSRecord controller promises about names, and
   the proof that `Teardown` implements it.
7. Left to model: the Gateway controller composed with `Teardown` (there its
   records come from `CreateRecord`), the WeftGateway parameters, edits of
   `clusterDNS.configMapName` and of `accessTokenSecretRef` in place, the
   reflector's serving certificate and Service, several namespaces.
8. *Done*: the order of the teardown, what the tunnel and Gateway controllers
   reach at rest, complete claims, and the components of `shared` proved.
9. *Done*: the managed-block edit proved for files of any length, and with it
   `HostLinesKept` and `LeavesNothing`.

## Modules

| Module | Models |
|---|---|
| `AquaductWorld` | state shared by the two aquaduct.dev controllers: objects with lifecycle and finalizer, cloud bastions, registrations, public DNS, and one pass record per controller |
| `TaaSReconciler` | AquaductTaaS controller, one action per call: `TStart` to `TCommit` for the sync pass, `TCascade` to `TDrop` for the deletion pass, `TFail` and `TCascadeFails` for failing calls |
| `DNSRecordReconciler` | DNSRecord controller likewise: `DStart` to `DCommit`, `DDelete`, `DDrop`; `GetDomain`, `PutDomain`, `PatchDomain`, `DeleteDomain`, `LookupDomain` are the client calls; failing calls with and without effect |
| `Teardown` | the composition with users, cloud and restarts, and its properties |
| `TeardownLiveness` | the same with a budget of outside events, fairness and liveness |
| `Claims` | `resolveClaims`, `older`, `tunnelHostnames`, `computeRoutes` as functions |
| `Reflector` | the reflector pass, users, tunnels, trust and rollouts around it |
| `ReflectorLiveness` | budget, fairness and convergence for it |
| `TrustGate` | CA generation, bundle publication, webhook, pod start, gate |
| `TunnelReconciler`, `TunnelLiveness` | WeftTunnel pass, work queue and watches; budget, fairness and rest |
| `GatewayReconciler`, `GatewayLiveness` | Gateway pass, attachment of routes, DNSRecords, work queue and watches; budget, fairness, rest and deletion |
| `NameCustody`, `TeardownCustody` | what the DNSRecord controller promises about names; the mapping under which `Teardown` implements it |
| `JWTCache` | the HTTP client both aquaduct.dev controllers share: cached JWT, login, retry on 401, rotations at the server |
| `ManagedBlock`, `NodeAgent` | `withManagedBlock` as a function on sequences of lines, its loop as a recursive function, beside a definition of the same without the loop; the agent's ticks and clean-up, one step per file operation, beside other editors |
| `WeftServerReconciler`, `NodeProber`, `ServerFleet` | WeftServer passes and cached clients; probe rounds; the two together with nodes, users, garbage collector and restarts |
| `DefaultReflector` | `Sync` of the default reflector against an administrator |
| `WebhookCert` | `Setup` and `Renewer` of the webhook in several replicas, over days |
| `Teardown_proofs`, `TeardownOrder_proofs`, `Reflector_proofs`, `TrustGate_proofs`, `Tunnel_proofs`, `Gateway_proofs`, `NodeAgent_proofs`, `Shared_proofs` | proofs |
| `MC*` | constant values for TLC; `MCShared` also puts the last parts into one run |

**State and code.** A Kubernetes object is a record with `phase` (absent, live,
deleting), `fin` (our finalizer) and the status fields other code acts on.
`tp`, `dp`, `rp` and `gp` are the local variables of the pass a worker is
running: which object, the copy it read (`copy`), lists it holds. `Update` is
refused when the object no longer equals the copy: optimistic concurrency.
Objects are read as they are; lag of informer caches is modelled for the trust
bundle's ConfigMap only, apart from the copies passes keep. Reads followed at once by a conditional write of the
same object (pinning or releasing the Secret) are one step, since a conflict
fails like any call. Garbage collection by owner reference happens with the
disappearance of the owner. Token, IPs, certificates and messages are
abstracted: an AquaductTaaS stands for the account of its token, a bastion for
its address, a CA for its fingerprint.

**Registrations.** `dom[d].managed` is a history field: the operator has written
the name at least once. An explicit empty `bastion_ids` means "all running
bastions" to aquaduct.dev (`Applied`), as the comment in the reconciler says.
`Refusals` lets the server answer 401 or 409 to the owner; `LateRecords` lets
users and Gateways create DNSRecords for a TaaS that is being deleted.

**Reflector.** Creation times are numbers up to `MaxTime`, two objects may share
one, as in the API's resolution of a second. `tunnel[h]` is what all tunnels
together offer for a hostname. The proxy keeps apart the routes it should have
(`routes`) from those its available pods serve (`serving`). Whether all pods
trust the CA is an input there (`untrusted`), and the subject of `TrustGate`.

**Trust gate.** One namespace stands for all. `cm` is the ConfigMap of the bundle's
name and `seen` what the manager's cache, which holds only what the operator
manages, shows of it; `CatchUp` is the watch. Both `EnsureConfigMap` and
`CreateConfigMapIfMissing` read the cache, so that a name taken by others shows as
missing and the creation is refused; the webhook then asks the API server itself
(`LiveConfigMap`). `Meddle` puts somebody else's ConfigMap under the name or deletes
the one that is there, at any time, `Takeovers` times. An update is refused unless
the cache shows the present content, which stands for the resourceVersion. `bereft`
is history: the operator's ConfigMap went between the webhook's look at it and the
pod's start, or before the cache knew. `annotated` is what the webhook
wrote on the pod, `mounted` what the kubelet put into it at start (a subPath
mount never changes). `Rotation` switches the deletion of CA Secrets and of
reflectors. `spec.ignoreUntrustedPods` is in `Reflector` only.

**WeftTunnel.** `queue` is the work queue: a pass starts only for a tunnel an
event put there, and the mapping functions of the watches
(`FindTunnelsForServer`, `DeploymentOwners`) decide who that is. Every write that
changes an object is an event, the controller's own writes included; a pass that
fails is queued again. A Deployment remembers whether its controller reference
is to the present tunnel of that name or to a former one, which
SetControllerReference refuses to replace. `fresh` is the resourceVersion check
of the status write; `StatusFaults` lets that write alone fail, which the code
only logs.

**Gateway.** The same queue, with five watches. Hostnames are sequences of
labels, tunnel names the data they are hashes of, ports part of the listener.
`Attached` follows the code's four loops. `Binds` states independently of them the
part of the Gateway API's rule that the controller is held to, and not all of it:
like the code it has no protocol gate for HTTPRoutes, no hostnames for TLSRoutes and
no allowedRoutes. A route's rules are the pairs of path and backend that its matches
and backendRefs come to. A tunnel's name does not depend on the backend: two
backendRefs of a rule, two rules for one path or two HTTPRoutes of one name in
different namespaces write one tunnel in turn, in every pass, and each write is an
event. The controller then never rests, and `GatewayRests` says so by its condition
`OneBackend`. Header filters and the WeftGateway parameters are left out. So is
`pickL4Bastion`: it would pin the record of a TCP or UDP listener with a hostname,
which the CRD rejects (`tools/envtest/gateway-api-crds.yaml:1002`,
`e2e/aquaduct/scenario_gateway.go:122`). AquaductTaaS objects are
created here; their deletion is the subject of `Teardown`.
DNSRecords drain by themselves and nobody here watches them: a record that went
since the last look at it is "gone", not "absent", and no pass is owed for it.
`Forgotten` names the calls that may fail among those whose failure the code only
logs (class status, lists of the other route kinds, everything about records);
`skipped` remembers the Gateways whose records were given up that way.

**Custody of names.** `NameCustody` knows only who holds a name, who is leaving and
which account owns it. The mapping: a record holds by its finalizer
(`Holders`), leaves by its deletionTimestamp (`Leavers`), and the owner of a name is
that of a registration the operator wrote (`ManagedOwner`). Passes, copies, failing
calls, restarts, Secrets and bastions disappear in the mapping.

**JWT cache.** A JWT is the epoch it was minted in, and aquaduct.dev accepts
those of the present epoch; `fresh` is the comparison of expiresAt with the
clock. The mutex covers single accesses to the cache, so login and sending are
steps of their own. `started` and `stale` are history.

**Node agent.** `/etc/hosts` is truncated and rewritten in place (two steps), the
CA bundle and the files of certs.d are replaced by a rename. os.RemoveAll unlinks the
files of an entry one by one in the order of the directory, whichever that is
(`RemoveEntry`, `UnlinkCA`, `UnlinkTOML`, `Unlinked`), and may fail half-way. A CA
file is "lost" once it went before the hosts.toml that names it. With an empty CA file
the tick takes the block out of the bundle (`withCABlock`). `accident` records that a
write was cut short or that somebody else edited the file in the middle of one;
`foreign` what the others last wrote. One line stands for the body of a block, and
the handshake with the proxy for its verdict.

**WeftServers.** `uid` tells a server from a later one of its name, `ver` is its
resourceVersion, `conn` the secret of its connection string, `cert` what the server
process was provisioned with. An object carries the uid of the server its owner
reference names (0: no object), and the garbage collector removes one whose owner
is gone. `due` is the work queue together with running RequeueAfter timers. Of a
round of the prober, `gone` and `listed` are history.

**Webhook certificate.** Time is in days. A certificate is the CA that signed it
and its last day. `tls.crt` and `tls.key` are written one after the other and picked
up together by the file watcher (`Reload`), which refuses a pair that does not
match. `ok`, `age` and `lost` are history. The ten years of a CA are beyond the
bound.

**One run for separate parts.** In `MCShared` a behaviour is about one of six
parts, chosen in its first state (`part`), while the others rest. The parts have no
variable in common, so every behaviour of a part alone is such a behaviour, and a
property of one part holds in the run exactly if it holds of the part. Liveness
properties are stated as `<>[](part = ... => P)`; each part's own specification, with
the same fairness, is in its module.

## Runs

| Run | Instance | Shows |
|---|---|---|
| `teardown_safety` | 1 TaaS, 1 DNSRecord with a target, 1 bastion, 1 Secret (0.7 million states) | no leaked name; TaaS and token outlive the records that need them; records drain before bastions are suspended; bastions are suspended before the TaaS goes; the whole implements `NameCustody` |
| `teardown_live` | the same without explicit target, 3 outside events | deletions end, the Secret is let go, a record converges on the running bastions and stays there |
| `shared` | six parts, each in behaviours of its own (0.4 million states): 2 TaaS and a Secret; 2 callers, 1 rotation, 1 failure; 2 hostnames, 3 events; 1 node, 2 events; 4 events; 2 replicas, 5 days, 2 events | deleting one TaaS never takes the token from the other, live one; a 401 reaches a caller only in the races `RotationHidden` names, and calls are answered again; host lines survive, a stopped agent leaves nothing, hosts.toml is never written before the CA it names, the node follows the proxy; objects, Available and WeftServers follow servers and nodes, and nobody else's server or reflector is deleted outside the named race; the webhook stays trusted through starts and renewals and heals when its CA is lost |
| `teardown_v_late` | `LateRecords` | **violated**: a record created after the cascade's list outlives its TaaS |
| `teardown_v_refused` | `Refusals` | **violated**: a 401 or 409 on DELETE counts as "never ours" and leaks the name |
| `teardown_v_retry` | as `teardown_safety` | **violated**: a stop between releasing the Secret and dropping the finalizer leaves a deletion that can never finish |
| `reflector` | 2 reflectors, 1 hostname, 2 timestamps, 5 outside events | claims are disjoint and complete; no key without finalizer; keys converge on what each reflector owns and serves; deleted reflectors go |
| `trust_gate` | 1 reflector, 2 pods, 2 CAs, rotation, 1 takeover of the bundle's name (0.3 million states) | no injected pod runs with a foreign trust store, whoever takes or frees the name during an admission, unless the operator's ConfigMap is taken away after the webhook found it; the gate settles closed or open as the annotations say |
| `trust_v_annotation` | 2 reflectors, 1 pod | **violated**: a pod is annotated with a CA its bundle does not have |
| `tunnel` | 1 tunnel, 1 server beside it and 1 in weft-system, 2 addresses, 4 outside events (0.5 million states) | at rest the Deployments and Available are what servers, tunnel and pods call for, and rest is always reached |
| `gateway` | 1 Gateway, HTTPS and TCP listener, HTTPRoute and TCPRoute, 2 paths and 2 backends, 2 outside events (0.4 million states) | at rest the tunnels are exactly those of binding routes, to the backends of their rules, and the records follow the listeners; no record without the finalizer that has it deleted; rest is reached unless two backends share a tunnel, and deletions end |
| `gateway_v_second` | the same, 2 AquaductTaaS | **violated**: a Gateway deleted once a second AquaductTaaS exists leaves its records and their names behind |

Two short-lived states are reachable in the reflector model and are no run of
their own: while a claim moves two keys hold the zone (`NoDuplicateZones`, against
the remark at the top of `claims.go`), and a new hostname may be published while
only pods of the previous rollout are available (`deploymentAvailable`).
`ZonesConverge` shows that neither lasts.

**Races the properties name.** Each is a reachable behaviour of the code
which the property excludes by a condition on history, and no more:

- `RotationHidden`: a login overtaken by a rotation stores an outdated JWT between
  another call's clear and its retry; the second 401 gets to the caller, and
  DeleteDomain takes it for a domain of somebody else. `RotationHeals` says that
  it does not last, but a name whose DELETE met it is the leak of
  `teardown_v_refused`.
- `HostLinesKept`: between truncating `/etc/hosts` and writing it, a crash or
  another editor loses lines (`accident`).
- `CAFirst`: while RemoveAll works, or after somebody else deletes a CA file between
  the two writes of writeCertsD, hosts.toml names a CA that is not there, which the
  comment on writeCertsD (`certsd.go:56`) would rule out (`lost`). That the
  order of the writes never causes it is what the property says.
- `ForeignNeverMounted`: a ConfigMap that somebody replaces after the webhook found the
  operator's, in a cache that lags or before the pod starts, is mounted into the pod all
  the same, and its annotation opens the gate (`bereft`).
- `RecordsFollowListeners`: a reconcileDNSRecords that failed is only logged (`skipped`),
  and a record deleted behind the controller's back is missed until the next pass.
- `PresentNodesSpared`: cleanupOrphanedServers deletes by name, so a hand-made
  server that took a listed one's place goes with it.
- `HandMadeKept`: likewise a hand-made default reflector created between the Get
  and the Delete of a Sync, against "only ever touches a reflector carrying its
  label" at the top of `default.go`.
- `WebhookTrusted`: Renewer runs in the leader only. A standby replica neither renews the
  certificate it serves nor follows a new CA until it is restarted or elected
  (`age`, `lost`); `WebhookHeals` is therefore about the leader.

**Bounds.** The properties of teardown are about one account, one record and
their Secret, or about two accounts and one Secret: these are the instances.
Two records of one name are covered by the theorem `NoDomainLeaks`. Claims need
two claimants; a third adds no new kind of conflict, and `ClaimsAreDisjoint`
holds for any number. Two CAs allow a rotation or a recreated reflector, one takeover lets the bundle's name
change hands at any point of an admission, in both directions over the first states.
`Changes` bounds outside events in the liveness runs: three suffice to
delete objects at any point of a pass or to lose an answer, two to change a Gateway or
route and again during the repair, four to delete and
recreate a tunnel while a server changes, five to let two reflectors exchange a
claim. The first states of `tunnel` and `gateway` vary over existing objects, so
that none of the budget goes into setting them up. `MaxTime` and `MaxCA` bound timestamps and CAs;
`CALeft` spends the latter on outside events only, so no pass is ever blocked.
In `shared` two callers are the two controllers; one rotation suffices to overtake
a login. Three events let an agent be stopped, killed or overlapped in a tick
and again in its repair, with two hostnames so that loops stop half-way. Two
events on one node and server let the node leave and the server be replaced during
a round or a pass; nodes do not share servers, so a second one only multiplies
states. A certificate valid three days, due one day before its end, comes up
for renewal again within the five days.
The liveness runs do not check deadlock: with the budget spent and everything
deleted the system rests.

**Fairness.** A pass always ends in a requeue while its object exists
(`RequeueAfter`, `Requeue` or an error), and a worker takes the next request: a
controller that can step eventually does. With several reflectors the work
queue is first-in first-out, hence strong fairness of starting each one's pass.
In `TrustGate` calls may fail for ever in principle, so each step of a pass is
strongly fair: no call fails on every retry; and the watch brings the cache up to date. Deployments roll out and public DNS
propagates. The worker of the tunnel and the Gateway controller takes a step
while it has a pass or a request; nothing there is timed, so no fairness
stands for a poll the code does not make. In `shared`: every caller's call goes
on; the agent ticks on, and once told to stop begins its clean-up (strong: the
select may pick the ticker several times); the WeftServer controller (RequeueAfter),
the prober (its ticker) and the garbage collector keep going; Sync is repeated;
every replica's Setup and file watcher go on, some replica is elected, and days
pass, the last one again and again. The HTTP client sets no timeout, so "a call answers or fails" is an
assumption about the network.

`DeletionCompletes` leaves out two situations the code cannot finish:
a token that cannot be read, and a mirrored bastion destroyed on aquaduct.dev
(`Vanished`; SuspendServer answers 404 on every retry). `GatewayGoes` assumes that
the GatewayClass is still there: without it every pass ends at the failing Get.

## Proofs

`Teardown_proofs`: `TypeCorrect`, for all constants that satisfy `RefAssumption`
and `NamesAssumption`, and `NoDomainLeaks`, assuming `~Refusals` (with them
the run `teardown_v_refused` is a counterexample). `NoLeakedDomain` alone is
not inductive: a pass about to write a name must know that its record has the
finalizer, and a pass about to drop the finalizer that the name is gone. The
invariant is `TypeOK /\ RecordLifecycle /\ NameReleased /\ NoLeakedDomain`:
`RecordLifecycle` (theorem `LifecycleCorrect`) says that a finalizer a pass has
seen stays until that pass drops it, `NameReleased` that at the drop the name no
longer belongs to the account. Several records may share a name; the witness in
`NoLeakedDomain` is then whichever wrote last.

In the same module `CustodyImplemented`, the refinement of `NameCustody`, again assuming
`~Refusals`, for any number of records, names and accounts. Initial states
map to the initial state; each step of `Teardown` maps to a step of `NameCustody` or
a stutter. It rests on the invariant above and on `DeletesOnRequest`: a pass on the
deletion path works on a record that is still being deleted, without which
`Unregister` and `LetGo` could not be matched.

`TeardownOrder_proofs`: the order in which an AquaductTaaS is taken down, from
`TaaSLifecycle` (theorem `TaaSLifecycleCorrect`), the counterpart of
`RecordLifecycle`, and one strengthening per property.

- `DrainedBeforeSuspend`, with `DrainedInv`: past the cascade the account owns no
  DNSRecord. It assumes `~LateRecords`: handleDeletion lists the records once.
- `SuspendedBeforeGone`, with `SuspendInv`: what is mirrored and not yet suspended
  is on the list of the pass.
- `TokenHeld`, with `PinInv`: a pass has pinned the Secret before it lists bastions
  and sets `synced`. Secrets may be shared here, because the controller releases
  one only when no other live AquaductTaaS refers to it.
- `TaaSStays` (assumes `~Refusals` and `~LateRecords`; the run `teardown_v_late` is
  the counterexample to leaving the second out), with `SyncedInv`: a record owes a
  name only if its AquaductTaaS has synced.
- `TokenHeldToTheEnd`, with `HeldInv`, assumes moreover that no two AquaductTaaS
  share a Secret. This one is needed: of two that share one and are both being
  deleted, the one without records releases it, and the other can no longer
  unregister its names.

`Reflector_proofs`: `ClaimsAreDisjoint` holds in every state, since all live
reflectors see the same competitors and `First` picks one of them.
`ClaimsAreComplete` needs more: that `Older` has a first element in every set of
reflectors that is not empty, zero creation times last, which rests on the
natural numbers being well-founded (`LeastNumber`, `FirstIsOldest`). `NoOverrideLeaks`
by `TypeOK /\ HeldByFinalizer /\ NoOrphanedOverride`: a pass that publishes works
on an object that got its finalizer before, and `finalize` clears the key before
it drops it.

`TrustGate_proofs`: `GateTypeCorrect`, by `TypeOK /\ PassInv`: a pass works on a reflector
that exists, and the CAs generated so far together with those still needed stay
within the bound, so that no pass is blocked by it. `ForeignIsNeverMounted` by adding
`MountInv`: what a webhook builds and the operator's ConfigMap holds is never empty
(`BuiltSomething`, `ManagedHasCAs`), a pod under admission is not annotated yet
(`NotYetAnnotated`), and one that was injected and has not started finds the
operator's ConfigMap there unless it is bereft (`PendingHasBundle`): every step that
takes the ConfigMap away marks the pods that wait for it.

`Tunnel_proofs` and `Gateway_proofs` are about controllers in which nothing polls, and
share an argument. "At rest everything is as it should be" says nothing of the
states in between, so the invariant (`TunnelInv`; `GatewayInv`) speaks of each object
that is *not queued*: if no pass is running for it, it is as it should be, and if
one is, all that the pass has read so far is still true and all that it has done
is in place. A step that would make this false changes something a watch
listens to, and queues the object; a pass that fails queues it too.

- `NoEventMissed`: the Deployments of a tunnel are exactly those its servers call for.
- `AvailableIsHonest` assumes `~StatusFaults`: updateStatus only logs a failing write,
  and nothing brings it up again.
- `GatewayTypeCorrect`.
- `RecordsGoWithGateway` assumes one AquaductTaaS; with a second one the run
  `gateway_v_second` is the counterexample. `OrphanInv`: the Gateway has its finalizer
  before the first record is stamped, and the pass that drops it has every record
  that is left on its list.
- `ListenersAreFollowed` needs no assumption: Reconcile logs the failure of
  reconcileDNSRecords and ends as if it had succeeded, and `skipped` exempts that
  Gateway, until one succeeds, instead of the failures being left out.
- `RoutesAreFollowed` assumes `"routes" \notin Forgotten`, a failed list of routes
  counting as an empty one, and `NamespacesAgree`: the code attaches an HTTPRoute
  whose parentRef has no namespace to a Gateway of that name in any namespace, and
  lists other routes in the Gateway's own only; `Binds` follows the Gateway API
  in this. `OverlapsShow` is about `Binds` alone: the names by which it decides whether
  two wildcards overlap must include one that shows it. The lemma
  `MatchingIsSharing` proves `HostnameMatches`, which compares labels from the end,
  equal to having a name in common, for hostnames of any length.

`NodeAgent_proofs` is about files of any length, where the provers have no induction
to offer; two devices stand in for it. `LoopEnds` shows that the equation of a loop
has a solution, so that `LoopFrom`, which is chosen among the solutions, is one. And
"holds from every line on" is proved by looking at the last line from which it does
not (`LastLine`; the numbers are well-founded). With them:

- `KeptIsOthers`: at each line the loop stops at, outside every complete block, it
  writes from there on what `Others` selects from there on. The cases are a line of
  somebody else, a BEGIN that is closed (`BlockEnds`, `SelectSkips`), and one that is not.
- `EditOfAnyFile`: an edited file is the lines of others with the block between two
  parts of them (`Blocked`) or without it, and what the edit finds in such a file is
  computed once (`BlockedFile`, `FreeFile`). That `insertAt` is a place in what is kept
  (`InsertInKept`) is part of it: it is counted in the lines that were read.
- `EditIsCorrect` follows for every content of `/etc/hosts`, torn writes included.
- `HostLinesAreKept` and `NothingIsLeft`, with `FilesInv`. The lines of others alone are
  not inductive: an END of the agent's that got separated from its BEGIN would take
  others' lines along at the next edit. `OthersSafe` says that nothing but one block
  is the agent's (`Tidy`), in the file or in what is about to be written to it;
  `OursRemoved` says what Cleanup has got rid of by how far it is, and that nobody else
  puts it back; `Phases` that Cleanup never believes the proxy healthy.
- `CAIsFirst`, with `AgentInv`: between the two writes of writeCertsD the CA is there, or
  somebody took it since, and one that RemoveAll unlinks before hosts.toml is marked.

They hold for any set of hostnames and, as no proof uses the bound, any number of
outside events.

`Shared_proofs`, each component of the run `shared` by itself:

- `RotationIsHidden`: a second 401 of one call is excused by what `SecondAttempt` keeps.
- `HandMadeIsKept`, with `DefaultInv`: a hand-made reflector in the place of one that
  Sync read as the operator's is a later object.
- `PresentAreSpared`, with `FleetInv`: what a round is about to delete was labelled and
  its node missing when listed, or is an object created since.
- `WebhookIsTrusted`, with `WebhookInv`: the certificate in each replica's memory, in its
  files and in the Secret are of one CA, the caBundle's, and each is good for
  `LeafRenewBefore` days from the last Setup that went through.

Only model-checked: liveness, since fairness is outside the prover's reach; the
convergence of the trust gate, of the zones and of the components of `shared` is
among it. Every invariant and every action property of the passing runs has a
theorem.

## Known limits of the code

Met while modelling, and either outside the runs or excluded by a stated
assumption:

- http.DefaultClient has no timeout (`client.go:149`): a call that never answers
  blocks the controller's only worker.
- A mirrored bastion destroyed on aquaduct.dev answers 404 to SuspendServer on every
  retry, and the AquaductTaaS cannot be deleted (`aquaducttaas/reconciler.go:403`).
- An External WeftServer deletes any claim, Deployment and Service of its names,
  whoever owns them; `weftClients` never forgets the clients of deleted servers.
- The webhook's CA is never renewed: after ten years its certificates expire with it.
- Two backends of one rule, or of two rules for one path, share a tunnel name
  (`weftgateway/reconciler.go:252`) and replace each other for ever.
- The doc comment of `pickL4Bastion` (`weftgateway/reconciler.go:760`) says that an empty
  fleet yields empty TargetBastionIDs and a record that reports NoTargets; the
  caller skips the record (`:580`), and the pass then prunes it. No listener the API
  server accepts gets there.
- A CA file whose hosts.toml RemoveAll unlinked first, when it then fails, stays: an
  entry is recognised by its hosts.toml (`certsd.go`).
- A pod whose trust ConfigMap is replaced by somebody else's before it starts mounts
  that one (`trust/bundle.go:229` reads a cache, the kubelet reads by name).
- The WeftGateway parameters are read in a pass and not watched
  (`weftgateway/reconciler.go:172`); a parentRef without namespace attaches to
  Gateways of every namespace (`:802`); a hostname added again while its old
  DNSRecord drains is written to the record that is going (`:605`).
- A server of the tunnel's namespace and one of weft-system with the same name share
  a Deployment name (`wefttunnel/reconciler.go:132`). `TunnelInv` then has no state at
  rest if their addresses differ: the two rewrite the Deployment for ever.
- An edited `configMapName` leaves the key in the old ConfigMap
  (`weftlocaldnsreflector/reconciler.go:315`).

## Not modelled

The components marked `not_modelled` in `PROJECT.json`, which are test harness and
manifests; flags and wiring of `main.go`; status fields and conditions other than
those named; certificate contents, the lifetime of CAs and the reflector's serving
certificate; the reflector's Service; WeftGateway parameters and header filters;
edits of references (`accessTokenSecretRef`, `configMapName`) in place; several
namespaces; cache lag, except of the trust bundle's ConfigMap.
