# TLA+ models of the baremetal-operator

This directory holds TLA+ models of the operator's controllers (`src/internal/controller`).
It also holds the TLC configurations that check them.
Each definition is translated from the Go source.
`PROJECT.json` maps every mapped definition to the lines it models, and lists the runs, the mutants, the findings and the hazards.

## The system

Three controllers share one object store through controller-runtime:

- **Claim reconciler** (`metal/baremetalhostclaim_controller.go`). It binds a `BareMetalHost` to a `BareMetalHostClaim`.
  - Live path:
    1. Add the claim finalizer.
    2. Read the host. Refuse it if another claim holds it.
    3. Add the claim finalizer to the host.
    4. Apply the claim's PXE and DHCP objects, setting their status to Created.
    5. Patch `spec.claimRef` if it is nil.
    6. Copy the claim's power to the host. A claim with an ignition and power On waits until its PXE is Ready.
    7. Set the claim's phase to Bound.
  - Delete path:
    1. Clear `spec.claimRef`.
    2. Set the host state to Tainted.
    3. Remove the host finalizer.
    4. Remove the claim finalizer.
- **Host reconciler** (`metal/baremetalhost_controller.go`). It drives a host through the BMC.
  1. Patch the observed power state.
  2. Arm a PXE boot while the host is Initial, and power on or off on a mismatch.
  3. Compute the target state (Initial → Available, Available → Available, anything else → Initial).
  4. For an Initial target, force `spec.power` Off when the host is unclaimed.
  5. Patch the state and phase. A claimed host is reported Reserved and Bound.
- **PXE reconciler** (`boot/pxe_controller.go`).
  - It adds its finalizer.
  - It copies the claim's ignition into the secret `ipxe-<spec.systemUuid>`, then sets the PXE Ready.
  - On delete it removes the secret, then the finalizer.
- The DHCP reconciler is an empty placeholder.

They interact only through objects:
- The claim controller `Owns` PXE and DHCP.
- It `Watches` hosts through a map function that enqueues the *first* matching claim.
- Every read is from the informer cache.
- Every write is a `client.MergeFrom` patch, which carries no resourceVersion.

## Modules

| module | models |
|---|---|
| `Store` | The persisted objects (`host`, `claim`, `pxe`, `dhcp`, `ipxeSecret`), the caches (`hostCache`, `claimCache`, `pxeCache`) and the work queues (sets, as the workqueue deduplicates). It also holds the informer actions `SyncHost`, `SyncClaim` and `SyncPXE`, which update the cache and run the event handlers of `SetupWithManager`. The users' `CreateClaim` and `DeleteClaim` are here, and so is the garbage collector (`CollectPXE`, `CollectDHCP`). `MergePatch` is JSON merge-patch semantics on a flat record. `hostUnseen` and `pxeUnseen` mark writes the watch has not delivered yet, so an event is never lost when a later write restores old content. `rvHeld` records which claim worker's copy still carries the host's current resourceVersion. |
| `ClaimReconciler` | One worker per claim. `cpc[c]` is the step within the pass. `clocal[c]` is the worker's copy of the host, replaced by the server's answer after each patch. `ctaint[c]` is the precomputed taint patch. There is one action per API call of `reconcile` and `delete`, except `ClaimApplyBootConfigs`. That step takes the four calls of `applyPXEConfiguration` and `applyDHCPConfiguration` (two server-side applies, two status patches to Created) at once. A failure, or a PXE controller step, between the PXE apply and its Created patch is therefore not represented. The step always writes Created, as the status patch does whenever the applied object is not already Created. `ClaimFail` is any call failing. |
| `HostReconciler` | One worker per host, plus `machine[h]`, the machine behind the BMC: its power, whether a one-time PXE boot override is armed, and `image`, the claim whose ignition provisioned what it runs. A power-on with the override armed (`SetPXEBootOnce` runs first, while the host is Initial) boots from the network and takes the ignition in the ipxe secret. One without it boots from disk, which holds the image last provisioned. `HostUpdateStatusFromSystemInfo` takes the system-info patch, `ensurePowerState` and the target computation in one step, because the BMC calls touch only `machine`, which no other worker reads. The BMC here is synchronous: a power command takes effect in the step that sends it. `HostBMC` checks the delayed Reset separately. `HostInitialize` is `initializeHost` and `HostPatchStatus` is the state/phase patch. |
| `PXEReconciler` | One worker per PXE (named after its claim). There is one action per API call, except `PXEApply`. That step takes the secret apply and the status patch to Ready at once, in code order; no other worker reads the PXE state between them. |
| `Metal` | The claim and host controllers with the store, fairness, and the properties about binding and release. |
| `BareMetal` | `Metal` plus the PXE controller, and the properties about network boot and PXE cleanup. |
| `HostBinding` | The abstract specification of binding: what the claim controller promises with no caches, workers or patches. A host is owned by at most one claim, and only while it carries the claim finalizer. A live claim protects a free host, then binds it, then reports Bound. A deleted claim releases its host, unprotects it, and only then goes. Only a host that no claim owns may be unprotected, so every step keeps the owned-implies-protected part of `Consistent`. Release, unprotect and remove are weakly fair. `Metal` instantiates it (`AbstractBinding`) with `owner` = `host.claimRef`, `protected` = the host finalizer, `life` = the claim's life and `bound` = phase Bound. `BindingRefinement` is `AbstractBinding!Spec`, checked as a PROPERTY. |
| `NICMerge` | The by-ID list merge, written out three times in the code (NICs and processors in `updateHostStatusFromSystemInfo`, and the same loops in `RedfishBMC.GetSystemInfo`). `MergeEntry` is the loop body and `MergeByID` is the outer loop, RECURSIVE over the new list. (`RedfishLocalBMC.GetSystemInfo` is a fourth copy.) `MergeReference` is the merge stated declaratively: keep every entry in place, give an ID its last reported value, and append new IDs in first-seen order. |
| `HostBMC` | One host's pass against its BMC: the cached copy (`HostGet`), the client `createBMCClient` makes for `spec.bmc.type` (`BMCClientOK`), the system-info status patch (`HostPatchSystemInfo`: lists merged into the copy, and `powerState`), then `ensurePowerState` (`HostEnsurePowerState`). Any BMC call may fail (`HostBMCFail`). Both backends are modelled. `RedfishBMC` powers on and off by `ComputerSystem.Reset`, which the BMC accepts (`machine.pending`, a set, since nothing orders the requests) and carries out later (`BMCCarryOutReset`). `RedfishLocalBMC` PATCHes `PowerState`, applied at once. The hardware lists (`HardwareChange`) and `spec.power` (`DesiredPowerChange`, for the claim controller's power patch and `initializeHost`) change from outside. `SyncHost` is the watch and `Resync` is the informer's periodic resync. The state/phase steps of the pass are `HostReconciler`'s and write no field this module reads. |
| `MC*` | Initial states and constant values for TLC. |

Abstractions:
- Names, UUIDs, MACs, images and ignition bytes are left out. A claim's spec is the constant `ClaimSpec` (power, whether `ignitionRef` is set).
- The secret's value is the claim whose ignition it holds.
- PXESpec has no `FooUUID` field, yet `applyPXEConfiguration` sets `FooUUID` and never sets `SystemUUID`. So every PXE names the same secret, and `ipxeSecret` is that one secret.
- A step that changes no variable is not an action. Examples are an error that only retries, such as a NotFound patch, a missing secret or a conflicting claim. Such a step adds nothing to the behaviours or to fairness, so it appears as a guard.

## Runs

Passing runs (each property has a mutant of the code that TLC catches, see `PROJECT.json`):

| run | scenario | properties |
|---|---|---|
| `binding` (`MCOneClaim.cfg`) | 1 fresh host (either power), 1 claim without ignition, created and kept, 1 transient failure | `MetalTypeOK`, `ClaimEventuallyServed` (the host ends bound, powered as asked, and the machine follows), `HostStatusConverges`, `BindingRefinement` |
| `release` (`MCRelease.cfg`) | restart with the claim bound; the user may delete it; 1 failure | `BindingRefinement` (the release implements `HostBinding`, with its liveness: the host is released and unprotected and the claim goes), `HostStatusConverges` |
| `gated_boot` (`MCBoot.cfg`) | full operator, 1 settled host; either 1 claim with ignition about to be created, or a restart after that claim was deleted and its host released, its PXE (Ready, finalizer) and secret left for the garbage collector; no failures | `RunsOwnIgnition` (while a live claim with an ignition reports Bound and its machine is on, the machine was provisioned with that claim's ignition: a network boot through the armed one-time override after the claim's PXE wrote the secret), `PXECleanedUp` (an orphaned PXE goes and the secret is removed) |
| `takeover` (`MCTakeover.cfg`) | restart with c1 bound; c2 on the same host is created later | `BindingRefinement` (the refused c2 never changes the owner, the protection or the Bound report) |
| `host_bmc` (`MCHostBMC.cfg`) | 1 host, 2 IDs, 2 data values, 1 failed BMC call, two starts. Inventory start: a created host on a Redfish BMC whose machine is in the desired power; the NIC list starts with 0, 1 or 2 entries and may change once to any list. Power start: lists recorded and fixed, any desired and reported power, either backend; `spec.power` may change twice. | `MergeMatchesReference` (the merge loops equal the declarative merge on every report of up to 2 entries, duplicate IDs included, against every reachable status list), `StatusIDsUnique`, `InventoryRecorded` (once the hardware stops changing, the status eventually lists every reported entry), `PowerConverges` (once `spec.power` stops changing, the machine ends in it with no Reset outstanding, and `status.powerState` reports it) |

`gated_boot` keeps `MaxFailures = 0`. A failure between the PXE secret delete and the finalizer removal leaves a PXE that can never go, because the retry's delete of the missing secret fails with NotFound. That stuck state is the `pxe_leak` finding.

Violation runs (each a finding in `PROJECT.json`):

| run | what TLC shows |
|---|---|
| `delete_race` | A claim deleted before the cache shows its own bind sends an empty unbind patch and vanishes with `host.claimRef` still naming it. |
| `release_power` | A released host reaches Available with `spec.power` On. `initializeHost` ran on a copy that still had the claimRef, and the next pass skips it. |
| `double_bind` | Two claims created together both read the host as unclaimed. The second merge patch overwrites the first, and both report Bound. |
| `shared_secret` | With 2 hosts and 2 claims, a machine boots while the single `ipxe-` secret holds the other claim's ignition, and its claim reports Bound on a machine running the other claim's image (`RunsOwnIgnition`). |
| `pxe_hot_loop` | The claim and PXE controllers re-enqueue each other forever (Created ↔ Ready). In the same loop, each claim pass patches the PXE back to Created, so power-on can happen while the PXE is not Ready. A fair schedule can also have the gate read Created on every pass, so the claim is never powered on. |
| `pxe_leak` | A deleted claim without an ignition leaves its PXE stuck in deletion, because `r.Delete` of the never-written secret fails with NotFound forever. |
| `steal_release` (`MCSteal.cfg`) | c2 is refused because c1 holds the host, but it already has its finalizer. When c2 is deleted, its `delete` sets `spec.claimRef` to nil without checking that the claimRef names c2. It then taints the host and removes the host finalizer while c1 is live and Bound. `BindingRefinement` fails because the abstract `Release` requires the owner. |

Observed but not a run: after a hardware change, a host pass whose cached copy misses the last status write merges into an old list. The patch then sends a whole list without an entry already recorded, so a removed card's entry is dropped. Section 4.2 of the spec says stale entries are kept. The root cause is the same lost update as in `double_bind`: a merge patch of a list built from a stale copy. It is listed as a hazard.

## Bounds

- One host and one or two claims reach every branch of every handler. The passing runs together fire every action and every disjunct.
- The contention cases need two claims and are checked as safety properties only. The shared secret needs two hosts as well.
- `MaxFailures` (0 or 1) bounds transient API/BMC errors per behaviour. One failure is enough to interrupt a pass at any step, after which the retry starts again from the cache.
- Liveness runs start from states the manager can restart into (a bound claim, a deleted claim whose PXE remains). Starting there keeps each run within TLC's time budget. The binding run starts from fresh hosts.
- `host_bmc`: two IDs and two data values give the cases that matter to the merge: an updated entry, a new entry, an entry that disappears, reordered members, and a report with a repeated ID (in `MergeMatchesReference`). The processor list is fixed and the NIC list changes once; both go through the same merge operator. The two starts each vary one half of the pass and fix the other, so the state space is their sum rather than their product (16k states). Two changes of `spec.power` are enough for a graceful shutdown to be pending when the desired power turns On again.

## Fairness

Section 5 of the spec and controller-runtime run every object on its own worker, and every worker runs in parallel. So every worker's work (`ClaimWork`, `HostWork`, `PXEWork`) is weakly fair. So are the informer's deliveries and the garbage collector.

`HostBMC` also makes `Resync` weakly fair. The informer's resync period (the manager's `SyncPeriod`, which nothing in the repository sets, so controller-runtime's default applies) keeps re-delivering the host. That is the only thing that wakes the host controller after a change at the BMC. Without it, `PowerConverges` fails: a Redfish `Reset(On)` carried out after its pass leaves `status.powerState` Off for good. `BMCCarryOutReset` is weakly fair as well: the model assumes the BMC carries out a reset it accepted, including a graceful shutdown that the operating system honours.

Failures, user actions, hardware changes and `CollectDHCP` are not fair. Nothing waits on the DHCP object.

Runs set `CHECK_DEADLOCK FALSE` because the system really does stop once every queue is empty.

## Boot hazards found but not run

All run slots are in use, so two counterexamples to `RunsOwnIgnition` are listed as hazards and not as runs. Each was reproduced with `MCBoot` from a different start state.
- A new host: `status.state` is "" until its first pass, and `SetPXEBootOnce` is keyed to Initial. A claim that binds the host and patches `spec.power` On before that pass has its machine booted from disk (19 states).
- A released host: the claim controller binds any host with no `claimRef`, Tainted ones included. The next claim, bound before the Tainted to Initial pass, reports Bound on a machine still running the previous claim's image (13 states).

## Not modelled

- Host deletion: the code's `delete` is empty.
- The DHCP reconciler: it is empty.
- BMC sessions, logout and URLs. The system lookup by ID: the system is assumed to exist. `Reset()`, an empty stub in both backends. An unsupported BMC type or incomplete credentials is a guard (`BMCClientOK`): the pass fails every time, and the runs use a valid configuration. The spec's promise that such a permanent error is surfaced in status is listed as a hazard without a run.
- `RedfishLocalBMC.SetPXEBootOnce` is an empty stub. `HostReconciler`'s BMC arms the boot override as `RedfishBMC` does, so a local-backend host that never network-boots is listed as a hazard and not checked.
- The scalar hardware fields of the host status (manufacturer, model, health). No decision reads them.
- Generated deepcopy code.
- The liveness of a waiting second claim (two-claim liveness exceeds the time budget).
