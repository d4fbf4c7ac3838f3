# Verification of aXs

aXs (`src/ws1access/`) deploys Omnissa Access from an operator's machine: it
drives vCenter and one bootstrap node, runs Omnissa's own `wso` commands there,
and decides from live probes what is left to do. Almost everything that can go
wrong lies between its steps: a run is interrupted at any point, an ssh call is
not answered (executed or not), a forty-minute `wso` step survives the run that
started it, the operator edits `config.yml` and starts again. This directory
models that part of the program in TLA+, model-checks it with TLC and proves
its main invariants with TLAPS.

## 1. Inventory

| Part | Source | State it keeps | Operations | Interacts with |
|---|---|---|---|---|
| Plain engine | `cli.py` | `probes`, `done`, `stale` of one deploy | probe round, re-probe, run, confirming probe, exit | phases, run lock |
| TUI engine | `tui_deploy.py` | `done`, `unprobed`, `broken`, engine thread, UI widgets | lazy probe round, late probe, run, confirm, Retry, quit | phases, run lock |
| Phase table | `phases/__init__.py` | none | `dependents` | both engines |
| Run lock | `runlock.py` | a flocked file per local cluster folder | take, release, process exit | `cli.cmd_deploy` |
| Remote execution | `context.py` | detached processes, logs and files on the bootstrap | `bootstrap_run`, `start_detached(_once)`, `wait_while_running`, `_stop_stalled`, `write_file`, bundle staging | ssh, phases 40-80 |
| ssh transport | `ssh.py` | one pty dialogue | `run_with_key`, `run_with_password`, `scp` | context |
| Phase 00, 20, 30, 40 | `phases/` | none, polling deadlines, the asset directory | preflight list, wait for nodes, DNS through the bootstrap, unpack and `wso configure` | context, collect |
| Phase 10 | `phases/p10_vms.py`, `vcenter.py`, `ovftool.py` | the VMs, running `ovftool` children | power states, upload, exit hook | vCenter |
| Phase 50 | `phases/p50_cluster_init.py`, `profile_yml.py` | `cp-cluster.ini`, `profile.yml`, the marker | `wso access init`, inventory, drift check, patch, read back | marker, phase 60 |
| Pending rollout | `pending.py` | `.axs-profile-pending` | `mark`, `read`, `clear` | phases 50 and 60 |
| Phase 60 | `phases/p60_platform.py`, `health.py` | `wso cp deploy`, folder hashes, `cp-deploy.log` | start or re-attach, wait, judge by hash, confirm health, clear the marker | marker, context |
| Phase 70 | `phases/p70_services.py`, `access_profile.py` | `wso services deploy`, its log, Nomad | bootstrap, three attempts, stall kill, blockers | context |
| Phase 80 | `phases/p80_tenant.py` | `create-tenant.log`, the tenant | create once, two kinds of evidence | context, load balancer |
| Readings | `collect.py`, `health.py`, `nfscheck.py`, `netcheck.py`, `certs.py` | none | parse what nodes and tools print | phases |
| Configuration | `config.py`, `validate.py`, `configure.py`, `tui.py`, `cluster_ini.py` | `config.yml` | validate, render, write | everything |
| Certificates, dialog, texts | `certs.py`, `configure.py`, `tui.py`, `banner.py`, `runner.py` (not used) | files on the tool host | write, show | operator |

What makes each correct, and what is hard about it:

* **Engines.** A deploy that ends green left every phase complete, although the
  probes were taken at different times, a run may undo what was probed before
  it, probes may raise or say "open" because they could not ask, and a phase
  may raise after it changed the cluster. Running again must converge.
* **Phases 50 and 60.** A setting that was written to `profile.yml` but not
  deployed is announced by the marker at every moment, whatever aborts, goes
  unanswered or fails; a green run has applied what it loaded; nothing writes
  under a running deploy; there is one deploy.
* **Detached steps.** A step is started once; a call that was not answered is
  not a step that ended; the wait ends only on an answer.
* **Phase 10.** No VM is uploaded twice, a half-written one is not taken for
  complete, no `ovftool` outlives aXs.
* **Phase 70.** No attempt starts next to one that survived its kill, nothing
  it reads is rewritten meanwhile, and what a stuck deploy is blamed on is so.
* **Phase 80.** The phase is done with a tenant, whatever the load balancer
  shows, and a tenant is created once.
* **Run lock.** One deploy per cluster, across crashes and a TUI that is quit
  while its engine thread still runs.
* **write_file.** The file is the old one or the new one, over either login.
* **Password login.** A refusal is a refusal: output of the command that looks
  like a prompt, or a sentinel torn over two reads, is not one.
* **Phases 00 to 40.** A phase reads done only of a cluster that is so, on
  every node at one collection; what an aborted run left half does not count;
  the staging does not run into a step of wso's.
* **profile.yml.** A patch is found by the comparison that asked for it, once is
  enough, and what people wrote there stays.

## 2. What is modelled

### `Rollout` - how a setting reaches the platform

Phases 50 and 60 with the marker between them, step by step, against a
bootstrap and a platform that keep running. `pc` names the next remote call of
the run; each action is that call with everything the code does before the
next one.

| Model | Code |
|---|---|
| `config`, `settings` | `config.yml`, and `ctx.deployment_settings` as this run loaded it |
| `pc`, `ran`, `warned`, `apply`, `before` | where the run is; whether the probe is the confirming one; `Probe.warning`; `apply_now`; the baseline hash count |
| `ini`, `profile`, `garbled` | `cp-cluster.ini` and `profile.yml` on the bootstrap |
| `marked`, `markKeys` | `.axs-profile-pending` |
| `proc`, `doubled`, `logs`, `snap`, `hashes`, `segment` | the detached `wso cp deploy`, its logs, and the `profile.yml` it read |
| `other` | any other step `WSO_BUSY` matches |
| `rolled`, `health` | what the platform runs with, and what `wso healthcheck` says |
| `Probe50*`, `Run50*` | `p50_cluster_init.is_done`, `_drift_check`, `run`, `_apply_profile` |
| `Probe60*`, `Run60*` | `p60_platform.is_done`, `run`, `_confirm_health`; `start_detached_once`, `probe_alive`, `wait_while_running` |
| `Cp*` | `wso cp deploy` itself, from what `p60_platform` relies on (external) |
| `Abort`, `EditConfig`, `EditProfile`, `StartByHand`, `OtherStarts`, `CpDies`, `Degrade` | the operator and the machines (external) |

`Faulty` names the calls that may go unanswered. `Silent(call)` is a disjunct of
the step that makes it: the call did not run, or ran and the answer was lost,
and the code's own reading of silence decides what follows. Three calls read
silence as an answer (`busy`, `hash_count`, `last_hash`), and one is repeated
over the password login although it may have run (`start`); what that does is
what section 5 shows.

Data: a setting is a value per key. `Scalars` are the keys a re-run can apply,
`Logging` those that need a redeployment, and the `profile_yml` functions are
operators on such maps. The line editing of the YAML file is not in this module.

Abstractions. Checks that only report (`wso cp precheck`, deploy warnings, the
NFS mount check, the reading of the marker at the start of phase 60) are left
out; so are the SSH trust steps before the inventory is written, which leave it
as it was. Hand edits of `profile.yml` break or repair it and happen between
runs; they do not change values. A command that lands on the bootstrap after
the client gave up on it lands at the moment of giving up. Two deploys that run
at once do their work one after the other. `wso cp deploy` is started by hand
only between runs. Six hours of waiting and too long a silence both end the
wait as `Silent("wait")`. A second aXs run at the same time is the run lock's
subject, not this module's.

### `Phases`, `Deploy`, `Walk`, `PlainEngine`, `TuiEngine`

`Phases` is the contract both engines rely on: the table, `DEPS`, the transitive
dependents, what a probe may answer and what a run may leave behind. A run of a
phase may undo, of other phases, only ones that depend on it. `Deploy` is the
promise of both front ends in six lines of state machine: a phase runs only on
complete dependencies, and green means complete. `Walk` has what the two loops
share: the phases one after the other, what a missing dependency is, and what a
run may leave. `PlainEngine` (`cli.py` `_deploy_locked`) and `TuiEngine`
(`tui_deploy.py` `_engine`) extend it, and are each shown to implement `Deploy`.
What both engines have, `PlainEngine` names with the prefix `Plain`, so that
one module can prove about the two.

| Model | Code |
|---|---|
| `live` | what the live system would answer; the engines never see it |
| `done`, `stale` | the plain engine's sets of the same names |
| `done`, `unprobed`, `broken` | the TUI engine's |
| `only`, `force` | `--phase`, `--force` |
| `PlainProbeRound`, `Recheck`, `PlainSkip`, `Waits`, `PlainBegin`, `PlainRunEnds`, `PlainConfirm` | the loops of `_deploy_locked` |
| `Postpone`, `ProbeRound`, `LateProbe`, `BrokenProbe`, `Begin`, `RunEnds`, `Confirm` | the loops of `_engine` |
| `PlainRestart`, `Restart` | another `axs deploy`, or Retry |

The plain engine asks every phase first and again wherever a run made an answer
stale; the TUI asks a phase only when what it needs is complete and never again.
That both arrive at the same promise is the point of the two refinements; the
branch of the TUI that reports missing dependencies in its run loop is left out
because `TurnsFindDepsDone` shows that it cannot be reached.

### `Step`, `DetachedStep` - starting, waiting for and stopping a long step

`Step` is what `context.py` promises to phases 60, 70 and 80: a step is started
only while it is not at work, one that is at work is joined, and a wait that
returns has found it gone; a call that raises says nothing of the step.
`DetachedStep` is how that is kept, poll by poll.

| Model | Code |
|---|---|
| `step` | per slot the CLI wrapper, its worker, or both (`_WRAPPER`, `_WORKER` of phase 70) |
| `wedged`, `other` | a process in uninterruptible I/O; another step `WSO_BUSY` matches |
| `grown`, `quiet` | whether the tail differs from the one read last; since how many polls it has not grown (history, for the property) |
| `waited`, `lastChange`, `unreachable` | the counters of `wait_while_running`, in polls |
| `tries`, `answered` | those of `_stop_stalled` |
| `CheckAlive`, `CheckBusy`, `Start` | `start_detached_once`, `probe_alive`, `start_detached` through `node_run` |
| `Poll*` | the branches of the loop of `wait_while_running`, with the sleep after it |
| `StopTerm`, `StopKill`, `Look` | `_stop_stalled` |
| `Spawn`, `StepEnds`, `LogGrows`, `Wedge`, `Reboot`, `OtherComesAndGoes` | the bootstrap (external) |

`Services` and `Tenant` use `Step` in place of its implementation: their steps
are the actions of `Step` conjoined with what the phase does.

### `Services` - phase 70

Probe, resume or rewrite, up to three attempts, each judged by
`check-service-readiness` and `healthcheck` (two calls, with the cluster moving
between them), the settle window, and the verdict.

| Model | Code |
|---|---|
| `svc` | what Nomad runs; readiness lists `Core` and `Advisory`, healthcheck sees `Infra` |
| `reached` | the last "Deploying service" of the newest segment of `services-deploy.log` |
| `asking` | which of the five places asks `_acceptance` |
| `seen`, `prev`, `last`, `suspect` | `blockers`, `prev_blockers`, `last`, `suspect` |
| `ended` | how many deploys have ended in this run (history) |

The certificates and `access-profile.yml` are one write. The operator's own
`wso services deploy -s x` is `other`: that its worker may match `_WORKER` is
left open by the code's own comment, and by the model. A services deploy of
ours started by hand with `--type full` is not modelled.

### `Tenant` - phase 80

`create-tenant` may end at any point: before it created, between creating and
saying so, or after. The login page answers 200 for a tenant that is served and
for a maintenance page; the bootstrap may not reach it at all. The onboarding
text is left out.

### `Session`, `VmDeploy` - the lock, the front ends and phase 10

`Session` is what a process of `axs deploy` is, whatever its engine does: the
lock (`runlock.py`), the plain and the TUI front end, the button whose presses
are queued, the engine threads, the exit handlers and SIGKILL. `VmDeploy`
extends it with phase 10, because what matters there is which engine, hook or
operator touches which upload.

| Model | Code |
|---|---|
| `lock`, `front`, `button`, `pressed`, `alive` | the flocked file; where each process is; Start or Retry on the screen and its presses in the message queue; the engines at work |
| `Launch`, `Press`, `Handle`, `Ends`, `Quit`, `Hook`, `Exit`, `Kill` | `ClusterLock.acquire` and `release`, `on_button_pressed`, `_start_engine`, `_outcome`, `App.exit`, `atexit`, the kernel |
| `folder` | how `vcenter.folder` is given (not at all, by its name, by an inventory path) and how many VM folders bear that name |
| `vm`, `Elsewhere` | per node nothing, a half-written VM, one that is off or on, in the folder of the configuration; and the VM of its name in another folder |
| `Reported`, `Listing` | `power_states`: limited to the folder or not, and what it says of several VMs of one name |
| `named`, `wanted` | the node, and the folder, that a run asked the operator to see to |
| `pc`, `at`, `seen` | the loop of `run` and its `already`, listed once before the first node |
| `tool`, `orphans` | the `ovftool` of each engine, and those whose process is gone, with why they are left |
| `Spawn`, `Register`, `Read` | `_run_ovftool`: `Popen`, `_CHILDREN.add`, the reading and the `finally` |
| `looked`, `owed`, `HookLooks`, `HookStops` | `_terminate_children`: the snapshot, and the stops one after the other |
| `Interrupt` | Ctrl-C on the plain path, wherever the engine is |
| `EnsureFolder`, `RefuseFolder`, `RefuseAmbiguous` | `_ensure_folder` and the errors of `power_states` |
| `ToolAdvances`, `ToolDies`, `Repair`, `MendFolder`, `NewFolder`, `PowerOff` | `ovftool`, vCenter and the operators there (external) |

A process that finds the lock taken ends at once and is not seen. The exit
handlers run beside engine threads, as daemon threads go on until the
interpreter ends. An upload that is stopped by SIGTERM is removed by vCenter,
one that is killed leaves half a VM. That `_stop` gives up waiting for an
`ovftool` that survives SIGKILL is left out.

The folder decides what phase 10 can see. Without `vcenter.folder` the listing
is of the whole datacenter; with it, it is limited by the parameter `folders=`,
and that vCenter honours this is what `vcenter.py:85-93` itself calls an
unverified assumption. It is the constant `Filters` here: what rests on it says
so (`Scoped`). A listing that is no list reads as an empty one in `run`, and as
open in the probe; both cost a trouble.

### `Login`, `RemoteFile`, `AtomicFile` - one command, one file

`Login` is `ssh.py`: a command over the key, or over the password typed into
ssh's prompt, with every read of the pty taking any number of pieces.
`RemoteFile` puts `node_run` and `write_file` on it, with the shells these
start on the bootstrap, the temp file they share, and connections that drop
anywhere. `AtomicFile` is what callers believe they have, and `IsAtomic` is
that `RemoteFile` implements it.

| Model | Code |
|---|---|
| `call`, `ssh`, `answer` | the call in progress, its local ssh, the `SshResult` |
| `tty`, `tail`, `authed`, `typed`, `late` | the pty; the carried-over end of what was read; `authed`, `sends`, the end of `auth_window` |
| `ReadPty`, `SentinelSeen` | the loop of `run_with_password`, `_sentinel_seen` |
| `dest`, `tmp`, `body` | the file, `<file>.axs-tmp`, and the inodes they name, block by block |
| `shell` | each remote shell: `sh -c` of the stdin transport (`cat`, size check, `mv`, trap) or of the argv transport, or `cat` of a read |
| `BeginWrite`, `ToArgv`, `FallBack`, `Return`, `Raise` | `write_file`, `_write_via_stdin`, `node_run` |
| `Checks`, `Moves`, `Cleans` | the size check, `mv`, `trap ... EXIT` |

A block is of some content, or a hole that a second writer left. A content that
has a line like a password prompt (`profile.yml` does) is in `HasKey`. The
sentinel is one piece or two halves; longer tearing behaves as two.

### `Prepare` - phases 00, 20, 30 and 40

What one deploy asks and does before the cluster exists. `pc` is the next
remote call; a collection (phase 20) is a loop over the nodes; phase 40 is
`stage_bundle`, the checks and `wso configure`.

| Model | Code |
|---|---|
| `here`, `answers`, `reports`, `record` | the preflight checks; per node whether ssh answers and what it reports next to `config.yml`; what the bootstrap resolves |
| `silent`, `faulty`, `at`, `polls` | the two maps of `_states` and the loops around them |
| `home`, `assets`, `others`, `dfReads` | the bundle in the staging directory, what is in `<cluster>/assets`, the rest of the disk, whether `df` can be read |
| `wso`, `images`, `loads`, `busy` | the CLI, the images loaded, `wso configure`s whose caller is gone, a step of `WSO_BUSY` |
| `blind`, `mine` | the busy check went unanswered (history); the `wso configure` the run waits for |
| `Preflight`, `CollectNode`, `Ask20` to `Confirm20`, `Look30`, `Ask40` to `Confirm40` | the probes and runs, call by call |
| `GiveUp40`, `Again40` | `run_timeout`, and `node_run`'s second login |

Every call but those to the operator's own machine may go unanswered, run or
not. The disk is counted in blocks: the bundle takes two, what it unpacks to
one. The staging and the cluster directory are looked at in two calls (`Df`),
and are on one disk here; that the image load takes space of its own is left
out, as the code only warns about it. The texts, the expiry warning and the advisory look of phase 30 from the
operator's machine change nothing and are left out.

### `Settings` - `profile.yml` as lines

A file is a sequence of lines of nine kinds (`sample` is a key commented out,
`live` a key that is set, `inner` one below somebody's key, `mark` the comment
above the logging block, ...); a section `logging:` is one line. `Patch` is
`patch` with `_set_scalar` and `_drop_block` as they edit lines; `Wanted`,
`Found` and `ActionableKeys` are the comparison; `Accepts` is the
validation of the settings. How a value is written and compared is `Plain`: the
comparison takes a number for what it says ("04" is 4), the writing does so for
the NFS version only. Left out are the quoting of values, values on which
`_scalar`'s `int` raises ("--4", "²"), the form of `bridge_network_subnet`, and
the passwords phase 50 also writes. People may add lines anywhere, between a
key and what is indented below it as well, and move the mark up anywhere.
`Rollout` takes the same functions as maps of keys; that this is fair is what
`Settles` shows. Lines are taken from a file by their places (`Picked`, for what
the code does in a loop with `append` or a comprehension), which is what makes
the patch a thing one can prove about.

## 3. Runs

| Run | Question | Bounds |
|---|---|---|
| `rollout` | `RolloutNotForgotten`, `GreenMeansApplied`, `GreenMeansDeployed` under aborts, edits, reboots and lost writes, markers, launches, waits, logs and clearings; `RolloutHappens` | 2 configurations over 2 scalars and 1 logging key, 1 hash before calm |
| `rollout_by_hand` | `NoWriteUnderDeploy`, `NoSecondDeploy` with deploys by hand as well, and all silence the code does not mistake | 2 configurations, 2 hashes |
| `plain_engine`, `tui_engine` | the engines' invariants, `PlainKeepsPromise` and `KeepsPromise`, `PlainConverges` and `Converges` | 5 phases |
| `detached_step` | `OneStep`, `StopsOnlyTheQuiet`, `KeepsPromise`, `CallEnds` with every call unanswered at times but the launch | silence limit 2, stall window 3, timeout 6 polls |
| `services` | `RewritesAlone`, `StuckAfterTwoDeploys`, `Recovers` with every call unanswered at times | 2 core services, 1 infrastructure service, 3 attempts |
| `tenant` | `GreenMeansTenant`, `CreatedIsNotRerun`, `TenantComes` with every call unanswered at times but the look into the log | one tenant |
| `vm_deploy` | `OneDeploy`, `UploadsAreStopped`, `GreenMeansUp`, `AllVmsUp` with quits, interrupts, kills, failed uploads, VMs shut down and folders of the same name | 2 processes, one of which is quit at work, 2 nodes, 1 of them with a namesake elsewhere, no folder, one by name or one by path, 2 troubles |
| `remote_file` | `IsAtomic`, `DeniedIsDenied`, `OperationEnds` with drops, dead shells, full disks, refused logins | contents of 1 and 2 blocks, 3 unread pieces, 1 remote shell |
| `prepare` | `GreenMeansPrepared`, `NoSecondWriter`, `Prepared` with drops, lost answers, a full disk, aborts | 2 nodes, 2 polls, a disk of 4 blocks, 2 loads left behind, 3 troubles |
| `settings` | `Settles`, `OthersKept` over every edit and patch, the mark moved anywhere | 4 configurations, 4 scalars, 3 values, 2 edits |
| `rollout_hash_count` | the finding of section 5: TLC must find `RolloutNotForgotten` violated | 3 configurations, 2 hashes, only the count unanswered |

**Bounds.** The configurations of `Rollout` contain what the code
distinguishes: a changed value, an added key, a dropped key, a key a re-run
cannot apply, and nothing configured. Two keys are enough for a marker that
names some of what is owed and not all. Two hashes allow a first deploy, a
second with other settings, and a third that fails or finds nothing to do; every
way a count can be equal, higher or read as zero occurs. Five phases with the
shape of the real table (a chain, a fork, a transitive dependent) let a run undo
a direct and an indirect dependent while a phase beside them is untouched. The
limits of `detached_step` keep the order of the code's (silence is given up on
before a stall, a stall long before the timeout), so each of the three can end
a wait with the others half way. The launch is left answered there because
section 5 shows its loss. In `services`, two core services make blockers that
differ, repeat or shrink between attempts; three attempts are the code's. In
`vm_deploy`, two processes meet at the lock and over one folder, and two nodes
leave one done and one half; two troubles are, for instance, a kill that leaves
an orphan behind and a quit while the next process meets what it wrote; or a
second folder of the name between two looks of a run.
`remote_file` needs a content of two blocks to be torn and one of another
length to be mistaken for it, and three pieces for a prompt, and the two halves
of a sentinel, unread at once. In `prepare`, the disk holds one bundle unpacked
and one more block: it is enough, too small for the upload, or too small only
for the unpacking, depending on what else takes space. Each setting of
`settings` is set, changed and dropped, alone and with others; two edits make a
line that is there twice, a mark that was moved or reworded, a file that cannot
be read, and a key with indented lines and a mark moved between the two: a run
that nothing else calls for is taken once after every edit.

**Fairness.** `Rollout`: `WF(Run)` - the operator runs aXs again until it is
green and a run goes on while it has a call to make; `WF(CpDeploy)` - the
detached process is scheduled; `WF(OtherEnds)` - another step ends;
`WF(Heal)` - a deployed platform comes back (Vault is only unsealed by phase
60). `DetachedStep`: `WF` of the call's own steps only - every remote call
comes back, because `run_with_key` has a time limit; nothing is assumed of the
step. `Services`, `Tenant`: `WF(Run)` as above, the deploy gets to every service
and ends, what was deployed settles, `create-tenant` does its work and the load
balancer comes to serve the cluster. Engines: `WF(Engine)` - the loop goes on,
and the operator runs it again. `VmDeploy`: the engine and its tool go on, the
message pump and the exit handlers run, the operator starts aXs, presses the
button a failed run leaves, ends a TUI with nothing left to press, and repairs
the VM or the folder that a run names. `RemoteFile`: the tool host runs and its clocks go off (every
ssh call has a time limit); a remote shell goes on or dies. `Prepare`: the
operator runs the deploy again and does what it asks for, nodes come up, what
runs on the bootstrap ends; `SF` only for freeing the disk, which is done
between two runs. `Settings` needs none. Nothing is assumed of failures, edits
or aborts: they stop being possible only at the bounds above or in `calm`,
which is never assumed to come (the liveness properties start from it).

## 4. Proofs

For every value of the constants, from the named assumption of each module:

* `RolloutProofs`: `TypeCorrect`; `NoRolloutForgotten` and `GreenIsApplied`,
  assuming that the busy check and the hash count are answered and nobody
  deploys by hand; `WritesKeepClear`, assuming that the busy check is answered;
  `OneDeployAtATime`, assuming that the launch is answered; `GreenIsDeployed`,
  assuming that the last-hash question is. Each of these assumptions is
  needed: section 5 gives, for each, what TLC finds without it.
* `EngineProofs`: both engines, for every phase table. Of each: types, its
  safety invariants, and that it implements `Deploy` (`PlainKeepsPromise`,
  `KeepsPromise`). `BrokenProbesStop` is `NoRunOnBrokenProbe`. `GreenIsLive`,
  `RunsOnCompletedOnly` and `NothingMissingAtItsTurn` are proved here and need
  no run of their own; the last one is why the branch of the TUI that reports
  missing dependencies is not modelled.
* `BootstrapProofs`, `DetachedStep`: types, for every limit, stall window and
  timeout; `StepIsAsPromised`, the refinement of `Step`, and `QuietIsStopped`,
  whatever goes unanswered; `NeverTwoSteps`, assuming that the launch is
  answered. The argument is `StartsAlone` (from the answer "dead" to the launch
  nothing is at work, because nothing but a launch puts something to work) and
  `CountsTheQuiet` (the time since the last change never exceeds the quiet).
* `BootstrapProofs`, `Settings`: `PatchesKeepTheRest` and `PatchesSettle`, for
  files of any length, any keys, values and configurations and any number of
  edits. See below.
* `ServicesProofs`: types; `WritesAlone` and `StuckIsEarned`, for every set of
  services, number of attempts and set of unanswered calls. `EndedKeepsUp` says
  that the deploys that ended are one behind the attempts while a step may be
  at work and level with them when it is judged; that rests on `Step` returning
  only from a step that is gone.
* `TenantProofs`: types; `GreenIsTenant`, whatever goes unanswered;
  `CreatedOnce`, assuming that the look into the log is answered.
* `PrepareProofs`: types, for every number of nodes, polls and blocks;
  `GreenIsPrepared` and `StagesAlone`. The first rests on `Passed`: of the nodes
  a collection has been at, each is silent, counted or right. That is why both
  sets have to be empty, and why a node that drops after it was collected does
  no harm.
* `VmDeployProofs`: types; `OneDeployPerCluster`, `UploadsStopped` and
  `GreenIsUp`, for every number of processes, engine slots and nodes and
  whichever way the folder is given; `GreenIsBuilt`, the same without the
  exception for namesakes, assuming that the configuration has a folder and
  that vCenter honours the filter. See below.
* `RemoteFileProofs`: types and `DeniedMeansRefused`, lingering shells
  included; `FileIsAtomic`, the refinement of `AtomicFile`, assuming that no
  shell outlives its call (section 5 has what happens when one does). See below.

`RolloutNotForgotten` is not inductive: that the marker may be cleared at
`60.clear` rests on why phase 60 accepted the deploy, and that on what happened
since it counted the hashes. `IInv` therefore says, beside the types:

* `IniFirst`: before there is an inventory, nothing was deployed;
* `NoDeployUnderWrite`: from phase 50's busy check to its end no deploy runs;
* `SnapIsCurrent`: what a running deploy read is what `profile.yml` says;
* `SegmentIsItsOwn`: while phase 60 waits, the newest log segment belongs to
  the deploy it waits for;
* `NoChangesMeansRolled`: a segment that says "no changes" stands for a
  platform that runs with this `profile.yml`;
* `NewHashMeansRolled`: a hash more than the baseline does too;
* `AcceptedMeansRolled`: from the acceptance to the clearing, nothing is owed;
* `PatchIsAnnounced`: a patch about to be written is announced by the marker.

`UploadsAreStopped` speaks of what is left when a process has gone, and says
nothing of the time before, where it is decided. Its strengthening follows an `ovftool` through
the life of its process:

* `LockIsHeld`, `EnginesAreIn`, `Single`: who shows a board holds the lock, an
  engine at work is in a process, and without a second press a button is not
  there beside an engine;
* `ToolHasEngine`: an `ovftool` belongs to an engine at work that has started
  it and has not read its end;
* `HookOrder`: the exit hook looks before it stops, and stops what it saw;
* `HookSees`: what it saw at a node is read by the engine of that node, or the
  engine is past it;
* `HookOwes`: what it saw and has not stopped is still owed when the process
  leaves.

`GreenMeansUp` is a property of the one step that ends an engine; `UpIfGreen`
goes through the actions for it: only a look that finds every node on (the
probe's, or the one that confirms) ends an engine green. What such a look says
of a node is of that node if the list is limited to the folder, which is all
`GreenIsBuilt` adds.

`DeniedIsDenied` needs to know why the second prompt is one. `SentinelFirst`
says that after a password that is right, and before the sentinel was seen, the
sentinel is the next thing to be read, whole or in halves, with the half that
was carried over counted; so no read answers a prompt of the command's output.
`DialogueShape` and `PtyFits` are what keeps it inductive: before the password
the pty holds the one prompt.

`IsAtomic` rests on `OneShell` (a call's shell is gone before the next one's
begins), `TempFile` (the temp file is a prefix of the content, as long as the
shell got, and the whole of it when it is moved), `Whole` (it is never the
inode of the file), `Runs` (what runs is what the operation asked for) and
`Landed` (a status 0 is one of a content that is in the file). A cut connection
ends `cat` well in the middle of a content; it is the size check, through
`TempFile`, that keeps that part from being moved.

`Settles` and `OthersKept` are about whole files, and both rest on one lemma
about `Picked`: a map from the places of one file to those of another that
keeps their order and leaves none out picks the same lines (`Carried`). With it
each edit of the patch needs only a map of places, and no induction over lines:
the identity for a line replaced or a prefix taken, the rank for lines taken
out, a shift for a block put below. `_set_scalar` is `ButFor` its key (it
leaves the lines of other kinds, what other keys say, and what is indented) and
sets it (`SetFor`: the first line of the key says so, and no other one counts).
The loop over the keys is the one induction, by the least round that fails
(`ScalarsSet`); a file on which all keys are set is its own patch
(`ScalarsSetAgain`). Dropping the block loses no key of others because it is
not done while one is below the mark, and no indented lines because, unless the
mark is `Torn` in between, whatever is indented below the mark has a key there
too. That another patch changes nothing needs `NoMarkLeft`: unless a key was
below the mark, the new block's is the only one. No assumption is made on where
people put lines or the mark, so the invariant is the typing of the file.

Every conjunct of these was an invariant of a TLC run before it was proved.
What the runs check of safety is all proved as well.

Model-checked only: liveness (`RolloutHappens`, `Converges`, `PlainConverges`,
`CallEnds`, `Recovers`, `TenantComes`, `AllVmsUp`, `OperationEnds`, `Prepared`:
fairness and `ENABLED` are beyond TLAPS), and the violation run.

## 5. Findings

Where the code does other than its comments, tests or documents say. One has a
run of its own, `rollout_hash_count`: `p60_platform.py:56` returns zero for a
hash count that was not answered, so a deploy that failed is accepted on an old
hash and its rollout forgotten, where `:12-13` says "require a NEW hash after
it".

The next ones have a `.cfg` each (`tlc -config X.cfg M`, with `M` the module
that `X` begins with), under which TLC finds the property violated.

| Where | What happens | What the repository says | To see it |
|---|---|---|---|
| `p60_platform.py:61` | ssh's error text counts as a folder hash | `:15` "Done-probe: ... is green AND a folder hash exists" | `MCRolloutLastHash.cfg`: `GreenMeansDeployed` |
| `p50_cluster_init.py:172` | an unanswered busy check reads as "not busy", and `profile.yml` is rewritten under a running deploy | `:167-171` "two writers on one cluster ... a single failed SSH probe is enough" | `MCRolloutUnanswered.cfg`: `NoWriteUnderDeploy` |
| `context.py:326` | a launch whose answer was lost is sent again over the password login, and two deploys run | `:689-692` "instead of launching a second, conflicting one" | `MCRolloutLaunchTwice.cfg`: `NoSecondDeploy` |
| `p40_bootstrap.py:56` | an unanswered busy check lets phase 40 stage its bundle beside another step | `:51-55`, as in phase 50 | `MCPrepareUnanswered.cfg`: `NoWriteBesideAnother` |
| `p80_tenant.py:111` | an unanswered look into the log starts `create-tenant` again for a tenant that exists | `:129-131` "would re-run `wso access create-tenant` against it, and what that does is unmeasured" | `MCTenantUnread.cfg`: `CreatedIsNotRerun` |
| `p10_vms.py:240`, `vcenter.py:111` | without a folder in the configuration, a running VM of the node's name anywhere in the datacenter makes phase 10 done | `p10_vms.py:8` "every configured VM exists and is POWERED_ON" | `MCVmDeployNoFolder.cfg`: `GreenMeansBuilt` |
| `vcenter.py:131` | should vCenter ignore `folders=`, which `:85-93` says nobody measured, a namesake in another folder passes for the node though a folder is configured | the same | that `.cfg` with `Folders = {"name"}`, `Filters = FALSE` |
| `p10_vms.py:265` | a folder given as an inventory path is never found, and asked for again and again | `ovftool.py:103` "name or inventory path"; `config.example.yml:59-60` gives one | `MCVmDeployPath.cfg`: `FolderIsAskedForOnce` |
| `cli.py:146` | the TUI, quit, releases the lock while its engine thread goes on until the interpreter ends; the next process deploys beside it | `runlock.py:1` "One deploy per cluster at a time", `cli.py:135` "Held for the whole run" | `MCVmDeployQuit.cfg`: `OneEngine` |
| `p10_vms.py:189` | an `ovftool` that is started and not yet registered is missed by the exit hook and goes on | `:187` "registered while it runs so the exit handler can reach it" | `MCVmDeployUnregistered.cfg`: `NoneIsMissed` |
| `profile_yml.py:298` | with the mark moved between somebody's key and its indented lines, the patch cuts those lines | `:277` "Remove a previously written aXs block, and nothing else" | `MCSettingsTorn.cfg`: `IndentedKept` |

The others are seen with the same modules when constants or the property of a
`.cfg` are changed; the property named is in the module.

| Where | What happens | To see it |
|---|---|---|
| `pending.py:86` | a second run of phase 50 replaces the keys the marker names while the first ones are still owed | `MCRolloutHashCount` with `Faulty = {}`: `MarkerNamesWhatIsOwed` |
| `p60_platform.py:209` | a deploy started by hand is judged by the log segment of an earlier run | `MCRolloutHashCount` with `Faulty = {}`, `ByHand = TRUE`: `RolloutNotForgotten` |
| `context.py:807` | a step that died is called wedged in the kernel, on one answer after SIGTERM and none after SIGKILL | `MCDetachedStep`: `SaidWedgedIsTrue` |
| `tui_deploy.py:746` | "Nothing was changed" is shown after phases of the same deploy ran | `MCTuiEngine`: `SaidUnchangedIsTrue` |
| `p70_services.py:348` | a deploy that walks its whole list twice has its last, READY service accused | `MCServices` with `Faulty = {}`: `AccusedIsNotReady` |
| `p70_services.py:358` | services that were never deployed are said to have deployed without becoming READY | `MCServices` with `Faulty = {}`: `SaidDeployedIsTrue` |
| `health.py:148` | an advisory service that is not READY keeps phase 70 from being accepted | `MCServices` with `Core = {"launcher"}`, `Advisory = {"logging"}`, `Infra = {}`, `Faulty = {}`: `AdvisoryIsTolerated` |
| `tui_deploy.py:402` | a button pressed twice before it is hidden starts two engines in one process | `MCVmDeploy` with `Habits = [p \in Processes \|-> {"press_twice"}]` in `MCHabits`, `Slots = {1, 2}`, `Presses = 2`: invariant `OneEngine` |
| `context.py:498` | a write whose connection dropped still goes on in its shell; the next write shares its temp file, and what lands may be of both | `MCRemoteFile` with `Shells = 2`, `Lingers = TRUE`: `IsAtomic` |
| `ssh.py:136`, `p40_bootstrap.py:56` | `wso configure`, cut off by its time limit or a drop, is sent again over the password login beside the first; neither is in `WSO_BUSY` | `MCPrepare`: `OneConfigure` |
| `profile_yml.py:277` | comments that people wrote below the mark go with the block | `MCSettings`: `CommentsKept` |
| `validate.py:206` | a host of white space passes for one and is then written as none, so the backup has a path and no host | `MCSettings` with `Configs <- MCBlank`: invariant `NfsIsWhole` |

Open in the code, though no document promises otherwise: a `create-tenant` left
by an aborted run that succeeds between the look into the log and the liveness
check of the next run is started again (`Tenant` has this); and a wso step that
somebody starts by hand between a run's busy check and its write or launch is
not seen (the models start such steps between two runs only).

A comment that is out of date: `p40_bootstrap.py:30-33` says that the probe
cannot tell a half-finished image load from a complete one. Since it counts two
image versions (`:41-45`) it can, and `GreenMeansPrepared` and `Prepared` hold
with `wso configure` interrupted anywhere.

## 6. Plan

1. *Done*: every module of section 2, and the proofs of section 4.
2. The busy guards of phases 40, 50, 60, 70 and 80 together, over one
   bootstrap: today each module has the steps of the others as one `other` or
   `busy`.
3. Pure operators against reference definitions: the finding of JSON in the
   output of `wso healthcheck` (`health.py`), the matching of names to a
   certificate (`certs.py`), the expiry of a password, the frontier loop of
   `dependents` against the closure in `Phases`.
4. The order of mount, write, unmount in `nfscheck.py`.

Theorems after those: for `RemoteFile`, what still holds of the file when a
shell outlives its call.

## 7. Not modelled

The configure dialog and the rendering of files and texts (sequential code that
changes `config.yml` only), `ovftool`'s command line, certificates (calls to
openssl), the banner, and `runner.py`, which nothing uses. Parsing of what nodes
print is modelled where a decision hangs on it. `PROJECT.json` lists every
component with its status.
