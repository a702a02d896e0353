# targetd in TLA+

targetd turns a Linux machine into a storage appliance that is configured over
JSON-RPC: volumes on LVM or ZFS exported over iSCSI through the kernel target,
file systems on Btrfs or ZFS exported over NFS. This directory holds TLA+ models
of its components, TLC configurations that check them on small instances, and
proofs that TLAPS checks for every instance. Line numbers refer to the sources
in `src/`.

## 1. The system

### Components, their state and their operations

| component | source | state | operations |
|---|---|---|---|
| RPC server | `targetd/main.py`, `Tar`/`Pit` in `utils.py` | `RUN`, the mutex, `tar.client`, one handler thread per connection | accept, `do_POST`, SIGINT |
| block API | `targetd/block.py` | none between calls: it lives in the pool, in the kernel target and in the saved target configuration | `vol_*`, `export_*`, `initiator_*`, `access_group_*` |
| kernel target | outside (`rtslib_fb`) | target, portal group, storage objects, LUNs, NodeACLs with tags and CHAP credentials, mapped LUNs; the saved configuration file | object constructors and `delete`, `save_to_file`, the boot's restore |
| LVM backend | `backends/lvm.py` | logical volumes, `vg_name_2_pool_name_dict` | create, destroy, copy, resize, list |
| ZFS backend | `backends/zfs.py` | datasets, snapshots, clones, `zfs_enable_copy` | the volume calls and the `fs_*` calls |
| Btrfs backend | `backends/btrfs.py` | subvolumes, snapshots, quota groups | the `fs_*` calls |
| file system API | `targetd/fs.py` | none: looks file systems and snapshots up by uuid | `fs_*`, `ss_list`, `nfs_export_*` |
| NFS exports | `targetd/nfs.py` | kernel export table, `targetd.exports`, `/etc/exports` | add, remove, list, save |
| mount table | `targetd/mount.py` | none: reads `/proc/mounts` at start-up | find |
| configuration | `load_config`, `update_mapping` in `main.py` | `config`, `mapping` | once, before the first request |
| client | `client` | none | command line |

The main thread accepts connections and starts a handler thread for each. The
handlers authenticate and parse concurrently, and take the mutex around the call
of a method; so the API modules run one call at a time. With `ssl` the main
thread also makes the TLS handshake of each connection. Block calls go to a pool
backend and to the kernel target, and change the two in several steps with
errors in between; file system calls go to a pool backend or to `exportfs`.
Nothing is transactional: what a failing call did before it failed stays, and
what was not saved is gone at the next reboot.

### What is hard about it

- **Concurrency.** Handler threads share the mutex and the tarpit. Every way out
  of a call must release the mutex, and the tarpit is entered, tested and left
  in three separate critical sections. A client can stall its thread, or in its
  TLS handshake the main one.
- **Partial failure.** `export_create` and `access_group_map_create` build the
  tree top down and can fail at the bottom; `initiator_set_auth` makes four
  writes, a group's mapping one per member. A ZFS copy is three commands, and a
  recursive destroy that fails has destroyed some snapshots. A look-up that
  fails reads as "not there".
- **Shared structure.** Exports to single initiators and to access groups share
  the volume's LUN, and the clean-up of one must spare the other. Both can be
  made to the same initiator.
- **Identity.** Storage objects, volumes, file systems and snapshots are looked
  up by name or uuid, and names are used again.
- **Crashes.** A kill between a change of the tree and its save, or a failing
  save, lets the next reboot restore an older tree over newer volumes.
  `_save_exports` removes the old `targetd.exports` before it reads
  `/etc/exports`, which may be unreadable, and writes the new one.
- **Others at work.** The administrator edits `/etc/exports` and runs `exportfs`
  at any time, between two steps of a save too; targetd locks nothing.

### What makes each component correct

- RPC server: calls do not overlap and none is lost; no error path keeps the
  mutex; every accepted request is answered; only clients that showed bad
  credentials are turned away, and not for good.
- Block: nobody is shown a volume that is gone, nor another volume than the one
  the administrator gave; members of a group see the same, unless one was
  treated singly; a failing call takes nothing from anybody, and what it did
  half is gone with the next reboot; a reboot changes nobody else's rights.
- LVM: a call for one pool leaves the volumes of the others alone, though they
  share the names of a volume group; exports show volumes that are there.
- ZFS and Btrfs: volume calls and file system calls leave each other's datasets
  alone; snapshots are those of their own file system; failing calls destroy
  nothing but what the call was to destroy.
- NFS: a reboot exports what was exported, nothing is exported that nobody asked
  for, and lines of `/etc/exports` are read as `exportfs` reads them (section 5
  says which are not).

## 2. The modules

`Lio` - the kernel target's tree as a record (portal group, NodeACLs, tags,
credentials, LUNs, storage objects with their wwn, mapped LUNs) and the effect
on it of each rtslib call that `block.py` makes. It is outside `src/`, so it is
modelled from how `block.py` uses it: constructors find or create, `delete`
takes dependants along, `MappedLUN` raises when the LUN id is in use. A storage
object has the wwn `Generated` until targetd gives it the volume's; credentials
are none, set, or a mixture of old and new. `Rooted` says that a tree hangs
together.

`Masking` - what the block API promises, without trees, files and reboots: a set
of volumes, and who reaches which. `LvmPools` implements it.

`DurableMasking` (extends `Masking`) - the same on a machine that reboots, loses
saves and has calls that fail half way; `Block` implements it. `kept` is what
the next boot gives back, `lost` how many saves were lost. A call that changes
the rights keeps them or is lost with its save (`RightsStep`); volumes need no
save. `uneven` has the groups and volumes about which members may differ. It
grows only when a member is exported to singly (`SingleStep`) or a group's
mapping fails half way, which grants something that is not kept (`HalfStep`);
and no call takes a volume it was not asked to take, except one the group is
uneven about (`UnevenStep`).

`Block` (extends `Lio`) - one action per call of `block.py`, each with all its
early returns and with the tree it leaves at each of them. `vol` and `gen` are
the pool (a size, and a uuid that grows each time a name is created), `cfs` the
tree now, `saved` the tree in the file, `reply` the answer. `Save` stands for
`RTSRoot().save_to_file()` and the end of the call; it may be lost, which also
models targetd being killed just before it. `Reboot` restores `saved` over the
pool as it is. `ListCall` is there because the listing calls create the target
they look into. The model has one configured pool, and `Stray` for a volume of a
pool targetd does not know. What the pool backends do to block volumes is part
of the `Vol*` actions: success, a failing tool, LVM's copy that could not be
grown, and the refusal to remove a device that is held open.

Of what rtslib and the kernel can refuse, `Block` has what depends on a call's
input, on the tree or on the volume's device: a malformed initiator name
(`AclRefused`), a LUN id that is in use or out of range (`BadLunId`), each step
of `_tpg_lun_of` (`TpgLunOfFails`: the storage object cannot be made, or is made
and does not take the volume's wwn, which leaves it with the generated one for
later calls to find, or the LUN cannot be made), and each write of
`initiator_set_auth`. What is asked of it in good form otherwise, as a tag or a
deletion, the kernel does. `initiator_set_auth` that fails between its writes
leaves mixed credentials in force; they are not saved by it, but the next call
that saves, about whatever else, saves them too.

Two variables of `Block` are auxiliary: no call reads them. `uneven` records the
groups and volumes that `DurableMasking` speaks of (`Mark`), until the group has
no member any more in either tree; `unsaved` records whose rights a failing call
changed (`Note`), until the trees agree again.

`RpcServer` - the main loop, SIGINT, and one thread per connection with `pc` the
place in `do_POST`. Each step is one critical section or one stretch of code
without shared state. `kind` is what a client sends, by the first check it
fails. A method reads the shared state when it starts and writes it when it
ends, so calls that overlapped would lose updates. `Ssl` says whether the
listening socket is TLS-wrapped (`main.py:311-317`): then `accept()` makes the
handshake in the main thread, which waits for that client and for nothing else
(`Accept` goes to "handshake", `Handshake` on from it). A client may stall in
the handshake, in its headers, or in its body.

`SerialServer` - what the server promises to who sees no threads: each call
takes effect at one moment between its arrival and its answer, one at a time and
at most once, or is turned away without effect. This is what lets every other
module take a call for one step. `Phase` of `RpcServer` says how far a request
has come there: it is executed when its method ends (`Finish`), and answered
when its thread has let go of the mutex.

`Zfs` - the datasets below one parent dataset (volumes and file systems share
its names when it is both a block and a file system pool), their snapshots and
clones, and every state-changing call of the ZFS backend as `block.py` and
`fs.py` make it, failing at each zfs command. `CommandFails` covers a failing
command and the third "dataset is busy", after which `_zfs_exec_command` returns
nothing. A `zfs get` that fails reads as "no such dataset" (`zfs.py:180-191`),
so a copy can go on to a name that is taken, and the deletion of a snapshot can
be skipped and answered "ok". A recursive destroy that fails may have destroyed
any of the snapshots below (`Destroy`); zfs itself refuses one that has clones.
`SnapAndClone` is the snapshot of a copy, its clone and what is tidied up.
`Restart` is a restart with `zfs_enable_copy` changed. `fsReply` is auxiliary:
the last answer as `FileStore` counts it.

`FileStore` - what the file system calls promise, whichever backend serves them:
file systems under names, each with snapshots of its own, and for each answer
what the call may have done. An "ok" has done its one thing; with
`SkipsDeletes`, which is `TRUE` for `Zfs` and `FALSE` for `Btrfs`, the deletion
of a snapshot may do nothing and answer "ok". `Zfs` and `Btrfs` both implement
it.

`Btrfs` - one mounted pool: `sub` are the subvolumes `targetd_fs/<name>`, `base`
and `snaps` the directories `targetd_ss/<name>` and the snapshots in them, which
only the name ties to the file system. `fs_snapshot` makes that directory before
it can fail, and `fs_destroy` deletes snapshots one by one, the directory and
the subvolume last; both are one action with every place to stop at as an
alternative. That the listing shows the snapshots of one file system with their
uuids is how `fs.py` uses it; sizes and quotas are left out.

`LvmPools` - the LVM backend where pools share a volume group: `lv` is what each
name of a group is (nothing, a linear volume, a volume of a thin pool, a thin
pool), `luns` and `maps` what is exported, by group and name as in the kernel's
target, and `vg_name_2_pool_name_dict` the dictionary by which a mapping is
listed under a pool. `pools` is any configuration that `check_pools_access`
accepts and does not change. `VolCreate` has the fallback to a linear volume
(`lvm.py:194-198`). `Block` has one pool with everything behind it; `LvmPools`
has the pools, and of the target only what decides something about pools.

`NfsOptions` - the options of an export: which exclude each other, `parse_opt`'s
overriding of a line's options by a host's, and `parse_export`'s reading of a
line with its hosts in order: a host without options of its own is given those
of the last host before it that had some (`Specific`), and one host that is in
error drops the whole line (`Parses`). `Meaning` is what `exportfs` takes such a
line to mean for each host.

`Nfs` (extends `NfsOptions`) - `kernel` is the export table, `file` is
`targetd.exports`, `etc` and `etcState` are `/etc/exports`. A call first changes
the table and then goes through `_save_exports` step by step, `pc` being the
place: `unlink`, `read`, `write` (`nfs.py:299-314`). It can fail or be killed at
each; a reboot reads both files. Between any two steps the administrator edits
lines of `/etc/exports` (`AdminEdit`), runs `exportfs -r`, at once, later or
never (`AdminReload`), or exports by hand. Four variables only say what the
properties claim: `edited` (`exportfs` has not read `/etc/exports` since it was
edited), `disturbed` (the administrator came in between the running call),
`behind` (the file need not be what the kernel exports: a call was cut short, or
since then lines were edited or something was exported by hand) and `asked`
(keys to be exported beside `/etc/exports`: somebody asked for it, or a save
copied the export of a line into `targetd.exports`, which is `Copied`: targetd
does not understand the line, or it had been edited and not read again, or was
edited during the save).

`MCBlock`, `MCRpcServer`, `MCZfs`, `MCBtrfs`, `MCLvmPools` and `MCNfs` give the
constants values for TLC. `LioLemmas`, `BlockProofs`, `BlockRightsProofs`,
`RpcServerProofs`, `ZfsProofs`, `BtrfsProofs`, `LvmPoolsProofs` and `NfsProofs`
hold the proofs.

Definitions commented "Slip:" are not used by any specification: each is a
definition with a plausible programming error in it, which replaces the correct
one to show that a property can fail.

## 3. The runs

| run | configuration | checks |
|---|---|---|
| `block_groups` | `MCBlock_groups` | `GroupUniform`, `OneVolumePerLun`, `RebootKeepsRights`, `FailedCallRevokesNothing`, `LossIsLocal`, `GainIsLocal`, `ImplementsDurableMasking` |
| `block_lost_saves` | `MCBlock_lost` | `TypeOK`, `NoDanglingExport`, `SoWwnNeverStale`, `ImplementsDurableMasking` |
| `rpc_safety` | `MCRpcServer_safety` | `TypeOK`, `NoLostUpdate`, `MutexHeld`, `TurnedAwayForOwnFault`, `NoGhostInTar`, `ImplementsSerial`, `OneAnswer` |
| `rpc_live` | `MCRpcServer_live` | `EveryRequestAnswered`, `TarpitEnds`, `ShutsDown` |
| `zfs_datasets` | `MCZfs_datasets` | `TypeOK`, `KindsKept`, `ErrorKeepsDatasets`, `SnapshotsGoAlone`, `CopiesTakeNoSnapshots`, `ImplementsFileStore` |
| `btrfs_store` | `MCBtrfs_store` | `TypeOK`, `SnapshotsOfTheirFs`, `ImplementsFileStore` |
| `lvm_pools` | `MCLvmPools_pools` | `TypeOK`, `LunsShowVolumes`, `MappedOnce`, `CallsStayInPool`, `ImplementsMasking` |
| `nfs_exports` | `MCNfs_exports` | `TypeOK`, `BootKeepsExports`, `NothingUnasked`, `LinesReadAsMeant` |

Four further runs end in a counterexample to something a document, a comment or
a message of the repository says; see section 5.

**`block_groups`** has two volumes, two LUN ids beside one that rtslib refuses,
and two initiators, which exports, credentials and one group all use. Two LUN
ids are the least with which ids are chosen, clash and run out; two volumes the
least for a mapping of one to block the other; two members the least for a
group's mapping to be half made. The ways of granting access meet at one NodeACL
here: a member that was exported to has an id in use that the others have free,
so a mapping of the group fails with one member mapped and nothing saved, and
`initiator_set_auth` changes members. `GroupUniform` and
`ImplementsDurableMasking` follow what becomes of this: the group is uneven
about that volume and about no other, until its members are gone or deal with it
as `UnevenStep` says. `RebootKeepsRights` says who can lose something by a
reboot then: those whom a call that failed half way concerned, and of them
nobody gains. `LossIsLocal` and `GainIsLocal` say whom one call can take access
from or give it to, failing half way or not; `FailedCallRevokesNothing` that a
failing one takes from nobody. No save is lost in this run, and each volume name
is created once. The last answer, which no later call reads, is left out of the
view; initiators are interchangeable, and volumes are, so the run uses symmetry.

**`block_lost_saves`** has one initiator for exports and group alike, two
volumes whose names are created twice, one LUN id, one lost save, and for a
group one whose name `name_check` refuses, which `access_group_init_add` makes
all the same. Once created again is the least for an identity to be out of date;
one lost save makes the saved tree as old as one likes, for anything may happen
before the next save. `SoWwnNeverStale` is about storage objects that outlive
calls: the wwn is the volume's, or, when a call stopped before it was set, the
generated one, which later calls keep; it is never that of a volume destroyed
before under the name. It is claimed while no save is lost: afterwards a reboot
can restore the wwn of a volume that was destroyed and created again since. What
a reboot does to access then is said by `ImplementsDurableMasking`: exactly what
was last kept comes back, as far as its volumes are there by name. So a right
revoked long ago can come back, and be one to a new volume of the old name; the
code does this, and `DurableMasking` has it as what a boot does.

**`rpc_safety`** has three connections of two clients in all interleavings,
every assignment of requests to clients and of kinds to requests. Three are
needed for two attempts of a client in the tarpit while a third is tested or
while a call waits for the mutex behind another one. The run has no `ssl`, which
would only add steps to a connection before its thread is there. `OneAnswer` is
about the many ways out of `do_POST`, some before and some after the status line
has gone out, with a `finally` that writes a body (`main.py:189`).

**`rpc_live`** has two connections, `ssl`, and assumes fairness. The main loop
always tests `RUN` again, and `handle_request` gets a connection or gives up
after half a second, unless that connection's TLS handshake keeps it: the
handshake has no timeout, so it gets on only when its client does. Each handler
thread gets on as an operating system's scheduler lets it, except where it waits
for a client that has stalled (`Waits`), and methods end. Waiting for the mutex
needs no more: each holder lets go, and connections are finite in number. No
SIGINT and no connection is assumed to come. `ShutsDown` says that after SIGINT
the listening socket is closed, unless a stalled client keeps the main thread in
its handshake (section 5); accepted requests are answered after it too
(`EveryRequestAnswered`), since handler threads are no daemon threads.

**`zfs_datasets`** has three names of file systems, two of which serve volumes
too, and four datasets and snapshots in all: a file system, its snapshot, a
clone, and a second clone or a snapshot of the clone. A clone that fails with
the name taken, two clones of a snapshot, a name that changes its kind, a
destroy that fails with one of two snapshots gone, and a copy that meets the
snapshot an earlier one of the same second left all happen within them.
`CopiesTakeNoSnapshots` is about the last: what a copy tidies up has a name that
is only as fine as the clock. `SnapshotsGoAlone` says of a failing destroy what
it may have taken, snapshots of that one dataset. The names that serve both
kinds are interchangeable, so the run uses symmetry.

**`btrfs_store`** has three names, two names of snapshots and five uuids: a file
system, two snapshots of it and clones of both, or a file system made and
destroyed twice with snapshots left between. Names are used again, which is what
`SnapshotsOfTheirFs` is about: `fs_destroy` can fail with some snapshots
deleted, `fs_create` under the old name must not find any of the former ones.

**`lvm_pools`** has one volume group with two thin pools, under every
configuration that is accepted (the group, one thin pool, both), and a group
that is not configured; callers may name any pool. `has_pool` only looks at the
group, so a thin pool that is not configured is known too, and the fallback
makes a linear volume no configured thin pool lists. Two names of volumes next
to the two of the thin pools let a volume call meet a thin pool; two LUN ids let
a volume be mapped twice. `MappedOnce` is claimed for a pool that has its group
to itself (section 5). Sizes and free space are left out: a full pool is a
failing command. `ImplementsMasking` takes the volumes of all pools together, by
group and name, and the group of initiators for one: no call through one name of
a pool pulls a volume from under a mapping made through another.

**`nfs_exports`** has two keys (a host and a path) and of each kind one option
list in the requests (fine, fine, contradictory, unknown option). The lines of
`/etc/exports` are of one host (plain, contradictory) or of both, in either
order: a host that overrides the line's options both ways before one that gives
none, one that gives none before one that does, and one with an option unknown
to targetd before a plain one. The administrator deletes, writes or replaces a
line, runs `exportfs -r` or exports by hand between any two steps. Two keys are
the least for one to be the administrator's and the other targetd's, for one
that is disturbed and one that is not, and for options to be carried from one
host to the next. `BootKeepsExports` claims nothing after a call cut short until
the next one ends: then the file is whole again, and after an edit until
`exportfs` has read it. The saves that copy a line's export into
`targetd.exports` leave it there when the line is deleted; `asked` counts them,
and only them, beside what was asked for, and `NothingUnasked` is about all the
rest. `LinesReadAsMeant` is claimed of hosts that give options, and of those
that give none where none before them has any (section 5).

`Block` and `RpcServer` stop where there is nothing left to do (all requests
done, a bound reached), so deadlock is not checked there.

## 4. The proofs

`LioLemmas` proves that each rtslib operation turns a rooted tree into a rooted
tree. `BlockProofs` proves, for any volumes, initiators, groups, LUN ids, sizes
and bounds, from the named assumptions in `Lio` and `Block`:

- `TypeCorrect`: `Spec => []TypeOK`.
- `NoExportDangles`: `Spec => []NoDanglingExport`. The property is not
  inductive. `Inv` adds that the *saved* tree is rooted too, because a reboot
  makes it the live one, and that a volume in the pool has a uuid, because a
  storage object is recognised by having one. `vol_destroy` preserves it only
  thanks to the pool's refusal to remove a device held open: the LUN check in
  `block.py:161-170` is not enough after `export_destroy` has deleted a portal
  group with LUNs in it, whose storage objects stay. One lemma per group of
  calls goes through the tree each call builds, from "still sound" to "still
  sound".

`RpcServerProofs` proves, for any finite set of connections and any clients:

- `ServerTyped`: `Spec => []TypeOK`.
- `CallsOneAtATime`: `Spec => []MutexHeld`, the mutex is held between acquire
  and release and only then, whichever way a call ends.
- `EveryCallCounts`: `Spec => []NoLostUpdate`. `Inv` adds that a running method
  has seen the state as it still is, and that a call has no answer before its
  method is done, so that it is counted once. Finiteness of the connections is
  `FiniteAssumption`.

- `ServerIsSerial`: `Spec => ImplementsSerial`. Every step of a thread but
  `Finish` is `Settled`: it takes back no effect and rewrites no answer of an
  executed call, so it moves at most its own request on. `Finish` is `Execute`:
  by `MutexHeld` no other call is between its effect and its answer, and by
  `Inv` what the method has read is still the store.
- `OneAnswerEach`: `Spec => OneAnswer`, from the invariant `Sent`, which says
  for each place in `do_POST` whether a status line and a body have gone out.
- `TarHoldsTheFailing` and `NobodyElseLockedOut`: `Spec => []NoGhostInTar` and
  `Spec => []TurnedAwayForOwnFault`. `PitInv` adds that a request on its way
  into the tarpit or out of it has bad credentials.

`BlockRightsProofs` goes on from `BlockProofs`. Its lemma `Steps` says that each
step is of one of seven kinds, with what it notes down in `uneven` and
`unsaved`: it changes only the pool (`Pooled`), or only looks nodes of the tree
up and makes missing ones (`LookStep`), maps a group half (`HalfMapStep`),
leaves mixed credentials (`HalfAuthStep`), treats one initiator singly
(`SingleStep`), does one of six things more and saves (`SaveStep`), or is a
reboot. Each property then needs one step for each. Nothing is assumed about who
is named in which call, nor, but where the property says so, about lost saves.

- `LunsShowOneVolume`, `NoOldIdentity`: `Spec => []OneVolumePerLun` and
  `Spec => []SoWwnNeverStale`, from `IdInv`. The saved tree has to show one
  volume per LUN id too, and have no storage object with an identity other than
  the live one's, for a reboot makes it the live one.
- `LossesAreLocal`, `GainsAreLocal`, `FailuresRevokeNothing`: the action
  properties `LossIsLocal`, `GainIsLocal` and `FailedCallRevokesNothing`, from
  `Inv` alone.
- `GroupsSeeTheSame`: `Spec => []GroupUniform`, from `GroupInv`: in both trees
  the members agree about every volume their group is not uneven about
  (`Level`), and a tag is only on a NodeACL that is there (`Kempt`). One lemma
  per kind of step shows that members agree afterwards but for the pair that is
  noted down.
- `RightsSurviveReboots`: `Spec => []RebootKeepsRights`, from `Behind`: while no
  save is lost the saved tree shows nobody more than the live one, and the same
  rights for all that are not in `unsaved`. A call that fails half way takes no
  mapping.
- `BlockIsDurableMasking`: `Spec => ImplementsDurableMasking`, for any number of
  lost saves. `SavedAccess` shows that a call that saves is one `Rearrange` of
  the rights, the single and the half steps have lemmas of their own, and
  `StepDurable` puts them together. `access_group_map_destroy` deletes what its
  group has at the LUN ids of the first member, whatever volume it is. That this
  is one revocation where members agree takes `OneVolumePerLun` and `GroupInv`
  together; where they do not, what goes is something the group is uneven about
  (`UnmapDurable`).

`ZfsProofs` and `BtrfsProofs` prove for any names and numbers of uuids:

- `DatasetsHaveTypes`, `CallsKeepToTheirKind` (`KindsKept`),
  `FailuresKeepDatasets` (`ErrorKeepsDatasets`), `OneSnapshotAtATime`
  (`SnapshotsGoAlone`) and `CopiesTidyTheirOwn` (`CopiesTakeNoSnapshots`) for
  ZFS; `TypeCorrect` and `SnapshotsStayTheirs` (`SnapshotsOfTheirFs`) for Btrfs.
- `ZfsIsFileStore` and `BtrfsIsFileStore`: both implement `FileStore`. The
  invariants add that snapshots are of datasets that are there, and that uuids
  are unique: calls look up by uuid what they then destroy by name.

`LvmPoolsProofs` proves for any volume groups, thin pools and configurations
`PoolsTyped`, `ExportsShowVolumes` (`LunsShowVolumes`), `NoSecondMapping`
(`MappedOnce`), `OtherPoolsKept` (`CallsStayInPool`) and `PoolsAreMasking`
(`ImplementsMasking`). A mapping's volume stays because `block.py` finds its LUN
under the group's name whatever the pool; this is also why a destroyed volume is
one nobody reaches, which is the guard of `Masking`. `LvChange` says which one
name a call changes and from what to what.
`DictTyped` of the invariant says that the dictionary gives a volume group one
of its configured pools: the only one, when there is one.

`NfsProofs` proves for any keys, requests and lines:

- `ParseOptMeansLine`, `ParseOptIsValid`: `parse_opt` gives a host the options
  the line means for it, and options without conflict, if the host's have none.
- `ExportsTyped`, `RebootsRestore` (`BootKeepsExports`),
  `NothingExportedUnasked` (`NothingUnasked`), `LinesRead` (`LinesReadAsMeant`).
  `Inv` adds that the file is what the kernel exports unless it is behind
  (`Saved`, `InCallBehind`), what the running call has read and whether it is
  still so (`ReadStillSo`), that what it removes is no longer exported
  (`Removed`), and that a key nobody asked for is not in the file
  (`Unasked`). `LinesRead` needs besides that a line's key is exported as the
  line says and no other way, as long as nobody asked for it and `exportfs` has
  read the line (`AsLined`); lines have any number of hosts there.

The proofs use the named `ASSUME`s of the modules and no other. Checked by TLC
only: `EveryRequestAnswered`, `TarpitEnds` and `ShutsDown`, since weak fairness
speaks of `ENABLED`, which is out of the prover's reach. All other properties of
the passing runs are proved.

## 5. Where code and words differ

- `block_orphan_lun`: `LunMeansExported`, from the comment at `block.py:611`. A
  LUN nobody is mapped to stays after `access_group_destroy`, after a failed
  `access_group_map_create` and in other ways, and `vol_destroy` then refuses
  the volume as masked.
- `block_auto_lun`: `AutoLunFindsFreeId`, from `API.md:239`. Without a LUN id,
  the one chosen is free among the mappings of that volume, not at the group's
  members; a second volume gets the id of the first and fails.
- `rpc_tarpit`: `PittedIsStuck`, from the comment at `main.py:98`. Two bad
  attempts that pass the test together share one entry, which goes when the
  first leaves; leaving again raises.
- `zfs_clone_cleanup`: `FailedCopyKeepsSnapshots`, from the comment at
  `zfs.py:419`. When `fs_clone` of a given snapshot fails, say because a volume
  has the new name, that snapshot is destroyed.

Met while modelling, without a run of their own:

- "The mapping status will be kept" when a volume is deleted and created again
  under its name (`block.py:505-507`). It cannot come to this by calls alone:
  `vol_destroy` refuses a volume that has a LUN, and there is no LUN without its
  volume (`NoDanglingExport`). Only a reboot after a lost save brings
  mappings back to a new volume of the name.
- An export made to a member of a group is that member's alone, against
  `API.md:134`; a later mapping of the group can fail half way for it, which is
  what `uneven` is about. The half that was mapped is in force, but not saved.
- `initiator_set_auth` that fails between its writes (`block.py:321-325`)
  answers with an error and leaves credentials half old and half new, until a
  reboot or another call; what another call saves, it saves with them.
- A storage object whose wwn could not be set (`block.py:535-536`) keeps the
  generated one: later calls find it by name and do not look.
- With `ssl`, "SIGINT received, shutting down ..." (`main.py:307`) need not be
  followed by it: a client that stalls in its TLS handshake keeps the main
  thread in `accept()`, and nobody else is served either.
- `fs_snapshot_delete` of ZFS answers with success when its second look-up of
  the snapshot fails, and deletes nothing (`zfs.py:495-497`); any `zfs get` that
  fails reads as "not there" (`zfs.py:180-191`).
- `parse_export` gives a host without options those of the last host before it
  in the line (`nfs.py:178, 191-198`), where `exportfs` gives it the line's own;
  and one bad host makes it drop the whole line (`nfs.py:208-210`).
- The exports of such a line, and of one edited but not read again, are copied
  to `targetd.exports` by the next save (`nfs.py:307-314`), which leaves out
  only what it reads in `/etc/exports` then, and outlive the line.
- A method's own `KeyError` is reported as a missing method (`main.py:159`); a
  `ValueError` about `/etc/exports` is reported as one about the options of
  `nfs_export_add`.
- With two thin pools of one volume group, mappings of both are listed under the
  one the dictionary holds, and a second `access_group_map_create` by the other
  one maps the volume again.
- After `_save_exports` has failed, `targetd.exports` is empty until the next
  call that ends well: a reboot before that loses the exports.

## 6. Plan

1. Done: `Lio`, `Masking`, `DurableMasking`, `Block`, their runs and proofs, the
   refinement included.
2. Done: `RpcServer`, `SerialServer`, their runs and proofs.
3. Done: `FileStore`, `Zfs`, `Btrfs`, their runs and proofs.
4. Done: `NfsOptions`, `Nfs`, `LvmPools`, their runs and proofs, `LvmPools` as
   `Masking` included.
5. Left to prove: what `exportfs` and a boot promise as an abstract
   specification of its own that `Nfs` implements, as `DurableMasking` is for
   `Block`.
6. Left to model: the composition of `FileStore` with `Nfs`, for `fs_destroy`
   and `fs_create` under the path of an export; several mappings per group in
   `LvmPools`, with the groups of `Block`.

## 7. Not modelled

- Start-up (`load_config`, `update_mapping`, pool checks, certificate checks,
  the check that an LVM and a ZFS pool do not share a name): it runs once before
  any request, and an error ends the process. What `LvmPools` takes from it is
  which configurations are accepted.
- `mount.py` and the client: no state, no interaction beyond input and output.
- HTTP and JSON parsing, listings, logging and wording: a listing appears where
  it decides something (a look-up) or changes something (`ListCall`).
- Sizes of file systems, quotas, and pool capacity: a full pool appears as a
  failing tool.
- The choice of the backend by the pool of a call: pools do not change their
  backend while targetd runs.
- Kernel and rtslib refusing what is asked of them in good form: a new target,
  NodeACL or tag, or the deletion of a node.
- Quoting of paths and options with values in `/etc/exports`, a host that is
  twice in a line, the regular expression over `exportfs -v`, and the owner
  `nfs_export_add` gives a path: what other programs print and read is not in
  the repository.
- Other programs that change the kernel target, the pools or the datasets while
  targetd runs; of the administrator's doings, only NFS exports.
