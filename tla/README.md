# TLA+ models of the virtualization and containerization programs

This directory verifies the programs under `src/`: four programs that drive the Linux KVM
interface, a container manager written as a shell script, a small program about namespaces,
and kernel modules with the user programs that go with them. Each is short. What makes them
hard to test is what they stand on: signals that arrive between any two statements, commands
of several invocations that interleave over a file system nobody locks, processes that end
between being looked up and being used, and kernel lists changed under the wrong lock.

Contents: [inventory](#inventory), [modules](#modules), [runs](#runs),
[what the runs disprove](#what-the-runs-disprove), [bounds](#bounds), [fairness](#fairness),
[proofs](#proofs), [not modelled](#not-modelled), [plan](#plan), [running](#running).

## Inventory

Paths are relative to `src/`. "KVM" is `KVM Hypervisor + Virtualization`, "CT" is
`Containerization`, "LX" is `Linux Internals Exploration`.

### Run loops of the hypervisor: KVM/part2/matrix.c, matrix-a.c, matrix-b.c

`main` creates two VMs, hands them to `kvm_run_vm`, one thread that calls `ioctl(KVM_RUN)`
for one VM at a time and handles its exit, and cleans up when that returns. The three programs
have the same `main`; they differ in `kvm_run_vm`.

- **State**: `turn` (index of the VM to run), `count` (matrix.c: calls made in this round),
  the `exit_reason` in each VM's `kvm_run` page, the return value of the call, the thread's
  pending `SIGUSR1`, the timer, the signal mask given to `KVM_SET_SIGNAL_MASK`.
- **State of `main`**: which descriptors are open and what is mapped, and the two `vcpus` pointers.
- **Operations**: the calls of `main`, each of which may fail; set-up of handler, timer and
  mask; one KVM_RUN; the switch on `exit_reason`; the test on the return value; choosing the
  next VM; `sigwait`.
- **Policies**: matrix.c gives vm1 `FRAC_A` and vm2 `FRAC_B` timer quanta per round; matrix-b.c
  alternates quanta; matrix-a.c has no timer and switches at every port access of the guest.
- **Hard**: the timer signal may arrive in the guest, in the loop's own statements (where the
  empty handler swallows it) or in `sigwait`; `exit_reason` may be left over from an earlier
  exit; `kvm_signal_mask` is passed with its `sigset` uninitialised; failures of the timer
  calls are ignored; guests may leave KVM_RUN by themselves; `kvm_init_vcpu` returns NULL and
  nobody looks; `load_binary` takes a failing `read` for the end of the file.
- **Correct when**: each VM gets its share, the right VM runs, neither starves, and an error
  message names the VM that failed; guests run only after every call that makes the VMs, with
  what those calls made still there, and the clean-up closes what was opened, once.

### Hypercalls: KVM/part1/simple-kvm.c and guest.c

The host creates one VM in a processor mode and loads a guest; the guest makes hypercalls by
`IN` and `OUT`. Two hypercalls are an `OUT` followed by an `IN`, with the argument kept in a
global of the host in between.

- **State**: the three `uint32_t` exit counters, `gva_value`, `num_exit_HC_address`, the I/O
  data in the `kvm_run` page, and in the guest the ten arrays and their index `turn`.
- **Operations**: set-up, eight served ports, six hypercalls, halt.
- **Hard**: counters and arrays wrap around; an answer depends on whether it is made before
  or after its own exit is counted; 64-bit addresses are cut to 32 bits; the argument of one
  exit is used in a later one.
- **Correct when**: the exits by type add up to the total, every call gets the answer to its
  own question, and a returned string stays until its array is due again.

### conductor.sh: CT/task3/conductor.sh, config.sh

A container manager: `build`, `images`, `rmi`, `run`, `ps`, `stop`, `exec`, `addnetwork`,
`peer`. Each invocation is a process of its own; all of them share the host.

- **State**: image and container directories, bind mounts of `/dev`, processes, veth pairs,
  `/var/run/netns`, the file `.HIGHEST_NUM`, the iptables rules.
- **Interactions**: only through that shared state. Containers are found by `ps | grep`;
  `stop` kills what it finds, deletes the veth pair, unmounts, removes the directory, and
  with the last container also the numbering and the rules.
- **Hard**: nothing is locked; PIDs are looked up and used later; containers end at any
  moment and take their veth pair along; `errexit` ends the script half-way and leaves the
  rest undone; numbers are reused.
- **Correct when**: nothing of a stopped container is left, its links lead into itself,
  numbers are unique, forwarded ports lead to the container they were opened for, `rm -rf`
  does not reach the host's `/dev`, and a repeated `stop` succeeds in the end.

### namespace_prog: CT/task1/namespace_prog.c

The parent clones child 1 into new UTS and PID namespaces, waits on a pipe, and forks child 2
into the same namespaces; then it waits, kills child 1 and waits again.

- **State**: where the three processes are, who holds the pipe's write end, the namespaces.
- **Hard**: most calls are unchecked, `wait(NULL)` takes whichever child ends first, the end
  of child 1 kills child 2 when they share the PID namespace.
- **Correct when**: child 2 prints, and sees child 1's namespaces and hostname; no child is
  left over; the parent ends.

### Dr. Doom: LX/2_II/doom.c, soldier.c, control_station.c, run_dr_doom.sh

A soldier asks the driver through `ioctl` to make the control station its parent; the driver
moves the soldier between the kernel's lists of children. The control station reaps its
soldiers in its handler of `SIGCHLD`. The script starts and kills everything.

- **State**: the pointers of the two child lists, `real_parent` of each soldier, the
  station's pending signal and the activations of its handler.
- **Hard**: the list operations are made without the tasklist lock; the station may die
  between look-up and use; signals coalesce; `sa_flags` is read uninitialised.
- **Correct when**: a soldier is in the list of its parent and no other, each activation of
  the handler finds a dead soldier, and nobody follows a poisoned pointer.

### service-orchestrator.sh: CT/task4

A script without `errexit` that deploys two services in two containers by eleven lines, most
of them invocations of conductor.sh. Both `run`s go to the background; `sleep 10` is all that
orders them before the rest.

- **State**: the line it is at, the invocation it waits for, which container got the directory
  of its service, where the services run, the address found for c2.
- **Interactions**: everything it does is done by conductor.sh on the state above.
- **Hard**: no exit status is looked at; what runs in the background may be anywhere when the
  sleep ends; what it leaves must be dismantled by hand.
- **Correct when**: with time enough the deployment stands when the script says so; without, it
  does no harm that a repeated `stop` cannot undo.

### Address driver: LX/2_I/driver.c, user_program.c, spock.sh

A character device that tells a program the physical address of one of its bytes, and writes a
byte to a physical address. `my_init` and `my_exit` are word for word those of doom.c, with the
same class and device name.

- **State**: in the kernel the device number, the class, the device; in `user_program` the byte,
  its page and the address it was given; open descriptors. The driver stores an `unsigned long`
  there: the byte gets its value, and the seven bytes that follow are zeroed.
- **Hard**: the two modules' registrations collide; each call of `my_init` may fail, and what it
  has done by then must be undone; a module may not go while its device is open; the page of
  the byte may be moved between the two requests; the address goes through an `int`; the store is
  wider than what `user_program` allocated.
- **Correct when**: registrations are undone once and by their owner, an open device keeps its
  module, and the store hits the byte meant, its word, and nothing beyond.

### Others

- **Process listing modules** (LX/1/lkm1.c to lkm4.c) and **procfs modules**
  (LX/3/hello_procfs.c, get_pgfaults.c): read what the kernel knows and print it.
- **simple_container.sh** (CT/task2): a straight-line script.
- **Guest programs** (KVM/part2/guest*.s): loops; what matters of them is which exits they cause.

## Modules

| Module | Models | Builds on |
|---|---|---|
| `FairShare` | abstract: rounds in which each VM is granted its share of turns | |
| `KvmTimer` | the part of `kvm_run_vm` that matrix.c and matrix-b.c share: signals, timer, KVM_RUN, the switch | |
| `FracScheduler` | the run loop of matrix.c: `count`, and the choice of the next VM by it | extends `KvmTimer`, implements `FairShare` |
| `Matrix` | matrix.c from the first call of `main` to the last, around the run loop | extends `FracScheduler` |
| `AltScheduler` | matrix-b.c: alternate quanta | extends `KvmTimer`, implements `FairShare` |
| `IoScheduler` | matrix-a.c: switch at port I/O | implements `FairShare` |
| `MatrixProofs` | theorems about matrix.c: its run loop, then the whole program | extends `Matrix` |
| `AltSchedulerProofs`, `IoSchedulerProofs` | theorems about the other two run loops | |
| `SimpleKvm` | simple-kvm.c with guest.c | |
| `SimpleKvmProofs` | theorems about the hypercalls | |
| `Host` | the host's state that invocations of conductor.sh share | |
| `ContainerNet` | `addnetwork` and `peer` | extends `Host` |
| `Conductor` | the other commands, the containers, and the composition | extends `ContainerNet` |
| `MCConductor` | the symmetry used by the runs of `Conductor` | extends `Conductor` |
| `Orchestrator` | service-orchestrator.sh, and whoever dismantles what it leaves | extends `Conductor` |
| `ConductorProofs` | theorems about conductor.sh, and that the deployment script is a user of it | extends `Orchestrator` |
| `NamespaceProg` | namespace_prog.c | |
| `NamespaceProgProofs` | theorems about it, for every set of failing calls | extends `NamespaceProg` |
| `DrDoom` | the driver's `ioctl`, soldiers, control station and script | |
| `DrDoomProofs` | theorems about the child lists and the handler | extends `DrDoom` |
| `CharDev` | `my_init` and `my_exit` of driver.c and doom.c, side by side | |
| `AddrDriver` | driver.c with user_program.c and spock.sh, doom.c being loaded beside it | extends `CharDev` |
| `AddrDriverProofs` | theorems about both | extends `AddrDriver` |

Definitions have the names of the code where there is one to take: `turn`, `count`,
`exit_reason`, `total_exits`, `num_exit_HC_address`, `real_parent` as `parent`. Names that
begin with `M_` are faulty variants of the operator that follows them. They take part in no
specification: substituting one for its operator shows which property notices that fault.

**FairShare** says only that turns are handed out in rounds: `Grant(v)` needs a free
processor and credit left for `v`; the VM may leave and continue; the promise may be given
up. The refinement mappings tie `onCpu` to the VM that is really in KVM_RUN, so a scheduler
that counts correctly and runs the wrong VM does not implement it.

**KvmTimer** has one action per step of the thread that a signal can separate. A user-mode
statement (`User(p)`) requires that no signal is pending, because `timer_handler` runs before
it; in the guest and in `sigwait` the signal is treated as the kernel treats it there. The
mask for KVM_RUN blocks the signal or not, arbitrarily and for each VM by itself (`maskBlocks`):
`kvm_signal_mask.sigset` is never written, and each of the two ioctls may fail unnoticed. The
timer calls may fail; `sigaction` cannot, with a valid signal and address. `ticks` and `onlyIntr`
are history variables.

**FracScheduler**: `RunGuest` is `count++` with its reset and the call; `Switch` is the
`EINTR` branch, with `NextTurn` for the comparison of `count` with `FRAC_A`.
`count = 0` belongs to vm1 both before the first round and after each: `Left` reads the
credit of both VMs off `count`. When a guest leaves KVM_RUN by itself, `count` counts
that call too and the shares are no longer exact; then `kept` becomes false.

**Matrix**: `Calls` is the sequence of calls `main` makes; `next_call` says which is next. A
call succeeds (`Succeed`), ends the program (`Fail`), or fails unnoticed (`InitVcpuFails`, and
then `Segfault`). `LoadBinary` may come up short (`image`): its loop ends on a failing `read` as it
does on the end of the file, and main goes on with part of the image or none. Of the images
`GuestsRunMade` therefore only says that their files were opened and read. While `next_call` is at
`kvm_run_vm`, the steps are those of `FracScheduler` (`Running`), whose variables nothing else touches. `held` is what is open or mapped; `kvm_init`
opens one descriptor that `kvm_clean` closes twice, the second time to no effect.

**IoScheduler**: `HandleIO` switches the turn inside the `switch`, before the test on the
return value reads `vm_id[turn]`. `BlameIsRight` states exactly when the message still names
the right VM.

**SimpleKvm**: a hypercall is an `Exit` of the guest, a `Serve` of the host, and a `Return`.
Memory is the ten arrays and the start of the guest's memory (`Code`), where
`num_exit_HC_address` points before the first `OUT`. `caused`, `asked`, `age` and `given`
are histories with which the properties compare. `Check` is what follows the guest's `hlt`: the
registers may not be readable, and the result may be right or wrong.

**Host, ContainerNet, Conductor**: one action per command of the script that reads or
writes shared state; a failing command ends the invocation, as `errexit` and `die` do, and
leaves what is done. `inv[p]` holds the script's position and its local variables.
`Matching` is the `ps -ef | grep` with what really has the path on its command line: the
`unshare`, its child until it has become the init command, and a running `cp`. `mkdir`, `mount`
and `umount` have the path there as well, but each is a single step of the model (see Not
modelled). The options of `addnetwork` are `NetOptions`: none, `-i`, `-i` with `-e`, `-e` alone.
`NumTruncate` and `NumWrite` are the two halves of the redirection that writes `.HIGHEST_NUM`.
`devWiped` records that `rm -rf` went through a mount.

**Orchestrator**: `Lines` is the script. `Conduct` starts the invocation of the current line;
`Ready` waits for the one in the foreground and asks nothing about its result. `Sleep` is the bet
on ten seconds: if `patient` holds it ends only when both containers have started, otherwise at
any moment. `Entered` says where a program started by `exec` finds itself. After the script's
`sleep infinity` somebody gives commands one at a time (`Administers`).

**NamespaceProg**: one action per system call. Each call in `Failures` may fail, and then
the program does what it does: nothing, for most of them. `KillsOthers` and `Dies` are the
kernel's treatment of a namespace whose PID 1 ends.

**CharDev**: a step is one call into the kernel, and `at[d]` says how far module d is in
`my_init` or `my_exit`; a failing call takes `my_init` to the label the code jumps to.
`leaked` records the numbers left registered by a failed `cdev_add`.

**AddrDriver** adds the two scripts, the two programs and their descriptors. Numbers are
multiples of the page size plus an offset, with `IntMod` in the place of 2^32, so that `ToInt`
cuts frames off at the top as the cast in the code does. `Reclaim` is the kernel moving or
swapping out the byte's page whenever it likes; what the page table then holds is taken by the
driver for a frame. `Stored` is what one store covers: `Word` bytes from the address on. `spoilt`
records the other places of the byte's page it hits, `wild` that it leaves the page. What is lost
that way belongs to `user_program` as long as the page goes on: glibc gives no block of less than
24 bytes. At the end of a page it is the start of the next frame of the machine's memory.

**DrDoom** keeps the `next` and `prev` of every `list_head`; the driver's `list_del` and
`list_add_tail` are split at their pointer writes, with the values they have read kept in
`saved`. Changes that the kernel makes under its lock are single steps. `race` records
that a list has changed while the driver was changing one: the properties about the lists
then say nothing; otherwise they cover soldiers that use the driver one after the
other, in every order with forks, exits and the death of the station.

## Runs

Every property is stated in its module with the lines of the code it is about.

| Run (cfg) | States | Shows |
|---|---|---|
| `matrix_fractions` (`Matrix`) | 46,000 | matrix.c with every call failing, shares 7:3, images whole or short, guests with every exit: the loop implements `FairShare` until a guest first leaves KVM_RUN by itself; nobody starves; every switch costs a second timer period; guests run only on VMs that were made completely; the clean-up closes what is open; the invariant of the proofs holds |
| `matrix_b_alternate` (`AltScheduler`) | 723 | matrix-b.c implements `FairShare` (one quantum each) without a condition; nobody starves |
| `matrix_a_io` (`IoScheduler`) | 154 | matrix-a.c implements `FairShare` (one turn each, up to a port write); the failed VM is named; nobody starves if guests write to their ports |
| `simple_kvm` (`SimpleKvm`) | 1,974,000 | hypercalls in every order and number, counters and arrays wrapping around: counters agree, answers are right, strings stay |
| `conductor_sequential` (`Conductor_one`) | 9,194,000 | one invocation at a time, ports exposed with and without internet access, containers ending at any moment: numbers are unique, ports lead to the container that asked, no stop removes another container's rules |
| `conductor_apart` (`Conductor_apart`) | 2,568,000 | two invocations on different containers, the image being deleted meanwhile: no damage to each other's processes, mounts, links |
| `orchestrator` (`Orchestrator`) | 757,000 | the whole script, ten seconds being enough or not, then somebody who stops both containers: given time the deployment stands; whatever is left, asking again for a stop gets rid of it |
| `namespace_prog` (`NamespaceProg`) | 278 | any of five system calls failing: child 2 prints, in the right namespaces and after the hostname was set; no child is left; the parent ends unless its fork failed |
| `dr_doom` (`DrDoom`) | 240,000 | two soldiers, the station killed at any moment, `sa_flags` arbitrary: child lists whole, handler finds its soldier and returns, no poisoned pointer is followed |
| `addr_driver` (`AddrDriver`) | 1,569,000 | both modules loaded and removed again and again, every call failing, the page moving: registrations in balance, an open device keeps its module; the byte is written and the rest of its word zeroed, nothing else in a page that stays, and nothing outside it but in the cases named |
| `conductor_same`, `orchestrator_hasty` | | violations, below |

`CHECK_DEADLOCK FALSE` is given where the program ends: run loops leave by `exit_kvm` or an
error, simple-kvm.c exits, namespace_prog.c returns or waits for ever, the script of Dr. Doom
ends.

## What the runs disprove

Two statements of the repository's own comments do not hold of the code.

1. `conductor_same`, `DevSafe`. conductor.sh:182 asks of `stop` to "unmount any mount points you
   created". Two overlapping `run`s of one name both pass the test for the directory, both
   mount `/dev`, and `stop` unmounts once before its `rm -rf`.
2. `orchestrator_hasty`, `ExecInRoot`. conductor.sh:249-250 wants the program that `exec` starts in
   the "root directory as of the container". If `exec` comes between the fork of the
   container's init and its `chroot`, the program gets the host's root directory. The
   orchestrator's own `exec` is such a call on a host where a container needs more than the ten
   seconds of line 20 to start.

A third is contradicted by a property that holds, and is proved. matrix.c:376-377 has `sigwait`
"clear the pending signal before running the guest again". `SIGUSR1` is not blocked in the
thread, so `timer_handler` has already taken the signal that ended KVM_RUN: `sigwait` waits for
the next expiration, with both VMs standing still. `QuantumCostsTwoTicks` states the price, a
whole period after every quantum. The shares are not affected.

Hazards without a property have a note in `PROJECT.json`. For most of them the model has the
faulty behaviour and the property nearest to it makes an exception that names it, since the
repository promises nothing there: shares after a guest has left KVM_RUN by itself (matrix.c:327), a
timer never armed (308), a mask that blocks the signal (318), an image cut short (152),
overlapping `addnetwork` commands (conductor.sh:47 and 383), list updates that race (doom.c:36), a
station that is not there or dies too early (30 and 42). Two observations without a property: peer
rules name interfaces, so a container stopped and run again is still peered as long as another
exists (conductor.sh:395, and how long peering lasts is said nowhere); a second `addnetwork -i`
overwrites `/etc/resolv.conf.old` with the changed file (360), which the program never reads.

`UniqueNumbers` is checked and proved with one invocation at a time. Two overlapping `addnetwork` commands
can read `.HIGHEST_NUM` before either writes it, and then give out one number twice.

## Bounds

- `TickCap = 2` (`KvmTimer`): `ticks` counts expirations since the last KVM_RUN; the
  properties ask whether there were two.
- `FRAC_A = 7`, `FRAC_B = 3`: the values of the code. The proofs hold for all.
- `Word = 4`, `Buffers = 2`, `MemBase = 6`, `Gva = {3}` (`SimpleKvm`): counters of two bits
  instead of 32 and two arrays instead of ten, so that both wrap around often and out of
  step; `MemBase + 3` exceeds a word, so that the cut to 32 bits changes it. The proofs hold
  for all values. `age` stops at `Buffers`.
- `MaxSession` (`Host`): containers started in a behaviour, 1 to 3. Two are needed for a
  name to be reused after a stop, three for that with another container present.
- One invocation in `conductor_sequential`, two in `conductor_apart`, `conductor_same` and
  `orchestrator`: two suffice for every pair of commands to interleave. What the proofs say
  without a condition holds for any number.
- `MaxPrefix` (`Host`): the largest third byte of an address; 1 or 2 instead of 255.
  `Numbered` in `Start` keeps `addnetwork` from being asked for once the numbers are used up:
  the number after the last is still given, and refused by `ip addr add`.
- `Unstarted` in `Start`: no more `run` commands than there are sessions left.
- `Soldier`: two, the fewest that can be in the driver together, or exit and be reaped while
  the other is in it. More make lists longer and no new neighbourhood of a list element
  except another soldier's on both sides, which is not covered.
- `Patience`, `AdminCommands` (`Orchestrator`): whether ten seconds suffice, both in the main
  run; the commands given after the script besides `stop`. `MaxSession = 2` there: the script
  starts two containers, and nobody starts another.
- `Number = {1, 2, 3}` (`CharDev`): one more than there are modules, so that a leaked number
  leaves enough for both; when more have leaked, `alloc_chrdev_region` only fails.
- `Frame = {0, 1, 2, 5}`, `PageSize = 4`, `IntMod = 16` (`AddrDriver`): frames an `int` can name (0,
  1), one it makes negative (2) and one it cuts off (5). `Word = 2` instead of 8 and `Places = {0, 2,
  3}`: a byte whose word lies inside the page, ends with it, or crosses its end. One
  `user_program` and one soldier at a
  time, as the scripts start them. The proof holds for all values.
- `Symmetry` is used in safety runs only.

## Fairness

- Matrix: `WF` of the calls of `main`, which all return.
- Run loops: `WF` of the kernel (a deliverable signal is delivered, KVM_RUN returns when
  interrupted) and of the armed timer. `SF` of the loop's statements, because a pending
  signal disables them for the moment it takes to run the empty handler: with a period of a
  second and statements of microseconds, the thread is not held in its handler for ever.
- IoScheduler: `SF` of `KvmExits("IO")`, because guest1-a.s and guest2-a.s write to a port in
  every iteration of an endless loop. No other exit is assumed to happen.
- Conductor: `WF` of each invocation (its commands end by themselves) and of each container's
  start; `SF` of a user's request to stop each container. Containers need not end.
- Orchestrator: the same, and `WF` of the script, whose `sleep 10` ends. The request to stop is
  `SF` because each command of an administrator waits until no other is under way.
- NamespaceProg, DrDoom: `WF` of each process; a blocked `read` or `wait` is a disabled step.
  Nobody is assumed to start or kill anything.

## Proofs

`tlapm` proves everything in the eight proof modules. Assumptions are those stated in the
modules, which TLC evaluates: `FRAC_A` and `FRAC_B` positive, `GuestExits` a set of exit
reasons other than `INTR`, `KvmErrors` a Boolean, `Word` at least 2, `Buffers` positive,
addresses natural numbers; `MaxSession` and `MaxPrefix` natural numbers, and invocations no
integers (`ProcAssumption`: the integers are the PIDs in containers); 0 no device number
(`NumberAssumption`), the byte inside its page and `IntMod` a multiple of two pages
(`MemoryAssumption`); soldiers finite in number and none of them a list head or the poison
(`SoldierAssumption`); the names the script uses among those there are (`NamesAssumption`,
`ScriptAssumption`).

- **MatrixProofs**, the run loop: `Invariant`, `TypeCorrect`, `TwoTicks`, `Refinement`.
  `QuantumCostsTwoTicks` and the refinement do not follow from types: one must know that
  `turn` is the one `count` calls for at the head of the loop (`TurnInv`), that until a
  guest leaves by itself only signals end KVM_RUN (`LoopInv`), and how many expirations each
  place of the loop has already consumed (`TickInv`). `IInv` is types and these three under
  the condition `onlyIntr`. For the refinement, `RunGuestGrants` shows that a call with
  `onlyIntr` is a granted turn, with the arithmetic of `Left` for arbitrary shares;
  `OthersKeepCpu` shows that no other step gives the processor to anybody; losing `onlyIntr`
  is `GiveUp`.
- **AltSchedulerProofs**: `Invariant`, `Refinement`. `IInv` adds that a turn has begun when its
  VM is in KVM_RUN or has just left it. Without it a switch would change the credits.
- **IoSchedulerProofs**: `Invariant`, `RightBlame`, `Refinement`. `IInv` follows the result of
  a failed call from KVM_RUN through the switch, which may move the turn, to its test.
- **SimpleKvmProofs**: `Invariant`, `TypeCorrect`, `Counters`, `Answers`, `Strings`. `Counters` needs that the
  total is the wrapped sum of the other two in every state. `Answers` needs which call
  each exit belongs to, that the host has kept the argument sent before, and that `caused`
  runs one ahead of the counters between an exit and its service. `Strings` needs the ring
  discipline of `turn`: the age of an array is its distance behind `turn` in the ring, so that
  the array about to be used is one whose string is no longer promised. Each conjunct
  has a lemma of its own (`StepControl` to `StepStrings`), proved from the conjuncts it uses.

- **MatrixProofs**, the program: `RunsTheLoop` (`MatrixSpec => Spec`): `main` starts the loop in
  its initial state and changes none of its variables, so that invariant, refinement and the two
  ticks carry over to the whole program (`MatrixInvariant`, `MatrixRefinement`,
  `MatrixTwoTicks`). `GuestsMade` and `CleanUp` need what is open before each call
  (`MainInvariant`): `Thing` says of a pair of a call and a VM whether it stands for anything,
  `Opened` that the calls so far have opened theirs, `Closed` that those of the clean-up so far
  have closed theirs, `VcpuThing` that a `vcpus` pointer is valid exactly when its descriptor and
  mapping exist. The order of the 22 calls enters once, in `TheCalls`.
- **NamespaceProgProofs**: `Invariant`, `TypeCorrect`, `SeesChild1`, `Prints`, `LeavesNobody`, for
  every set of calls that may fail. `ReapInv` counts children against the waits `main` has behind
  it: the second wait can only have reaped what the first left. `PipeInv` follows the write end:
  while nothing has failed, the read of `main` returns only after child 1 has set its hostname.
  `GoodInv` says where child 2 is as long as nothing has failed, so that the first wait can only
  have reaped child 2 while child 1 is asleep.
- **DrDoomProofs**: `Invariant`, `TypeCorrect`, `ListsMatch`, `HandlerFinds`,
  `OopsOnlyWithoutStation`, for any finite number of soldiers. The hard part are the lists. `Chain`
  is the least set that holds a list's first element and is closed under `next`; that it is the
  least (`ChainLeast`) takes the place of induction over the list. From it come the ring lemmas:
  taking an element out of a whole ring leaves a whole ring with the others (`RingRemove`),
  putting one in before the head adds just that one (`RingAdd`), and writes to the pointers of
  other elements change nothing (`RingFrame`). A driver between two pointer writes has a
  list that is not whole; the invariant says of each such place what the pointers are once its
  remaining writes are made (`Undone`, the list with what has been written undone). `SignalInv` is a count:
  handler activations and the pending signal together never exceed the soldiers that have ended;
  `ReapInv` strengthens it to those still to be reaped. Both need finite sets and their
  cardinalities. `ParentInv` ties a soldier's place in its program to `real_parent`.
- **AddrDriverProofs**: `Balances`, `Pinned`, `OwnWord`. `Balance` is types and
  `RegistrationsBalance`, which is inductive step by step of `my_init` and `my_exit`
  (`MyInitKeepsBalance`, `MyExitKeepsBalance`); `DriverInv` adds that an open device is that of a
  live module, which needs that an opening finds only such a device and a removal is refused
  while one is open (`PinsKept`). `OwnWord` needs arithmetic: `TranslateLow` shows that going
  through an `int` takes off the no-execute bit and leaves a frame in the lower half alone, for
  every page size and width; `ByteInv` follows the address from one request to the next.
- **ConductorProofs**, for any number of invocations that overlap in any way, also on one name:
  `ConductorInvariant`, `LinksLeadHome`, `StopKillsOwn`. A PID is looked up once and used commands
  later; `PidsInv` says that as long as its process lives, it belongs to a container of the
  invocation's own name, and `LinkInv` that a link leads into a living container of its own
  name. Each action either learns no PID (`NoNewPids`), only ages containers (`SessionsAge`) and
  at most takes links away (`LinksStay`), or is one of the two kinds that need an argument of
  their own: looking PIDs up (`Lookup`), and moving a link by one (`LinkMoveKeeps`). That PIDs
  are not reused by other containers is part of the model (see Not modelled).
- **ConductorProofs**, for any number of invocations that overlap on different names, or follow
  one another (`Apart`): `ApartInvariant`, `DevUnharmed`, `Orphanless`, `StopLeavesNothing`;
  containers still start up and end at any moment. None of these is inductive. `DirInv` says who
  has a directory (every living container, every link with an address) and what `stop` knows at
  each of its commands; `MountInv` and `MountsInv` that a run which has found no directory finds
  no mount either, so that there is never more than one. An invocation relies on this for its
  own name only (`OwnInv`). `InvocationLeaves` is the frame: a command changes directory, mounts,
  link and containers of its own name, and of others at most ends or removes; `Separate` says
  that no two work on one name; and `NoProcPids` that the PIDs an invocation has found are no
  other invocation's. `Orphanless` uses `ScriptAssumption`'s `Proc # {}`.
- **ConductorProofs**, for one invocation after the other (`Proc` a singleton) and any number of
  containers: `NumbersUnique`, `PortsRight`, `RulesStay`. `NumInv` bounds every number in a link
  or a rule by `.HIGHEST_NUM`, and puts the number an invocation is about to use above them all
  until it is given away. The numbering starts again in `stop_rmnum`, when by `DirInv` no address
  is left, and rules with old numbers go before the next command. `RulesStay` needs that nothing
  makes a directory between `ls` and the removal of the rules (`ClearsLast`). The three are false of
  overlapping invocations, also on different names: numbering and rules are everybody's.
- **ConductorProofs**, types, for every finite number of invocations that overlap in any way:
  `TypeCorrect`. Two bounds in `TypeOK` are matters of counting. `Counted`: the highest number, and
  every number an invocation holds, stay below the largest prefix plus the number of invocations,
  less those that have yet to read the file (`Askers`); `MountCount`: the mounts on a directory,
  and the runs of that name that have yet to mount (`Mounters`), are together at most as many as
  there are invocations.
- **ConductorProofs**, the orchestrator: `DrivesConductor` (`OrchestratorSpec => Spec`): each line of the script
  is a command a user may give, and nothing else it does touches the host's state. So what is
  proved of conductor.sh without a condition holds of the deployment: `DeploymentLinksLeadHome`.
- **ConductorProofs**, what the script is for: `DeploymentRuns`, for any number of invocations, names
  and containers, if two addresses can be given out (`MaxPrefix >= 2`; 255 in the code).
  `DeploymentStands` speaks of the last line; `DeployInv` says of each line what the calls so far
  have achieved. Up to `sleep 10` (`Launching`) the two background runs and their containers take
  steps in any order: a name has at most one run and one living container, not both, and a
  full directory belongs to a container or to a run that will still start it (`Launch`). Ten
  seconds that were enough turn that into exactly one container for each name (`SleepSettles`),
  which nothing ends before the script sleeps (`Settled`, `Housed`). From there each call is
  followed command by command (`Connecting`, `Inside`): it finds its container and no other, gets
  the next number, and leaves alone what the calls before it have set up (`ConnectedKept`). The
  services, which enter in the background at the same time, are in `Served`. The hypothesis
  `patient` is the script's own bet; what one of its commands does when the bet is lost,
  `orchestrator_hasty` shows.

Model-checked only: all liveness, which needs fairness and ENABLED. Every safety invariant that a
passing run checks is proved.

## Not modelled

- **KVM**: register contents, page tables, printed output. Guest instructions, except for the
  exits they cause. `kvm_cpu_thread` (matrix.c) is called by nobody.
- **conductor.sh**: option parsing and `check_prereq` (they change nothing shared); failures of
  `iptables`, of `mkdir` and `ls`; a partially completed `rm -rf` (one step, except that it fails
  on a mount); the time between the death of `unshare` and that of its child
  (`--kill-child`); reuse of PIDs; the copy of `/etc/resolv.conf`; `mkdir`, `mount` and `umount` of
  one invocation being found by the `ps` of another on the same container, and killed by its
  `stop` (they take one system call, `cp` takes long and is modelled). `images` and `ps` only read.
- **namespace_prog.c**: failures of `pipe` and `malloc`, which end the program before it has
  children; reuse of the PID between the first wait and the kill.
- **Dr. Doom**: `close` as a step of its own (it has no effect but that `rmmod` succeeds, so it is part
  of the return from the driver); the failing `copy_from_user`, which soldier.c does not cause; `SIGCHLD` for
  stopped children.
- **Service orchestrator**: what the two services do once they run.
- **Address driver**: failing `copy_from_user` and `copy_to_user`, since user_program passes
  addresses of its own variables; huge pages, for which the walk would read something else.
- **lkm1 to lkm4, procfs modules, simple_container.sh**: they keep no state of their own. What
  they do leave behind is seen by reading: lkm4.c:27 takes a reference to the process's memory
  and never gives it back, and every open of a procfs entry leaks what `single_open` allocates.

## Plan

Done, in this order: run loops with their abstract specification and proofs; conductor.sh;
hypercalls with proofs; Dr. Doom; namespaces; matrix.c as a whole; the orchestrator; the two
drivers' registrations and the address driver; proofs about conductor.sh, the orchestrator and
the drivers, `main` of matrix.c, namespace_prog.c and Dr. Doom's lists; conductor.sh with
invocations that overlap on different containers, and its types; the deployment.

What would come next:

1. An abstract specification of a container's life (absent, running, stopped) that
   `Conductor` with separate names implements.

## Running

    tlc -config Matrix.cfg Matrix                   # a run; the Conductor cfgs use MCConductor
    tlapm MatrixProofs.tla                          # the proofs of a module

`PROJECT.json` lists the runs with their properties, the source lines of every definition, the
faulty variant that each property detects, the hazards and the theorems.
