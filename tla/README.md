# TLA+ models of the macOS MeshCentral agent

This directory holds TLA+ modules that model the parts of this repository in
which several actors change shared state, TLC configurations that model-check
them on small instances, and theorems that TLAPS proves for every instance.
`PROJECT.json` relates every definition to the source lines it translates.

## 1. Inventory

### The parts and how they interact

    viewer --(server)--> root daemon --/tmp/meshagent-kvm-<uid>.sock--> KVM agent (-kvmagent)
                            |                                             | reader thread: input
                            |  starts, repairs, reloads                   | main thread: picture
                            v                                             v
                    launchd, kvm/<exe>, plist                  CGEvent queue / screensharingd (VNC)

| Part | Code | State | Operations | What is hard |
|---|---|---|---|---|
| KVM agent, main thread | `mac_kvm.c` 1030-1453 | `KVM_AGENT_FD`, `g_resetipc`, `g_shutdown`, screen geometry, tile cache, message queue | accept, `kvm_init`, reset and reaccept, drain the queue, one frame, shut down | shares all of it with the reader thread, almost without locks |
| KVM agent, reader thread | `mac_kvm.c` 697-1000 | read buffer, the same globals | poll, evict, read, end of file, parse a frame, answer | runs at the same time as a frame; blocks on a lock that main holds while it writes |
| CGEvent input | `mac_events.c` 98-200, 600-775, 1456-1767 | `g_modFlags`, buttons, event source, posting queue | modifier, letter, button, move, reset, post, worker | the system sees events later, or never; events inherit state |
| VNC input | `mac_events.c` 205-226, 780-1210 | connection, backoff, `g_vnc_shift_down`, `g_vnc_btnmask` | connect, inject, disconnect | the peer disappears between a press and its release |
| Daemon relay | `mac_kvm.c` 846-889, 1455-1745, `login-kvm.patch` | `g_kvmSocketPipe`, owner's handler, `gChildProcess` | setup, feed data, read handlers, broken handler, cleanup | one set of globals for any number of Desktop streams |
| Daemon startup | `mac_kvm.c` 2402-2628, `login-kvm.patch` 57-78 | the binary, its copy, the plist and its backup, launchd's jobs | compare, copy, stop agents, rename, restart them; edit, lint, reload | crashes, reboots, logins, launchd and a second process in between |
| Displays | `mac_kvm.c` 218-465, 601-675, 791-834, 1170-1193 | display list, selection, origin, scale cache | refresh the list, select, measure, map coordinates | two threads rebuild the list without a lock while displays come and go; positions and caches go stale |
| Frame parser | `mac_kvm.c` 697-840, 898-1000 | a buffer of 30000 bytes | read, consume frames | reads that end anywhere, frames of size 0 to 3, frames longer than the buffer |
| Capture and encoding | `mac_kvm_sck.m` 1-119, `mac_kvm.c` 1195-1422 | none across calls | capture, compare, compress | a capture that times out and completes later |
| Clipboard bridge | `mac_kvm_sck.m` 156-299, `clipboard.js` | pasteboard, change count | listen, read, write | a client that stalls; text and count read apart |
| Permission walkthrough | `mac_kvm.c` 1806-2398, 2680-2774, `login-kvm.patch` 110-219 | a log it reads back, the agent it restarts | ask, poll, refresh, report | stale answers, an agent that is slow or gone, nobody who answers |
| Installer | `installer/meshinstall.sh`, `uninstall.sh`, `pkg/scripts/postinstall` | the binary and its copy, launchd jobs, `prestate.env`, `vnc.pw`, pf ruleset, Screen Sharing and legacy VNC | install, reinstall, uninstall, the package's walkthrough job | installs that stop halfway and are run again, reboots, updates, logins in between |
| Message box, viewer patch, harness, signing, prebuilt | | | | no protocol state of their own |

### What makes each correct

- **Agent.** One viewer at a time, and the latest; a descriptor is closed once
  and not used after; a viewer's bytes are parsed from the start of its stream;
  whatever is cached as sent was delivered; a viewer that stays ends up with the
  whole picture and the right resolution; no thread waits for ever.
- **Input.** What the agent believes to be held is what the system or the VNC
  server holds; an event carries exactly the modifiers held; nothing stays
  latched when keys, connections or viewers are lost.
- **Frames.** Frames are handled whole, once and in order, however the bytes
  are cut; only the viewer's end or a malformed header ends its connection.
- **Displays.** A display number means the display it was told for; the picture,
  the size told and the origin of clicks end up those of the selection.
- **Walkthrough.** A permission is asked for when it can be given; what is
  reported is what the agent has; an unattended run ends.
- **Relay.** A picture goes to the stream that asked for it, input to a helper
  that is in use, no connection is leaked, a setup returns.
- **Startup.** What launchd may execute is a whole build, agents end up on the
  new one, the daemon's job is never lost.
- **Installer.** However often it runs or stops, what the machine was like is
  not forgotten and an uninstall restores it; an install that reports success
  has left the new build, one password and the chosen policy in force.

## 2. Modules

`ViewerSlot` (abstract) -- `KvmSession` (refines it) -- `KvmSessionProofs`;
`FrameStream` (abstract) -- `FrameReader` (refines it); `Displays`; the proofs
about these two are in `AgentProofs`; `VncInput`, `CGInput`, `KvmRelay`,
`DaemonStartup`, `InstallState` and `PermWalk` stand alone, each with a module
of proofs. `MC<module>` instantiates a module for TLC, `<module>Proofs` holds
the theorems about it.

**ViewerSlot** is what the agent promises about connections: they queue in the
listener, one is served, a served one is dropped for the next or at its end.

**KvmSession** is the process `meshagent -kvmagent`: `mpc` is the main thread's
place in `kvm_server_mainloop`, `ipc` the reader's in `kvm_mainloopinput`.
Actions are cut where the threads can see each other: every access to a shared
variable is in a step of its own. An eviction is two steps, the exchange of
descriptors (`Evict`) and the clearing of geometry and buffer (`EvictReinit`),
because main runs between them. `NextTile` takes a changed tile into the cache
and evaluates `KVM_AGENT_FD`, `SendTile` is the `write` to it, which blocks
while the peer's buffer (`room`) is full and fails when the peer or the
descriptor is gone. The queue lock is held through the draining
(`QueueLocked`). A frame from the viewer is a `kind` chunk and a `body` chunk,
so that it may be cut; pixels are a geometry and a set of tiles of which `dirty`
holds those whose crc is not the cached one. The frame kinds are those that
change modelled state (REFRESH, GET_DISPLAYS, a modifier's press, SET_DISPLAY)
and one for the rest. `has` and `told` record what reached a viewer. `Restart`
is launchd starting the process again. An `accept` that fails during an eviction
(942, after which the served viewer is read on) and a REFRESH whose size is not
4 (764) are left out: each does less than what is modelled.

**VncInput** is the session with `screensharingd` of `vnc_connect` and the
`vnc_inject_*` functions: `vnc` holds the link and what the agent keeps of it
(`shift`, `mask`) beside what the server was sent (`keys`, `buttons`). A link
may be `half`: the server is gone and the first write still succeeds. `age`
counts the seconds since the last attempt, up to the backoff `Wait`.

**CGInput** is the path through `CGEventPost`: `out` are the events a handler
has created and is posting, `q` the serial queue, `os` and `osBtn` what the
system has been told. `GiveUp` is the timeout on a full queue. `lost` records
that an event was dropped, on purpose (login window) or by `GiveUp`; the
properties about the system's state start where nothing was lost. Positions,
click counts, wheel amounts and Caps Lock are left out.

**KvmRelay** is the daemon's side: `setup` is `kvm_relay_setup` at its poll,
its connection attempts or its spawn, during which the daemon's thread runs
nothing else; handles are named by the stream whose setup created them.
Handlers of the old connection may still have data to read when the globals
already name the new one. Agents, sockets and children are environment.

**DaemonStartup** is what `main()` does before anything else: one action per
call that touches a file or launchd. The LoginWindow agent is root as well and
runs the repair too (`fix`, `RepairBy("agent")`). launchd relaunches agents and
daemon by its `KeepAlive` policy, the one it has cached (`job`). `RestartAgent` is
bootstrap and kickstart in one step, which succeed for the user logged in
(2621-2625); files of the copy that cannot be opened (2565-2566) are one with a
write that fails. `cuid` is a local of the function and forgotten when it ends.

**InstallState** is `meshinstall.sh` and `uninstall.sh`, one action per command
that changes the machine, in their order, but for two: `RemoveJobs` takes the
loop of `uninstall.sh` over the jobs (36-48) in one step, and `RecordPrestate`
writes `prestate.env` whole (`meshinstall.sh:236`), so that a truncated record is
not modelled. Scripts run one at a time; `Stop` is
an install that leaves at one of its `exit 1` or is killed, at any step.
`share`, `prestate`, `saved` and `before` are all the pair (Screen Sharing,
legacy VNC): as it is, as `prestate.env` has it, as this uninstall read it, and
as it was when nothing was installed. `password` holds the three copies of the
VNC password, numbered by the script that drew it. `pf` is the ruleset loaded,
`BootRuleset` the one that the boot job would load. What the daemon does to its
copy when it starts (`DaemonStartup`) is one step here and happens between
scripts only; both stage into `kvm/meshagent.new`, and a daemon that starts
exactly while an install copies is left to a composition of the two. A machine
is assumed to have a readable `/etc/pf.conf` and no other server on port 5900.

**FrameStream** is what the reader promises a viewer, as sequences of frames:
what was `handled` is a prefix of what was `sent`, and a connection is given up
when the viewer closed or broke it, everything before that having been handled.
**FrameReader** is the buffer of `kvm_mainloopinput`. The bytes of a connection
are numbered, `base` is the number of the byte in front of the buffer, and a
header's size is looked up in the frames that were sent; behind a malformed
header it can be anything. `Read` takes any part of what has arrived and fits;
`ReadNothing` is the `read` that returns 0, at the end of the connection or for
want of room; `HandleFrame` and `Compact` are the calls of
`kvm_server_inputdata` that consume a frame and that return 0. `NewViewer`
starts over with an empty buffer, for an eviction (`EvictFor`) or a new thread
(`Reaccept`). `g_shutdown` is left to `KvmSession`, and so is what frames do.

**Displays** has the two threads as `at["main"]` and `at["input"]`. Rebuilding
`SCREEN_LIST` is three steps of either thread (`Clear`, `Fill`, `Order`), since
the other reads it through a count of 0, and unordered. The code asks the system
for its displays (227) just before it sets the count to 0 (229), `Fill` just
after it: a change of displays between the two is seen, which matters only to
rebuildings with something in between, where little is promised. `InitNum`,
`InitOrigin` and `InitSize` are `kvm_init`; `Look`, `Measure` and `Capture` a
frame; `told` and `shown` what the viewer was told and sees. Sizes and origins
keep one coordinate; the order of the list looks at both (`Before`), the second
of which the run's two displays never need and the proofs cover. `seen` records
whether the other thread or a change of displays came in between since a thread
began to rebuild the list, `trust` whether the viewer's list is from a
rebuilding without either: what is promised depends on it. A list of numbers
goes to the viewer; `told.list` remembers which displays they stood for.

**PermWalk** is `kvm_request_permissions_interactive` (`pc`, with `back` for
the return of a refresh) beside the agent that it restarts and connects to
(`agent`, `conn`, the watchers `axWatch` and `scWatch`), the agent's `log`, what
the operator has allowed (`tcc`) and of what there is a record (`listed`). Waits
have limits that an agent may exceed: `Await`, `Settle`, `NotReachable` and
`HangUp` may happen too early, which `doubt` records, and the two invariants
are about the runs in which none did.

## 3. Runs

All runs keep deadlock checking on except those of `KvmRelay`, `DaemonStartup`,
`InstallState`, `FrameReader` and `PermWalk`: the world there may come to rest
(streams are set up once, the last build is installed, the scripts are used up,
the last viewer has gone, the walkthrough is done).

| Run | Shows |
|---|---|
| `session` | Every safety property of the agent over all frame kinds, two viewers, a display that comes and goes, and `ServesOneSlot`, the refinement of `ViewerSlot`. |
| `session_live` | `LastConnectWins`, `ShutdownReleased` and `Repainted` when peers read and a capture works, with viewers that ask for refreshes. |
| `session_stalled` (violation) | Without reading peers: main blocks in a write with the queue locked, the reader waits for the lock, the pending connection waits for both, against the comment at `mac_kvm.c:932`, "so a pending new connection can evict the stale one rather than queue behind it". |
| `session_told` (violation) | A REFRESH builds its resolution message on the input thread (761); the display changes, `kvm_init` queues the new size, the message with the old one is queued behind it, and the viewer is left with that, against the comment at `mac_kvm.c:830`, "re-runs kvm_init() on a change, which re-sends the resolution". |
| `vnc` | Shift and button bookkeeping over lost connections, backoff and change of viewers; input comes back. |
| `cg` | Exact flags, shortcuts in order, nothing latched after the queue drained, drags of buttons that are down. |
| `relay` | Two streams that set up, receive, type, break and clean up in any order. |
| `startup` | Refresh and repair under logins, an update, edits that fail or tear the plist, crashes and reboots. In the behaviours whose edits succeed, without crashes and without a LoginWindow agent, the job ends up loaded and unconditional, over updates and reboots; it is never left unloaded with nobody to load it (`Repaired`). |
| `install` | Installs and uninstalls in any order, installs that stop anywhere: what was there before is recorded once and restored; success means the new copy, an agent that runs it, one password and the policy, now and after a reboot. |
| `frames` | Reads of every length, frames from a header alone to the whole buffer, malformed headers, ends and evictions anywhere: `HandlesStream`, the refinement of `FrameStream`, and `HandledInTime`, its liveness (a frame that has arrived is handled, an end is noticed). |
| `displays` | A display plugged in, unplugged, mirrored, the main one too, with two requests of the viewer at any moment: `NumberMeansScreen`, `ViewerFollows`. |
| `perms` | The walkthrough in a terminal and with dialogs, permissions given and taken back meanwhile, an agent that is late, dies or is not there: `Askable`, `ReportTrue`, `WalkEnds`. |

Every property of a passing run has a mutant in `PROJECT.json`, a plausible bug
in one mapped definition under which TLC finds the property violated.

### Bounds, and why they are enough

- `session*`: two connections (one served, one that replaces it, the first
  coming back never: descriptors are not reused), one real size beside "no
  display" (a change of size is size, none, size; a different size adds no
  transition, since geometries are only compared), one tile (what a frame may be
  cut before, at and after), one frame per viewer, a write buffer of one, a
  backlog of one. The theorems hold for all of these. `session_told` needs one
  connection and two sizes, the one that the display leaves and the one that it
  takes; with one size and two connections it is violated as well, since an
  eviction zeroes the screen (948) and a REFRESH then builds 0x0.
- `vnc`: two viewers, one key whose keysym depends on Shift and one whose does
  not, one button, a backoff of two ticks (before, at and after it).
- `cg`: two modifiers with a flag each, a letter, the right button (the one
  that a left default would get wrong), two slots, which is the least in which
  events can overtake one another.
- `relay`: two streams (an old and a new one), two uids, two attempts, one poll.
- `install`: three scripts, so that there are a first install, another that
  stops or finishes over it, and an uninstall, or an install after an
  uninstall; two builds, so that the old one can be left behind.
- `frames`: a header of 2 bytes, a buffer of 4, and frames of 2, 3 and 4: a
  header alone, a body, the whole buffer; claimed sizes of 0, 1 and 5, one on
  each side of what can be consumed; three frames, so that one ends the buffer,
  one is cut by it and one follows; two viewers.
- `displays`: two displays of different position and scale whose pictures have
  the same size (the case that the comparison of sizes alone misses), four
  arrangements with each of them alone, side by side and mirrored, one change,
  two requests, so that one falls into the other thread's rebuilding and one
  behind it; room for three displays, less than two rebuildings at once want.
- `perms`: three quiet polls with the refresh at the second (before, at and
  after it), two answers that go round, two changes of permissions.
- `startup`: one user, who logs out and in again, one update, two faults, two
  helpers at once. `Users` is that small because the run also checks a liveness
  property; `CopyWhole` and `ConsoleAgentInStep` are proved for any number of
  users, builds and faults, and `Repaired` does not depend on who is logged in.

### Fairness

- Both threads of the agent are scheduled (`ThreadFairness`: weak fairness of
  every step a thread can take; a step that waits, for the lock or for room in a
  peer's buffer, is not enabled and is owed nothing). `ReadingPeers` is an
  assumption about viewers, not about the code, and `session_stalled` drops it.
  `WorkingCapture` is strong fairness of an image of the display's size, since
  captures may fail now and then; no fairness is assumed of peers connecting,
  closing or sending.
- `vnc`: the viewer goes on typing, time passes, and a connection attempt that
  can succeed again and again does some time (strong, for attempts alternate
  with waits).
- `frames`: the reader's thread runs; the viewer owes nothing. `displays`: both
  threads run; nobody has to ask. `perms`: the walkthrough's process runs and a
  dialog gives up after ten minutes (`giving up after 600`); of the agent,
  nothing is assumed, and nobody has to answer in a terminal, so `WalkEnds` is
  about runs without one.
- `relay`: the daemon's thread runs. `startup`: the daemon, its helpers and
  launchd's restart of the daemon run; nobody has to log in or update.

### Disagreements met while modelling that no run shows

They are kept out of the runs' instances as said. The first two were found by TLC
in `KvmSession`; adding the named property to a configuration of `MCKvmSession`
shows them.

- The input thread zeroes `SCREEN_WIDTH` and `SCREEN_HEIGHT` at an eviction
  (`mac_kvm.c:948`), which may be between main's size test (1353) and
  `getScreenBuffer` (1369), against the comment at 1332, "Never hand
  getScreenBuffer an image that disagrees with the geometry the frame was sized
  for." (`ImageMatchesFrame`.)
- The reset path accepts the next viewer (1129) without
  `kvm_reset_modifiers`, which only the eviction calls (945): a modifier held by the viewer that left is applied to what the next one types,
  against the comment at `mac_events.c:181`, "Called when a viewer (re)attaches
  so a modifier held at disconnect can't stay latched into the next session."
  (`NoForeignModifier`.)
- Two rebuildings of the display list that overlap leave displays in it twice,
  or one that is gone: a number that was not offered can then be selected
  (811), a selection be reset to 1 (269), and a display that is gone stay
  selected, with a size of 0 and no picture. `ViewerFollows` promises less where
  they overlapped.
- An input thread that rebuilds the list in the middle of `kvm_init` leaves main
  with the origin of another selection than the size it measured, or the viewer
  told another selection than it sees; both last until something else changes
  the size (613, 449). `ClicksFollow` and `ButtonFollows` are promised when
  nothing came in between.
- The origin is read only when the size or the display number changes (1186):
  after displays are rearranged, or the main one is unplugged while another is
  viewed, clicks land at the old origin. A display plugged in while ALL is
  viewed is not noticed by a union of the list's displays.
- The list has room for 16 displays, and of more the system returns any: the
  number then changes its meaning in an arrangement that stays, against the
  comment at 243, "Sorting makes index N always mean the same physical screen for
  as long as the layout is unchanged". Section 4 names this as a hypothesis.
- `kvm_display_scale` keeps the scale of the last display asked (295) over a
  change of that display's mode, against the comment at 289, that it "depends on
  nothing but the display being asked about". The instance's displays keep
  their scale.
- At the 45th quiet poll `perm_refresh_agent_status` opens a session for either
  permission (2214): during step 1 it raises the Screen Recording prompt and
  restarts the agent while Accessibility is pending, against the comment at
  1823, "Steps are also sequential and user-paced", and the dialog's "Nothing
  else will appear until you are done" (2288).
- A grant between the agent's first test of Accessibility (`login-kvm.patch:170`)
  and the second (`mac_kvm.c:2742`) is logged as missing and watched by nobody
  until the agent is started again.
- Until the agent has written to it, its log is the one of an earlier run: a
  permission that was taken back since is "already granted" (2273) and its step
  does not ask. `ReportTrue` is about the report, which a refresh precedes.
- Comments say that closing a session makes the agent exit (1912, 1932); it
  accepts the next connection (1129), unless a write meets the closed one first.

- `kvm_reset_modifiers` does not clear `g_vnc_shift_down` (`mac_events.c:196`,
  222): over the VNC path a Shift survives the change of viewers. `NoPhantom`
  is stated over all viewers for that reason.
- The two Command keys share one flag (`mac_events.c:107`): releasing one
  drops it for the other. `cg` has one key per flag.
- Left and right share one click count (`mac_events.c:1581`): a second button
  pressed between Down and Up changes the Up's click state.
- A child spawned by the legacy path is forgotten only by `kvm_cleanup`
  (`mac_kvm.c:1740`): when a later stream's socket breaks, its input goes there.
- `kvm_cleanup` works on the globals (`mac_kvm.c:1739`): called for a stream that
  ended after another one had set up, it closes that one's connection. `Cleanup`
  does so in the model; no property of `relay` says that it must not.
- A rename that fails, or a crash after the agents were stopped, leaves the
  console user's agent booted out (`mac_kvm.c:2611`); launchd may relaunch the
  LoginWindow agent before the rename (2600), on the old build.
- A crash between an edit that tears the plist and the lint lets the next start
  copy the torn plist over the backup (`mac_kvm.c:2483`); edits that fail make
  every start reload the job (2485); a crash between the edit and the fork
  (2489-2505), or the LoginWindow agent killed there by the daemon's refresh,
  leaves the right plist and a job that is never reloaded. `Repaired` is
  therefore about successful edits, no crashes and no LoginWindow agent.
- The LoginWindow agent is root and repairs the plist too (`mac_kvm.c:2460`),
  against the comment at `login-kvm.patch:74`, "Both no-op unless this is the
  root daemon".
- `uninstall.sh` removes `prestate.env` with the program (69) before it restores
  (85-95). Stopped in between and run again it has no record: Screen Sharing
  stays on. Without a record, a second uninstall too, it switches legacy VNC off
  even when it was on before (85). With `MayStop` holding `"uninstall"` TLC
  finds `Undone` violated; `install` stops installs only, and `Undone` asks for
  the exact legacy setting only when a record was read.
- A pf ruleset that does not parse is reported as "leaving pf untouched"
  (`meshinstall.sh:333`), but the earlier install's ruleset file has been
  overwritten and removed: the next boot loads the stock rules. `PolicyKept` is
  about policies that were accepted.
- A reinstall over a running daemon leaves it on the old build until it
  restarts (`launchctl load` of a loaded job, 343), as it does the agent when
  the walkthrough is skipped; `InstallTookEffect` is about installs with it.
- `uninstall.sh` does not remove the package's one-shot walkthrough job
  (`postinstall:84`), only the script that it runs.

## 4. Proofs

`KvmSessionProofs` proves, for all connections, sizes, tiles and bounds that
satisfy `SessionAssumption`, from `Spec`:

| Theorem | States |
|---|---|
| `SessionTypeOK` | `TypeOK` |
| `SessionOneViewer` | `OneViewer` |
| `SessionResetOwnsDescriptor` | `ResetOwnsDescriptor` |
| `SessionCachedTileDelivered` | `CachedTileDelivered` |
| `SessionFramesWhole` | `FramesWhole` |
| `SessionServesOneSlot` | `ServesOneSlot`: every step is a step of `ViewerSlot` or a stutter |

`TypeOK` is not inductive: that `agentfd` is a connection when the reader polls
it follows from where both threads are. `TypeInv == TypeOK /\ Control /\
Pending` adds `Control`, which relates the two threads' places, `agentfd` and
`g_resetipc` (there is no reader during the accept and the spawn, no descriptor
only there or at the join, and a reset is pending only once the reader is gone),
and `Pending` (a message or a tile is held exactly where a thread is about to
deliver it). `SessionInv == TypeInv /\ Descriptor` adds that an open connection
is the one that `KVM_AGENT_FD` names, that the one named is open except between
main's close and its next accept, and that none is open there: `OneViewer` and
`ResetOwnsDescriptor` follow from it, and it is what shows that main's unlocked
`close` and the reader's never meet. `CachedTileDelivered` is then
inductive relative to `SessionInv`, for a reset clears the geometry before a
new viewer is served and an eviction owes `EvictReinit`. For `FramesWhole`,
`FramesInv` counts the chunks of a connection that the reader has taken in
(`Taken`): none unless it is served (`Streams`), so also none of the one that an
eviction takes from the listener's queue, which waits there once (`Waiting`);
and what is left in the reader's buffer is the end of those taken, an even
number of chunks behind the start of the stream, so it begins at a header
(`Buffer`). Between an eviction and `EvictReinit` the buffer is the old
viewer's and nothing is read into it. The refinement maps
`conn` and `backlog` to themselves; its step proof uses `OneViewer` for the
guard of `Serve` and `Drop`.

`OneViewer` is not in a run of its own: `ServesOneSlot` is checked instead.

`AgentProofs` proves about `FrameReader`, for every header and buffer size,
every set of frame sizes from a header to the buffer and every bound
(`ReaderAssumption`):

| Theorem | States |
|---|---|
| `ReaderTypeOK` | `TypeOK`: what is in the buffer never passes its end |
| `ReaderHandlesStream` | `HandlesStream`: every step is a step of `FrameStream` or a stutter |

The frames sent divide the connection's bytes at edges (`Edge(k)`, the byte
behind the first `k`). `ReaderInv` says that sizes are in order and edges rise
(`Edges`), that what the viewer is writing begins at the last of them
(`Writing`), that the reader stands at the edge behind what it has handled
until a malformed header is in front of it (`AtEdge`), and that at a `poll` with
frames yet to come the buffer holds less than the next (`RoomForNext`). From
`AtEdge` a header that the reader looks at is the next frame's (`NextFrame`),
which gives `Handle`; from `RoomForNext` a read that returns 0 is behind the
last frame (`NothingMeansEnd`), which gives `GiveUp`.

About `Displays` it proves, for all displays, arrangements, numbers and bounds
(`DisplaysAssumption`):

| Theorem | States | For |
|---|---|---|
| `DisplaysTypes` | `DisplaysTypeOK` | all arrangements |
| `DisplaysNumberMeansScreen` | `NumberMeansScreen` | arrangements that the list has room for |
| `DisplaysInitCoherent` | `InitCoherent` | arrangements that the list has room for |

`OneOrder` is what the comment at 238 argues from: displays at different places
have one order (`BeforeIs`), so an arrangement has one sorted list, whatever
order the system lists it in. It compares two such lists at the first position
where they differ, which exists because a finite set of positions has a least
element (`Extreme`, from the well-foundedness of the subsets of a finite set);
the same lemma gives the bounds and the scale of a combined desktop their type
(`WidthIs`, `ScaleIs`). `DisplaysInv` then follows a thread through its
rebuilding: unless something came in between (`seen`), the list is empty when it
is filled, lists what is shown when it is ordered, and is sorted when it is
advertised or a number is looked up in it (`Rebuilt`); what the viewer was told
is such a list as long as `trust` says so (`ToldSorted`). The steps of the other
thread do not disturb this, because two threads that rebuild at once are both
`Crossed`. `InitCoherent` says that a `kvm_init` which nothing disturbs leaves the
display number, the origin and the sizes of one selection, although its second
refresh builds the list again after they were taken: `Stages` records what it has
found after each step, and across that refresh there is a sorted list of which all
of it is true, by `OneOrder` the one that `Order` puts back. It is not in a run of
its own (`ViewerFollows` is checked instead); TLC finds it and `Stages` true on the
instance of the `displays` run. `RoomForAll`, the hypothesis, is needed: with more displays than
`KVM_MAX_DISPLAYS` (16) `Fill` keeps any of them, and TLC finds the property
violated with three displays in a list for two.

`VncInputProofs` proves `VncTypeOK`, `VncTracksServer` and `VncNoPhantom` for
all keys, buttons, viewers and backoffs. A constant's assumption was added:
a button is not a key. The invariant is the conjunction of the three properties
and `StartsNeutral` (without a session nothing is tracked, and the link that
comes up has been sent nothing): every write either reaches the server and is
tracked, or ends the session and with it what was tracked (`WriteOutcome`).

`CGInputProofs` proves, for all keys, flags, buttons and lengths of the queue:

| Theorem | States | For |
|---|---|---|
| `CGTypeOK` | `TypeOK` | all keyboards |
| `CGArrivesInState` | `ArrivesInState` | all keyboards |
| `CGFlagsExact` | `FlagsExact` | no two modifiers that share a flag |
| `CGNothingLatched` | `NothingLatched` | no two modifiers that share a flag |

The invariant is about what the events on their way will do: `Leads` says that
`q \o out` takes the system step by step from what it holds (`os`, `osBtn`) to
what the agent believes (`source`, `btn`), and that each event fits the state it
will find. The states in between are a witness, not a recursive definition, so
that no induction is needed: a post extends it at the end (`LeadsOn`), a
delivery takes its first step (`LeadsFirst`), and the releases extend it to the
state without a modifier, in whatever order they are made, because every flag is
in it (`ReleaseOrder`, by the library's theorems on cardinality). `StateInv`
adds that the source is empty before the first post, which sends releases first.
`FlagEach`, the hypothesis of the last two, is what the code needs: the two
Command keys share a flag, and with both held the release of one takes the flag
from the other (`g_modFlags` is a set of flags, not of keys). The lemma
`RecordTrue` says what remains without it: the drained queue leaves the system
with the flags of the agent's record. `FlagsExact` needs no hypothesis about
lost events, the other two end where one is lost.

`KvmRelayProofs` proves, for all streams, users, attempts and polls:

| Theorem | States |
|---|---|
| `RelayTypeOK` | `TypeOK` |
| `RelayOneConnection` | `OneConnection` |
| `RelayOwnPicture` | `OwnPicture` |
| `RelayInputServed` | `InputServed` |

`RelayInv` adds to `TypeOK` and `OneConnection` that a setup in progress is of a
stream that has none and that the socket's globals are clear meanwhile
(`SetupInv`), and that what the globals name belongs to an open stream of the
right kind (`GlobalsInv`). The two action properties follow from it at the
handlers that write.

`DaemonStartupProofs` proves `StartupTypeOK`, `StartupCopyWhole` and
`StartupAgentInStep` (`ConsoleAgentInStep`) for all users, builds, faults and
helpers and every choice of edits and faults. None of the three is inductive.
`WholeToRename` says that from the end of the write to the rename the new file
is whole; `AquaOfUser` that no agent of a user runs at the login window; and
`RestartInv` that at the last step the console user is the one about to be
restarted, or runs nothing older. It holds because the user is asked for again
after the stop: an agent started since executes the new copy.

`PermWalkProofs` proves `WalkTypeOK`, `WalkAskable` and `WalkReportTrue` for any
number of polls, answers and changes. `WalkInv` follows a refresh through its
stages: where it may return to (`BackInv`), that a session is only held in
`hold` (`ConnInv`), what tccd has recorded of an agent that came so far
(`ListedInv`), that this is so whenever the operator is asked or about to be
(`AskedInv`), and what the session and the restart have brought into the log
(`LogInv`); each of the last two only if no wait ended too early, or nothing
was changed meanwhile.

`InstallStateProofs` proves, for any number of builds and scripts:

| Theorem | States | For |
|---|---|---|
| `InstallTypeOK` | `TypeOK` | all scripts that may stop |
| `InstallSucceeds` | `InstallTookEffect` | all scripts that may stop |
| `InstallPolicyKept` | `PolicyKept` | all scripts that may stop |
| `InstallUndoneAtEnd` | `Undone` | uninstalls that run to their end |

`InstallInv` says step by step what an install has established by then
(`BuildsInv`, `RunsInv`, `AccessInv`, `PolicyInv`), and that nothing around the
scripts takes it back while the install's success is the last result.
`UndoneInv` does the same for an uninstall (`GoneInv`) and says what a script
that stops leaves: a record of what the owner had, with nothing switched off,
or services that are as before (`RecordInv`). The last theorem's hypothesis,
`"uninstall" \notin MayStop`, is needed: without it TLC finds `Undone` violated
(section 3).

The inductive invariants were checked by TLC on the runs' instances before they
were proved. The assumptions on constants that the proofs use are the modules'
`ASSUME`s: sizes of bounds, and that the constants that stand for "none" are no
values.

Only model-checked:

- liveness and fairness (`LastConnectWins`, `ShutdownReleased`, `Repainted`,
  `HandledInTime`, `SetupReturns`, `Repaired`, `WalkEnds` and those of `VncInput`
  and `Displays`), which are out of the prover's reach.

## 5. Not modelled

Keymaps and HID back ends (tables), JPEG and crc (data), the RFB handshake's
bytes, dialogs, the message box module, the server and viewer patches except
what `Update` says of the self-update's restart, signing and packaging. Fast
user switching: one console user at a time. `Crash` ends the daemon between two
actions; an action is one system call or child command.

## 6. Plan

Order of work; the first twelve are done.

1. `KvmSession` with `ViewerSlot`: the agent's two threads.
2. `VncInput`, `CGInput`: the two input paths.
3. `KvmRelay`: the daemon's streams.
4. `DaemonStartup`: refresh and repair.
5. `KvmSessionProofs`: types, the descriptor, the tile cache, the frames, the
   refinement.
6. `InstallState`: installs, reinstalls, uninstalls.
7. `Displays`: list, selection, origin, scale cache.
8. `FrameReader` with `FrameStream`: the buffer at the level of bytes.
9. `PermWalk`: the walkthrough and the agent it talks to.
10. Proofs about `FrameReader`: types and the refinement of `FrameStream`.
11. Proofs about `VncInput`, `CGInput`, `KvmRelay`, `DaemonStartup`, `PermWalk`
    and `InstallState`.
12. Proofs about `Displays`: types and what a number means.
13. `InputRouter`: `CGInput` and `VncInput` behind `is_loginwindow`'s cached
    answer; a key held across a login.
14. `Clipboard`: listener, stalled client, count and text.
15. `RelaySession`: `KvmRelay` over `ViewerSlot`, end to end: the newest Desktop
    stream gets the picture.
16. `InstallState` with `DaemonStartup` over the shared staging file, and the
    package's walkthrough job.
