----------------------------- MODULE VmLifecycle ----------------------------
(***************************************************************************)
(* The life of the program: main (src/main.rs) creates the partition,      *)
(* takes the steps of GuestMemory and LinuxBoot, runs the vCPU loop        *)
(* (src/vm.rs) and drops the partition (src/partition.rs), while the stdin *)
(* thread and the console control handler (src/terminal.rs) may ask for    *)
(* the end at any time after they exist.                                   *)
(*                                                                         *)
(* Of a device only its worker thread is kept: it touches guest memory for *)
(* as long as it runs, and ends when it is told to (MmioTransport,         *)
(* BlockDevice, Console and NetWorker have the details).                   *)
(*                                                                         *)
(* An operator named X_<fault> is a deliberately faulty variant of X that  *)
(* no specification uses: some property must tell it apart from X.         *)
(***************************************************************************)
EXTENDS LinuxBoot

CONSTANTS Workers \* the handlers whose device has a worker thread

Callers == {"stdin", "ctrl"}

VARIABLES main,     \* where the main thread is
          held,     \* host resources that are held
          console,  \* HostConsole: not yet made, made, dropped
          RUNNING, CANCEL_HANDLE,
          canceling,  \* caller -> how far its call of cancel_vp is
          cancel_run, \* external: the hypervisor's request to end the current or next run
          running,  \* workers that run
          stopping, \* workers that have been signalled to stop
          joining   \* the worker that main waits for

life == <<main, held, console, RUNNING, CANCEL_HANDLE, canceling, cancel_run, running, stopping, joining>>
life_vars == <<all_vars, life>>

NoWorker == "none"

-----------------------------------------------------------------------------
(* main, until the machine runs. *)

\* Partition::new.  If the emulator cannot be created the partition handle has no
\* owner yet and stays.
PartitionNew ==
  /\ main = "new"
  /\ \/ main' = "ended" /\ held' \in {{}, {"partition"}} /\ UNCHANGED CANCEL_HANDLE
     \/ main' = "setup" /\ held' = {"partition", "emulator"} /\ CANCEL_HANDLE' = TRUE
  /\ UNCHANGED <<all_vars, console, RUNNING, canceling, cancel_run, running, stopping, joining>>

\* configure, setup and create_vp; each can fail.
Setup ==
  /\ main = "setup"
  /\ \/ main' = "drop" /\ UNCHANGED held
     \/ main' = "build" /\ held' = held \union {"vp"}
  /\ UNCHANGED <<all_vars, console, RUNNING, CANCEL_HANDLE, canceling, cancel_run, running, stopping,
                 joining>>

\* What an allocation leaves behind: memory and a mapping, nothing if VirtualAlloc
\* fails, or only the memory if the first WHvMapGpaRange does.
Allocated == IF mapped' # {} THEN {{"memory", "mapping"}} ELSE {{}, {"memory"}}

\* The steps of the build; HostConsole comes between memory and devices, and a
\* failure returns from main.
Build ==
  /\ main = "build"
  /\ BootNext
  /\ \E new \in IF step = "allocate" THEN Allocated ELSE {{}} : held' = held \union new
  /\ console' = IF step' = "ioapic" THEN "raw" ELSE console
  /\ main' = IF step' \in {"failed", "refused"} \/ boot' = "failed" THEN "drop"
             ELSE IF boot' = "running" THEN "loop" ELSE "build"
  /\ UNCHANGED <<RUNNING, CANCEL_HANDLE, canceling, cancel_run, running, stopping, joining>>

-----------------------------------------------------------------------------
(* vm::run. *)

\* while is_running().
RunVp ==
  /\ main = "loop"
  /\ main' = IF RUNNING THEN "guest" ELSE "drop"
  /\ UNCHANGED <<all_vars, held, console, RUNNING, CANCEL_HANDLE, canceling, cancel_run, running,
                 stopping, joining>>

\* An exit that is handled (ports, MMIO, halt, EOI, CPUID, MSRs), and one that ends
\* the loop: every other reason, a failing handler, a failing run.
Exit ==
  /\ main = "guest" /\ access = NoAccess
  /\ main' \in {"loop", "drop"}
  /\ UNCHANGED <<all_vars, held, console, RUNNING, CANCEL_HANDLE, canceling, cancel_run, running,
                 stopping, joining>>

\* The run returns with the reason Canceled.
Canceled ==
  /\ main = "guest" /\ access = NoAccess /\ cancel_run
  /\ main' = "drop" /\ cancel_run' = FALSE
  /\ UNCHANGED <<all_vars, held, console, RUNNING, CANCEL_HANDLE, canceling, running, stopping, joining>>

\* The driver sets DRIVER_OK: activate spawns the worker.
Activate(w) ==
  /\ main = "guest" /\ access = NoAccess /\ w \notin running
  /\ running' = running \union {w} /\ main' = "loop"
  /\ UNCHANGED <<all_vars, held, console, RUNNING, CANCEL_HANDLE, canceling, cancel_run, stopping,
                 joining>>

\* The driver resets the device: the vCPU thread waits for the worker.
Reset(w) ==
  /\ main = "guest" /\ access = NoAccess /\ w \in running
  /\ main' = "reset" /\ stopping' = stopping \union {w} /\ joining' = w
  /\ UNCHANGED <<all_vars, held, console, RUNNING, CANCEL_HANDLE, canceling, cancel_run, running>>

ResetDone ==
  /\ main = "reset" /\ joining \notin running
  /\ main' = "loop" /\ joining' = NoWorker
  /\ UNCHANGED <<all_vars, held, console, RUNNING, CANCEL_HANDLE, canceling, cancel_run, running,
                 stopping>>

\* Accesses through which main is not moved; an access to nothing ends the loop.
\* The layout decides them alone: they are looked at while every worker runs and
\* nobody has asked for the end.
Touch ==
  /\ main = "guest" /\ RUNNING /\ running = Workers /\ stopping = {}
  /\ Accesses
  /\ main' = IF step' = "stopped" THEN "drop" ELSE main
  /\ UNCHANGED <<held, console, RUNNING, CANCEL_HANDLE, canceling, cancel_run, running, stopping, joining>>

TouchDone ==
  /\ AccessDone
  /\ UNCHANGED <<boot_vars, life>>

-----------------------------------------------------------------------------
(* The end: HostConsole's drop, then Partition's. *)

DropConsole ==
  /\ main = "drop" /\ console = "raw"
  /\ console' = "dropped"
  /\ UNCHANGED <<all_vars, main, held, RUNNING, CANCEL_HANDLE, canceling, cancel_run, running, stopping,
                 joining>>

\* mmio_handlers.clear(), in the map's order: each device stops its worker and
\* waits for it.
StopWorker(w) ==
  /\ main = "drop" /\ console # "raw" /\ joining = NoWorker /\ w \in running
  /\ stopping' = stopping \union {w} /\ joining' = w
  /\ UNCHANGED <<all_vars, main, held, console, RUNNING, CANCEL_HANDLE, canceling, cancel_run, running>>

Joined_NoWait ==
  /\ main = "drop" /\ joining # NoWorker
  /\ joining' = NoWorker /\ main' = "release"
  /\ UNCHANGED <<all_vars, held, console, RUNNING, CANCEL_HANDLE, canceling, cancel_run, running, stopping>>

Joined ==
  /\ main = "drop" /\ joining # NoWorker /\ joining \notin running
  /\ joining' = NoWorker
  /\ UNCHANGED <<all_vars, main, held, console, RUNNING, CANCEL_HANDLE, canceling, cancel_run, running,
                 stopping>>

HandlersCleared ==
  /\ main = "drop" /\ console # "raw" /\ joining = NoWorker /\ running = {}
  /\ main' = "release"
  /\ UNCHANGED <<all_vars, held, console, RUNNING, CANCEL_HANDLE, canceling, cancel_run, running, stopping,
                 joining>>

ReleaseOrder_MemoryFirst == <<"vp", "memory", "mapping", "emulator", "partition">>

\* The order in which Drop lets go of what the partition holds.
ReleaseOrder == <<"vp", "mapping", "emulator", "partition", "memory">>

Release ==
  /\ main = "release"
  /\ \E i \in DOMAIN ReleaseOrder :
       /\ ReleaseOrder[i] \in held
       /\ \A j \in DOMAIN ReleaseOrder : j < i => ReleaseOrder[j] \notin held
       /\ held' = held \ {ReleaseOrder[i]}
  /\ UNCHANGED <<all_vars, main, console, RUNNING, CANCEL_HANDLE, canceling, cancel_run, running, stopping,
                 joining>>

Return ==
  /\ main = "release" /\ held = {}
  /\ main' = "ended"
  /\ UNCHANGED <<all_vars, held, console, RUNNING, CANCEL_HANDLE, canceling, cancel_run, running, stopping,
                 joining>>

Main ==
  \/ PartitionNew \/ Setup \/ Build
  \/ RunVp \/ Canceled \/ ResetDone \/ TouchDone
  \/ DropConsole \/ (\E w \in Workers : StopWorker(w)) \/ Joined \/ HandlersCleared
  \/ Release \/ Return

-----------------------------------------------------------------------------
(* The other threads. *)

\* The stdin thread lives as long as the process, the handler as long as HostConsole.
MayCall(c) == main # "ended" /\ (console = "raw" \/ (c = "stdin" /\ console = "dropped"))

\* cancel_vp: first the flag ...
StoreRunning(c) ==
  /\ canceling[c] = "idle" /\ MayCall(c) /\ access = NoAccess
  /\ RUNNING' = FALSE
  /\ canceling' = [canceling EXCEPT ![c] = "flagged"]
  /\ UNCHANGED <<all_vars, main, held, console, CANCEL_HANDLE, cancel_run, running, stopping, joining>>

CancelRun_Skipped(c) ==
  /\ canceling[c] = "flagged" /\ main # "ended"
  /\ canceling' = [canceling EXCEPT ![c] = "done"]
  /\ UNCHANGED <<all_vars, main, held, console, RUNNING, CANCEL_HANDLE, cancel_run, running, stopping,
                 joining>>

\* ... then, if there is a handle, the hypervisor, which ends the run or, if there
\* is none, the next one.  On a handle that is gone the call fails.
CancelRun(c) ==
  /\ canceling[c] = "flagged" /\ main # "ended"
  /\ cancel_run' = (cancel_run \/ (CANCEL_HANDLE /\ "partition" \in held))
  /\ canceling' = [canceling EXCEPT ![c] = "done"]
  /\ UNCHANGED <<all_vars, main, held, console, RUNNING, CANCEL_HANDLE, running, stopping, joining>>

\* A worker sees its stop event.
WorkerEnds(w) ==
  /\ w \in running \intersect stopping /\ main # "ended"
  /\ running' = running \ {w} /\ stopping' = stopping \ {w}
  /\ UNCHANGED <<all_vars, main, held, console, RUNNING, CANCEL_HANDLE, canceling, cancel_run, joining>>

-----------------------------------------------------------------------------

LifeInit ==
  /\ BootInit
  /\ main = "new" /\ held = {} /\ console = "none"
  /\ RUNNING = TRUE /\ CANCEL_HANDLE = FALSE
  /\ canceling = [c \in Callers |-> "idle"] /\ cancel_run = FALSE
  /\ running = {} /\ stopping = {} /\ joining = NoWorker

LifeNext ==
  \/ Main \/ Exit \/ Touch
  \/ \E w \in Workers : Activate(w) \/ Reset(w) \/ WorkerEnds(w)
  \/ \E c \in Callers : StoreRunning(c) \/ CancelRun(c)

\* The main thread runs, and so do a worker and a caller of cancel_vp once they have
\* something to do.  The guest owes no exit.
LifeFairness ==
  /\ WF_life_vars(Main)
  /\ \A w \in Workers : WF_life_vars(WorkerEnds(w))
  /\ \A c \in Callers : WF_life_vars(CancelRun(c))

LifeSpec == LifeInit /\ [][LifeNext]_life_vars /\ LifeFairness

-----------------------------------------------------------------------------
(* Properties. *)

\* Partition::drop, "ensuring no background thread is still touching guest memory":
\* memory is held for as long as a worker or the vCPU can touch it or the
\* hypervisor maps it, and the partition for as long as it has a vCPU.
MemoryOutlivesItsUsers ==
  /\ running # {} \/ main = "guest" => {"memory", "mapping", "vp"} \subseteq held
  /\ "mapping" \in held => "memory" \in held
  /\ held \intersect {"vp", "mapping"} # {} => "partition" \in held

\* However far main got, it leaves nothing behind: no resource (but for a partition
\* whose emulator could not be made), no worker, no raw console.
NothingLeftBehind ==
  main = "ended" =>
    /\ held \subseteq {"partition"} /\ (CANCEL_HANDLE => held = {})
    /\ running = {} /\ console # "raw"

\* A request to end is never lost: whenever it comes, during the boot, between the
\* loop's test of RUNNING and the run, in an exit or in a device's reset, main returns.
CancelEndsMain == \A c \in Callers : canceling[c] = "flagged" ~> main = "ended"
=============================================================================
