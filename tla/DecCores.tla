------------------------------ MODULE DecCores ------------------------------
(***************************************************************************)
(* The decoder cores without VCMD: core reservation and interrupts in the  *)
(* driver (hantro_dec.c), and the side of the DWL that uses them           *)
(* (dwl_linux_hw.c).  All decoder instances of a process share one device  *)
(* node, so one file of the driver and one listener thread.  A multi-core  *)
(* instance starts a job and goes on: the listener runs its callback,      *)
(* which releases the core.  A single-core instance waits for its job      *)
(* itself, in the driver, or for the listener's word if there is one.      *)
(*                                                                         *)
(* Scope: the interrupt build (DWL_USE_DEC_IRQ), without USE_SW_TIMEOUT,   *)
(* the watchdog and power management.  A process can end or be killed.     *)
(***************************************************************************)
EXTENDS Integers, FiniteSets

CONSTANTS
  Cores, Clients, Files, Nil,
  FileOf,      \* the process of a client: its file descriptor of the driver
  MultiCore,   \* the clients that set an interrupt callback
  Mask,        \* core_mask of a client's requests
  KillAt,      \* where a client may be when its process ends
  EarlySync    \* a single-core client may start before its process has a listener

LastCore == Cardinality(Cores) - 1

ASSUME CoresAssumption == LastCore \in Nat /\ Cores = 0 .. LastCore
ASSUME ClientsAssumption ==
  /\ IsFiniteSet(Clients) /\ IsFiniteSet(Files)
  /\ Nil \notin Clients /\ Clients \cap Files = {}
  /\ FileOf \in [Clients -> Files] /\ MultiCore \subseteq Clients
  /\ Mask \in [Clients -> (SUBSET Cores) \ {{}}]
ASSUME ScopeAssumption ==
  KillAt \subseteq {"idle", "scan", "own", "run"} /\ EarlySync \in BOOLEAN

VARIABLES
  dec_core_sem,  \* permits, one per core at the start
  core_owner,    \* dec_inst of each core's owner; filp is its file
  dec_irq,       \* cores whose interrupt nobody has taken yet
  asic,          \* each core: its state, and whose job it runs or ran
  client,        \* each client's thread: where it is, core id, wake-up flag
  dev            \* each file's device node: listener thread, counters, semaphores

vars == <<dec_core_sem, core_owner, dec_irq, asic, client, dev>>

OffAsic == [st |-> "off", by |-> Nil]
IdleClient == [at |-> "idle", core |-> 0, woken |-> FALSE]
\* jobs is job_cnt - job_done_cnt; cb_func the cores that have a callback.
NewDev == [listener |-> "none", id |-> 0, jobs |-> 0, cb_func |-> {},
           sc_dec_rdy_sem |-> [k \in Cores |-> 0]]

Init ==
  /\ dec_core_sem = Cardinality(Cores)
  /\ core_owner = [k \in Cores |-> Nil]
  /\ dec_irq = {}
  /\ asic = [k \in Cores |-> OffAsic]
  /\ client = [c \in Clients |-> IdleClient]
  /\ dev = [f \in Files |-> NewDev]

FreeCores == {k \in Cores : core_owner[k] = Nil}
OwnedBy(f) == {k \in Cores \ FreeCores : FileOf[core_owner[k]] = f}
ClientsOf(f) == {c \in Clients : FileOf[c] = f}
HasListener(f) == dev[f].listener # "none"

-----------------------------------------------------------------------------
(* ReserveDecoder *)

ReserveDown_TryLock(c) ==
  /\ client[c].at = "idle"
  /\ c \in MultiCore \/ EarlySync \/ HasListener(FileOf[c])
       \/ ClientsOf(FileOf[c]) \cap MultiCore = {}
  /\ dec_core_sem' = dec_core_sem - 1
  /\ client' = [client EXCEPT ![c] = [at |-> "scan", core |-> 0, woken |-> TRUE]]
  /\ UNCHANGED <<core_owner, dec_irq, asic, dev>>

\* down_interruptible: a permit stands for some free core.
ReserveDown(c) ==
  /\ client[c].at = "idle" /\ dec_core_sem > 0
  /\ c \in MultiCore \/ EarlySync \/ HasListener(FileOf[c])
       \/ ClientsOf(FileOf[c]) \cap MultiCore = {}
  /\ dec_core_sem' = dec_core_sem - 1
  /\ client' = [client EXCEPT ![c] = [at |-> "scan", core |-> 0, woken |-> TRUE]]
  /\ UNCHANGED <<core_owner, dec_irq, asic, dev>>

GetDecCore_SleepsAtOnce(c) ==
  LET k == client[c].core
      f == FileOf[c]
  IN /\ client[c].at = "scan"
     /\ IF k \in Mask[c] \cap FreeCores
        THEN /\ core_owner' = [core_owner EXCEPT ![k] = c]
             /\ client' = [client EXCEPT ![c].at = "own", ![c].woken = FALSE]
             /\ dev' = [dev EXCEPT
                  ![f].cb_func = @ \ {k},
                  ![f].sc_dec_rdy_sem[k] = IF @ > 0 THEN @ - 1 ELSE 0]
        ELSE /\ client' = [client EXCEPT ![c] =
                  IF k < LastCore THEN [@ EXCEPT !.core = k + 1]
                  ELSE [at |-> "asleep",
                        core |-> 0, woken |-> FALSE]]
             /\ UNCHANGED <<core_owner, dev>>
     /\ UNCHANGED <<dec_core_sem, dec_irq, asic>>

\* One GetDecCore of the scan over the cores, one section of owner_lock.  A scan
\* that found none goes to sleep on hw_queue, unless a wake-up came while it
\* ran; the first scan of wait_event is always followed by another.  Back in
\* DWLReserveHw the core's callback and semaphore are reset.
GetDecCore(c) ==
  LET k == client[c].core
      f == FileOf[c]
  IN /\ client[c].at = "scan"
     /\ IF k \in Mask[c] \cap FreeCores
        THEN /\ core_owner' = [core_owner EXCEPT ![k] = c]
             /\ client' = [client EXCEPT ![c].at = "own", ![c].woken = FALSE]
             /\ dev' = [dev EXCEPT
                  ![f].cb_func = @ \ {k},
                  ![f].sc_dec_rdy_sem[k] = IF @ > 0 THEN @ - 1 ELSE 0]
        ELSE /\ client' = [client EXCEPT ![c] =
                  IF k < LastCore THEN [@ EXCEPT !.core = k + 1]
                  ELSE [at |-> IF @.woken THEN "scan" ELSE "asleep",
                        core |-> 0, woken |-> FALSE]]
             /\ UNCHANGED <<core_owner, dev>>
     /\ UNCHANGED <<dec_core_sem, dec_irq, asic>>

-----------------------------------------------------------------------------
(* ReleaseDecoder, in two parts *)

\* A core still enabled is aborted with its interrupt disabled; one that has ended
\* keeps its status.  Then, under owner_lock, the owner and dec_irq are cleared.
Disown(k) ==
  /\ asic' = [asic EXCEPT ![k] = IF @.st = "irq" THEN @ ELSE OffAsic]
  /\ core_owner' = [core_owner EXCEPT ![k] = Nil]
  /\ dec_irq' = dec_irq \ {k}

\* wake_up_interruptible_all(hw_queue)
WakeAll(cl) ==
  [c \in Clients |->
     CASE cl[c].at = "asleep" -> [cl[c] EXCEPT !.at = "scan"]
       [] cl[c].at = "scan" -> [cl[c] EXCEPT !.woken = TRUE]
       [] OTHER -> cl[c]]

\* up(dec_core_sem) and the wake-up, with cl the clients otherwise.
UpAndWake(cl) ==
  /\ dec_core_sem' = dec_core_sem + 1
  /\ client' = WakeAll(cl)

-----------------------------------------------------------------------------
(* A client's job: DWLSetIRQCallback, DWLEnableHw, DWLWaitHwReady, DWLReleaseHw *)

\* The first callback of a process creates its listener thread.
SetIRQCallback(c) ==
  LET f == FileOf[c] IN
  /\ client[c].at = "own" /\ c \in MultiCore
  /\ client' = [client EXCEPT ![c].at = "set"]
  /\ dev' = [dev EXCEPT
       ![f].cb_func = @ \cup {client[c].core},
       ![f].listener = IF @ = "none" THEN "loop" ELSE @]
  /\ UNCHANGED <<dec_core_sem, core_owner, dec_irq, asic>>

\* PUSH_REG starts the core ...
EnableHw(c) ==
  /\ client[c].at = IF c \in MultiCore THEN "set" ELSE "own"
  /\ asic' = [asic EXCEPT ![client[c].core] = [st |-> "run", by |-> c]]
  /\ client' = [client EXCEPT ![c].at = "pushed"]
  /\ UNCHANGED <<dec_core_sem, core_owner, dec_irq, dev>>

CountJob_OnlyCallbacks(c) ==
  LET f == FileOf[c] IN
  /\ client[c].at = "pushed"
  /\ dev' = [dev EXCEPT ![f].jobs = IF c \in MultiCore THEN @ + 1 ELSE @]
  /\ client' = [client EXCEPT ![c] = IF c \in MultiCore THEN IdleClient
                                     ELSE [@ EXCEPT !.at = "enabled"]]
  /\ UNCHANGED <<dec_core_sem, core_owner, dec_irq, asic>>

\* ... and job_cnt counts the job afterwards, if there is a listener.
CountJob(c) ==
  LET f == FileOf[c] IN
  /\ client[c].at = "pushed"
  /\ dev' = [dev EXCEPT ![f].jobs = IF HasListener(f) THEN @ + 1 ELSE @]
  /\ client' = [client EXCEPT ![c] = IF c \in MultiCore THEN IdleClient
                                     ELSE [@ EXCEPT !.at = "enabled"]]
  /\ UNCHANGED <<dec_core_sem, core_owner, dec_irq, asic>>

WaitHwReady_InDriver(c) ==
  /\ client[c].at = "enabled"
  /\ client' = [client EXCEPT ![c].at = "decwait"]
  /\ UNCHANGED <<dec_core_sem, core_owner, dec_irq, asic, dev>>

WaitHwReady(c) ==
  /\ client[c].at = "enabled"
  /\ client' = [client EXCEPT ![c].at =
                  IF HasListener(FileOf[c]) THEN "semwait" ELSE "decwait"]
  /\ UNCHANGED <<dec_core_sem, core_owner, dec_irq, asic, dev>>

\* WaitDecReadyAndRefreshRegs: CheckDecIrq takes the core's interrupt.  (The
\* abort in DWLProcessHwAsicStatus is for a core that still runs: ReportIsTrue.)
DecWait(c) ==
  /\ client[c].at = "decwait" /\ client[c].core \in dec_irq
  /\ dec_irq' = dec_irq \ {client[c].core}
  /\ client' = [client EXCEPT ![c].at = "ready"]
  /\ UNCHANGED <<dec_core_sem, core_owner, asic, dev>>

SemWait(c) ==
  LET f == FileOf[c]
      k == client[c].core
  IN /\ client[c].at = "semwait" /\ dev[f].sc_dec_rdy_sem[k] > 0
     /\ dev' = [dev EXCEPT ![f].sc_dec_rdy_sem[k] = @ - 1]
     /\ client' = [client EXCEPT ![c].at = "ready"]
     /\ UNCHANGED <<dec_core_sem, core_owner, dec_irq, asic>>

\* The DEC_RELEASE call: its test of filp, without the lock, and Disown.
ReleaseHw(c) ==
  /\ client[c].at = "ready" /\ client[c].core \in OwnedBy(FileOf[c])
  /\ Disown(client[c].core)
  /\ client' = [client EXCEPT ![c].at = "up"]
  /\ UNCHANGED <<dec_core_sem, dev>>

Released(c) ==
  /\ client[c].at = "up"
  /\ UpAndWake([client EXCEPT ![c] = IdleClient])
  /\ UNCHANGED <<core_owner, dec_irq, asic, dev>>

-----------------------------------------------------------------------------
(* The hardware, and hantrodec_isr *)

HwEnd(k) ==
  /\ asic[k].st = "run"
  /\ asic' = [asic EXCEPT ![k].st = "irq"]
  /\ UNCHANGED <<dec_core_sem, core_owner, dec_irq, client, dev>>

Isr_KeepsStatus ==
  LET raised == {k \in Cores : asic[k].st = "irq"} IN
  /\ raised # {}
  /\ dec_irq' = dec_irq \cup raised
  /\ UNCHANGED <<dec_core_sem, core_owner, asic, client, dev>>

\* One interrupt serves every core whose status has the bit.
Isr ==
  LET raised == {k \in Cores : asic[k].st = "irq"} IN
  /\ raised # {}
  /\ dec_irq' = dec_irq \cup raised
  /\ asic' = [k \in Cores |-> IF k \in raised THEN [asic[k] EXCEPT !.st = "done"]
                                              ELSE asic[k]]
  /\ UNCHANGED <<dec_core_sem, core_owner, client, dev>>

-----------------------------------------------------------------------------
(* ThreadMCListener *)

\* CORE_WAIT, only while a counted job is not done: CheckCoreIrq takes the
\* interrupt of a core of the file, clears those of cores without owner that it
\* meets before, and job_done_cnt counts it.  The scan locks core by core, so
\* it need not find the lowest.  (A file without any core would get an id that
\* was never written: JobCountExact.  Without a job the thread spins.)
CoreWait(f, k) ==
  /\ dev[f].listener = "loop" /\ dev[f].jobs > 0
  /\ k \in dec_irq \cap OwnedBy(f)
  /\ dec_irq' = dec_irq \ ({k} \cup {z \in FreeCores : z < k})
  /\ dev' = [dev EXCEPT ![f].listener = "got", ![f].id = k, ![f].jobs = @ - 1]
  /\ UNCHANGED <<dec_core_sem, core_owner, asic, client>>

\* A callback, or a word to the client that waits.
Dispatch(f) ==
  LET k == dev[f].id IN
  /\ dev[f].listener = "got"
  /\ dev' = IF k \in dev[f].cb_func
            THEN [dev EXCEPT ![f].listener = "callback"]
            ELSE [dev EXCEPT ![f].listener = "loop", ![f].id = 0,
                             ![f].sc_dec_rdy_sem[k] = @ + 1]
  /\ UNCHANGED <<dec_core_sem, core_owner, dec_irq, asic, client>>

\* The end of every callback (HevcMCHwRdyCallback): DWLReleaseHw.
CallbackReleases(f) ==
  /\ dev[f].listener = "callback" /\ dev[f].id \in OwnedBy(f)
  /\ Disown(dev[f].id)
  /\ dev' = [dev EXCEPT ![f].listener = "up"]
  /\ UNCHANGED <<dec_core_sem, client>>

CallbackDone(f) ==
  /\ dev[f].listener = "up"
  /\ UpAndWake(client)
  /\ dev' = [dev EXCEPT ![f].listener = "loop", ![f].id = 0]
  /\ UNCHANGED <<core_owner, dec_irq, asic>>

-----------------------------------------------------------------------------
(* hantrodec_release: the process exits or is killed *)

Stage(c) ==
  CASE client[c].at = "idle" -> "idle"
    [] client[c].at \in {"scan", "asleep"} -> "scan"
    [] client[c].at \in {"own", "set"} -> "own"
    [] OTHER -> "run"

\* The last reference to the file goes: no thread is inside a release.
CloseFile(f) ==
  /\ dev[f].listener \in {"none", "loop", "got", "callback"}
  /\ \A c \in ClientsOf(f) : Stage(c) \in KillAt /\ client[c].at \notin {"up", "dead"}
  /\ "run" \notin KillAt => \A k \in OwnedBy(f) : asic[k].st = "off"
  /\ client' = [c \in Clients |-> IF FileOf[c] = f
                                  THEN [IdleClient EXCEPT !.at = "dead"]
                                  ELSE client[c]]
  /\ dev' = [dev EXCEPT ![f] = [NewDev EXCEPT !.listener = "close"]]
  /\ UNCHANGED <<dec_core_sem, core_owner, dec_irq, asic>>

CloseCore_KeepsPermit(f) ==
  LET n == dev[f].id IN
  /\ dev[f].listener = "close"
  /\ IF n \in OwnedBy(f)
     THEN /\ Disown(n)
          /\ dev' = [dev EXCEPT ![f].id = IF n < LastCore THEN n + 1 ELSE n]
          /\ UNCHANGED client
     ELSE /\ IF n < LastCore
             THEN dev' = [dev EXCEPT ![f].id = n + 1] /\ UNCHANGED client
             ELSE /\ dev' = [dev EXCEPT ![f] = NewDev]
                  /\ client' = [c \in Clients |-> IF FileOf[c] = f THEN IdleClient
                                                                   ELSE client[c]]
          /\ UNCHANGED <<core_owner, dec_irq, asic>>
  /\ UNCHANGED dec_core_sem

\* One turn of the loop over the cores, and a new process after the last.
CloseCore(f) ==
  LET n == dev[f].id IN
  /\ dev[f].listener = "close"
  /\ IF n \in OwnedBy(f)
     THEN /\ Disown(n)
          /\ dev' = [dev EXCEPT ![f].listener = "closeup"]
          /\ UNCHANGED client
     ELSE /\ IF n < LastCore
             THEN dev' = [dev EXCEPT ![f].id = n + 1] /\ UNCHANGED client
             ELSE /\ dev' = [dev EXCEPT ![f] = NewDev]
                  /\ client' = [c \in Clients |-> IF FileOf[c] = f THEN IdleClient
                                                                   ELSE client[c]]
          /\ UNCHANGED <<core_owner, dec_irq, asic>>
  /\ UNCHANGED dec_core_sem

CloseCoreReleased(f) ==
  /\ dev[f].listener = "closeup"
  /\ UpAndWake(client)
  /\ dev' = [dev EXCEPT ![f].listener = "close"]
  /\ UNCHANGED <<core_owner, dec_irq, asic>>

-----------------------------------------------------------------------------
ClientStep(c) ==
  \/ GetDecCore(c) \/ SetIRQCallback(c) \/ EnableHw(c) \/ CountJob(c)
  \/ WaitHwReady(c) \/ DecWait(c) \/ SemWait(c) \/ ReleaseHw(c) \/ Released(c)

DeviceStep(f) ==
  \/ Dispatch(f) \/ CallbackReleases(f) \/ CallbackDone(f)
  \/ CloseCore(f) \/ CloseCoreReleased(f)

Next ==
  \/ \E c \in Clients : ReserveDown(c) \/ ClientStep(c)
  \/ \E k \in Cores : HwEnd(k)
  \/ Isr
  \/ \E f \in Files : DeviceStep(f) \/ \E k \in Cores : CoreWait(f, k)
  \/ \E f \in Files : CloseFile(f)

\* Threads run, cores end their jobs, interrupts are served.  SF on CoreWait: a
\* decode takes far longer than a turn of the listener, so a ready core is not
\* passed over for ever in favour of another that is ready again each time.
Fairness ==
  /\ \A c \in Clients : WF_vars(ClientStep(c))
  /\ \A k \in Cores : WF_vars(HwEnd(k))
  /\ WF_vars(Isr)
  /\ \A f \in Files : WF_vars(DeviceStep(f))
                      /\ \A k \in Cores : SF_vars(CoreWait(f, k))

Spec == Init /\ [][Next]_vars /\ Fairness

-----------------------------------------------------------------------------
(* Properties *)

\* Every variable stays in its type.
TypeOK ==
  /\ dec_core_sem \in 0 .. Cardinality(Cores)
  /\ core_owner \in [Cores -> Clients \cup {Nil}]
  /\ dec_irq \subseteq Cores
  /\ asic \in [Cores -> [st : {"off", "run", "irq", "done"}, by : Clients \cup {Nil}]]
  /\ client \in [Clients ->
       [at : {"idle", "scan", "asleep", "own", "set", "pushed", "enabled",
              "decwait", "semwait", "ready", "up", "dead"},
        core : Cores, woken : BOOLEAN]]
  /\ dev \in [Files ->
       [listener : {"none", "loop", "got", "callback", "up", "close", "closeup"},
        id : Cores, jobs : Int, cb_func : SUBSET Cores,
        sc_dec_rdy_sem : [Cores -> Nat]]]

\* Who has taken a permit without a core yet, or given a core back without its
\* permit yet.
Scanning == {c \in Clients : client[c].at \in {"scan", "asleep"}}
Raising == {c \in Clients : client[c].at = "up"}
             \cup {f \in Files : dev[f].listener \in {"up", "closeup"}}

\* The semaphore and the table of owners agree: every permit stands for a free
\* core, also across the ends of processes.  One too few and a core is lost for
\* all until the module is loaded again, one too many and a caller that holds a
\* permit has no core to find.
PermitsExact ==
  dec_core_sem + Cardinality(Scanning) + Cardinality(Raising)
    = Cardinality(FreeCores)

\* A caller asleep on hw_queue with a core of its mask free has its wake-up still
\* to come: the scan that missed the core was not the last one.
NoLostWakeup ==
  \A c \in Clients : client[c].at = "asleep" /\ Mask[c] \cap FreeCores # {} =>
    Raising # {}

\* An interrupt that waits to be taken, and a word of the listener, are of a job
\* of the present owner that has ended, never left over from an earlier owner.
\* And a core at work belongs to the instance whose job it is, which is all that
\* wait_owner_done looks at before a seek goes on.
ReportIsTrue ==
  \A k \in Cores :
    /\ k \in dec_irq => asic[k].st = "done" /\ asic[k].by = core_owner[k]
    /\ asic[k].st = "run" => asic[k].by = core_owner[k]
    /\ \A f \in Files : dev[f].sc_dec_rdy_sem[k] > 0 =>
         k \in OwnedBy(f) /\ asic[k].st = "done" /\ asic[k].by = core_owner[k]

\* The listener's two counters differ by exactly the jobs it has still to take,
\* less those that their client has not counted yet: it neither waits in the
\* driver without a core, nor spins while a job of the process ends unseen.
\* (Counted after the start, without a common lock, by several threads.)
JobCountExact ==
  \A f \in Files : dev[f].listener \in {"loop", "got", "callback", "up"} =>
    dev[f].jobs
      = Cardinality({k \in OwnedBy(f) : asic[k].st \in {"run", "irq"} \/ k \in dec_irq})
        - Cardinality({c \in ClientsOf(f) : client[c].at = "pushed"})

\* Every wait for a job ends, whoever takes the interrupt, and a job handed to
\* the listener gives its core back.
WaitsEnd ==
  /\ \A c \in Clients : client[c].at \in {"enabled", "decwait", "semwait"}
                          ~> client[c].at \in {"idle", "dead"}
  /\ \A k \in Cores : asic[k].st = "irq" ~> asic[k].st = "off"
=============================================================================
