--------------------------- MODULE DecCoresProofs ---------------------------
(***************************************************************************)
(* The permits of the decoder cores, for any number of cores, clients and  *)
(* processes: they match the table of owners, and no caller sleeps on a    *)
(* core it could have while nobody is about to wake it.                    *)
(***************************************************************************)
EXTENDS DecCores, FiniteSetTheorems, TLAPS

ClientRecord ==
  [at : {"idle", "scan", "asleep", "own", "set", "pushed", "enabled",
         "decwait", "semwait", "ready", "up", "dead"},
   core : Cores, woken : BOOLEAN]

Listeners == {"none", "loop", "got", "callback", "up", "close", "closeup"}

DevRecord ==
  [listener : Listeners,
   id : Cores, jobs : Int, cb_func : SUBSET Cores,
   sc_dec_rdy_sem : [Cores -> Nat]]

AsicRecord == [st : {"off", "run", "irq", "done"}, by : Clients \cup {Nil}]

\* The types, with any number of permits: their bound comes from the balance.
Types ==
  /\ dec_core_sem \in Nat
  /\ core_owner \in [Cores -> Clients \cup {Nil}]
  /\ dec_irq \subseteq Cores
  /\ asic \in [Cores -> AsicRecord]
  /\ client \in [Clients -> ClientRecord]
  /\ dev \in [Files -> DevRecord]

---------------------------------------------------------------------------
(* Constants and small facts                                               *)

LEMMA CoresFinite == IsFiniteSet(Cores) /\ Cardinality(Cores) \in Nat \ {0} /\ 0 \in Cores
<1>1. LastCore \in Nat /\ Cores = 0 .. LastCore
  BY CoresAssumption
<1>2. IsFiniteSet(Cores)
  BY <1>1, FS_Interval
<1>3. Cardinality(Cores) \in Nat
  BY <1>2, FS_CardinalityType
<1> QED
  BY <1>1, <1>2, <1>3 DEF LastCore

LEMMA NextCore == ASSUME NEW k \in Cores, k < LastCore PROVE k + 1 \in Cores
BY CoresAssumption

LEMMA SetListener ==
  ASSUME NEW d \in DevRecord, NEW l \in Listeners
  PROVE  [d EXCEPT !.listener = l] \in DevRecord
BY DEF DevRecord

LEMMA SetIdle ==
  ASSUME NEW d \in DevRecord
  PROVE  [d EXCEPT !.listener = "loop", !.id = 0] \in DevRecord
BY CoresFinite DEF DevRecord, Listeners

LEMMA SetJobs ==
  ASSUME NEW d \in DevRecord, NEW j \in Int
  PROVE  [d EXCEPT !.jobs = j] \in DevRecord
BY DEF DevRecord

LEMMA SetSem ==
  ASSUME NEW d \in DevRecord, NEW k \in Cores, NEW v \in Nat
  PROVE  [d EXCEPT !.sc_dec_rdy_sem[k] = v] \in DevRecord
BY DEF DevRecord

\* wake_up leaves every client where it is, but turns sleep into another scan.
LEMMA Woken ==
  ASSUME NEW cl \in [Clients -> ClientRecord]
  PROVE  /\ WakeAll(cl) \in [Clients -> ClientRecord]
         /\ \A c \in Clients :
              /\ WakeAll(cl)[c].core = cl[c].core
              /\ WakeAll(cl)[c].at # "asleep"
              /\ cl[c].at = "scan" => WakeAll(cl)[c].woken
              /\ cl[c].at \in {"scan", "asleep"} <=> WakeAll(cl)[c].at = "scan"
              /\ cl[c].at \notin {"scan", "asleep"} => WakeAll(cl)[c] = cl[c]
<1>1. ASSUME NEW c \in Clients
      PROVE  /\ WakeAll(cl)[c] \in ClientRecord
             /\ WakeAll(cl)[c].core = cl[c].core
             /\ WakeAll(cl)[c].at # "asleep"
             /\ cl[c].at = "scan" => WakeAll(cl)[c].woken
             /\ cl[c].at \in {"scan", "asleep"} <=> WakeAll(cl)[c].at = "scan"
             /\ cl[c].at \notin {"scan", "asleep"} => WakeAll(cl)[c] = cl[c]
  <2>1. cl[c] \in ClientRecord
    BY <1>1
  <2>2. CASE cl[c].at = "asleep"
    BY <2>1, <2>2 DEF WakeAll, ClientRecord
  <2>3. CASE cl[c].at = "scan"
    BY <2>1, <2>3 DEF WakeAll, ClientRecord
  <2>4. CASE cl[c].at \notin {"scan", "asleep"}
    BY <2>1, <2>4 DEF WakeAll, ClientRecord
  <2> QED
    BY <2>2, <2>3, <2>4
<1>2. WakeAll(cl) = [c \in Clients |-> WakeAll(cl)[c]]
  BY DEF WakeAll
<1> QED
  BY <1>1, <1>2

---------------------------------------------------------------------------
(* Types                                                                   *)

LEMMA TypesInit == Init => Types
<1> SUFFICES ASSUME Init PROVE Types
  OBVIOUS
<1>1. OffAsic \in AsicRecord /\ NewDev \in DevRecord
  BY CoresFinite DEF OffAsic, NewDev, AsicRecord, DevRecord, Listeners
<1>2. IdleClient \in ClientRecord
  BY CoresFinite DEF IdleClient, ClientRecord
<1> QED
  BY <1>1, <1>2, CoresFinite DEF Init, Types

LEMMA Disowned ==
  ASSUME Types, NEW k \in Cores, Disown(k)
  PROVE  /\ core_owner' \in [Cores -> Clients \cup {Nil}]
         /\ dec_irq' \subseteq Cores
         /\ asic' \in [Cores -> AsicRecord]
<1>1. OffAsic \in AsicRecord
  BY DEF OffAsic, AsicRecord
<1> QED
  BY <1>1 DEF Types, Disown

LEMMA TypesClient ==
  ASSUME Types, NEW c \in Clients, ReserveDown(c) \/ ClientStep(c)
  PROVE  Types'
<1> DEFINE k == client[c].core
           f == FileOf[c]
<1>0. /\ client[c] \in ClientRecord /\ k \in Cores /\ f \in Files
      /\ dev[f] \in DevRecord /\ dev[f].sc_dec_rdy_sem \in [Cores -> Nat]
  BY ClientsAssumption DEF Types, ClientRecord, DevRecord
<1>1. CASE ReserveDown(c)
  <2>1. [at |-> "scan", core |-> 0, woken |-> TRUE] \in ClientRecord
    BY CoresFinite DEF ClientRecord
  <2> QED
    BY <1>1, <2>1 DEF ReserveDown, Types
<1>2. CASE GetDecCore(c)
  <2>1. CASE k \in Mask[c] \cap FreeCores
    <3>1. client' \in [Clients -> ClientRecord]
      BY <1>0, <1>2, <2>1 DEF GetDecCore, Types, ClientRecord
    <3> DEFINE d == [dev[f] EXCEPT !.cb_func = @ \ {k}]
               v == IF dev[f].sc_dec_rdy_sem[k] > 0 THEN dev[f].sc_dec_rdy_sem[k] - 1 ELSE 0
    <3>2. v \in Nat /\ d \in DevRecord
      BY <1>0 DEF DevRecord
    <3>3. [d EXCEPT !.sc_dec_rdy_sem[k] = v] \in DevRecord
      BY <1>0, <3>2, SetSem
    <3>4. dev' = [dev EXCEPT ![f] = [d EXCEPT !.sc_dec_rdy_sem[k] = v]]
      BY <1>0, <1>2, <2>1 DEF GetDecCore, Types, DevRecord
    <3>5. dev' \in [Files -> DevRecord]
      BY <3>3, <3>4 DEF Types
    <3> QED
      BY <1>0, <1>2, <2>1, <3>1, <3>5 DEF GetDecCore, Types
  <2>2. CASE k \notin Mask[c] \cap FreeCores
    <3>1. CASE k < LastCore
      BY <1>0, <1>2, <2>2, <3>1, NextCore DEF GetDecCore, Types, ClientRecord
    <3>2. CASE ~(k < LastCore)
      <4>1. [at |-> IF client[c].woken THEN "scan" ELSE "asleep", core |-> 0, woken |-> FALSE]
              \in ClientRecord
        BY <1>0, CoresFinite DEF ClientRecord
      <4> QED
        BY <1>0, <1>2, <2>2, <3>2, <4>1 DEF GetDecCore, Types
    <3> QED
      BY <3>1, <3>2
  <2> QED
    BY <2>1, <2>2
<1>3. CASE SetIRQCallback(c)
  <2>1. client' \in [Clients -> ClientRecord]
    BY <1>0, <1>3 DEF SetIRQCallback, Types, ClientRecord
  <2> DEFINE l == IF dev[f].listener = "none" THEN "loop" ELSE dev[f].listener
             d == [dev[f] EXCEPT !.cb_func = @ \cup {k}]
  <2>2. d \in DevRecord /\ l \in Listeners
    BY <1>0 DEF DevRecord, Listeners
  <2>3. [d EXCEPT !.listener = l] \in DevRecord
    BY <2>2, SetListener
  <2>4. dev' = [dev EXCEPT ![f] = [d EXCEPT !.listener = l]]
    BY <1>0, <1>3 DEF SetIRQCallback, Types, DevRecord
  <2>5. dev' \in [Files -> DevRecord]
    BY <2>3, <2>4 DEF Types
  <2>6. UNCHANGED <<dec_core_sem, core_owner, dec_irq, asic>>
    BY <1>3 DEF SetIRQCallback
  <2> QED
    BY <2>1, <2>5, <2>6 DEF Types
<1>4. CASE EnableHw(c)
  <2>1. [st |-> "run", by |-> c] \in AsicRecord
    BY DEF AsicRecord
  <2> QED
    BY <1>0, <1>4, <2>1 DEF EnableHw, Types, ClientRecord
<1>5. CASE CountJob(c)
  <2>1. IdleClient \in ClientRecord
    BY CoresFinite DEF IdleClient, ClientRecord
  <2>2. [client[c] EXCEPT !.at = "enabled"] \in ClientRecord
    BY <1>0 DEF ClientRecord
  <2>3. client' \in [Clients -> ClientRecord]
    BY <1>5, <2>1, <2>2 DEF CountJob, Types
  <2>4. [dev[f] EXCEPT !.jobs = IF HasListener(f) THEN @ + 1 ELSE @] \in DevRecord
    BY <1>0 DEF DevRecord
  <2>5. dev' \in [Files -> DevRecord]
    BY <1>5, <2>4 DEF CountJob, Types
  <2> QED
    BY <1>5, <2>3, <2>5 DEF CountJob, Types
<1>6. CASE WaitHwReady(c)
  BY <1>0, <1>6 DEF WaitHwReady, Types, ClientRecord
<1>7. CASE DecWait(c)
  BY <1>0, <1>7 DEF DecWait, Types, ClientRecord
<1>8. CASE SemWait(c)
  <2>1. client' \in [Clients -> ClientRecord]
    BY <1>0, <1>8 DEF SemWait, Types, ClientRecord
  <2>2. dev[f].sc_dec_rdy_sem[k] - 1 \in Nat
    BY <1>0, <1>8 DEF SemWait
  <2>3. [dev[f] EXCEPT !.sc_dec_rdy_sem[k] = dev[f].sc_dec_rdy_sem[k] - 1] \in DevRecord
    BY <1>0, <2>2, SetSem
  <2>4. dev' \in [Files -> DevRecord]
    BY <1>0, <1>8, <2>3 DEF SemWait, Types
  <2> QED
    BY <1>8, <2>1, <2>4 DEF SemWait, Types
<1>9. CASE ReleaseHw(c)
  <2>1. client' \in [Clients -> ClientRecord]
    BY <1>0, <1>9 DEF ReleaseHw, Types, ClientRecord
  <2> QED
    BY <1>0, <1>9, <2>1, Disowned DEF ReleaseHw, Types
<1>10. CASE Released(c)
  <2>1. [client EXCEPT ![c] = IdleClient] \in [Clients -> ClientRecord]
    BY CoresFinite DEF Types, IdleClient, ClientRecord
  <2>2. client' \in [Clients -> ClientRecord]
    BY <1>10, <2>1, Woken DEF Released, UpAndWake
  <2>3. dec_core_sem' = dec_core_sem + 1 /\ UNCHANGED <<core_owner, dec_irq, asic, dev>>
    BY <1>10 DEF Released, UpAndWake
  <2> QED
    BY <2>2, <2>3 DEF Types
<1> QED
  BY <1>1, <1>2, <1>3, <1>4, <1>5, <1>6, <1>7, <1>8, <1>9, <1>10 DEF ClientStep

LEMMA TypesDevice ==
  ASSUME Types, NEW f \in Files,
         DeviceStep(f) \/ (\E k \in Cores : CoreWait(f, k)) \/ CloseFile(f)
  PROVE  Types'
<1> DEFINE n == dev[f].id
<1>0. /\ dev[f] \in DevRecord /\ n \in Cores /\ dev[f].jobs \in Int
      /\ dev[f].sc_dec_rdy_sem \in [Cores -> Nat]
  BY DEF Types, DevRecord
<1>1. /\ IdleClient \in ClientRecord /\ [IdleClient EXCEPT !.at = "dead"] \in ClientRecord
      /\ NewDev \in DevRecord /\ [NewDev EXCEPT !.listener = "close"] \in DevRecord
  <2>1. IdleClient \in ClientRecord
    BY CoresFinite DEF IdleClient, ClientRecord
  <2>2. [IdleClient EXCEPT !.at = "dead"] \in ClientRecord
    BY <2>1 DEF ClientRecord
  <2>3. NewDev \in DevRecord
    BY CoresFinite DEF NewDev, DevRecord, Listeners
  <2>4. [NewDev EXCEPT !.listener = "close"] \in DevRecord
    BY <2>3, SetListener DEF Listeners
  <2> QED
    BY <2>1, <2>2, <2>3, <2>4
<1>2. CASE Dispatch(f)
  <2>1. CASE n \in dev[f].cb_func
    <3>1. [dev[f] EXCEPT !.listener = "callback"] \in DevRecord
      BY <1>0, SetListener DEF Listeners
    <3> QED
      BY <1>2, <2>1, <3>1 DEF Dispatch, Types
  <2>2. CASE n \notin dev[f].cb_func
    <3> DEFINE d == [dev[f] EXCEPT !.listener = "loop", !.id = 0]
    <3>1. d \in DevRecord /\ d.sc_dec_rdy_sem = dev[f].sc_dec_rdy_sem
      BY <1>0, SetIdle DEF DevRecord
    <3>2. dev[f].sc_dec_rdy_sem[n] + 1 \in Nat
      BY <1>0
    <3>3. [d EXCEPT !.sc_dec_rdy_sem[n] = dev[f].sc_dec_rdy_sem[n] + 1] \in DevRecord
      BY <1>0, <3>1, <3>2, SetSem
    <3>4. dev' = [dev EXCEPT ![f] =
                    [d EXCEPT !.sc_dec_rdy_sem[n] = dev[f].sc_dec_rdy_sem[n] + 1]]
      BY <1>0, <1>2, <2>2, CoresFinite DEF Dispatch, Types, DevRecord
    <3> QED
      BY <1>2, <3>3, <3>4 DEF Dispatch, Types
  <2> QED
    BY <2>1, <2>2
<1>3. CASE CallbackReleases(f)
  <2>1. [dev[f] EXCEPT !.listener = "up"] \in DevRecord
    BY <1>0, SetListener DEF Listeners
  <2>2. dev' \in [Files -> DevRecord]
    BY <1>3, <2>1 DEF CallbackReleases, Types
  <2> QED
    BY <1>0, <1>3, <2>2, Disowned DEF CallbackReleases, Types
<1>4. CASE CallbackDone(f)
  <2>1. dev' \in [Files -> DevRecord]
    BY <1>0, <1>4, SetIdle DEF CallbackDone, Types
  <2> QED
    BY <1>4, <2>1, Woken DEF CallbackDone, UpAndWake, Types
<1>5. CASE CloseCore(f)
  <2>1. CASE n \in OwnedBy(f)
    <3>1. [dev[f] EXCEPT !.listener = "closeup"] \in DevRecord
      BY <1>0, SetListener DEF Listeners
    <3>2. dev' \in [Files -> DevRecord]
      BY <1>5, <2>1, <3>1 DEF CloseCore, Types
    <3> QED
      BY <1>0, <1>5, <2>1, <3>2, Disowned DEF CloseCore, Types
  <2>2. CASE n \notin OwnedBy(f) /\ n < LastCore
    <3>1. [dev[f] EXCEPT !.id = n + 1] \in DevRecord
      BY <1>0, <2>2, NextCore DEF DevRecord
    <3>2. dev' \in [Files -> DevRecord]
      BY <1>5, <2>2, <3>1 DEF CloseCore, Types
    <3> QED
      BY <1>5, <2>2, <3>2 DEF CloseCore, Types
  <2>3. CASE n \notin OwnedBy(f) /\ ~(n < LastCore)
    BY <1>1, <1>5, <2>3 DEF CloseCore, Types
  <2> QED
    BY <2>1, <2>2, <2>3
<1>6. CASE CloseCoreReleased(f)
  <2>1. [dev[f] EXCEPT !.listener = "close"] \in DevRecord
    BY <1>0, SetListener DEF Listeners
  <2>2. dev' \in [Files -> DevRecord]
    BY <1>6, <2>1 DEF CloseCoreReleased, Types
  <2> QED
    BY <1>6, <2>2, Woken DEF CloseCoreReleased, UpAndWake, Types
<1>7. ASSUME NEW k \in Cores, CoreWait(f, k) PROVE Types'
  <2> DEFINE d == [dev[f] EXCEPT !.listener = "got"]
  <2>1. [dev[f] EXCEPT !.listener = "got", !.id = k, !.jobs = @ - 1] \in DevRecord
    <3>1. d \in DevRecord /\ d.jobs = dev[f].jobs
      <4>1. d \in DevRecord
        BY <1>0, SetListener DEF Listeners
      <4>2. d.jobs = dev[f].jobs
        BY <1>0 DEF DevRecord
      <4> QED
        BY <4>1, <4>2
    <3> DEFINE e == [d EXCEPT !.id = k]
    <3>2. e \in DevRecord
      BY <3>1 DEF DevRecord
    <3>3. dev[f].jobs - 1 \in Int
      BY <1>0
    <3>4. [e EXCEPT !.jobs = dev[f].jobs - 1] \in DevRecord
      BY <3>2, <3>3, SetJobs
    <3>5. [e EXCEPT !.jobs = dev[f].jobs - 1]
            = [dev[f] EXCEPT !.listener = "got", !.id = k, !.jobs = @ - 1]
      BY <1>0 DEF DevRecord
    <3> QED
      BY <3>4, <3>5
  <2>2. dev' \in [Files -> DevRecord]
    BY <1>7, <2>1 DEF CoreWait, Types
  <2> QED
    BY <1>7, <2>2 DEF CoreWait, Types
<1>8. CASE CloseFile(f)
  <2>1. client' \in [Clients -> ClientRecord] /\ dev' \in [Files -> DevRecord]
    BY <1>1, <1>8 DEF CloseFile, Types
  <2> QED
    BY <1>8, <2>1 DEF CloseFile, Types
<1> QED
  BY <1>2, <1>3, <1>4, <1>5, <1>6, <1>7, <1>8 DEF DeviceStep

LEMMA TypesNext == Types /\ [Next]_vars => Types'
<1> SUFFICES ASSUME Types, [Next]_vars PROVE Types'
  OBVIOUS
<1>1. ASSUME NEW k \in Cores, HwEnd(k) PROVE Types'
  BY <1>1 DEF HwEnd, Types, AsicRecord
<1>2. CASE Isr
  BY <1>2 DEF Isr, Types, AsicRecord
<1>3. CASE UNCHANGED vars
  BY <1>3 DEF vars, Types
<1> QED
  BY <1>1, <1>2, <1>3, TypesClient, TypesDevice DEF Next

---------------------------------------------------------------------------
(* The balance of the permits                                              *)

\* Cores that were given back to nobody: a permit taken by a call that a signal
\* ended in its scan.
Lost ==
  Cardinality(FreeCores)
    - (dec_core_sem + Cardinality(Scanning) + Cardinality(Raising))

\* The counts before and after a step differ as the three sets do.
LEMMA Counts ==
  ASSUME Types
  PROVE  /\ IsFiniteSet(FreeCores) /\ Cardinality(FreeCores) \in Nat
         /\ Cardinality(FreeCores) <= Cardinality(Cores)
         /\ IsFiniteSet(Scanning) /\ Cardinality(Scanning) \in Nat
         /\ IsFiniteSet(Raising) /\ Cardinality(Raising) \in Nat
<1>1. FreeCores \in SUBSET Cores /\ Scanning \in SUBSET Clients
  BY DEF FreeCores, Scanning
<1>2. IsFiniteSet(Clients \cup Files)
  BY ClientsAssumption, FS_Union
<1>3. Raising \in SUBSET (Clients \cup Files)
  BY DEF Raising
<1>4. IsFiniteSet(FreeCores) /\ Cardinality(FreeCores) <= Cardinality(Cores)
  BY <1>1, CoresFinite, FS_Subset
<1>5. IsFiniteSet(Scanning)
  BY <1>1, ClientsAssumption, FS_Subset
<1>6. IsFiniteSet(Raising)
  BY <1>2, <1>3, FS_Subset
<1> QED
  BY <1>4, <1>5, <1>6, FS_CardinalityType

LEMMA Disowning ==
  ASSUME Types, NEW k \in Cores, k \notin FreeCores, Disown(k)
  PROVE  FreeCores' = FreeCores \cup {k}
BY DEF Types, Disown, FreeCores

\* A step that leaves all three sets and the semaphore alone.
LEMMA LostKept ==
  ASSUME UNCHANGED <<dec_core_sem, core_owner>>,
         Scanning' = Scanning, Raising' = Raising
  PROVE  Lost' = Lost
BY DEF Lost, FreeCores

\* A permit goes from the semaphore to a scan, a scan ends with a core, a core
\* becomes free with its permit still to be raised, and the permit is raised.
LEMMA PermitTaken ==
  ASSUME Types, NEW c \in Clients, c \notin Scanning, Scanning' = Scanning \cup {c},
         Raising' = Raising, FreeCores' = FreeCores, dec_core_sem' = dec_core_sem - 1
  PROVE  Lost' = Lost
<1>1. Cardinality(Scanning') = Cardinality(Scanning) + 1
  BY Counts, FS_AddElement
<1> QED
  BY <1>1, Counts DEF Lost, Types

LEMMA CoreFound ==
  ASSUME Types, NEW c \in Clients, c \in Scanning, Scanning' = Scanning \ {c},
         NEW k \in FreeCores, FreeCores' = FreeCores \ {k},
         Raising' = Raising, dec_core_sem' = dec_core_sem
  PROVE  Lost' = Lost
<1>1. Cardinality(Scanning') = Cardinality(Scanning) - 1
  BY Counts, FS_RemoveElement
<1>2. Cardinality(FreeCores') = Cardinality(FreeCores) - 1
  BY Counts, FS_RemoveElement
<1> QED
  BY <1>1, <1>2, Counts DEF Lost, Types

LEMMA CoreFreed ==
  ASSUME Types, NEW k \in Cores, k \notin FreeCores, FreeCores' = FreeCores \cup {k},
         NEW x, x \notin Raising, Raising' = Raising \cup {x},
         Scanning' = Scanning, dec_core_sem' = dec_core_sem
  PROVE  Lost' = Lost
<1>1. Cardinality(Raising') = Cardinality(Raising) + 1
  BY Counts, FS_AddElement
<1>2. Cardinality(FreeCores') = Cardinality(FreeCores) + 1
  BY Counts, FS_AddElement
<1> QED
  BY <1>1, <1>2, Counts DEF Lost, Types

LEMMA PermitRaised ==
  ASSUME Types, NEW x, x \in Raising, Raising' = Raising \ {x},
         Scanning' = Scanning, FreeCores' = FreeCores, dec_core_sem' = dec_core_sem + 1
  PROVE  Lost' = Lost
<1>1. Cardinality(Raising') = Cardinality(Raising) - 1
  BY Counts, FS_RemoveElement
<1> QED
  BY <1>1, Counts DEF Lost, Types

\* Who is in the three sets after a step of one client, or of one device.
LEMMA ClientMoved ==
  ASSUME NEW c \in Clients,
         \A x \in Clients \ {c} : /\ client'[x].at \in {"scan", "asleep"}
                                       <=> client[x].at \in {"scan", "asleep"}
                                  /\ client'[x].at = "up" <=> client[x].at = "up",
         \A f \in Files : dev'[f].listener \in {"up", "closeup"}
                             <=> dev[f].listener \in {"up", "closeup"}
  PROVE  /\ client'[c].at \in {"scan", "asleep"} => Scanning' = Scanning \cup {c}
         /\ client'[c].at \notin {"scan", "asleep"} => Scanning' = Scanning \ {c}
         /\ client'[c].at = "up" => Raising' = Raising \cup {c}
         /\ client'[c].at # "up" => Raising' = Raising \ {c}
         /\ (client'[c].at \in {"scan", "asleep"} <=> c \in Scanning) => Scanning' = Scanning
         /\ (client'[c].at = "up" <=> c \in Raising) => Raising' = Raising
<1>1. /\ client'[c].at \in {"scan", "asleep"} => Scanning' = Scanning \cup {c}
      /\ client'[c].at \notin {"scan", "asleep"} => Scanning' = Scanning \ {c}
  BY DEF Scanning
<1>2. {f \in Files : dev[f].listener \in {"up", "closeup"}}'
        = {f \in Files : dev[f].listener \in {"up", "closeup"}}
  OBVIOUS
<1>3. c \notin Files
  BY ClientsAssumption
<1>4. /\ client'[c].at = "up" => Raising' = Raising \cup {c}
      /\ client'[c].at # "up" => Raising' = Raising \ {c}
  BY <1>2, <1>3 DEF Raising
<1>5. (client'[c].at \in {"scan", "asleep"} <=> c \in Scanning) => Scanning' = Scanning
  BY <1>1
<1>6. (client'[c].at = "up" <=> c \in Raising) => Raising' = Raising
  BY <1>4
<1> QED
  BY <1>1, <1>4, <1>5, <1>6

LEMMA DeviceMoved ==
  ASSUME NEW f \in Files, \A g \in Files \ {f} : dev'[g] = dev[g],
         \A x \in Clients : /\ client'[x].at \in {"scan", "asleep"}
                                 <=> client[x].at \in {"scan", "asleep"}
                            /\ client'[x].at = "up" <=> client[x].at = "up"
  PROVE  /\ Scanning' = Scanning
         /\ dev'[f].listener \in {"up", "closeup"} => Raising' = Raising \cup {f}
         /\ dev'[f].listener \notin {"up", "closeup"} => Raising' = Raising \ {f}
         /\ (dev'[f].listener \in {"up", "closeup"} <=> f \in Raising) => Raising' = Raising
<1>1. {c \in Clients : client[c].at = "up"}' = {c \in Clients : client[c].at = "up"}
  OBVIOUS
<1>2. f \notin Clients
  BY ClientsAssumption
<1>3. /\ dev'[f].listener \in {"up", "closeup"} => Raising' = Raising \cup {f}
      /\ dev'[f].listener \notin {"up", "closeup"} => Raising' = Raising \ {f}
  BY <1>1, <1>2 DEF Raising
<1>4. (dev'[f].listener \in {"up", "closeup"} <=> f \in Raising) => Raising' = Raising
  BY <1>3
<1> QED
  BY <1>3, <1>4 DEF Scanning

\* What a client does to the listener threads: the first callback creates one.
LEMMA ClientListeners ==
  ASSUME Types, NEW c \in Clients, ReserveDown(c) \/ ClientStep(c), NEW g \in Files
  PROVE  \/ dev'[g].listener = dev[g].listener
         \/ dev[g].listener = "none" /\ dev'[g].listener = "loop"
<1>1. PICK f \in Files, k \in Cores : f = FileOf[c] /\ k = client[c].core
  BY ClientsAssumption DEF Types, ClientRecord
<1>2. dev[f] \in DevRecord /\ dev \in [Files -> DevRecord]
  BY <1>1 DEF Types
<1>3. CASE SetIRQCallback(c)
  <2>1. dev' = [dev EXCEPT ![f].cb_func = @ \cup {k},
                           ![f].listener = IF @ = "none" THEN "loop" ELSE @]
    BY <1>1, <1>3 DEF SetIRQCallback
  <2>2. CASE g = f
    BY <1>2, <2>1, <2>2 DEF DevRecord
  <2>3. CASE g # f
    BY <1>2, <2>1, <2>3
  <2> QED
    BY <2>2, <2>3
<1>4. CASE CountJob(c)
  <2>1. dev' = [dev EXCEPT ![f].jobs = IF HasListener(f) THEN @ + 1 ELSE @]
    BY <1>1, <1>4 DEF CountJob
  <2> QED
    BY <1>2, <2>1 DEF DevRecord
<1>5. CASE SemWait(c)
  <2>1. dev' = [dev EXCEPT ![f].sc_dec_rdy_sem[k] = @ - 1]
    BY <1>1, <1>5 DEF SemWait
  <2> QED
    BY <1>2, <2>1 DEF DevRecord
<1>6. CASE GetDecCore(c)
  <2>1. CASE k \in Mask[c] \cap FreeCores
    <3>1. dev' = [dev EXCEPT ![f].cb_func = @ \ {k},
                             ![f].sc_dec_rdy_sem[k] = IF @ > 0 THEN @ - 1 ELSE 0]
      BY <1>1, <1>6, <2>1 DEF GetDecCore
    <3>2. CASE g = f
      BY <1>2, <3>1, <3>2 DEF DevRecord
    <3>3. CASE g # f
      BY <1>2, <3>1, <3>3
    <3> QED
      BY <3>2, <3>3
  <2>2. CASE k \notin Mask[c] \cap FreeCores
    BY <1>1, <1>6, <2>2 DEF GetDecCore
  <2> QED
    BY <2>1, <2>2
<1>7. CASE UNCHANGED dev
  BY <1>7
<1> QED
  BY <1>3, <1>4, <1>5, <1>6, <1>7 DEF ClientStep, ReserveDown, EnableHw, WaitHwReady, DecWait,
       ReleaseHw, Released

LEMMA LostClient ==
  ASSUME Types, NEW c \in Clients, ReserveDown(c) \/ ClientStep(c)
  PROVE  Lost' = Lost
<1> DEFINE k == client[c].core
           f == FileOf[c]
<1>0. Types' /\ client[c] \in ClientRecord /\ k \in Cores /\ f \in Files
  BY TypesClient, ClientsAssumption DEF Types, ClientRecord
<1>1. CASE ReserveDown(c)
  <2>1. client'[c].at = "scan" /\ c \notin Scanning /\ c \notin Raising
    BY <1>0, <1>1, ClientsAssumption DEF ReserveDown, Types, Scanning, Raising
  <2>2. Scanning' = Scanning \cup {c} /\ Raising' = Raising
    BY <1>1, <2>1, ClientMoved DEF ReserveDown, Types
  <2> QED
    BY <1>1, <2>1, <2>2, PermitTaken DEF ReserveDown, FreeCores
<1>2. CASE GetDecCore(c)
  <2>1. c \in Scanning /\ c \notin Raising
    BY <1>2, ClientsAssumption DEF GetDecCore, Scanning, Raising
  <2>2. \A x \in Clients \ {c} : client'[x] = client[x]
    BY <1>2 DEF GetDecCore, Types
  <2>3. \A g \in Files : dev'[g].listener = dev[g].listener
    BY <1>0, <1>2 DEF GetDecCore, Types, DevRecord
  <2>4. CASE k \in Mask[c] \cap FreeCores
    <3>1. client'[c].at = "own"
      BY <1>0, <1>2, <2>4 DEF GetDecCore, Types, ClientRecord
    <3>2. Scanning' = Scanning \ {c} /\ Raising' = Raising
      BY <2>1, <2>2, <2>3, <3>1, ClientMoved
    <3>3. FreeCores' = FreeCores \ {k}
      BY <1>0, <1>2, <2>4, ClientsAssumption DEF GetDecCore, FreeCores, Types
    <3> QED
      BY <1>2, <2>1, <2>4, <3>2, <3>3, CoreFound DEF GetDecCore
  <2>5. CASE k \notin Mask[c] \cap FreeCores
    <3>1. client'[c].at \in {"scan", "asleep"}
      BY <1>0, <1>2, <2>5 DEF GetDecCore, Types, ClientRecord
    <3>2. Scanning' = Scanning /\ Raising' = Raising
      BY <2>1, <2>2, <2>3, <3>1, ClientMoved
    <3> QED
      BY <1>2, <2>5, <3>2, LostKept DEF GetDecCore
  <2> QED
    BY <2>4, <2>5
<1>3. CASE SetIRQCallback(c) \/ EnableHw(c) \/ CountJob(c) \/ WaitHwReady(c)
             \/ DecWait(c) \/ SemWait(c)
  <2>1. c \notin Scanning /\ c \notin Raising
    BY <1>3, ClientsAssumption DEF SetIRQCallback, EnableHw, CountJob, WaitHwReady,
         DecWait, SemWait, Scanning, Raising
  <2>2. \A x \in Clients \ {c} : client'[x] = client[x]
    BY <1>3 DEF SetIRQCallback, EnableHw, CountJob, WaitHwReady, DecWait, SemWait, Types
  <2>3. \A g \in Files : dev'[g].listener \in {"up", "closeup"}
                            <=> dev[g].listener \in {"up", "closeup"}
    BY ClientListeners
  <2>4. client'[c].at \notin {"scan", "asleep", "up"}
    <3>1. CASE CountJob(c)
      <4>1. client'[c] = IF c \in MultiCore THEN IdleClient ELSE [client[c] EXCEPT !.at = "enabled"]
        BY <3>1 DEF CountJob, Types
      <4> QED
        BY <1>0, <4>1 DEF IdleClient, ClientRecord
    <3> QED
      BY <1>0, <1>3, <3>1 DEF SetIRQCallback, EnableHw, WaitHwReady, DecWait, SemWait,
           Types, ClientRecord
  <2>5. Scanning' = Scanning /\ Raising' = Raising
    BY <2>1, <2>2, <2>3, <2>4, ClientMoved
  <2> QED
    BY <1>3, <2>5, LostKept DEF SetIRQCallback, EnableHw, CountJob, WaitHwReady, DecWait, SemWait
<1>4. CASE ReleaseHw(c)
  <2>1. k \in Cores /\ k \notin FreeCores
    BY <1>0, <1>4 DEF ReleaseHw, OwnedBy
  <2>2. FreeCores' = FreeCores \cup {k}
    BY <1>4, <2>1, Disowning DEF ReleaseHw
  <2>3. client'[c].at = "up" /\ \A x \in Clients \ {c} : client'[x] = client[x]
    BY <1>0, <1>4 DEF ReleaseHw, Types, ClientRecord
  <2>4. c \notin Scanning /\ c \notin Raising
    BY <1>4, ClientsAssumption DEF ReleaseHw, Scanning, Raising
  <2>5. Scanning' = Scanning /\ Raising' = Raising \cup {c}
    BY <1>4, <2>3, <2>4, ClientMoved DEF ReleaseHw
  <2> QED
    BY <1>4, <2>1, <2>2, <2>4, <2>5, CoreFreed DEF ReleaseHw
<1>5. CASE Released(c)
  <2> DEFINE cl == [client EXCEPT ![c] = IdleClient]
  <2>1. cl \in [Clients -> ClientRecord]
    BY CoresFinite DEF Types, IdleClient, ClientRecord
  <2>2. client' = WakeAll(cl)
    BY <1>5 DEF Released, UpAndWake
  <2>3. \A x \in Clients : /\ client'[x].at \in {"scan", "asleep"} <=> cl[x].at \in {"scan", "asleep"}
                           /\ client'[x].at = "up" <=> cl[x].at = "up"
    BY <2>1, <2>2, Woken
  <2>4. \A x \in Clients \ {c} : cl[x] = client[x]
    BY DEF Types
  <2>5. cl[c].at = "idle"
    BY DEF Types, IdleClient
  <2>6. c \notin Scanning /\ c \in Raising
    BY <1>5 DEF Released, Scanning, Raising
  <2>7. Scanning' = Scanning /\ Raising' = Raising \ {c}
    BY <1>5, <2>3, <2>4, <2>5, <2>6, ClientMoved DEF Released
  <2> QED
    BY <1>5, <2>6, <2>7, PermitRaised DEF Released, UpAndWake, FreeCores
<1> QED
  BY <1>1, <1>2, <1>3, <1>4, <1>5 DEF ClientStep

\* A release by the listener or by the close of the file: the core, then the permit.
LEMMA LostDisowned ==
  ASSUME Types, NEW f \in Files, NEW k \in OwnedBy(f), Disown(k),
         f \notin Raising, UNCHANGED <<dec_core_sem, client>>,
         NEW l \in {"up", "closeup"}, dev' = [dev EXCEPT ![f].listener = l]
  PROVE  Lost' = Lost
<1>1. k \in Cores /\ k \notin FreeCores
  BY DEF OwnedBy
<1>2. dev'[f].listener = l /\ \A g \in Files \ {f} : dev'[g] = dev[g]
  BY DEF Types, DevRecord
<1>3. Scanning' = Scanning /\ Raising' = Raising \cup {f}
  BY <1>2, DeviceMoved
<1>4. FreeCores' = FreeCores \cup {k}
  BY <1>1, Disowning
<1> QED
  BY <1>1, <1>3, <1>4, CoreFreed

LEMMA LostRaised ==
  ASSUME Types, NEW f \in Files, f \in Raising, UpAndWake(client), UNCHANGED core_owner,
         dev'[f].listener \notin {"up", "closeup"},
         \A g \in Files \ {f} : dev'[g] = dev[g]
  PROVE  Lost' = Lost
<1>1. \A x \in Clients :
         /\ client'[x].at \in {"scan", "asleep"} <=> client[x].at \in {"scan", "asleep"}
         /\ client'[x].at = "up" <=> client[x].at = "up"
  BY Woken DEF UpAndWake, Types
<1>2. Scanning' = Scanning /\ Raising' = Raising \ {f}
  BY <1>1, DeviceMoved
<1> QED
  BY <1>2, PermitRaised DEF UpAndWake, FreeCores

\* While a file is closed its clients are gone, and only then.
DeadWhileClosed ==
  \A c \in Clients :
    client[c].at = "dead" <=> dev[FileOf[c]].listener \in {"close", "closeup"}

LEMMA LostDevice ==
  ASSUME Types, NEW f \in Files,
         DeviceStep(f) \/ \E k \in Cores : CoreWait(f, k),
         DeadWhileClosed
  PROVE  Lost' = Lost
<1> DEFINE n == dev[f].id
<1>0. /\ dev[f] \in DevRecord /\ n \in Cores
      /\ f \in Raising <=> dev[f].listener \in {"up", "closeup"}
  BY ClientsAssumption DEF Types, DevRecord, Raising
<1>1. ASSUME UNCHANGED <<dec_core_sem, core_owner, client>>,
             \A g \in Files \ {f} : dev'[g] = dev[g],
             dev[f].listener \notin {"up", "closeup"},
             dev'[f].listener \notin {"up", "closeup"}
      PROVE  Lost' = Lost
  <2>1. Scanning' = Scanning /\ Raising' = Raising
    BY <1>0, <1>1, DeviceMoved
  <2> QED
    BY <1>1, <2>1, LostKept
<1>2. CASE Dispatch(f)
  <2>1. dev'[f].listener \in {"callback", "loop"} /\ \A g \in Files \ {f} : dev'[g] = dev[g]
    BY <1>0, <1>2 DEF Dispatch, Types, DevRecord
  <2> QED
    BY <1>1, <1>2, <2>1 DEF Dispatch
<1>3. CASE CallbackReleases(f)
  <2>1. n \in OwnedBy(f) /\ f \notin Raising
    BY <1>0, <1>3 DEF CallbackReleases
  <2> QED
    BY <1>3, <2>1, LostDisowned DEF CallbackReleases
<1>4. CASE CallbackDone(f)
  <2>1. dev'[f].listener = "loop" /\ \A g \in Files \ {f} : dev'[g] = dev[g]
    BY <1>0, <1>4 DEF CallbackDone, Types, DevRecord
  <2>2. f \in Raising
    BY <1>0, <1>4 DEF CallbackDone
  <2> QED
    BY <1>4, <2>1, <2>2, LostRaised DEF CallbackDone
<1>5. CASE CloseCore(f)
  <2>1. CASE n \in OwnedBy(f)
    <3>1. f \notin Raising
      BY <1>0, <1>5 DEF CloseCore
    <3> QED
      BY <1>5, <2>1, <3>1, LostDisowned DEF CloseCore
  <2>2. CASE n \notin OwnedBy(f) /\ n < LastCore
    <3>1. dev'[f].listener = "close" /\ \A g \in Files \ {f} : dev'[g] = dev[g]
      BY <1>0, <1>5, <2>2 DEF CloseCore, Types, DevRecord
    <3> QED
      BY <1>1, <1>5, <2>2, <3>1 DEF CloseCore
  <2>3. CASE n \notin OwnedBy(f) /\ ~(n < LastCore)
    <3>1. dev'[f].listener = "none" /\ \A g \in Files \ {f} : dev'[g] = dev[g]
      BY <1>0, <1>5, <2>3 DEF CloseCore, Types, NewDev
    <3>2. \A x \in Clients :
            /\ client'[x].at \in {"scan", "asleep"} <=> client[x].at \in {"scan", "asleep"}
            /\ client'[x].at = "up" <=> client[x].at = "up"
      BY <1>5, <2>3 DEF CloseCore, IdleClient, DeadWhileClosed
    <3>3. f \notin Raising
      BY <1>0, <1>5 DEF CloseCore
    <3>4. Scanning' = Scanning /\ Raising' = Raising
      BY <3>1, <3>2, <3>3, DeviceMoved
    <3> QED
      BY <1>5, <2>3, <3>4, LostKept DEF CloseCore
  <2> QED
    BY <2>1, <2>2, <2>3
<1>6. CASE CloseCoreReleased(f)
  <2>1. dev'[f].listener = "close" /\ \A g \in Files \ {f} : dev'[g] = dev[g]
    BY <1>0, <1>6 DEF CloseCoreReleased, Types, DevRecord
  <2>2. f \in Raising
    BY <1>0, <1>6 DEF CloseCoreReleased
  <2> QED
    BY <1>6, <2>1, <2>2, LostRaised DEF CloseCoreReleased
<1>7. ASSUME NEW k \in Cores, CoreWait(f, k) PROVE Lost' = Lost
  <2>1. dev'[f].listener = "got" /\ \A g \in Files \ {f} : dev'[g] = dev[g]
    BY <1>0, <1>7 DEF CoreWait, Types, DevRecord
  <2> QED
    BY <1>1, <1>7, <2>1 DEF CoreWait
<1> QED
  BY <1>2, <1>3, <1>4, <1>5, <1>6, <1>7 DEF DeviceStep

\* The end of a process takes along the scans of its clients, and with them a
\* permit each: never more than that, and none if no client is in its scan.
LEMMA LostClose ==
  ASSUME Types, NEW f \in Files, CloseFile(f)
  PROVE  /\ Lost' \in Int /\ Lost' >= Lost
         /\ "scan" \notin KillAt => Lost' = Lost
<1>1. /\ \A x \in Clients : client'[x] = IF FileOf[x] = f THEN [IdleClient EXCEPT !.at = "dead"]
                                         ELSE client[x]
      /\ \A x \in Clients : FileOf[x] = f => Stage(x) \in KillAt /\ client[x].at # "up"
      /\ UNCHANGED <<dec_core_sem, core_owner>>
  BY DEF CloseFile, ClientsOf
<1>2. [IdleClient EXCEPT !.at = "dead"].at = "dead"
  BY DEF IdleClient
<1>3. dev'[f].listener = "close" /\ \A g \in Files \ {f} : dev'[g] = dev[g]
  BY DEF CloseFile, Types, NewDev
<1>4. dev[f].listener \notin {"up", "closeup"}
  BY DEF CloseFile
<1>5. Raising' = Raising
  <2>1. \A x \in Clients : client'[x].at = "up" <=> client[x].at = "up"
    BY <1>1, <1>2
  <2>2. \A g \in Files : dev'[g].listener \in {"up", "closeup"}
                          <=> dev[g].listener \in {"up", "closeup"}
    BY <1>3, <1>4
  <2>3. {c \in Clients : client[c].at = "up"}' = {c \in Clients : client[c].at = "up"}
    BY <2>1
  <2>4. {g \in Files : dev[g].listener \in {"up", "closeup"}}'
          = {g \in Files : dev[g].listener \in {"up", "closeup"}}
    BY <2>2
  <2> QED
    BY <2>3, <2>4 DEF Raising
<1>6. Scanning' \in SUBSET Scanning
  BY <1>1, <1>2 DEF Scanning
<1>7. IsFiniteSet(Scanning') /\ Cardinality(Scanning') <= Cardinality(Scanning)
  BY <1>6, Counts, FS_Subset
<1>8. Cardinality(Scanning') \in Nat
  BY <1>7, FS_CardinalityType
<1>9. FreeCores' = FreeCores
  BY <1>1 DEF FreeCores
<1>10. Lost' \in Int /\ Lost' >= Lost
  BY <1>1, <1>5, <1>7, <1>8, <1>9, Counts DEF Lost, Types
<1>11. ASSUME "scan" \notin KillAt PROVE Scanning' = Scanning
  <2>1. \A x \in Clients : FileOf[x] = f => client[x].at \notin {"scan", "asleep"}
    BY <1>1, <1>11 DEF Stage
  <2> QED
    BY <1>1, <1>2, <2>1 DEF Scanning
<1> QED
  BY <1>1, <1>5, <1>10, <1>11, LostKept

LEMMA DeadNext ==
  ASSUME Types, DeadWhileClosed, [Next]_vars
  PROVE  DeadWhileClosed'
<1>0. /\ \A c \in Clients : client[c] \in ClientRecord /\ FileOf[c] \in Files
      /\ \A f \in Files : dev[f] \in DevRecord
  BY ClientsAssumption DEF Types
<1>1. ASSUME \A c \in Clients : client'[c].at = "dead" <=> client[c].at = "dead",
             \A f \in Files : dev'[f].listener \in {"close", "closeup"}
                                <=> dev[f].listener \in {"close", "closeup"}
      PROVE  DeadWhileClosed'
  BY <1>0, <1>1 DEF DeadWhileClosed
<1>2. ASSUME NEW c \in Clients, ReserveDown(c) \/ ClientStep(c) PROVE DeadWhileClosed'
  <2>1. \A f \in Files : dev'[f].listener \in {"close", "closeup"}
                            <=> dev[f].listener \in {"close", "closeup"}
    BY <1>2, ClientListeners
  <2>2. \A x \in Clients : client'[x].at = "dead" <=> client[x].at = "dead"
    <3>1. CASE Released(c)
      <4> DEFINE cl == [client EXCEPT ![c] = IdleClient]
      <4>1. cl \in [Clients -> ClientRecord]
        BY CoresFinite DEF Types, IdleClient, ClientRecord
      <4>2. client' = WakeAll(cl)
        BY <3>1 DEF Released, UpAndWake
      <4>3. \A x \in Clients : client'[x].at = "dead" <=> cl[x].at = "dead"
        BY <4>1, <4>2, Woken
      <4>4. \A x \in Clients : cl[x].at = "dead" <=> client[x].at = "dead"
        BY <3>1 DEF Released, IdleClient, Types
      <4> QED
        BY <4>3, <4>4
    <3>2. CASE CountJob(c)
      <4>1. /\ client'[c] = IF c \in MultiCore THEN IdleClient
                            ELSE [client[c] EXCEPT !.at = "enabled"]
            /\ \A x \in Clients \ {c} : client'[x] = client[x]
            /\ client[c].at = "pushed"
        BY <3>2 DEF CountJob, Types
      <4> QED
        BY <1>0, <4>1 DEF IdleClient, ClientRecord
    <3>3. CASE GetDecCore(c)
      <4>1. \A x \in Clients \ {c} : client'[x] = client[x]
        BY <3>3 DEF GetDecCore, Types
      <4>2. client'[c].at # "dead" /\ client[c].at # "dead"
        BY <1>0, <3>3 DEF GetDecCore, Types, ClientRecord
      <4> QED
        BY <4>1, <4>2
    <3> QED
      BY <1>0, <1>2, <3>1, <3>2, <3>3 DEF ClientStep, ReserveDown, SetIRQCallback, EnableHw,
           WaitHwReady, DecWait, SemWait, ReleaseHw, Types, ClientRecord
  <2> QED
    BY <1>1, <2>1, <2>2
<1>3. ASSUME NEW f \in Files, CloseFile(f) PROVE DeadWhileClosed'
  <2>1. \A x \in Clients : client'[x] = IF FileOf[x] = f THEN [IdleClient EXCEPT !.at = "dead"]
                                        ELSE client[x]
    BY <1>3 DEF CloseFile
  <2>2. dev'[f].listener = "close" /\ \A g \in Files \ {f} : dev'[g] = dev[g]
    BY <1>3 DEF CloseFile, Types, NewDev
  <2>3. [IdleClient EXCEPT !.at = "dead"].at = "dead"
    BY DEF IdleClient
  <2> QED
    BY <1>0, <2>1, <2>2, <2>3 DEF DeadWhileClosed
<1>4. ASSUME NEW f \in Files, CloseCore(f) PROVE DeadWhileClosed'
  <2>1. CASE dev[f].id \in OwnedBy(f) \/ dev[f].id < LastCore
    <3>1. /\ dev'[f].listener \in {"close", "closeup"} /\ dev[f].listener = "close"
          /\ \A g \in Files \ {f} : dev'[g] = dev[g]
          /\ UNCHANGED client
      BY <1>0, <1>4, <2>1 DEF CloseCore, Types, DevRecord
    <3> QED
      BY <1>1, <3>1
  <2>2. CASE ~(dev[f].id \in OwnedBy(f) \/ dev[f].id < LastCore)
    <3>1. dev'[f].listener = "none" /\ \A g \in Files \ {f} : dev'[g] = dev[g]
      BY <1>4, <2>2 DEF CloseCore, Types, NewDev
    <3>2. \A x \in Clients : client'[x] = IF FileOf[x] = f THEN IdleClient ELSE client[x]
      BY <1>4, <2>2 DEF CloseCore
    <3> QED
      BY <1>0, <3>1, <3>2 DEF DeadWhileClosed, IdleClient
  <2> QED
    BY <2>1, <2>2
<1>5. ASSUME NEW f \in Files,
             (DeviceStep(f) /\ ~CloseCore(f)) \/ \E k \in Cores : CoreWait(f, k)
      PROVE  DeadWhileClosed'
  <2>1. /\ dev[f].listener \in {"close", "closeup"} <=> dev'[f].listener \in {"close", "closeup"}
        /\ \A g \in Files \ {f} : dev'[g] = dev[g]
    <3>1. CASE Dispatch(f)
      BY <1>0, <3>1 DEF Dispatch, Types, DevRecord
    <3>2. CASE CallbackReleases(f)
      BY <1>0, <3>2 DEF CallbackReleases, Types, DevRecord
    <3>3. CASE CallbackDone(f)
      BY <1>0, <3>3 DEF CallbackDone, Types, DevRecord
    <3>4. CASE CloseCoreReleased(f)
      BY <1>0, <3>4 DEF CloseCoreReleased, Types, DevRecord
    <3>5. CASE \E k \in Cores : CoreWait(f, k)
      BY <1>0, <3>5 DEF CoreWait, Types, DevRecord
    <3> QED
      BY <1>5, <3>1, <3>2, <3>3, <3>4, <3>5 DEF DeviceStep
  <2>2. \A x \in Clients : client'[x].at = "dead" <=> client[x].at = "dead"
    <3>1. CASE CallbackDone(f) \/ CloseCoreReleased(f)
      <4>1. client' = WakeAll(client)
        BY <3>1 DEF CallbackDone, CloseCoreReleased, UpAndWake
      <4> QED
        BY <4>1, Woken DEF Types
    <3> QED
      BY <1>5, <3>1 DEF DeviceStep, Dispatch, CallbackReleases, CoreWait
  <2> QED
    BY <1>1, <2>1, <2>2
<1>6. CASE Isr \/ (\E k \in Cores : HwEnd(k)) \/ UNCHANGED vars
  BY <1>1, <1>6 DEF Isr, HwEnd, vars
<1> QED
  BY <1>2, <1>3, <1>4, <1>5, <1>6 DEF Next

---------------------------------------------------------------------------
(* Wake-ups                                                                *)

\* What a sleeper has not seen, and what a scan has passed over, is being released:
\* the wake-up is still to come, or it came and there is another scan.
Wakes ==
  \A c \in Clients :
    /\ client[c].at = "asleep" =>
         client[c].core = 0 /\ (Mask[c] \cap FreeCores # {} => Raising # {})
    /\ client[c].at = "scan" /\ ~client[c].woken =>
         ((\E k \in Mask[c] \cap FreeCores : k < client[c].core) => Raising # {})

\* No core becomes free, no release ends, and nobody goes on with a scan.
LEMMA WakesKept ==
  ASSUME Types, Wakes, FreeCores' \subseteq FreeCores,
         \A x \in Clients :
            /\ client[x].at = "up" => client'[x].at = "up"
            /\ \/ client'[x] = client[x]
               \/ client'[x].at \notin {"scan", "asleep"}
               \/ client'[x].at = "scan" /\ client'[x].woken,
         \A f \in Files : dev[f].listener \in {"up", "closeup"}
                             => dev'[f].listener \in {"up", "closeup"}
  PROVE  Wakes'
<1>1. Raising \subseteq Raising'
  BY DEF Raising
<1>2. ASSUME NEW c \in Clients, client'[c].at = "asleep"
      PROVE  client'[c].core = 0 /\ (Mask[c] \cap FreeCores' # {} => Raising' # {})
  <2>1. client'[c] = client[c]
    BY <1>2
  <2> QED
    BY <1>1, <1>2, <2>1 DEF Wakes
<1>3. ASSUME NEW c \in Clients, client'[c].at = "scan", ~client'[c].woken,
             NEW k \in Mask[c] \cap FreeCores', k < client'[c].core
      PROVE  Raising' # {}
  <2>1. client'[c] = client[c]
    BY <1>3
  <2>2. k \in Mask[c] \cap FreeCores
    BY <1>3
  <2>3. Raising # {}
    BY <1>3, <2>1, <2>2 DEF Wakes
  <2> QED
    BY <1>1, <2>3
<1> QED
  BY <1>2, <1>3 DEF Wakes

\* A core is given back, and the wake-up is to come.
LEMMA WakesDue ==
  ASSUME Wakes, Raising' # {},
         \A x \in Clients : client'[x].at = "asleep" => client'[x] = client[x]
  PROVE  Wakes'
BY DEF Wakes

\* The wake-up itself.
LEMMA WakesAll ==
  ASSUME NEW cl \in [Clients -> ClientRecord], client' = WakeAll(cl),
         \A x \in Clients : cl[x].at = "asleep" => cl[x].core = 0
  PROVE  Wakes'
<1>1. \A x \in Clients :
         /\ client'[x].at # "asleep"
         /\ client'[x].at = "scan" => client'[x].woken \/ client'[x].core = 0
  BY Woken
<1>2. \A x \in Clients : \A k \in Mask[x] \cap FreeCores' : ~(k < 0)
  BY CoresAssumption DEF FreeCores
<1> QED
  BY <1>1, <1>2 DEF Wakes

LEMMA WakesNext ==
  ASSUME Types, DeadWhileClosed, Wakes, [Next]_vars
  PROVE  Wakes'
<1>0. /\ \A c \in Clients : client[c] \in ClientRecord /\ FileOf[c] \in Files
      /\ \A f \in Files : dev[f] \in DevRecord
  BY ClientsAssumption DEF Types
<1>1. ASSUME NEW c \in Clients, GetDecCore(c) PROVE Wakes'
  <2> DEFINE k == client[c].core
             f == FileOf[c]
  <2>1. k \in Cores /\ f \in Files /\ dev[f] \in DevRecord /\ client[c].at = "scan"
    BY <1>0, <1>1 DEF ClientRecord, GetDecCore
  <2>2. \A x \in Clients \ {c} : client'[x] = client[x]
    BY <1>1 DEF GetDecCore, Types
  <2>3. \A g \in Files : dev'[g].listener = dev[g].listener
    <3>1. \/ UNCHANGED dev
          \/ dev' = [dev EXCEPT ![f].cb_func = @ \ {k},
                               ![f].sc_dec_rdy_sem[k] = IF @ > 0 THEN @ - 1 ELSE 0]
      BY <1>1 DEF GetDecCore
    <3> HIDE DEF k, f
    <3> QED
      BY <2>1, <3>1 DEF Types, DevRecord
  <2>4. CASE k \in Mask[c] \cap FreeCores
    <3>1. client'[c].at = "own"
      BY <1>0, <1>1, <2>4 DEF GetDecCore, Types, ClientRecord
    <3>2. FreeCores' \subseteq FreeCores
      BY <1>1, <2>1, <2>4, ClientsAssumption DEF GetDecCore, FreeCores, Types
    <3> QED
      BY <2>1, <2>2, <2>3, <3>1, <3>2, WakesKept
  <2>5. CASE k \notin Mask[c] \cap FreeCores
    <3>1. FreeCores' = FreeCores
      BY <1>1, <2>5 DEF GetDecCore, FreeCores
    <3>2. {x \in Clients : client[x].at = "up"}' = {x \in Clients : client[x].at = "up"}
      <4>1. client'[c].at # "up"
        BY <1>0, <1>1, <2>5 DEF GetDecCore, Types, ClientRecord
      <4> QED
        BY <2>1, <2>2, <4>1
    <3>3. Raising' = Raising
      BY <2>3, <3>2 DEF Raising
    <3>4. ASSUME Raising = {}, ~client[c].woken
          PROVE  \A j \in Mask[c] \cap FreeCores : ~(j < k)
      BY <2>1, <3>4 DEF Wakes
    <3>5. CASE k < LastCore
      <4>1. client'[c] = [client[c] EXCEPT !.core = k + 1]
        BY <1>1, <2>5, <3>5 DEF GetDecCore, Types
      <4>2. client'[c].at = "scan" /\ client'[c].core = k + 1 /\ client'[c].woken = client[c].woken
        BY <1>0, <2>1, <4>1 DEF ClientRecord
      <4>3. ASSUME Raising = {}, ~client[c].woken, NEW j \in Mask[c] \cap FreeCores, j < k + 1
            PROVE  FALSE
        <5>1. j \in Int /\ k \in Int
          BY <2>1, CoresAssumption DEF FreeCores
        <5>2. j # k
          BY <2>5, <4>3
        <5>3. j < k
          BY <4>3, <5>1, <5>2
        <5> QED
          BY <3>4, <4>3, <5>3
      <4> QED
        BY <2>2, <3>1, <3>3, <4>2, <4>3 DEF Wakes
    <3>6. CASE ~(k < LastCore)
      <4>1. client'[c] = [at |-> IF client[c].woken THEN "scan" ELSE "asleep",
                          core |-> 0, woken |-> FALSE]
        BY <1>1, <2>5, <3>6 DEF GetDecCore, Types
      <4>2. client'[c].core = 0 /\ (client'[c].at = "asleep" => ~client[c].woken)
        BY <4>1
      <4>3. ASSUME Raising = {}, ~client[c].woken PROVE Mask[c] \cap FreeCores = {}
        <5>1. ASSUME NEW j \in Mask[c] \cap FreeCores PROVE FALSE
          <6>1. j \in 0 .. LastCore /\ k \in 0 .. LastCore /\ LastCore \in Nat
            BY <2>1, CoresAssumption DEF FreeCores
          <6>2. j # k
            BY <2>5
          <6>3. j < k
            BY <3>6, <6>1, <6>2
          <6> QED
            BY <3>4, <4>3, <5>1, <6>3
        <5> QED
          BY <5>1
      <4>4. \A j \in Mask[c] \cap FreeCores : ~(j < 0)
        BY CoresAssumption DEF FreeCores
      <4>5. /\ client'[c].at = "asleep" => (Mask[c] \cap FreeCores # {} => Raising # {})
            /\ ~(\E j \in Mask[c] \cap FreeCores : j < client'[c].core)
        BY <4>2, <4>3, <4>4
      <4> QED
        BY <2>2, <3>1, <3>3, <4>2, <4>5 DEF Wakes
    <3> QED
      BY <3>5, <3>6
  <2> QED
    BY <2>4, <2>5
<1>2. ASSUME NEW c \in Clients,
             ReserveDown(c) \/ SetIRQCallback(c) \/ EnableHw(c) \/ CountJob(c) \/ WaitHwReady(c)
               \/ DecWait(c) \/ SemWait(c)
      PROVE  Wakes'
  <2>1. \A x \in Clients \ {c} : client'[x] = client[x]
    BY <1>2 DEF ReserveDown, SetIRQCallback, EnableHw, CountJob, WaitHwReady, DecWait, SemWait, Types
  <2>2. FreeCores' = FreeCores /\ client[c].at # "up"
    BY <1>2 DEF ReserveDown, SetIRQCallback, EnableHw, CountJob, WaitHwReady, DecWait, SemWait, FreeCores
  <2>3. client'[c].at \notin {"scan", "asleep"} \/ (client'[c].at = "scan" /\ client'[c].woken)
    <3>1. CASE CountJob(c)
      <4>1. client'[c] = IF c \in MultiCore THEN IdleClient ELSE [client[c] EXCEPT !.at = "enabled"]
        BY <3>1 DEF CountJob, Types
      <4> QED
        BY <1>0, <4>1 DEF IdleClient, ClientRecord
    <3> QED
      BY <1>0, <1>2, <3>1 DEF ReserveDown, SetIRQCallback, EnableHw, WaitHwReady, DecWait, SemWait,
           Types, ClientRecord
  <2>4. \A g \in Files : dev[g].listener \in {"up", "closeup"}
                            => dev'[g].listener \in {"up", "closeup"}
    BY <1>2, ClientListeners DEF ClientStep
  <2> QED
    BY <2>1, <2>2, <2>3, <2>4, WakesKept
<1>3. ASSUME NEW c \in Clients, ReleaseHw(c) PROVE Wakes'
  <2>1. client'[c].at = "up" /\ \A x \in Clients \ {c} : client'[x] = client[x]
    BY <1>0, <1>3 DEF ReleaseHw, Types, ClientRecord
  <2>2. c \in Raising'
    BY <2>1 DEF Raising
  <2> QED
    BY <2>1, <2>2, WakesDue
<1>4. ASSUME NEW c \in Clients, Released(c) PROVE Wakes'
  <2> DEFINE cl == [client EXCEPT ![c] = IdleClient]
  <2>1. cl \in [Clients -> ClientRecord] /\ client' = WakeAll(cl)
    BY <1>4, CoresFinite DEF Released, UpAndWake, Types, IdleClient, ClientRecord
  <2>2. \A x \in Clients : cl[x].at = "asleep" => cl[x].core = 0
    BY DEF Wakes, IdleClient, Types
  <2> QED
    BY <2>1, <2>2, WakesAll
<1>5. ASSUME NEW f \in Files, CallbackDone(f) \/ CloseCoreReleased(f) PROVE Wakes'
  <2>1. client' = WakeAll(client) /\ client \in [Clients -> ClientRecord]
    BY <1>5 DEF CallbackDone, CloseCoreReleased, UpAndWake, Types
  <2>2. \A x \in Clients : client[x].at = "asleep" => client[x].core = 0
    BY DEF Wakes
  <2> QED
    BY <2>1, <2>2, WakesAll
<1>6. ASSUME NEW f \in Files,
             CallbackReleases(f) \/ (CloseCore(f) /\ dev[f].id \in OwnedBy(f))
      PROVE  Wakes'
  <2>1. dev'[f].listener \in {"up", "closeup"} /\ UNCHANGED client
    BY <1>0, <1>6 DEF CallbackReleases, CloseCore, Types, DevRecord
  <2>2. f \in Raising'
    BY <2>1 DEF Raising
  <2> QED
    BY <2>1, <2>2, WakesDue
<1>7. ASSUME NEW f \in Files,
             \/ Dispatch(f) \/ \E k \in Cores : CoreWait(f, k)
             \/ CloseFile(f) \/ (CloseCore(f) /\ dev[f].id \notin OwnedBy(f))
      PROVE  Wakes'
  <2>1. FreeCores' = FreeCores
    BY <1>7 DEF Dispatch, CoreWait, CloseFile, CloseCore, FreeCores
  <2>2. \A g \in Files \ {f} : dev'[g] = dev[g]
    BY <1>7 DEF Dispatch, CoreWait, CloseFile, CloseCore, Types
  <2>3. dev[f].listener \notin {"up", "closeup"}
    BY <1>7 DEF Dispatch, CoreWait, CloseFile, CloseCore
  <2>4. \A x \in Clients : /\ client[x].at = "up" => client'[x].at = "up"
                           /\ client'[x] = client[x] \/ client'[x].at \notin {"scan", "asleep"}
    <3>1. CASE CloseFile(f)
      BY <3>1 DEF CloseFile, ClientsOf, IdleClient
    <3>2. CASE CloseCore(f)
      <4>1. \A x \in Clients : client'[x] = client[x]
                                \/ (FileOf[x] = f /\ client'[x] = IdleClient)
        BY <3>2 DEF CloseCore
      <4>2. \A x \in Clients : FileOf[x] = f => client[x].at # "up"
        BY <3>2 DEF CloseCore, DeadWhileClosed
      <4> QED
        BY <4>1, <4>2 DEF IdleClient
    <3> QED
      BY <1>7, <3>1, <3>2 DEF Dispatch, CoreWait
  <2> QED
    BY <2>1, <2>2, <2>3, <2>4, WakesKept
<1>8. CASE Isr \/ (\E k \in Cores : HwEnd(k)) \/ UNCHANGED vars
  <2>1. UNCHANGED <<client, dev, core_owner>>
    BY <1>8 DEF Isr, HwEnd, vars
  <2>2. FreeCores' = FreeCores
    BY <2>1 DEF FreeCores
  <2> QED
    BY <2>1, <2>2, WakesKept
<1> QED
  BY <1>1, <1>2, <1>3, <1>4, <1>5, <1>6, <1>7, <1>8 DEF Next, ClientStep, DeviceStep

---------------------------------------------------------------------------
(* The invariant and the theorems                                          *)

\* No permit too many, and none too few unless a signal may end a scan.
Balance == Lost \in Nat /\ ("scan" \notin KillAt => Lost = 0)

IInv == Types /\ DeadWhileClosed /\ Wakes /\ Balance

LEMMA BalanceNext ==
  ASSUME Types, DeadWhileClosed, Balance, [Next]_vars
  PROVE  Balance'
<1>1. ASSUME Lost' = Lost PROVE Balance'
  BY <1>1 DEF Balance
<1>2. ASSUME NEW f \in Files, CloseFile(f) PROVE Balance'
  BY <1>2, LostClose DEF Balance
<1>3. CASE Isr \/ (\E k \in Cores : HwEnd(k)) \/ UNCHANGED vars
  <2>1. UNCHANGED <<dec_core_sem, core_owner, client, dev>>
    BY <1>3 DEF Isr, HwEnd, vars
  <2>2. Scanning' = Scanning /\ Raising' = Raising
    BY <2>1 DEF Scanning, Raising
  <2> QED
    BY <1>1, <2>1, <2>2, LostKept
<1> QED
  BY <1>1, <1>2, <1>3, LostClient, LostDevice DEF Next

LEMMA IInvInit == Init => IInv
<1> SUFFICES ASSUME Init PROVE IInv
  OBVIOUS
<1>1. Types
  BY TypesInit
<1>2. /\ \A c \in Clients : client[c].at = "idle"
      /\ \A f \in Files : dev[f].listener = "none"
      /\ FreeCores = Cores
  BY DEF Init, IdleClient, NewDev, FreeCores
<1>3. Scanning = {} /\ Raising = {}
  BY <1>2 DEF Scanning, Raising
<1>4. Lost = 0
  BY <1>2, <1>3, CoresFinite, FS_EmptySet DEF Lost, Init
<1> QED
  BY <1>1, <1>2, <1>4, ClientsAssumption DEF IInv, DeadWhileClosed, Wakes, Balance

\* The inductive invariant, for any number of cores, clients and processes.
THEOREM Invariance == Spec => []IInv
<1>1. IInv /\ [Next]_vars => IInv'
  BY TypesNext, DeadNext, WakesNext, BalanceNext DEF IInv
<1> QED
  BY <1>1, IInvInit, PTL DEF Spec

\* Every variable of DecCores stays in its type; there are never more permits
\* than cores.
THEOREM TypeCorrect == Spec => []TypeOK
<1>1. IInv => TypeOK
  <2> SUFFICES ASSUME IInv PROVE TypeOK
    OBVIOUS
  <2>1. dec_core_sem \in 0 .. Cardinality(Cores)
    BY Counts, CoresFinite DEF IInv, Balance, Lost, Types
  <2> QED
    BY <2>1 DEF IInv, Types, TypeOK, ClientRecord, DevRecord, AsicRecord, Listeners
<1> QED
  BY <1>1, Invariance, PTL

\* The permits of the semaphore are exactly the free cores, less the scans under
\* way and the releases not yet finished, if no signal ends a scan.
THEOREM PermitsBalance ==
  ASSUME "scan" \notin KillAt
  PROVE  Spec => []PermitsExact
<1>1. IInv => PermitsExact
  <2> SUFFICES ASSUME IInv PROVE PermitsExact
    OBVIOUS
  <2> QED
    BY Counts DEF IInv, Balance, Lost, PermitsExact, Types
<1> QED
  BY <1>1, Invariance, PTL

\* Nobody sleeps on hw_queue while a core of the mask is free, unless a release
\* is about to wake all sleepers.
THEOREM NobodyForgotten == Spec => []NoLostWakeup
<1>1. IInv => NoLostWakeup
  BY DEF IInv, Wakes, NoLostWakeup
<1> QED
  BY <1>1, Invariance, PTL

---------------------------------------------------------------------------
(***************************************************************************)
(* The interrupts of the decoder cores, for any number of cores, clients   *)
(* and processes: what is reported of a core is about a job of its present *)
(* owner.  The invariant follows a finished job from the interrupt to the  *)
(* listener, its callback or the semaphore, to the client that waits: it   *)
(* is in one of these places at a time.  A last part counts these jobs,    *)
(* as the listener does.                                                   *)
(***************************************************************************)
State(k) == asic[k].st
Sem(f, k) == dev[f].sc_dec_rdy_sem[k]
Has(f, k) == dev[f].listener \in {"got", "callback"} /\ dev[f].id = k
Owns(f, k) == core_owner[k] # Nil /\ FileOf[core_owner[k]] = f
Waiting == {"pushed", "enabled", "decwait", "semwait"}

\* A core without owner does nothing; what a core does is its owner's job.
CoresQuiet ==
  \A k \in Cores :
    /\ core_owner[k] = Nil => State(k) = "off"
    /\ State(k) # "off" => asic[k].by = core_owner[k]

\* Where a client is, and what that says of its core.
ClientsRight ==
  \A c \in Clients :
    /\ c \in MultiCore => client[c].at \notin {"enabled", "decwait", "semwait", "ready", "up"}
    /\ c \notin MultiCore => client[c].at # "set"
    /\ client[c].at \in {"own", "set"} =>
         core_owner[client[c].core] = c /\ State(client[c].core) = "off"
    /\ c \notin MultiCore /\ client[c].at \in Waiting => core_owner[client[c].core] = c

\* A client that knows its job has ended is the only one to know.
ReadyRight ==
  \A c \in Clients : client[c].at = "ready" =>
    /\ core_owner[client[c].core] = c
    /\ State(client[c].core) = "done" /\ client[c].core \notin dec_irq
    /\ \A f \in Files : ~Has(f, client[c].core) /\ Sem(f, client[c].core) = 0

\* Where the owner of a core is, and whether the core has a callback.
OwnersRight ==
  \A k \in Cores : LET c == core_owner[k] IN c # Nil =>
    /\ client[c].at = "dead" => State(k) = "off"
    /\ c \notin MultiCore /\ client[c].at # "dead" =>
         /\ client[c].core = k /\ client[c].at \in Waiting \cup {"own", "ready"}
         /\ k \notin dev[FileOf[c]].cb_func
    /\ c \in MultiCore /\ State(k) # "off" => k \in dev[FileOf[c]].cb_func
    /\ c \in MultiCore /\ client[c].at # "dead" /\ State(k) = "off" =>
         client[c].at \in {"own", "set"} /\ client[c].core = k
    /\ client[c].at = "set" /\ client[c].core = k => k \in dev[FileOf[c]].cb_func

\* A finished job is in dec_irq, with the listener or in the semaphore.
IrqRight == \A k \in Cores : k \in dec_irq => State(k) = "done"

ListenersRight ==
  \A f \in Files, k \in Cores : Has(f, k) =>
    /\ Owns(f, k) /\ State(k) = "done" /\ k \notin dec_irq
    /\ dev[f].listener = "callback" => core_owner[k] \in MultiCore

SemsRight ==
  \A f \in Files, k \in Cores : Sem(f, k) > 0 =>
    /\ Sem(f, k) = 1 /\ ~Has(f, k)
    /\ Owns(f, k) /\ State(k) = "done" /\ k \notin dec_irq
    /\ core_owner[k] \notin MultiCore

\* The close of a file has passed the cores below its counter.
ClosePassed ==
  \A f \in Files : dev[f].listener \in {"close", "closeup"} =>
    \A k \in Cores : Owns(f, k) => k >= dev[f].id

JobInv ==
  /\ CoresQuiet /\ IrqRight /\ ClientsRight /\ OwnersRight
  /\ ReadyRight /\ ListenersRight /\ SemsRight /\ ClosePassed

LEMMA Records ==
  ASSUME Types
  PROVE  /\ \A c \in Clients : /\ client[c] \in ClientRecord /\ client[c].core \in Cores
                               /\ FileOf[c] \in Files
         /\ \A f \in Files : /\ dev[f] \in DevRecord /\ dev[f].id \in Cores
                             /\ dev[f].sc_dec_rdy_sem \in [Cores -> Nat]
         /\ \A k \in Cores : /\ asic[k] \in AsicRecord
                             /\ core_owner[k] = Nil \/ core_owner[k] \in Clients
         /\ Nil \notin Clients
BY ClientsAssumption DEF Types, ClientRecord, DevRecord

LEMMA Owned ==
  ASSUME NEW f \in Files, NEW k
  PROVE  k \in OwnedBy(f) <=> k \in Cores /\ Owns(f, k)
BY DEF OwnedBy, FreeCores, Owns

---------------------------------------------------------------------------
(* Steps of a client that touch no device and no core                      *)

\* The client goes from a place without a core to another one.
LEMMA JobElsewhere ==
  ASSUME Types, JobInv, NEW c \in Clients,
         client[c].at \in {"idle", "scan", "asleep", "up"},
         client'[c].at \in {"idle", "scan", "asleep", "up"},
         c \in MultiCore => client'[c].at # "up",
         \A x \in Clients \ {c} : /\ client'[x].core = client[x].core
                                  /\ \/ client'[x].at = client[x].at
                                     \/ /\ client'[x].at \in {"scan", "asleep"}
                                        /\ client[x].at \in {"scan", "asleep"},
         UNCHANGED <<core_owner, dec_irq, asic, dev>>
  PROVE  JobInv'
<1>1. CoresQuiet' /\ IrqRight' /\ ListenersRight' /\ SemsRight' /\ ClosePassed'
  BY DEF JobInv, CoresQuiet, IrqRight, ListenersRight, SemsRight, ClosePassed, State, Has, Sem, Owns
<1>2. ClientsRight'
  BY DEF JobInv, ClientsRight, State, Waiting
<1>3. OwnersRight'
  BY Records DEF JobInv, OwnersRight, State, Waiting
<1>4. ReadyRight'
  BY DEF JobInv, ReadyRight, State, Has, Sem
<1> QED
  BY <1>1, <1>2, <1>3, <1>4 DEF JobInv

\* The client moves on with its core.
Moves(c, at) ==
  /\ client'[c].at = at /\ client'[c].core = client[c].core
  /\ \A x \in Clients \ {c} : client'[x] = client[x]

LEMMA MovesTo ==
  ASSUME Types, NEW c \in Clients, NEW at, client' = [client EXCEPT ![c].at = at]
  PROVE  Moves(c, at)
BY DEF Moves, Types, ClientRecord

---------------------------------------------------------------------------
(* The steps of a client                                                   *)

LEMMA JobGetDecCore ==
  ASSUME Types, DeadWhileClosed, JobInv, NEW c \in Clients, GetDecCore(c)
  PROVE  JobInv'
<1> DEFINE f == FileOf[c]
<1>k. PICK k \in Cores : k = client[c].core
  BY Records
<1>0. /\ k \in Cores /\ f \in Files /\ dev[f] \in DevRecord /\ client[c].at = "scan"
      /\ client[c] \in ClientRecord
  BY <1>k, Records DEF GetDecCore
<1>1. CASE k \in Mask[c] \cap FreeCores
  <2>1. Moves(c, "own")
    BY <1>k, <1>0, <1>1 DEF GetDecCore, Types, ClientRecord, Moves
  <2>2. /\ core_owner[k] = Nil /\ core_owner'[k] = c
        /\ \A j \in Cores \ {k} : core_owner'[j] = core_owner[j]
        /\ UNCHANGED <<dec_irq, asic>>
    BY <1>k, <1>0, <1>1 DEF GetDecCore, FreeCores, Types
  <2>3. /\ \A g \in Files \ {f} : dev'[g] = dev[g]
        /\ dev'[f].listener = dev[f].listener /\ dev'[f].id = dev[f].id
        /\ dev'[f].cb_func = dev[f].cb_func \ {k}
        /\ dev'[f].sc_dec_rdy_sem =
             [dev[f].sc_dec_rdy_sem EXCEPT ![k] = IF @ > 0 THEN @ - 1 ELSE 0]
    <3>1. dev' = [dev EXCEPT ![f].cb_func = @ \ {k},
                             ![f].sc_dec_rdy_sem[k] = IF @ > 0 THEN @ - 1 ELSE 0]
      BY <1>k, <1>1 DEF GetDecCore
    <3> HIDE DEF f
    <3> QED
      BY <1>k, <1>0, <3>1 DEF Types, DevRecord
  <2>4. \A g \in Files : Sem(g, k) = 0 /\ ~Has(g, k)
    BY <1>k, <1>0, <2>2, Records DEF JobInv, ListenersRight, SemsRight, State, Has, Sem, Owns
  <2>5. \A g \in Files, j \in Cores : /\ Sem(g, j)' = Sem(g, j) /\ (Has(g, j)' <=> Has(g, j))
                                      /\ dev'[g].listener = dev[g].listener
                                      /\ dev'[g].id = dev[g].id
    BY <1>k, <1>0, <2>3, <2>4, Records DEF Sem, Has
  <2>6. State(k) = "off" /\ k \notin dec_irq
    BY <1>k, <1>0, <2>2 DEF JobInv, CoresQuiet, IrqRight
  <2>7. \A j \in Cores : State(j)' = State(j)
    BY <2>2 DEF State
  <2>8. /\ \A g \in Files, j \in Cores \ {k} : Owns(g, j)' <=> Owns(g, j)
        /\ \A g \in Files \ {f} : ~Owns(g, k)'
    BY <1>k, <1>0, <2>2 DEF Owns
  <2> HIDE DEF f
  <2>9. CoresQuiet' /\ IrqRight'
    BY <1>k, <1>0, <2>2, <2>6, <2>7 DEF JobInv, CoresQuiet, IrqRight
  <2>10. ClientsRight'
    BY <1>k, <1>0, <2>1, <2>2, <2>6, <2>7, Records DEF JobInv, ClientsRight, Moves, f
  <2>11. OwnersRight'
    BY <1>k, <1>0, <2>1, <2>2, <2>3, <2>6, <2>7, Records, SMTT(40)
    DEF JobInv, OwnersRight, Moves, f, Waiting
  <2>12. ReadyRight'
    BY <1>k, <1>0, <2>1, <2>2, <2>5, <2>7, Records DEF JobInv, ReadyRight, Moves, State, Has, Sem
  <2>13. ListenersRight' /\ SemsRight'
    BY <1>k, <1>0, <2>2, <2>4, <2>5, <2>7, <2>8 DEF JobInv, ListenersRight, SemsRight, State, Has, Sem, Owns
  <2>14. ClosePassed'
    <3>1. f \in Files /\ dev[f].listener \notin {"close", "closeup"}
      BY <1>k, <1>0 DEF f, DeadWhileClosed
    <3> QED
      BY <1>k, <1>0, <2>5, <2>8, <3>1 DEF JobInv, ClosePassed
  <2> QED
    BY <2>9, <2>10, <2>11, <2>12, <2>13, <2>14 DEF JobInv
<1>2. CASE k \notin Mask[c] \cap FreeCores
  <2>1. client'[c].at \in {"scan", "asleep"}
    BY <1>k, <1>0, <1>2 DEF GetDecCore, Types, ClientRecord
  <2>2. \A x \in Clients \ {c} : client'[x] = client[x]
    BY <1>2 DEF GetDecCore, Types
  <2> QED
    BY <1>k, <1>0, <1>2, <2>1, <2>2, JobElsewhere DEF GetDecCore
<1> QED
  BY <1>1, <1>2

LEMMA JobReserveDown ==
  ASSUME Types, JobInv, NEW c \in Clients, ReserveDown(c)
  PROVE  JobInv'
<1>1. client[c].at = "idle" /\ client'[c].at = "scan" /\ \A x \in Clients \ {c} : client'[x] = client[x]
  BY DEF ReserveDown, Types
<1> QED
  BY <1>1, JobElsewhere DEF ReserveDown

LEMMA JobReleased ==
  ASSUME Types, JobInv, NEW c \in Clients, Released(c)
  PROVE  JobInv'
<1> DEFINE cl == [client EXCEPT ![c] = IdleClient]
<1>1. cl \in [Clients -> ClientRecord] /\ client' = WakeAll(cl)
  BY CoresFinite DEF Released, UpAndWake, Types, IdleClient, ClientRecord
<1>2. /\ cl[c].at = "idle" /\ \A x \in Clients \ {c} : cl[x] = client[x]
  BY DEF Types, IdleClient
<1> HIDE DEF cl
<1>3. /\ client'[c].at = "idle"
      /\ \A x \in Clients \ {c} : /\ client'[x].core = client[x].core
                                  /\ \/ client'[x].at = client[x].at
                                     \/ /\ client'[x].at \in {"scan", "asleep"}
                                        /\ client[x].at \in {"scan", "asleep"}
  BY <1>1, <1>2, Woken
<1> QED
  BY <1>3, JobElsewhere DEF Released

LEMMA JobSetIRQCallback ==
  ASSUME Types, JobInv, NEW c \in Clients, SetIRQCallback(c)
  PROVE  JobInv'
<1> DEFINE f == FileOf[c]
<1>k. PICK k \in Cores : k = client[c].core
  BY Records
<1>0. k \in Cores /\ f \in Files /\ dev[f] \in DevRecord /\ client[c].at = "own" /\ c \in MultiCore
  BY <1>k, Records DEF SetIRQCallback
<1>1. Moves(c, "set") /\ UNCHANGED <<core_owner, dec_irq, asic>>
  BY MovesTo DEF SetIRQCallback
<1>2. /\ \A g \in Files \ {f} : dev'[g] = dev[g]
      /\ dev'[f].listener = IF dev[f].listener = "none" THEN "loop" ELSE dev[f].listener
      /\ dev'[f].id = dev[f].id
      /\ dev'[f].cb_func = dev[f].cb_func \cup {k}
      /\ dev'[f].sc_dec_rdy_sem = dev[f].sc_dec_rdy_sem
  BY <1>k, <1>0 DEF SetIRQCallback, Types, DevRecord
<1>3. \A g \in Files, j \in Cores :
         /\ Sem(g, j)' = Sem(g, j) /\ (Has(g, j)' <=> Has(g, j))
         /\ dev'[g].id = dev[g].id
         /\ dev'[g].listener \in {"callback", "close", "closeup"}
              => dev'[g].listener = dev[g].listener
  BY <1>k, <1>0, <1>2 DEF Sem, Has
<1>4. \A j \in Cores : State(j)' = State(j)
  BY <1>1 DEF State
<1>5. \A g \in Files, j \in Cores : Owns(g, j)' <=> Owns(g, j)
  BY <1>1 DEF Owns
<1>6. core_owner[k] = c /\ State(k) = "off"
  BY <1>k, <1>0 DEF JobInv, ClientsRight
<1> HIDE DEF f
<1>7. CoresQuiet' /\ IrqRight'
  BY <1>1, <1>4 DEF JobInv, CoresQuiet, IrqRight
<1>8. ClientsRight'
  BY <1>k, <1>0, <1>1, <1>4, <1>6, Records DEF JobInv, ClientsRight, Moves
<1>9. OwnersRight'
  BY <1>k, <1>0, <1>1, <1>2, <1>4, <1>6, Records DEF JobInv, OwnersRight, Moves, f, Waiting
<1>10. ReadyRight'
  BY <1>k, <1>1, <1>3, <1>4, Records DEF JobInv, ReadyRight, Moves, State, Has, Sem
<1>11. ListenersRight' /\ SemsRight'
  BY <1>1, <1>3, <1>4, <1>5 DEF JobInv, ListenersRight, SemsRight, State, Has, Sem, Owns
<1>12. ClosePassed'
  BY <1>3, <1>5, CoresFinite DEF JobInv, ClosePassed
<1> QED
  BY <1>7, <1>8, <1>9, <1>10, <1>11, <1>12 DEF JobInv

LEMMA JobEnableHw ==
  ASSUME Types, JobInv, NEW c \in Clients, EnableHw(c)
  PROVE  JobInv'
<1> DEFINE f == FileOf[c]
<1>k. PICK k \in Cores : k = client[c].core
  BY Records
<1>0. /\ f \in Files /\ core_owner[k] = c /\ State(k) = "off"
      /\ client[c].at = IF c \in MultiCore THEN "set" ELSE "own"
  BY <1>k, Records DEF EnableHw, JobInv, ClientsRight
<1>1. Moves(c, "pushed") /\ UNCHANGED <<core_owner, dec_irq, dev>>
  BY MovesTo DEF EnableHw
<1>2. /\ State(k)' = "run" /\ asic'[k].by = c
      /\ \A j \in Cores \ {k} : asic'[j] = asic[j]
  BY <1>k DEF EnableHw, State, Types
<1>3. k \notin dec_irq /\ \A g \in Files : ~Has(g, k) /\ ~(Sem(g, k) > 0)
  BY <1>0 DEF JobInv, IrqRight, ListenersRight, SemsRight
<1>4. \A g \in Files, j \in Cores :
         /\ Sem(g, j)' = Sem(g, j) /\ (Has(g, j)' <=> Has(g, j)) /\ (Owns(g, j)' <=> Owns(g, j))
  BY <1>1 DEF Sem, Has, Owns
<1> HIDE DEF f
<1>5. CoresQuiet' /\ IrqRight'
  BY <1>0, <1>1, <1>2, <1>3, Records DEF JobInv, CoresQuiet, IrqRight, State
<1>6. ClientsRight'
  BY <1>k, <1>0, <1>1, <1>2, Records DEF JobInv, ClientsRight, Moves, Waiting, State
<1>7. OwnersRight'
  BY <1>k, <1>0, <1>1, <1>2, Records DEF JobInv, OwnersRight, Moves, Waiting, State, f
<1>8. ReadyRight'
  BY <1>k, <1>0, <1>1, <1>2, Records DEF JobInv, ReadyRight, Moves, State, Has, Sem
<1>9. ListenersRight' /\ SemsRight'
  BY <1>1, <1>2, <1>3, <1>4 DEF JobInv, ListenersRight, SemsRight, State
<1>10. ClosePassed'
  BY <1>1 DEF JobInv, ClosePassed, Owns
<1> QED
  BY <1>5, <1>6, <1>7, <1>8, <1>9, <1>10 DEF JobInv

\* What the listener does with its counters and clients with theirs is not seen here.
SameDevices ==
  \A g \in Files : /\ dev'[g].listener = dev[g].listener /\ dev'[g].id = dev[g].id
                   /\ dev'[g].cb_func = dev[g].cb_func
                   /\ dev'[g].sc_dec_rdy_sem = dev[g].sc_dec_rdy_sem

LEMMA JobSideways ==
  ASSUME Types, JobInv, NEW c \in Clients, client[c].at \in {"pushed", "enabled"},
         IF c \in MultiCore THEN client'[c].at = "idle"
         ELSE client'[c].at \in Waiting /\ client'[c].core = client[c].core,
         \A x \in Clients \ {c} : client'[x] = client[x],
         UNCHANGED <<core_owner, dec_irq, asic>>, SameDevices
  PROVE  JobInv'
<1>1. \A g \in Files, j \in Cores :
         /\ Sem(g, j)' = Sem(g, j) /\ (Has(g, j)' <=> Has(g, j)) /\ (Owns(g, j)' <=> Owns(g, j))
  BY DEF Sem, Has, Owns, SameDevices
<1>2. CoresQuiet' /\ IrqRight'
  BY DEF JobInv, CoresQuiet, IrqRight, State
<1>3. ClientsRight'
  BY DEF JobInv, ClientsRight, Waiting, State
<1>4. OwnersRight'
  BY Records DEF JobInv, OwnersRight, Waiting, State, SameDevices
<1>5. ReadyRight'
  BY Records DEF JobInv, ReadyRight, State, Has, Sem, SameDevices, Waiting
<1>6. ListenersRight' /\ SemsRight'
  BY <1>1 DEF JobInv, ListenersRight, SemsRight, State, SameDevices
<1>7. ClosePassed'
  BY DEF JobInv, ClosePassed, Owns, SameDevices
<1> QED
  BY <1>2, <1>3, <1>4, <1>5, <1>6, <1>7 DEF JobInv

LEMMA JobCountJob ==
  ASSUME Types, JobInv, NEW c \in Clients, CountJob(c)
  PROVE  JobInv'
<1>1. /\ client'[c] = IF c \in MultiCore THEN IdleClient ELSE [client[c] EXCEPT !.at = "enabled"]
      /\ \A x \in Clients \ {c} : client'[x] = client[x]
  BY DEF CountJob, Types
<1>2. IF c \in MultiCore THEN client'[c].at = "idle"
      ELSE client'[c].at \in Waiting /\ client'[c].core = client[c].core
  BY <1>1, Records DEF IdleClient, ClientRecord, Waiting
<1>3. SameDevices
  BY Records DEF CountJob, SameDevices, Types, DevRecord
<1> QED
  BY <1>1, <1>2, <1>3, JobSideways DEF CountJob

LEMMA JobWaitHwReady ==
  ASSUME Types, JobInv, NEW c \in Clients, WaitHwReady(c)
  PROVE  JobInv'
<1>1. Moves(c, "semwait") \/ Moves(c, "decwait")
  BY MovesTo DEF WaitHwReady
<1>2. c \notin MultiCore
  BY DEF JobInv, ClientsRight, WaitHwReady
<1> QED
  BY <1>1, <1>2, JobSideways DEF WaitHwReady, Moves, Waiting, SameDevices

LEMMA JobDecWait ==
  ASSUME Types, JobInv, NEW c \in Clients, DecWait(c)
  PROVE  JobInv'
<1>k. PICK k \in Cores : k = client[c].core
  BY Records
<1>0. /\ c \notin MultiCore /\ client[c].at = "decwait" /\ k \in dec_irq
      /\ core_owner[k] = c /\ State(k) = "done"
      /\ \A g \in Files : ~Has(g, k) /\ ~(Sem(g, k) > 0)
  BY <1>k DEF DecWait, JobInv, ClientsRight, IrqRight, ListenersRight, SemsRight, Waiting
<1>1. Moves(c, "ready") /\ UNCHANGED <<core_owner, asic, dev>> /\ dec_irq' = dec_irq \ {k}
  BY <1>k, MovesTo DEF DecWait
<1>2. CoresQuiet' /\ IrqRight' /\ ClosePassed'
  BY <1>1 DEF JobInv, CoresQuiet, IrqRight, ClosePassed, State, Owns
<1>3. ClientsRight'
  BY <1>k, <1>0, <1>1 DEF JobInv, ClientsRight, Waiting, State, Moves
<1>4. OwnersRight'
  BY <1>k, <1>0, <1>1, Records DEF JobInv, OwnersRight, Waiting, State, Moves
<1>5. ReadyRight'
  <2>1. \A g \in Files : ~Has(g, k)' /\ Sem(g, k)' = 0
    BY <1>0, <1>1, Records DEF Has, Sem
  <2> QED
    BY <1>k, <1>0, <1>1, <2>1, Records DEF JobInv, ReadyRight, State, Moves, Has, Sem
<1>6. ListenersRight' /\ SemsRight'
  BY <1>1 DEF JobInv, ListenersRight, SemsRight, State, Has, Sem, Owns
<1> QED
  BY <1>2, <1>3, <1>4, <1>5, <1>6 DEF JobInv

LEMMA JobSemWait ==
  ASSUME Types, JobInv, NEW c \in Clients, SemWait(c)
  PROVE  JobInv'
<1> DEFINE f == FileOf[c]
<1>k. PICK k \in Cores : k = client[c].core
  BY Records
<1>0. /\ f \in Files /\ dev[f] \in DevRecord
      /\ c \notin MultiCore /\ client[c].at = "semwait" /\ core_owner[k] = c
  BY <1>k, Records DEF SemWait, JobInv, ClientsRight, Waiting
<1>1. Sem(f, k) = 1 /\ ~Has(f, k) /\ Owns(f, k) /\ State(k) = "done" /\ k \notin dec_irq
  BY <1>k, <1>0 DEF SemWait, JobInv, SemsRight, Sem
<1>2. Moves(c, "ready") /\ UNCHANGED <<core_owner, asic, dec_irq>>
  BY MovesTo DEF SemWait
<1>3. /\ \A g \in Files \ {f} : dev'[g] = dev[g]
      /\ dev'[f].listener = dev[f].listener /\ dev'[f].id = dev[f].id
      /\ dev'[f].cb_func = dev[f].cb_func
      /\ dev'[f].sc_dec_rdy_sem = [dev[f].sc_dec_rdy_sem EXCEPT ![k] = @ - 1]
  <2>1. dev' = [dev EXCEPT ![f].sc_dec_rdy_sem[k] = @ - 1]
    BY <1>k DEF SemWait
  <2> HIDE DEF f
  <2> QED
    BY <1>0, <2>1 DEF Types, DevRecord
<1>4. \A g \in Files, j \in Cores :
         /\ Sem(g, j)' = IF g = f /\ j = k THEN 0 ELSE Sem(g, j)
         /\ Has(g, j)' <=> Has(g, j)
         /\ Owns(g, j)' <=> Owns(g, j)
         /\ dev'[g].listener = dev[g].listener /\ dev'[g].id = dev[g].id
         /\ dev'[g].cb_func = dev[g].cb_func
  BY <1>0, <1>1, <1>2, <1>3, Records DEF Sem, Has, Owns
<1>5. \A g \in Files \ {f} : ~Has(g, k) /\ Sem(g, k) = 0
  BY <1>0, <1>1, Records DEF JobInv, ListenersRight, SemsRight, Owns, Sem
<1> HIDE DEF f
<1>6. CoresQuiet' /\ IrqRight'
  BY <1>2 DEF JobInv, CoresQuiet, IrqRight, State
<1>7. ClientsRight'
  BY <1>k, <1>0, <1>2 DEF JobInv, ClientsRight, Waiting, State, Moves
<1>8. OwnersRight'
  BY <1>k, <1>0, <1>2, <1>4, Records DEF JobInv, OwnersRight, Waiting, State, Moves
<1>9. ReadyRight'
  <2>1. \A g \in Files : ~Has(g, k)' /\ Sem(g, k)' = 0
    BY <1>1, <1>4, <1>5
  <2>2. \A x \in Clients \ {c} : client[x].at = "ready" =>
           /\ client[x].core # k
           /\ \A g \in Files : ~Has(g, client[x].core)' /\ Sem(g, client[x].core)' = 0
    BY <1>0, <1>2, <1>3, Records DEF JobInv, ReadyRight, Has, Sem, Moves
  <2> QED
    BY <1>k, <1>0, <1>1, <1>2, <2>1, <2>2, Records DEF JobInv, ReadyRight, State, Moves, Has, Sem
<1>10. ListenersRight' /\ SemsRight'
  BY <1>2, <1>4 DEF JobInv, ListenersRight, SemsRight, State
<1>11. ClosePassed'
  BY <1>4 DEF JobInv, ClosePassed
<1> QED
  BY <1>6, <1>7, <1>8, <1>9, <1>10, <1>11 DEF JobInv
---------------------------------------------------------------------------
(* The hardware and the interrupt                                          *)

LEMMA JobHwEnd ==
  ASSUME Types, JobInv, NEW k \in Cores, HwEnd(k)
  PROVE  JobInv'
<1>1. /\ State(k) = "run" /\ State(k)' = "irq" /\ asic'[k].by = asic[k].by
      /\ \A j \in Cores \ {k} : asic'[j] = asic[j]
      /\ UNCHANGED <<core_owner, dec_irq, client, dev>>
  BY DEF HwEnd, State, Types, AsicRecord
<1>2. CoresQuiet' /\ IrqRight' /\ ClientsRight' /\ ClosePassed'
  BY <1>1, Records DEF JobInv, CoresQuiet, IrqRight, ClientsRight, ClosePassed, State, Owns
<1>3. OwnersRight'
  BY <1>1, Records DEF JobInv, OwnersRight, State
<1>4. ReadyRight' /\ ListenersRight' /\ SemsRight'
  BY <1>1, Records DEF JobInv, ReadyRight, ListenersRight, SemsRight, State, Has, Sem, Owns
<1> QED
  BY <1>2, <1>3, <1>4 DEF JobInv

LEMMA JobIsr ==
  ASSUME Types, JobInv, Isr
  PROVE  JobInv'
<1> DEFINE raised == {k \in Cores : asic[k].st = "irq"}
<1>1. /\ dec_irq' = dec_irq \cup raised
      /\ UNCHANGED <<core_owner, client, dev>>
  BY DEF Isr
<1>2. \A k \in Cores : /\ State(k)' = IF State(k) = "irq" THEN "done" ELSE State(k)
                       /\ asic'[k].by = asic[k].by
  BY DEF Isr, State, Types, AsicRecord
<1>3. \A k \in Cores : State(k) # "irq" => k \notin raised
  BY DEF State
<1>4. \A k \in Cores : k \in raised => State(k) = "irq"
  BY DEF State
<1> HIDE DEF raised
<1>5. CoresQuiet' /\ IrqRight' /\ ClosePassed'
  BY <1>1, <1>2, <1>4 DEF JobInv, CoresQuiet, IrqRight, ClosePassed, Owns
<1>9. ClientsRight'
  <2>1. \A c \in Clients : client[c].at \in {"own", "set"} => asic'[client[c].core].st = "off"
    BY <1>2, Records DEF JobInv, ClientsRight, State
  <2> QED
    BY <1>1, <2>1 DEF JobInv, ClientsRight, State, Waiting
<1>6. OwnersRight'
  BY <1>1, <1>2, Records DEF JobInv, OwnersRight
<1>7. ReadyRight'
  <2>1. ASSUME NEW c \in Clients, client'[c].at = "ready"
        PROVE  /\ core_owner'[client'[c].core] = c
               /\ asic'[client'[c].core].st = "done" /\ client'[c].core \notin dec_irq'
               /\ \A f \in Files : ~Has(f, client[c].core)' /\ Sem(f, client[c].core)' = 0
    <3>1. PICK k \in Cores : k = client[c].core
      BY Records
    <3>2. /\ core_owner[k] = c /\ State(k) = "done" /\ k \notin dec_irq
          /\ \A f \in Files : ~Has(f, k) /\ Sem(f, k) = 0
      BY <1>1, <2>1, <3>1 DEF JobInv, ReadyRight
    <3>3. /\ State(k)' = "done" /\ k \notin dec_irq'
          /\ \A f \in Files : ~Has(f, k)' /\ Sem(f, k)' = 0
      BY <1>1, <1>2, <1>3, <3>2 DEF Has, Sem
    <3> QED
      BY <1>1, <3>1, <3>2, <3>3 DEF State, Has, Sem
  <2> QED
    BY <1>1, <2>1 DEF ReadyRight, State, Has, Sem
<1>8. ListenersRight' /\ SemsRight'
  BY <1>1, <1>2, <1>3 DEF JobInv, ListenersRight, SemsRight, Has, Sem, Owns
<1> QED
  BY <1>5, <1>6, <1>7, <1>8, <1>9 DEF JobInv

---------------------------------------------------------------------------
(* The release of a core                                                   *)

\* A client that is not the owner of k is not at work on it.
LEMMA OthersElsewhere ==
  ASSUME Types, JobInv, NEW k \in Cores, State(k) \in {"off", "done"},
         State(k) = "off" => core_owner[k] # Nil /\ client[core_owner[k]].at = "dead",
         NEW x \in Clients, client[x].core = k,
         \/ client[x].at \in {"own", "set", "ready"}
         \/ x \notin MultiCore /\ client[x].at \in Waiting
  PROVE  x = core_owner[k] /\ x \notin MultiCore
<1>1. x = core_owner[k]
  BY DEF JobInv, ClientsRight, ReadyRight
<1>2. x \notin MultiCore
  BY <1>1, Records DEF JobInv, ClientsRight, Waiting
<1> QED
  BY <1>1, <1>2

\* A core whose job has ended, or that never had one, loses its owner.
LEMMA JobDisown ==
  ASSUME Types, JobInv, NEW k \in Cores, Disown(k),
         core_owner[k] # Nil, State(k) \in {"off", "done"},
         State(k) = "off" => client[core_owner[k]].at = "dead",
         \A x \in Clients :
           /\ client'[x].core = client[x].core
           /\ \/ client'[x].at = client[x].at
              \/ client[x].at = "ready" /\ core_owner[k] = x /\ client'[x].at = "up",
         core_owner[k] \in MultiCore \/ client'[core_owner[k]].at \in {"up", "dead"},
         \A g \in Files :
           /\ ~Has(g, k)' /\ Sem(g, k)' = 0
           /\ \A j \in Cores \ {k} : Sem(g, j)' = Sem(g, j) /\ (Has(g, j)' <=> Has(g, j))
           /\ dev'[g].cb_func = dev[g].cb_func
           /\ dev'[g].listener \in {"callback", "close", "closeup"} =>
                \/ dev'[g] = dev[g]
                \/ /\ dev[g].listener \in {"close", "closeup"}
                   /\ dev'[g].listener \in {"close", "closeup"} /\ dev'[g].id = dev[g].id
  PROVE  JobInv'
<1>1. /\ core_owner'[k] = Nil /\ State(k)' = "off"
      /\ \A j \in Cores \ {k} : /\ core_owner'[j] = core_owner[j]
                                /\ asic'[j] = asic[j] /\ State(j)' = State(j)
      /\ dec_irq' = dec_irq \ {k}
  BY DEF Disown, Types, State, OffAsic
<1>2. \A g \in Files : /\ ~Owns(g, k)'
                       /\ \A j \in Cores \ {k} : Owns(g, j)' <=> Owns(g, j)
  BY <1>1 DEF Owns
<1>3. \A x \in Clients :
         \/ client'[x].at \in {"own", "set", "ready"}
         \/ x \notin MultiCore /\ client'[x].at \in Waiting
         => client[x].core # k /\ client'[x].at = client[x].at
  BY OthersElsewhere DEF Waiting
<1>4. CoresQuiet' /\ IrqRight'
  BY <1>1 DEF JobInv, CoresQuiet, IrqRight
<1>5. ClientsRight'
  <2>1. ASSUME NEW x \in Clients
        PROVE  /\ x \in MultiCore =>
                    client'[x].at \notin {"enabled", "decwait", "semwait", "ready", "up"}
               /\ x \notin MultiCore => client'[x].at # "set"
    BY DEF JobInv, ClientsRight
  <2>2. ASSUME NEW x \in Clients, client'[x].at \in {"own", "set"}
        PROVE  core_owner'[client'[x].core] = x /\ asic'[client'[x].core].st = "off"
    BY <1>1, <1>3, <2>2, Records DEF JobInv, ClientsRight, State
  <2>3. ASSUME NEW x \in Clients, x \notin MultiCore, client'[x].at \in Waiting
        PROVE  core_owner'[client'[x].core] = x
    BY <1>1, <1>3, <2>3, Records DEF JobInv, ClientsRight
  <2> QED
    BY <2>1, <2>2, <2>3 DEF ClientsRight, State, Waiting
<1>6. OwnersRight'
  <2> SUFFICES ASSUME NEW j \in Cores, core_owner'[j] # Nil
               PROVE  LET c == core_owner'[j] IN
                 /\ client'[c].at = "dead" => State(j)' = "off"
                 /\ c \notin MultiCore /\ client'[c].at # "dead" =>
                      /\ client'[c].core = j /\ client'[c].at \in Waiting \cup {"own", "ready"}
                      /\ j \notin dev'[FileOf[c]].cb_func
                 /\ c \in MultiCore /\ State(j)' # "off" => j \in dev'[FileOf[c]].cb_func
                 /\ c \in MultiCore /\ client'[c].at # "dead" /\ State(j)' = "off" =>
                      client'[c].at \in {"own", "set"} /\ client'[c].core = j
                 /\ client'[c].at = "set" /\ client'[c].core = j => j \in dev'[FileOf[c]].cb_func
    BY DEF OwnersRight, Waiting, State
  <2>1. PICK c \in Clients : c = core_owner[j] /\ c = core_owner'[j] /\ j # k
    BY <1>1, Records
  <2>2. client'[c].at = client[c].at /\ client'[c].core = client[c].core
    <3>1. CASE core_owner[k] = c /\ client[c].at = "ready"
      <4>1. c \notin MultiCore
        BY <2>1, <3>1 DEF JobInv, ClientsRight
      <4>2. \A i \in Cores : core_owner[i] = c => client[c].core = i
        BY <3>1, <4>1, Records DEF JobInv, OwnersRight
      <4>3. client[c].core = k /\ client[c].core = j
        BY <2>1, <3>1, <4>2
      <4> QED
        BY <2>1, <4>3
    <3> QED
      BY <2>1, <3>1
  <2> QED
    BY <1>1, <2>1, <2>2, Records DEF JobInv, OwnersRight
<1>7. ReadyRight'
  <2>1. ASSUME NEW x \in Clients, client'[x].at = "ready"
        PROVE  /\ core_owner'[client'[x].core] = x
               /\ asic'[client'[x].core].st = "done" /\ client'[x].core \notin dec_irq'
               /\ \A f \in Files : ~Has(f, client[x].core)' /\ Sem(f, client[x].core)' = 0
    <3>1. PICK j \in Cores \ {k} : j = client[x].core /\ j = client'[x].core
      BY <1>3, <2>1, Records
    <3>2. /\ core_owner[j] = x /\ State(j) = "done" /\ j \notin dec_irq
          /\ \A f \in Files : ~Has(f, j) /\ Sem(f, j) = 0
      BY <1>3, <2>1, <3>1 DEF JobInv, ReadyRight
    <3>3. \A f \in Files : ~Has(f, j)' /\ Sem(f, j)' = 0
      BY <3>1, <3>2
    <3> QED
      BY <1>1, <3>1, <3>2, <3>3 DEF State, Has, Sem
  <2> QED
    BY <2>1 DEF ReadyRight, State, Has, Sem
<1>8. ListenersRight' /\ SemsRight'
  <2>1. ASSUME NEW g \in Files, NEW j \in Cores, Has(g, j)'
        PROVE  /\ Owns(g, j)' /\ State(j)' = "done" /\ j \notin dec_irq'
               /\ dev'[g].listener = "callback" => core_owner'[j] \in MultiCore
    <3>1. j # k /\ Has(g, j)
      BY <2>1
    <3> QED
      BY <1>1, <1>2, <3>1 DEF JobInv, ListenersRight
  <2>2. ASSUME NEW g \in Files, NEW j \in Cores, Sem(g, j)' > 0
        PROVE  /\ Sem(g, j)' = 1 /\ ~Has(g, j)'
               /\ Owns(g, j)' /\ State(j)' = "done" /\ j \notin dec_irq'
               /\ core_owner'[j] \notin MultiCore
    <3>1. j # k /\ Sem(g, j) > 0 /\ Sem(g, j)' = Sem(g, j)
      BY <2>2
    <3> QED
      BY <1>1, <1>2, <3>1 DEF JobInv, SemsRight
  <2> QED
    BY <2>1, <2>2 DEF ListenersRight, SemsRight
<1>9. ClosePassed'
  BY <1>2 DEF JobInv, ClosePassed
<1> QED
  BY <1>4, <1>5, <1>6, <1>7, <1>8, <1>9 DEF JobInv
LEMMA JobReleaseHw ==
  ASSUME Types, JobInv, NEW c \in Clients, ReleaseHw(c)
  PROVE  JobInv'
<1>k. PICK k \in Cores : k = client[c].core
  BY Records
<1>1. /\ client[c].at = "ready" /\ Disown(k) /\ dev' = dev /\ Moves(c, "up")
  BY <1>k, MovesTo DEF ReleaseHw
<1>2. /\ core_owner[k] = c /\ State(k) = "done"
      /\ \A g \in Files : ~Has(g, k) /\ Sem(g, k) = 0
  BY <1>k, <1>1 DEF JobInv, ReadyRight
<1>3. \A g \in Files, j \in Cores : Sem(g, j)' = Sem(g, j) /\ (Has(g, j)' <=> Has(g, j))
  BY <1>1 DEF Sem, Has
<1>4. \A x \in Clients :
        /\ client'[x].core = client[x].core
        /\ \/ client'[x].at = client[x].at
           \/ client[x].at = "ready" /\ core_owner[k] = x /\ client'[x].at = "up"
  BY <1>1, <1>2 DEF Moves
<1>5. core_owner[k] # Nil /\ client'[core_owner[k]].at = "up"
  BY <1>1, <1>2, Records DEF Moves
<1> QED
  BY <1>1, <1>2, <1>3, <1>4, <1>5, JobDisown

LEMMA JobCallbackReleases ==
  ASSUME Types, JobInv, NEW f \in Files, CallbackReleases(f)
  PROVE  JobInv'
<1>k. PICK k \in Cores : k = dev[f].id
  BY Records
<1>1. /\ dev[f].listener = "callback" /\ Disown(k) /\ client' = client
      /\ \A g \in Files \ {f} : dev'[g] = dev[g]
      /\ dev'[f].listener = "up" /\ dev'[f].id = dev[f].id
      /\ dev'[f].cb_func = dev[f].cb_func
      /\ dev'[f].sc_dec_rdy_sem = dev[f].sc_dec_rdy_sem
  BY <1>k DEF CallbackReleases, Types, DevRecord
<1>2. Has(f, k)
  BY <1>k, <1>1 DEF Has
<1>3. /\ Owns(f, k) /\ State(k) = "done" /\ core_owner[k] \in MultiCore
      /\ \A g \in Files \ {f} : ~Has(g, k)
      /\ \A g \in Files : Sem(g, k) = 0
  <2>1. Owns(f, k) /\ State(k) = "done" /\ core_owner[k] \in MultiCore
    BY <1>1, <1>2 DEF JobInv, ListenersRight
  <2>2. \A g \in Files \ {f} : ~Has(g, k)
    BY <2>1 DEF JobInv, ListenersRight, Owns
  <2>3. \A g \in Files : ~(Sem(g, k) > 0)
    BY <2>1 DEF JobInv, SemsRight
  <2>4. \A g \in Files : Sem(g, k) \in Nat
    BY Records DEF Sem
  <2> QED
    BY <2>1, <2>2, <2>3, <2>4
<1>4. \A g \in Files :
        /\ ~Has(g, k)' /\ Sem(g, k)' = 0
        /\ \A j \in Cores \ {k} : Sem(g, j)' = Sem(g, j) /\ (Has(g, j)' <=> Has(g, j))
        /\ dev'[g].cb_func = dev[g].cb_func
        /\ dev'[g].listener \in {"callback", "close", "closeup"} => dev'[g] = dev[g]
  BY <1>k, <1>1, <1>3 DEF Has, Sem
<1> QED
  BY <1>1, <1>3, <1>4, JobDisown DEF Owns

---------------------------------------------------------------------------
(* Wake-ups                                                                *)

\* The clients in a scan wake up; the device goes on.
LEMMA JobWoken ==
  ASSUME Types, JobInv, NEW f \in Files, UNCHANGED <<core_owner, dec_irq, asic>>,
         client' = WakeAll(client),
         \A g \in Files \ {f} : dev'[g] = dev[g],
         dev'[f].cb_func = dev[f].cb_func,
         dev'[f].sc_dec_rdy_sem = dev[f].sc_dec_rdy_sem,
         \/ dev[f].listener = "up" /\ dev'[f].listener = "loop"
         \/ dev[f].listener = "closeup" /\ dev'[f].listener = "close" /\ dev'[f].id = dev[f].id
  PROVE  JobInv'
<1>1. \A x \in Clients :
         /\ client'[x].core = client[x].core
         /\ \/ client'[x].at = client[x].at
            \/ /\ client'[x].at \in {"scan", "asleep"}
               /\ client[x].at \in {"scan", "asleep"}
  BY Woken DEF Types
<1>2. \A g \in Files, j \in Cores :
         /\ Sem(g, j)' = Sem(g, j) /\ (Has(g, j)' <=> Has(g, j)) /\ (Owns(g, j)' <=> Owns(g, j))
  BY DEF Sem, Has, Owns
<1>3. \A g \in Files : dev'[g].cb_func = dev[g].cb_func
  OBVIOUS
<1>4. CoresQuiet' /\ IrqRight'
  BY DEF JobInv, CoresQuiet, IrqRight, State
<1>5. ClientsRight'
  BY <1>1 DEF JobInv, ClientsRight, State, Waiting
<1>6. OwnersRight'
  BY <1>1, <1>3, Records DEF JobInv, OwnersRight, State, Waiting
<1>7. ReadyRight'
  <2>1. ASSUME NEW x \in Clients, client'[x].at = "ready"
        PROVE  /\ core_owner[client[x].core] = x
               /\ State(client[x].core) = "done" /\ client[x].core \notin dec_irq
               /\ \A g \in Files : ~Has(g, client[x].core)' /\ Sem(g, client[x].core)' = 0
    <3>1. PICK j \in Cores : j = client[x].core /\ j = client'[x].core
      BY <1>1, Records
    <3>2. \A g \in Files : ~Has(g, j)' /\ Sem(g, j)' = 0
      BY <1>1, <1>2, <2>1, <3>1 DEF JobInv, ReadyRight
    <3> QED
      BY <1>1, <2>1, <3>1, <3>2 DEF JobInv, ReadyRight, Has, Sem
  <2> QED
    BY <1>1, <2>1 DEF ReadyRight, State, Has, Sem
<1>8. ListenersRight'
  <2>1. \A g \in Files : dev'[g].listener = "callback" => dev[g].listener = "callback"
    OBVIOUS
  <2> QED
    BY <1>2, <2>1 DEF JobInv, ListenersRight, State
<1>9. SemsRight'
  BY <1>2 DEF JobInv, SemsRight, State
<1>10. ClosePassed'
  BY <1>2 DEF JobInv, ClosePassed
<1> QED
  BY <1>4, <1>5, <1>6, <1>7, <1>8, <1>9, <1>10 DEF JobInv

LEMMA JobCallbackDone ==
  ASSUME Types, JobInv, NEW f \in Files, CallbackDone(f)
  PROVE  JobInv'
<1>1. /\ dev[f].listener = "up" /\ dev'[f].listener = "loop"
      /\ dev'[f].cb_func = dev[f].cb_func /\ dev'[f].sc_dec_rdy_sem = dev[f].sc_dec_rdy_sem
      /\ \A g \in Files \ {f} : dev'[g] = dev[g]
  BY DEF CallbackDone, Types, DevRecord
<1> QED
  BY <1>1, JobWoken DEF CallbackDone, UpAndWake

LEMMA JobCloseCoreReleased ==
  ASSUME Types, JobInv, NEW f \in Files, CloseCoreReleased(f)
  PROVE  JobInv'
<1>1. /\ dev[f].listener = "closeup" /\ dev'[f].listener = "close" /\ dev'[f].id = dev[f].id
      /\ dev'[f].cb_func = dev[f].cb_func /\ dev'[f].sc_dec_rdy_sem = dev[f].sc_dec_rdy_sem
      /\ \A g \in Files \ {f} : dev'[g] = dev[g]
  BY DEF CloseCoreReleased, Types, DevRecord
<1> QED
  BY <1>1, JobWoken DEF CloseCoreReleased, UpAndWake
---------------------------------------------------------------------------
(* The listener                                                            *)

LEMMA JobCoreWait ==
  ASSUME Types, JobInv, NEW f \in Files, NEW k \in Cores, CoreWait(f, k)
  PROVE  JobInv'
<1>1. /\ dev[f].listener = "loop" /\ k \in dec_irq /\ Owns(f, k)
      /\ k \notin dec_irq' /\ dec_irq' \subseteq dec_irq
      /\ UNCHANGED <<core_owner, asic, client>>
  BY Owned DEF CoreWait
<1>2. /\ \A g \in Files \ {f} : dev'[g] = dev[g]
      /\ dev'[f].listener = "got" /\ dev'[f].id = k
      /\ dev'[f].cb_func = dev[f].cb_func /\ dev'[f].sc_dec_rdy_sem = dev[f].sc_dec_rdy_sem
  BY Records DEF CoreWait, Types, DevRecord
<1>3. /\ State(k) = "done"
      /\ \A g \in Files : ~Has(g, k) /\ ~(Sem(g, k) > 0)
      /\ \A c \in Clients : client[c].at = "ready" => client[c].core # k
  BY <1>1 DEF JobInv, IrqRight, ListenersRight, SemsRight, ReadyRight
<1>4. \A g \in Files, j \in Cores : /\ Sem(g, j)' = Sem(g, j)
                                    /\ (Owns(g, j)' <=> Owns(g, j))
                                    /\ (Has(g, j)' <=> Has(g, j) \/ (g = f /\ j = k))
  BY <1>1, <1>2 DEF Sem, Has, Owns
<1>5. CoresQuiet' /\ IrqRight' /\ ClientsRight'
  BY <1>1, Records DEF JobInv, CoresQuiet, IrqRight, ClientsRight, State
<1>6. OwnersRight'
  BY <1>1, <1>2, Records DEF JobInv, OwnersRight, State
<1>7. ReadyRight'
  <2>1. ASSUME NEW c \in Clients, client[c].at = "ready"
        PROVE  /\ core_owner[client[c].core] = c
               /\ State(client[c].core) = "done" /\ client[c].core \notin dec_irq'
               /\ \A g \in Files : ~Has(g, client[c].core)' /\ Sem(g, client[c].core)' = 0
    <3>1. PICK j \in Cores \ {k} : j = client[c].core
      BY <1>3, <2>1, Records
    <3>2. \A g \in Files : ~Has(g, j)' /\ Sem(g, j)' = 0
      BY <1>4, <2>1, <3>1 DEF JobInv, ReadyRight
    <3> QED
      BY <1>1, <2>1, <3>1, <3>2 DEF JobInv, ReadyRight, Has, Sem
  <2> QED
    BY <1>1, <2>1 DEF ReadyRight, State, Has, Sem
<1>8. ListenersRight'
  BY <1>1, <1>2, <1>3, <1>4 DEF JobInv, ListenersRight, State
<1>9. SemsRight'
  BY <1>1, <1>3, <1>4 DEF JobInv, SemsRight, State
<1>10. ClosePassed'
  BY <1>2, <1>4 DEF JobInv, ClosePassed
<1> QED
  BY <1>5, <1>6, <1>7, <1>8, <1>9, <1>10 DEF JobInv

LEMMA JobDispatch ==
  ASSUME Types, JobInv, NEW f \in Files, Dispatch(f)
  PROVE  JobInv'
<1>k. PICK k \in Cores : k = dev[f].id
  BY Records
<1>1. /\ dev[f].listener = "got" /\ Has(f, k)
      /\ UNCHANGED <<core_owner, dec_irq, asic, client>>
  BY <1>k DEF Dispatch, Has
<1>2. /\ Owns(f, k) /\ State(k) = "done" /\ k \notin dec_irq
      /\ Sem(f, k) = 0
      /\ \A g \in Files \ {f} : ~Has(g, k)
      /\ \A c \in Clients : client[c].at = "ready" => client[c].core # k
  BY <1>1, Records DEF JobInv, ListenersRight, SemsRight, ReadyRight, Owns, Sem
<1>3. k \in dev[f].cb_func <=> core_owner[k] \in MultiCore
  <2>1. PICK c \in Clients : c = core_owner[k] /\ c # Nil /\ FileOf[c] = f
    BY <1>2, Records DEF Owns
  <2>2. client[c].at # "dead"
    BY <1>2, <2>1 DEF JobInv, OwnersRight
  <2> QED
    BY <1>2, <2>1, <2>2 DEF JobInv, OwnersRight
<1>4. \A j \in Cores : State(j)' = State(j)
  BY <1>1 DEF State
<1>5. CoresQuiet' /\ IrqRight' /\ ClientsRight'
  BY <1>1, Records DEF JobInv, CoresQuiet, IrqRight, ClientsRight, State
<1>6. CASE k \in dev[f].cb_func
  <2>1. /\ \A g \in Files \ {f} : dev'[g] = dev[g]
        /\ dev'[f].listener = "callback" /\ dev'[f].id = k
        /\ dev'[f].cb_func = dev[f].cb_func /\ dev'[f].sc_dec_rdy_sem = dev[f].sc_dec_rdy_sem
    BY <1>k, <1>6 DEF Dispatch, Types, DevRecord
  <2>2. \A g \in Files, j \in Cores : /\ Sem(g, j)' = Sem(g, j)
                                      /\ (Owns(g, j)' <=> Owns(g, j))
                                      /\ (Has(g, j)' <=> Has(g, j))
    BY <1>k, <1>1, <2>1 DEF Sem, Has, Owns
  <2>3. OwnersRight'
    BY <1>1, <1>4, <2>1, Records DEF JobInv, OwnersRight
  <2>4. ReadyRight'
    BY <1>1, <2>2, Records DEF JobInv, ReadyRight, State, Has, Sem
  <2>5. ListenersRight'
    BY <1>1, <1>2, <1>3, <1>4, <1>6, <2>1, <2>2 DEF JobInv, ListenersRight, Has
  <2>6. SemsRight' /\ ClosePassed'
    BY <1>1, <1>4, <2>1, <2>2 DEF JobInv, SemsRight, ClosePassed
  <2> QED
    BY <1>5, <2>3, <2>4, <2>5, <2>6 DEF JobInv
<1>7. CASE k \notin dev[f].cb_func
  <2>1. /\ \A g \in Files \ {f} : dev'[g] = dev[g]
        /\ dev'[f].listener = "loop" /\ dev'[f].cb_func = dev[f].cb_func
        /\ dev'[f].sc_dec_rdy_sem = [dev[f].sc_dec_rdy_sem EXCEPT ![k] = @ + 1]
    BY <1>k, <1>7 DEF Dispatch, Types, DevRecord
  <2>2. \A g \in Files, j \in Cores : /\ Sem(g, j)' = IF g = f /\ j = k THEN 1 ELSE Sem(g, j)
                                      /\ (Owns(g, j)' <=> Owns(g, j))
                                      /\ (Has(g, j)' => Has(g, j))
    BY <1>k, <1>1, <1>2, <2>1, Records DEF Sem, Has, Owns
  <2>3. \A g \in Files : ~Has(g, k)'
    BY <1>2, <2>1, <2>2 DEF Has
  <2>4. OwnersRight'
    <3>1. \A g \in Files : dev'[g].cb_func = dev[g].cb_func
      BY <2>1
    <3> QED
      BY <1>1, <1>4, <3>1, Records DEF JobInv, OwnersRight
  <2>5. ReadyRight'
    <3>1. ASSUME NEW c \in Clients, client[c].at = "ready"
          PROVE  /\ core_owner[client[c].core] = c
                 /\ State(client[c].core) = "done" /\ client[c].core \notin dec_irq
                 /\ \A g \in Files : ~Has(g, client[c].core)' /\ Sem(g, client[c].core)' = 0
      <4>1. PICK j \in Cores \ {k} : j = client[c].core
        BY <1>2, <3>1, Records
      <4>2. \A g \in Files : ~Has(g, j)' /\ Sem(g, j)' = 0
        BY <2>2, <3>1, <4>1 DEF JobInv, ReadyRight
      <4> QED
        BY <1>1, <3>1, <4>1, <4>2 DEF JobInv, ReadyRight, Has, Sem
    <3> QED
      BY <1>1, <3>1 DEF ReadyRight, State, Has, Sem
  <2>6. ListenersRight'
    <3>1. \A g \in Files : dev'[g].listener = "callback" => dev[g].listener = "callback"
      BY <2>1
    <3> QED
      BY <1>1, <1>4, <2>2, <3>1 DEF JobInv, ListenersRight
  <2>7. SemsRight'
    BY <1>1, <1>2, <1>3, <1>4, <1>7, <2>2, <2>3 DEF JobInv, SemsRight
  <2>8. ClosePassed'
    BY <2>1, <2>2 DEF JobInv, ClosePassed
  <2> QED
    BY <1>5, <2>4, <2>5, <2>6, <2>7, <2>8 DEF JobInv
<1> QED
  BY <1>6, <1>7
---------------------------------------------------------------------------
(* The end of a process                                                    *)

LEMMA JobCloseFile ==
  ASSUME Types, JobInv, NEW f \in Files, CloseFile(f), "run" \notin KillAt
  PROVE  JobInv'
<1>1. /\ \A k \in Cores : Owns(f, k) => State(k) = "off"
      /\ UNCHANGED <<core_owner, dec_irq, asic>>
  BY Owned DEF CloseFile, State
<1>2. \A c \in Clients : IF FileOf[c] = f THEN client'[c].at = "dead"
                                          ELSE client'[c] = client[c]
  BY DEF CloseFile, IdleClient
<1>3. /\ \A g \in Files \ {f} : dev'[g] = dev[g]
      /\ dev'[f].listener = "close" /\ dev'[f].id = 0
      /\ dev'[f].sc_dec_rdy_sem = [k \in Cores |-> 0]
  BY DEF CloseFile, Types, NewDev
<1>4. \A g \in Files, j \in Cores : /\ Sem(g, j)' = IF g = f THEN 0 ELSE Sem(g, j)
                                    /\ (Owns(g, j)' <=> Owns(g, j))
                                    /\ (Has(g, j)' <=> Has(g, j) /\ g # f)
  BY <1>1, <1>3 DEF Sem, Has, Owns
<1>5. CoresQuiet' /\ IrqRight'
  BY <1>1 DEF JobInv, CoresQuiet, IrqRight, State
<1>6. ClientsRight'
  BY <1>1, <1>2 DEF JobInv, ClientsRight, State, Waiting
<1>7. OwnersRight'
  BY <1>1, <1>2, <1>3, Records DEF JobInv, OwnersRight, State, Owns
<1>8. ReadyRight'
  <2>1. ASSUME NEW c \in Clients, client'[c].at = "ready"
        PROVE  /\ client'[c] = client[c] /\ core_owner[client[c].core] = c
               /\ State(client[c].core) = "done" /\ client[c].core \notin dec_irq
               /\ \A g \in Files : ~Has(g, client[c].core)' /\ Sem(g, client[c].core)' = 0
    <3>1. PICK j \in Cores : j = client[c].core
      BY Records
    <3>2. \A g \in Files : ~Has(g, j)' /\ Sem(g, j)' = 0
      BY <1>2, <1>4, <2>1, <3>1 DEF JobInv, ReadyRight
    <3> QED
      BY <1>1, <1>2, <2>1, <3>1, <3>2 DEF JobInv, ReadyRight, Has, Sem
  <2> QED
    BY <1>1, <2>1 DEF ReadyRight, State, Has, Sem
<1>9. ListenersRight' /\ SemsRight'
  BY <1>1, <1>3, <1>4 DEF JobInv, ListenersRight, SemsRight, State
<1>10. ClosePassed'
  <2>1. \A k \in Cores : k >= 0
    BY CoresAssumption
  <2> QED
    BY <1>3, <1>4, <2>1 DEF JobInv, ClosePassed
<1> QED
  BY <1>5, <1>6, <1>7, <1>8, <1>9, <1>10 DEF JobInv

LEMMA JobCloseCore ==
  ASSUME Types, DeadWhileClosed, JobInv, NEW f \in Files, CloseCore(f)
  PROVE  JobInv'
<1>n. PICK n \in Cores : n = dev[f].id
  BY Records
<1>1. /\ dev[f].listener = "close"
      /\ \A k \in Cores : Owns(f, k) =>
           k >= n /\ client[core_owner[k]].at = "dead" /\ State(k) = "off"
  BY <1>n, Records DEF CloseCore, JobInv, ClosePassed, OwnersRight, DeadWhileClosed, Owns
<1>2. n \in OwnedBy(f) <=> Owns(f, n)
  BY Owned
<1>3. CASE Owns(f, n)
  <2>1. /\ Disown(n) /\ client' = client
        /\ dev' = [dev EXCEPT ![f].listener = "closeup"]
    BY <1>n, <1>2, <1>3 DEF CloseCore
  <2>2. /\ \A g \in Files \ {f} : dev'[g] = dev[g]
        /\ dev'[f].listener = "closeup" /\ dev'[f].id = dev[f].id
        /\ dev'[f].cb_func = dev[f].cb_func
        /\ dev'[f].sc_dec_rdy_sem = dev[f].sc_dec_rdy_sem
    BY <2>1 DEF Types, DevRecord
  <2>3. \A g \in Files : ~Has(g, n) /\ Sem(g, n) = 0
    <3>1. \A g \in Files : ~Has(g, n) /\ ~(Sem(g, n) > 0) /\ Sem(g, n) \in Nat
      BY <1>1, <1>3, Records DEF JobInv, ListenersRight, SemsRight, Sem
    <3> QED
      BY <3>1
  <2>4. \A g \in Files, j \in Cores : Sem(g, j)' = Sem(g, j) /\ (Has(g, j)' <=> Has(g, j))
    BY <1>1, <2>2 DEF Has, Sem
  <2>5. \A g \in Files :
          /\ ~Has(g, n)' /\ Sem(g, n)' = 0
          /\ \A j \in Cores \ {n} : Sem(g, j)' = Sem(g, j) /\ (Has(g, j)' <=> Has(g, j))
          /\ dev'[g].cb_func = dev[g].cb_func
          /\ dev'[g].listener \in {"callback", "close", "closeup"} =>
               \/ dev'[g] = dev[g]
               \/ /\ dev[g].listener \in {"close", "closeup"}
                  /\ dev'[g].listener \in {"close", "closeup"} /\ dev'[g].id = dev[g].id
    BY <1>1, <2>2, <2>3, <2>4
  <2>6. core_owner[n] # Nil /\ State(n) = "off" /\ client[core_owner[n]].at = "dead"
    BY <1>1, <1>3 DEF Owns
  <2> QED
    BY <2>1, <2>5, <2>6, JobDisown
<1>4. CASE ~Owns(f, n) /\ n < LastCore
  <2>1. /\ UNCHANGED <<core_owner, dec_irq, asic, client>>
        /\ dev' = [dev EXCEPT ![f].id = n + 1]
    BY <1>n, <1>2, <1>4 DEF CloseCore
  <2>2. /\ \A g \in Files \ {f} : dev'[g] = dev[g]
        /\ dev'[f].listener = "close" /\ dev'[f].id = n + 1
        /\ dev'[f].cb_func = dev[f].cb_func
        /\ dev'[f].sc_dec_rdy_sem = dev[f].sc_dec_rdy_sem
    BY <1>1, <2>1 DEF Types, DevRecord
  <2>3. \A g \in Files, j \in Cores : /\ Sem(g, j)' = Sem(g, j) /\ (Has(g, j)' <=> Has(g, j))
                                      /\ (Owns(g, j)' <=> Owns(g, j))
    BY <1>1, <2>1, <2>2 DEF Has, Sem, Owns
  <2>4. CoresQuiet' /\ IrqRight' /\ ClientsRight'
    BY <2>1, Records DEF JobInv, CoresQuiet, IrqRight, ClientsRight, State
  <2>5. OwnersRight'
    BY <2>1, <2>2, Records DEF JobInv, OwnersRight, State
  <2>6. ReadyRight'
    BY <2>1, <2>3, Records DEF JobInv, ReadyRight, State, Has, Sem
  <2>7. ListenersRight' /\ SemsRight'
    BY <2>1, <2>2, <2>3 DEF JobInv, ListenersRight, SemsRight, State
  <2>8. ClosePassed'
    <3>1. \A k \in Cores : Owns(f, k) => k >= n + 1
      BY <1>1, <1>4, CoresAssumption
    <3> QED
      BY <2>2, <2>3, <3>1 DEF JobInv, ClosePassed
  <2> QED
    BY <2>4, <2>5, <2>6, <2>7, <2>8 DEF JobInv
<1>5. CASE ~Owns(f, n) /\ ~(n < LastCore)
  <2>1. /\ UNCHANGED <<core_owner, dec_irq, asic>>
        /\ dev' = [dev EXCEPT ![f] = NewDev]
        /\ \A c \in Clients : client'[c] = IF FileOf[c] = f THEN IdleClient ELSE client[c]
    BY <1>n, <1>2, <1>5 DEF CloseCore
  <2>2. /\ \A g \in Files \ {f} : dev'[g] = dev[g]
        /\ dev'[f].listener = "none"
        /\ dev'[f].sc_dec_rdy_sem = [k \in Cores |-> 0]
    BY <2>1 DEF Types, NewDev
  <2>3. \A k \in Cores : ~Owns(f, k)
    BY <1>1, <1>5, CoresAssumption
  <2>4. \A g \in Files, j \in Cores : /\ Sem(g, j)' = IF g = f THEN 0 ELSE Sem(g, j)
                                      /\ (Has(g, j)' <=> Has(g, j))
                                      /\ (Owns(g, j)' <=> Owns(g, j))
    BY <1>1, <2>1, <2>2 DEF Has, Sem, Owns
  <2>5. CoresQuiet' /\ IrqRight'
    BY <2>1 DEF JobInv, CoresQuiet, IrqRight, State
  <2>6. ClientsRight'
    BY <2>1 DEF JobInv, ClientsRight, State, Waiting, IdleClient
  <2>7. OwnersRight'
    <3>1. \A k \in Cores : core_owner[k] # Nil =>
            /\ client'[core_owner[k]] = client[core_owner[k]]
            /\ dev'[FileOf[core_owner[k]]] = dev[FileOf[core_owner[k]]]
      BY <2>1, <2>2, <2>3, Records DEF Owns
    <3> QED
      BY <2>1, <3>1 DEF JobInv, OwnersRight, State
  <2>8. ReadyRight'
    <3>1. ASSUME NEW c \in Clients, client'[c].at = "ready"
          PROVE  /\ client'[c] = client[c] /\ core_owner[client[c].core] = c
                 /\ State(client[c].core) = "done" /\ client[c].core \notin dec_irq
                 /\ \A g \in Files : ~Has(g, client[c].core)' /\ Sem(g, client[c].core)' = 0
      <4>1. client'[c] = client[c]
        BY <2>1, <3>1 DEF IdleClient
      <4>2. PICK j \in Cores : j = client[c].core
        BY Records
      <4>3. \A g \in Files : ~Has(g, j)' /\ Sem(g, j)' = 0
        BY <2>4, <3>1, <4>1, <4>2 DEF JobInv, ReadyRight
      <4> QED
        BY <2>1, <3>1, <4>1, <4>2, <4>3 DEF JobInv, ReadyRight, Has, Sem
    <3> QED
      BY <2>1, <3>1 DEF ReadyRight, State, Has, Sem
  <2>9. ListenersRight' /\ SemsRight'
    BY <2>1, <2>2, <2>4 DEF JobInv, ListenersRight, SemsRight, State
  <2>10. ClosePassed'
    BY <2>2, <2>4 DEF JobInv, ClosePassed
  <2> QED
    BY <2>5, <2>6, <2>7, <2>8, <2>9, <2>10 DEF JobInv
<1> QED
  BY <1>3, <1>4, <1>5

---------------------------------------------------------------------------
(* The invariant and what it says                                          *)

LEMMA JobInvInit == Init => JobInv
<1> SUFFICES ASSUME Init PROVE JobInv
  OBVIOUS
<1>1. /\ \A k \in Cores : core_owner[k] = Nil /\ State(k) = "off"
      /\ dec_irq = {} /\ \A c \in Clients : client[c].at = "idle"
      /\ \A f \in Files : /\ dev[f].listener = "none"
                          /\ \A k \in Cores : Sem(f, k) = 0
  BY DEF Init, State, Sem, OffAsic, IdleClient, NewDev
<1>2. \A f \in Files, k \in Cores : ~Has(f, k) /\ ~(Sem(f, k) > 0)
  BY <1>1 DEF Has
<1> QED
  BY <1>1, <1>2 DEF JobInv, CoresQuiet, IrqRight, ClientsRight, OwnersRight, ReadyRight,
                    ListenersRight, SemsRight, ClosePassed, Waiting

LEMMA JobNext ==
  ASSUME "run" \notin KillAt, Types, DeadWhileClosed, JobInv, [Next]_vars
  PROVE  JobInv'
<1>1. ASSUME NEW c \in Clients, ReserveDown(c) \/ ClientStep(c) PROVE JobInv'
  BY <1>1, JobReserveDown, JobGetDecCore, JobSetIRQCallback, JobEnableHw, JobCountJob,
     JobWaitHwReady, JobDecWait, JobSemWait, JobReleaseHw, JobReleased DEF ClientStep
<1>2. ASSUME NEW f \in Files, DeviceStep(f) \/ (\E k \in Cores : CoreWait(f, k)) \/ CloseFile(f)
      PROVE JobInv'
  BY <1>2, JobDispatch, JobCallbackReleases, JobCallbackDone, JobCloseCore,
     JobCloseCoreReleased, JobCoreWait, JobCloseFile DEF DeviceStep
<1>3. CASE UNCHANGED vars
  BY <1>3 DEF vars, JobInv, CoresQuiet, IrqRight, ClientsRight, OwnersRight, ReadyRight,
              ListenersRight, SemsRight, ClosePassed, Waiting, State, Has, Sem, Owns
<1> QED
  BY <1>1, <1>2, <1>3, JobHwEnd, JobIsr DEF Next

\* What is reported of a core, in dec_irq or in the listener's semaphore, is about
\* a job of its present owner that has ended, and a core at work is its owner's,
\* if no process dies while it has a job.
THEOREM ReportsTrue ==
  ASSUME "run" \notin KillAt
  PROVE  Spec => []ReportIsTrue
<1>1. IInv /\ JobInv /\ [Next]_vars => JobInv'
  BY JobNext DEF IInv
<1>2. Spec => []JobInv
  BY <1>1, JobInvInit, Invariance, PTL DEF Spec
<1>3. IInv /\ JobInv => ReportIsTrue
  <2> SUFFICES ASSUME IInv, JobInv, NEW k \in Cores
               PROVE  /\ k \in dec_irq => asic[k].st = "done" /\ asic[k].by = core_owner[k]
                      /\ asic[k].st = "run" => asic[k].by = core_owner[k]
                      /\ \A f \in Files : dev[f].sc_dec_rdy_sem[k] > 0 =>
                           k \in OwnedBy(f) /\ asic[k].st = "done" /\ asic[k].by = core_owner[k]
    BY DEF ReportIsTrue
  <2> QED
    BY Owned DEF JobInv, IrqRight, CoresQuiet, SemsRight, State, Sem
<1> QED
  BY <1>2, <1>3, Invariance, PTL

---------------------------------------------------------------------------
(* The listener's counters                                                 *)

Loops == {"loop", "got", "callback", "up"}
HasMulti(f) == ClientsOf(f) \cap MultiCore # {}
\* A job of the core is to be taken by a listener or by the client that waits.
Due(k) == State(k) \in {"run", "irq"} \/ k \in dec_irq
Untaken(f) == {k \in Cores : Owns(f, k) /\ Due(k)}
Pushing(f) == {c \in ClientsOf(f) : client[c].at = "pushed"}
Counted(f) == dev[f].jobs = Cardinality(Untaken(f)) - Cardinality(Pushing(f))

\* A process with multi-core instances has its listener before any of its
\* instances starts a core: no job is missed by the counters, and none of its
\* clients takes its interrupt from the driver.
ListenerFirst ==
  /\ \A f \in Files :
       /\ dev[f].listener = "none" => dev[f].jobs = 0 /\ dev[f].cb_func = {}
       /\ dev[f].listener \in Loops => HasMulti(f)
  /\ \A c \in Clients :
       /\ dev[FileOf[c]].listener = "none" =>
            IF c \in MultiCore THEN client[c].at \in {"idle", "scan", "asleep", "own"}
            ELSE HasMulti(FileOf[c]) => client[c].at = "idle"
       /\ client[c].at = "decwait" => ~HasMulti(FileOf[c])

CountInv == ListenerFirst /\ \A f \in Files : dev[f].listener \in Loops => Counted(f)

LEMMA CountsFinite ==
  ASSUME NEW f \in Files
  PROVE  /\ IsFiniteSet(Untaken(f)) /\ Cardinality(Untaken(f)) \in Nat
         /\ IsFiniteSet(Pushing(f)) /\ Cardinality(Pushing(f)) \in Nat
<1>1. IsFiniteSet(Untaken(f))
  BY CoresFinite, FS_Subset DEF Untaken
<1>2. IsFiniteSet(Pushing(f))
  BY ClientsAssumption, FS_Subset DEF Pushing, ClientsOf
<1> QED
  BY <1>1, <1>2, FS_CardinalityType

LEMMA CountKept ==
  ASSUME NEW f \in Files, Counted(f), dev'[f].jobs = dev[f].jobs,
         \A k \in Cores : Owns(f, k)' /\ Due(k)' <=> Owns(f, k) /\ Due(k),
         \A c \in Clients : FileOf[c] = f =>
           (client'[c].at = "pushed" <=> client[c].at = "pushed")
  PROVE  Counted(f)'
<1>1. Untaken(f)' = Untaken(f)
  BY DEF Untaken
<1>2. Pushing(f)' = Pushing(f)
  BY DEF Pushing, ClientsOf
<1> QED
  BY <1>1, <1>2 DEF Counted

\* A step that neither starts a job, counts one nor takes one.
LEMMA CountsKept ==
  ASSUME CountInv, NEW f \in Files, dev'[f].listener \in Loops,
         dev[f].listener \in Loops, dev'[f].jobs = dev[f].jobs,
         UNCHANGED <<core_owner, dec_irq, asic>>,
         \A c \in Clients : FileOf[c] = f =>
           (client'[c].at = "pushed" <=> client[c].at = "pushed")
  PROVE  Counted(f)'
<1>1. \A k \in Cores : Owns(f, k)' /\ Due(k)' <=> Owns(f, k) /\ Due(k)
  BY DEF Owns, Due, State
<1> QED
  BY <1>1, CountKept DEF CountInv

\* ListenerFirst needs to be looked at where clients or devices change.
LEMMA FirstKept ==
  ASSUME ListenerFirst,
         \A f \in Files :
           \/ /\ dev'[f].listener \in Loops /\ dev[f].listener \in Loops
           \/ /\ dev'[f].listener = dev[f].listener /\ dev'[f].jobs = dev[f].jobs
              /\ dev'[f].cb_func \subseteq dev[f].cb_func
           \/ dev'[f].listener \in {"close", "closeup"},
         \A c \in Clients :
           \/ client'[c].at = client[c].at
           \/ dev'[FileOf[c]].listener # "none" /\ client'[c].at # "decwait"
           \/ c \in MultiCore /\ client'[c].at \in {"idle", "scan", "asleep", "own"}
           \/ ~HasMulti(FileOf[c]) /\ c \notin MultiCore
           \/ client'[c].at = "idle",
         Types
  PROVE  ListenerFirst'
<1>1. ASSUME NEW f \in Files
      PROVE  /\ dev'[f].listener = "none" => dev'[f].jobs = 0 /\ dev'[f].cb_func = {}
             /\ dev'[f].listener \in Loops => HasMulti(f)
  BY DEF ListenerFirst, Loops
<1>2. ASSUME NEW c \in Clients
      PROVE  /\ dev'[FileOf[c]].listener = "none" =>
                  IF c \in MultiCore THEN client'[c].at \in {"idle", "scan", "asleep", "own"}
                  ELSE HasMulti(FileOf[c]) => client'[c].at = "idle"
             /\ client'[c].at = "decwait" => ~HasMulti(FileOf[c])
  <2>1. FileOf[c] \in Files
    BY Records
  <2>2. dev'[FileOf[c]].listener = "none" => dev[FileOf[c]].listener = "none"
    BY <2>1 DEF Loops
  <2> QED
    BY <2>1, <2>2 DEF ListenerFirst
<1> QED
  BY <1>1, <1>2 DEF ListenerFirst, HasMulti, ClientsOf

\* With no listener yet in a process that will have one, no job is on its way.
LEMMA NothingYet ==
  ASSUME Types, DeadWhileClosed, JobInv, ListenerFirst,
         NEW f \in Files, dev[f].listener = "none", HasMulti(f)
  PROVE  Untaken(f) = {} /\ Pushing(f) = {}
<1>1. \A c \in Clients : FileOf[c] = f =>
        client[c].at \in {"idle", "scan", "asleep", "own"} /\ (c \notin MultiCore => client[c].at = "idle")
  BY DEF ListenerFirst
<1>2. Pushing(f) = {}
  BY <1>1 DEF Pushing, ClientsOf
<1>3. ASSUME NEW k \in Cores, Owns(f, k), Due(k) PROVE FALSE
  <2> DEFINE c == core_owner[k]
  <2>1. c # Nil /\ c \in Clients /\ FileOf[c] = f /\ State(k) # "off"
    BY <1>3, Records DEF Owns, Due, JobInv, IrqRight
  <2>2. client[c].at # "dead"
    BY <1>1, <2>1
  <2>3. c \in MultiCore
    BY <1>1, <2>1, <2>2 DEF JobInv, OwnersRight, Waiting
  <2>4. k \in dev[f].cb_func
    BY <2>1, <2>3 DEF JobInv, OwnersRight
  <2> QED
    BY <2>4 DEF ListenerFirst
<1> QED
  BY <1>2, <1>3 DEF Untaken

\* A client past its reservation goes on.
LEMMA FirstClient ==
  ASSUME Types, ListenerFirst, NEW c \in Clients, client[c].at # "idle",
         \A x \in Clients \ {c} : client'[x].at = client[x].at,
         \A f \in Files :
           \/ /\ dev'[f].listener \in Loops /\ dev[f].listener \in Loops
           \/ /\ dev'[f].listener = dev[f].listener /\ dev'[f].jobs = dev[f].jobs
              /\ dev'[f].cb_func \subseteq dev[f].cb_func,
         client'[c].at = "decwait" => ~HasMulti(FileOf[c]),
         c \in MultiCore /\ dev'[FileOf[c]].listener = "none" =>
           client'[c].at \in {"idle", "scan", "asleep", "own"}
  PROVE  ListenerFirst'
<1>1. FileOf[c] \in Files /\ (c \in MultiCore => HasMulti(FileOf[c]))
  BY Records DEF HasMulti, ClientsOf
<1>2. dev'[FileOf[c]].listener = "none" => dev[FileOf[c]].listener = "none"
  BY <1>1 DEF Loops
<1>3. dev'[FileOf[c]].listener = "none" /\ c \notin MultiCore => ~HasMulti(FileOf[c])
  BY <1>2 DEF ListenerFirst
<1>4. \A x \in Clients :
        \/ client'[x].at = client[x].at
        \/ dev'[FileOf[x]].listener # "none" /\ client'[x].at # "decwait"
        \/ x \in MultiCore /\ client'[x].at \in {"idle", "scan", "asleep", "own"}
        \/ ~HasMulti(FileOf[x]) /\ x \notin MultiCore
        \/ client'[x].at = "idle"
  BY <1>1, <1>3
<1> QED
  BY <1>4, FirstKept

LEMMA CountReserveDown ==
  ASSUME ~EarlySync, Types, CountInv, NEW c \in Clients, ReserveDown(c)
  PROVE  CountInv'
<1>1. /\ client[c].at = "idle" /\ client'[c].at = "scan"
      /\ \A x \in Clients \ {c} : client'[x].at = client[x].at
      /\ UNCHANGED <<core_owner, dec_irq, asic, dev>>
  BY DEF ReserveDown, Types
<1>2. c \in MultiCore \/ dev[FileOf[c]].listener # "none" \/ ~HasMulti(FileOf[c])
  BY DEF ReserveDown, HasListener, HasMulti
<1>3. c \in MultiCore => HasMulti(FileOf[c])
  BY DEF HasMulti, ClientsOf
<1>4. ListenerFirst'
  BY <1>1, <1>2, <1>3, FirstKept DEF CountInv
<1> QED
  BY <1>1, <1>4, CountsKept DEF CountInv

LEMMA CountGetDecCore ==
  ASSUME Types, JobInv, CountInv, NEW c \in Clients, GetDecCore(c)
  PROVE  CountInv'
<1> DEFINE f == FileOf[c]
<1>k. PICK k \in Cores : k = client[c].core
  BY Records
<1>0. /\ f \in Files /\ dev[f] \in DevRecord /\ client[c].at = "scan"
      /\ client[c] \in ClientRecord
  BY Records DEF GetDecCore
<1>1. CASE k \in Mask[c] \cap FreeCores
  <2>1. Moves(c, "own")
    BY <1>k, <1>0, <1>1 DEF GetDecCore, Types, ClientRecord, Moves
  <2>2. /\ core_owner[k] = Nil /\ core_owner'[k] = c
        /\ \A j \in Cores \ {k} : core_owner'[j] = core_owner[j]
        /\ UNCHANGED <<dec_irq, asic>>
    BY <1>k, <1>0, <1>1 DEF GetDecCore, FreeCores, Types
  <2>3. /\ \A g \in Files \ {f} : dev'[g] = dev[g]
        /\ dev'[f].listener = dev[f].listener /\ dev'[f].jobs = dev[f].jobs
        /\ dev'[f].cb_func = dev[f].cb_func \ {k}
    <3>1. dev' = [dev EXCEPT ![f].cb_func = @ \ {k},
                             ![f].sc_dec_rdy_sem[k] = IF @ > 0 THEN @ - 1 ELSE 0]
      BY <1>k, <1>1 DEF GetDecCore
    <3> HIDE DEF f
    <3> QED
      BY <1>k, <1>0, <3>1 DEF Types, DevRecord
  <2>4. ~Due(k) /\ ~Due(k)'
    BY <2>2 DEF JobInv, CoresQuiet, IrqRight, Due, State
  <2>5. \A g \in Files, j \in Cores : Owns(g, j)' /\ Due(j)' <=> Owns(g, j) /\ Due(j)
    <3>1. \A g \in Files, j \in Cores \ {k} : (Owns(g, j)' <=> Owns(g, j)) /\ (Due(j)' <=> Due(j))
      BY <2>2 DEF Owns, Due, State
    <3> QED
      BY <2>4, <3>1
  <2>6. \A x \in Clients : client'[x].at = "pushed" <=> client[x].at = "pushed"
    BY <1>0, <2>1 DEF Moves
  <2> HIDE DEF f
  <2>7. \A g \in Files : /\ dev'[g].listener = dev[g].listener /\ dev'[g].jobs = dev[g].jobs
                         /\ dev'[g].cb_func \subseteq dev[g].cb_func
    BY <2>3
  <2>8. ListenerFirst'
    BY <1>0, <2>1, <2>7, FirstClient DEF Moves, CountInv
  <2>9. ASSUME NEW g \in Files, dev'[g].listener \in Loops PROVE Counted(g)'
    BY <2>5, <2>6, <2>7, <2>9, CountKept DEF CountInv
  <2> QED
    BY <2>8, <2>9 DEF CountInv
<1>2. CASE k \notin Mask[c] \cap FreeCores
  <2>1. /\ client'[c].at \in {"scan", "asleep"}
        /\ \A x \in Clients \ {c} : client'[x].at = client[x].at
        /\ UNCHANGED <<core_owner, dec_irq, asic, dev>>
    BY <1>k, <1>0, <1>2 DEF GetDecCore, Types, ClientRecord
  <2>2. ListenerFirst'
    BY <1>0, <2>1, FirstClient DEF CountInv
  <2> QED
    BY <1>0, <2>1, <2>2, CountsKept DEF CountInv
<1> QED
  BY <1>1, <1>2

\* The first callback of the process creates the listener, with nothing to count.
LEMMA CountSetIRQCallback ==
  ASSUME Types, DeadWhileClosed, JobInv, CountInv, NEW c \in Clients, SetIRQCallback(c)
  PROVE  CountInv'
<1> DEFINE f == FileOf[c]
<1>k. PICK k \in Cores : k = client[c].core
  BY Records
<1>0. /\ f \in Files /\ dev[f] \in DevRecord /\ client[c].at = "own" /\ c \in MultiCore
      /\ HasMulti(f) /\ UNCHANGED <<core_owner, dec_irq, asic>>
  BY Records DEF SetIRQCallback, HasMulti, ClientsOf
<1>1. Moves(c, "set")
  BY MovesTo DEF SetIRQCallback
<1>2. /\ \A g \in Files \ {f} : dev'[g] = dev[g]
      /\ dev'[f].listener = IF dev[f].listener = "none" THEN "loop" ELSE dev[f].listener
      /\ dev'[f].jobs = dev[f].jobs
  <2>1. dev' = [dev EXCEPT ![f].cb_func = @ \cup {k},
                           ![f].listener = IF @ = "none" THEN "loop" ELSE @]
    BY <1>k DEF SetIRQCallback
  <2> HIDE DEF f
  <2> QED
    BY <1>k, <1>0, <2>1 DEF Types, DevRecord
<1>3. dev[f].listener \notin {"close", "closeup"}
  BY <1>0 DEF DeadWhileClosed
<1>4. dev'[f].listener \in Loops
  BY <1>0, <1>2, <1>3 DEF DevRecord, Listeners, Loops
<1>5. \A x \in Clients : client'[x].at = "pushed" <=> client[x].at = "pushed"
  BY <1>0, <1>1 DEF Moves
<1> HIDE DEF f
<1>6. ListenerFirst'
  <2>1. ASSUME NEW g \in Files
        PROVE  /\ dev'[g].listener = "none" => dev'[g].jobs = 0 /\ dev'[g].cb_func = {}
               /\ dev'[g].listener \in Loops => HasMulti(g)
    BY <1>0, <1>2, <1>4 DEF CountInv, ListenerFirst, Loops
  <2>2. ASSUME NEW x \in Clients
        PROVE  /\ dev'[FileOf[x]].listener = "none" =>
                    IF x \in MultiCore THEN client'[x].at \in {"idle", "scan", "asleep", "own"}
                    ELSE HasMulti(FileOf[x]) => client'[x].at = "idle"
               /\ client'[x].at = "decwait" => ~HasMulti(FileOf[x])
    <3>1. FileOf[x] \in Files /\ (dev'[FileOf[x]].listener = "none" => FileOf[x] # f)
      BY <1>4, Records DEF Loops
    <3>2. dev'[FileOf[x]].listener = "none" => x # c /\ dev[FileOf[x]].listener = "none"
      BY <1>2, <3>1 DEF f
    <3>3. client'[c].at = "set" /\ (x # c => client'[x] = client[x])
      BY <1>1 DEF Moves
    <3>4. CASE x = c
      BY <1>0, <3>2, <3>3, <3>4
    <3>5. CASE x # c
      BY <3>2, <3>3, <3>5 DEF CountInv, ListenerFirst
    <3> QED
      BY <3>4, <3>5
  <2> QED
    BY <2>1, <2>2 DEF ListenerFirst, HasMulti, ClientsOf
<1>7. CASE dev[f].listener = "none"
  <2>1. Untaken(f) = {} /\ Pushing(f) = {} /\ dev[f].jobs = 0
    BY <1>0, <1>7, NothingYet DEF CountInv, ListenerFirst
  <2>2. Counted(f)
    BY <2>1, FS_EmptySet DEF Counted
  <2>3. \A k1 \in Cores : Owns(f, k1)' /\ Due(k1)' <=> Owns(f, k1) /\ Due(k1)
    BY <1>0 DEF Owns, Due, State
  <2>4. Counted(f)'
    BY <1>0, <1>2, <1>5, <2>2, <2>3, CountKept
  <2>5. ASSUME NEW g \in Files \ {f}, dev'[g].listener \in Loops PROVE Counted(g)'
    BY <1>0, <1>2, <1>5, <2>5, CountsKept
  <2> QED
    BY <1>6, <2>4, <2>5 DEF CountInv
<1>8. CASE dev[f].listener # "none"
  <2>1. ASSUME NEW g \in Files, dev'[g].listener \in Loops PROVE Counted(g)'
    BY <1>0, <1>2, <1>5, <1>8, <2>1, CountsKept
  <2> QED
    BY <1>6, <2>1 DEF CountInv
<1> QED
  BY <1>7, <1>8

\* The start of a core: a job more to take, and one more that is not counted.
LEMMA CountEnableHw ==
  ASSUME Types, JobInv, CountInv, NEW c \in Clients, EnableHw(c)
  PROVE  CountInv'
<1> DEFINE f == FileOf[c]
<1>k. PICK k \in Cores : k = client[c].core
  BY Records
<1>0. /\ f \in Files /\ client[c].at \in {"own", "set"} /\ (c \in MultiCore => client[c].at = "set")
      /\ UNCHANGED <<core_owner, dec_irq, dev>>
  BY Records DEF EnableHw
<1>1. Moves(c, "pushed")
  BY MovesTo DEF EnableHw
<1>2. /\ State(k)' = "run" /\ \A j \in Cores \ {k} : State(j)' = State(j)
  BY <1>k DEF EnableHw, Types, State
<1>3. core_owner[k] = c /\ State(k) = "off" /\ ~Due(k) /\ Due(k)'
  BY <1>k, <1>0, <1>2 DEF JobInv, ClientsRight, IrqRight, Due
<1>4. ListenerFirst'
  BY <1>0, <1>1, FirstClient DEF CountInv, ListenerFirst, Moves
<1>5. ASSUME NEW g \in Files \ {f}, dev'[g].listener \in Loops PROVE Counted(g)'
  <2>1. \A j \in Cores : Owns(g, j)' /\ Due(j)' <=> Owns(g, j) /\ Due(j)
    <3>1. ~Owns(g, k) /\ ~Owns(g, k)'
      BY <1>0, <1>3 DEF Owns
    <3> QED
      BY <1>0, <1>2, <3>1 DEF Owns, Due
  <2>2. \A x \in Clients : FileOf[x] = g => client'[x] = client[x]
    BY <1>1 DEF Moves
  <2> HIDE DEF f
  <2> QED
    BY <1>0, <1>5, <2>1, <2>2, CountKept DEF CountInv
<1>6. ASSUME dev[f].listener \in Loops PROVE Counted(f)'
  <2>1. Untaken(f)' = Untaken(f) \cup {k} /\ k \notin Untaken(f)
    <3>1. \A j \in Cores : Owns(f, j)' <=> Owns(f, j)
      BY <1>0 DEF Owns
    <3>2. Owns(f, k)
      BY <1>3, ClientsAssumption DEF Owns
    <3>3. \A j \in Cores \ {k} : Due(j)' <=> Due(j)
      BY <1>0, <1>2 DEF Due
    <3> QED
      BY <1>3, <3>1, <3>2, <3>3 DEF Untaken
  <2>2. Pushing(f)' = Pushing(f) \cup {c} /\ c \notin Pushing(f)
    BY <1>0, <1>1 DEF Pushing, ClientsOf, Moves
  <2>3. /\ Cardinality(Untaken(f)') = Cardinality(Untaken(f)) + 1
        /\ Cardinality(Pushing(f)') = Cardinality(Pushing(f)) + 1
    BY <1>0, <2>1, <2>2, CountsFinite, FS_AddElement
  <2>4. Counted(f) /\ dev'[f].jobs = dev[f].jobs
    BY <1>0, <1>6 DEF CountInv
  <2> HIDE DEF f
  <2> QED
    BY <1>0, <2>3, <2>4, CountsFinite DEF Counted
<1> QED
  BY <1>0, <1>4, <1>5, <1>6 DEF CountInv

\* The count of it, if there is a listener.
LEMMA CountCountJob ==
  ASSUME Types, DeadWhileClosed, CountInv, NEW c \in Clients, CountJob(c)
  PROVE  CountInv'
<1> DEFINE f == FileOf[c]
<1>0. /\ f \in Files /\ dev[f] \in DevRecord /\ client[c].at = "pushed"
      /\ UNCHANGED <<core_owner, dec_irq, asic>>
  BY Records DEF CountJob
<1>1. dev[f].listener \notin {"close", "closeup"}
  BY <1>0 DEF DeadWhileClosed
<1>2. /\ client'[c].at = IF c \in MultiCore THEN "idle" ELSE "enabled"
      /\ \A x \in Clients \ {c} : client'[x] = client[x]
  BY DEF CountJob, Types, ClientRecord, IdleClient
<1>3. /\ \A g \in Files \ {f} : dev'[g] = dev[g]
      /\ dev'[f].listener = dev[f].listener /\ dev'[f].cb_func = dev[f].cb_func
      /\ dev'[f].jobs = IF dev[f].listener # "none" THEN dev[f].jobs + 1 ELSE dev[f].jobs
  BY <1>0 DEF CountJob, Types, DevRecord, HasListener
<1>4. dev[f].listener = "none" \/ dev[f].listener \in Loops
  BY <1>0, <1>1 DEF DevRecord, Listeners, Loops
<1> HIDE DEF f
<1>5. ListenerFirst'
  <2>1. \A g \in Files :
           \/ /\ dev'[g].listener \in Loops /\ dev[g].listener \in Loops
           \/ /\ dev'[g].listener = dev[g].listener /\ dev'[g].jobs = dev[g].jobs
              /\ dev'[g].cb_func \subseteq dev[g].cb_func
    BY <1>3, <1>4
  <2> QED
    BY <1>0, <1>2, <2>1, FirstClient DEF CountInv
<1>6. \A g \in Files, j \in Cores : Owns(g, j)' /\ Due(j)' <=> Owns(g, j) /\ Due(j)
  BY <1>0 DEF Owns, Due, State
<1>7. ASSUME NEW g \in Files \ {f}, dev'[g].listener \in Loops PROVE Counted(g)'
  <2>1. \A x \in Clients : FileOf[x] = g => client'[x] = client[x]
    BY <1>2 DEF f
  <2> QED
    BY <1>3, <1>6, <1>7, <2>1, CountKept DEF CountInv
<1>8. ASSUME dev'[f].listener \in Loops PROVE Counted(f)'
  <2>1. Untaken(f)' = Untaken(f)
    BY <1>0, <1>6 DEF Untaken
  <2>2. Pushing(f)' = Pushing(f) \ {c} /\ c \in Pushing(f)
    BY <1>0, <1>2 DEF Pushing, ClientsOf, f
  <2>3. Cardinality(Pushing(f)') = Cardinality(Pushing(f)) - 1
    BY <1>0, <2>2, CountsFinite, FS_RemoveElement
  <2>4. Counted(f) /\ dev'[f].jobs = dev[f].jobs + 1
    BY <1>0, <1>3, <1>8 DEF CountInv, Loops
  <2> QED
    BY <1>0, <2>1, <2>3, <2>4, CountsFinite DEF Counted
<1> QED
  BY <1>5, <1>7, <1>8 DEF CountInv

LEMMA CountWaitHwReady ==
  ASSUME Types, JobInv, CountInv, NEW c \in Clients, WaitHwReady(c)
  PROVE  CountInv'
<1>1. /\ client[c].at = "enabled" /\ UNCHANGED <<core_owner, dec_irq, asic, dev>>
      /\ FileOf[c] \in Files /\ c \notin MultiCore
  BY Records DEF WaitHwReady, JobInv, ClientsRight
<1>2. \/ Moves(c, "semwait")
      \/ dev[FileOf[c]].listener = "none" /\ Moves(c, "decwait")
  <2>1. CASE HasListener(FileOf[c])
    <3>1. client' = [client EXCEPT ![c].at = "semwait"]
      BY <2>1 DEF WaitHwReady
    <3>2. Moves(c, "semwait")
      BY <3>1, MovesTo
    <3> QED
      BY <3>2
  <2>2. CASE ~HasListener(FileOf[c])
    <3>1. client' = [client EXCEPT ![c].at = "decwait"]
      BY <2>2 DEF WaitHwReady
    <3>2. Moves(c, "decwait")
      BY <3>1, MovesTo
    <3> QED
      BY <2>2, <3>2 DEF HasListener
  <2> QED
    BY <2>1, <2>2
<1>3. client'[c].at = "decwait" => ~HasMulti(FileOf[c])
  BY <1>1, <1>2 DEF Moves, CountInv, ListenerFirst
<1>4. ListenerFirst'
  BY <1>1, <1>2, <1>3, FirstClient DEF Moves, CountInv
<1>5. \A x \in Clients : client'[x].at = "pushed" <=> client[x].at = "pushed"
  BY <1>1, <1>2 DEF Moves
<1> QED
  BY <1>1, <1>4, <1>5, CountsKept DEF CountInv

\* A client that waits in the driver has no listener to take jobs from.
LEMMA CountDecWait ==
  ASSUME Types, JobInv, CountInv, NEW c \in Clients, DecWait(c)
  PROVE  CountInv'
<1> DEFINE f == FileOf[c]
<1>k. PICK k \in Cores : k = client[c].core
  BY Records
<1>0. /\ f \in Files /\ client[c].at = "decwait" /\ dec_irq' = dec_irq \ {k}
      /\ UNCHANGED <<core_owner, asic, dev>>
  BY <1>k, Records DEF DecWait
<1>1. Moves(c, "ready")
  BY MovesTo DEF DecWait
<1>2. ~HasMulti(f) /\ c \notin MultiCore /\ dev[f].listener \notin Loops
  BY <1>0 DEF CountInv, ListenerFirst, JobInv, ClientsRight
<1>3. core_owner[k] = c
  BY <1>k, <1>0, <1>2 DEF JobInv, ClientsRight, Waiting
<1>4. ListenerFirst'
  BY <1>0, <1>1, <1>2, FirstClient DEF Moves, CountInv
<1>5. ASSUME NEW g \in Files, dev'[g].listener \in Loops PROVE Counted(g)'
  <2>1. g # f
    BY <1>0, <1>2, <1>5
  <2>2. \A j \in Cores : Owns(g, j)' /\ Due(j)' <=> Owns(g, j) /\ Due(j)
    BY <1>0, <1>3, <2>1 DEF Owns, Due, State
  <2>3. \A x \in Clients : client'[x].at = "pushed" <=> client[x].at = "pushed"
    BY <1>0, <1>1 DEF Moves
  <2> HIDE DEF f
  <2> QED
    BY <1>0, <1>5, <2>2, <2>3, CountKept DEF CountInv
<1> QED
  BY <1>4, <1>5 DEF CountInv

LEMMA CountSemWait ==
  ASSUME Types, JobInv, CountInv, NEW c \in Clients, SemWait(c)
  PROVE  CountInv'
<1> DEFINE f == FileOf[c]
<1>k. PICK k \in Cores : k = client[c].core
  BY Records
<1>0. /\ f \in Files /\ dev[f] \in DevRecord /\ client[c].at = "semwait" /\ c \notin MultiCore
      /\ UNCHANGED <<core_owner, dec_irq, asic>>
  BY Records DEF SemWait, JobInv, ClientsRight
<1>1. Moves(c, "ready")
  BY MovesTo DEF SemWait
<1>2. \A g \in Files : /\ dev'[g].listener = dev[g].listener /\ dev'[g].jobs = dev[g].jobs
                       /\ dev'[g].cb_func = dev[g].cb_func
  <2>1. dev' = [dev EXCEPT ![f].sc_dec_rdy_sem[k] = @ - 1]
    BY <1>k DEF SemWait
  <2> HIDE DEF f
  <2> QED
    BY <1>0, <2>1 DEF Types, DevRecord
<1>3. ListenerFirst'
  BY <1>0, <1>1, <1>2, FirstClient DEF Moves, CountInv
<1>4. \A x \in Clients : client'[x].at = "pushed" <=> client[x].at = "pushed"
  BY <1>0, <1>1 DEF Moves
<1> QED
  BY <1>0, <1>2, <1>3, <1>4, CountsKept DEF CountInv

---------------------------------------------------------------------------
(* The counters, when a core is given back and when a job is taken         *)

\* A core whose job has been taken is counted by nobody.
LEMMA DisownUncounted ==
  ASSUME Types, NEW k \in Cores, Disown(k), ~Due(k), NEW f \in Files, NEW j \in Cores
  PROVE  Owns(f, j)' /\ Due(j)' <=> Owns(f, j) /\ Due(j)
<1>1. /\ core_owner'[k] = Nil /\ \A i \in Cores \ {k} : core_owner'[i] = core_owner[i]
      /\ \A i \in Cores \ {k} : asic'[i] = asic[i]
      /\ dec_irq' = dec_irq \ {k}
  BY DEF Disown, Types
<1>2. CASE j = k
  BY <1>1, <1>2 DEF Owns
<1>3. CASE j # k
  BY <1>1, <1>3 DEF Owns, Due, State
<1> QED
  BY <1>2, <1>3

LEMMA CountReleaseHw ==
  ASSUME Types, JobInv, CountInv, NEW c \in Clients, ReleaseHw(c)
  PROVE  CountInv'
<1>k. PICK k \in Cores : k = client[c].core
  BY Records
<1>1. Disown(k) /\ client[c].at = "ready" /\ dev' = dev /\ c \notin MultiCore
  BY <1>k DEF ReleaseHw, JobInv, ClientsRight
<1>2. ~Due(k)
  BY <1>k, <1>1 DEF JobInv, ReadyRight, Due
<1>3. Moves(c, "up")
  BY MovesTo DEF ReleaseHw
<1>4. ListenerFirst'
  BY <1>1, <1>3, FirstClient DEF Moves, CountInv
<1>5. \A x \in Clients : client'[x].at = "pushed" <=> client[x].at = "pushed"
  BY <1>1, <1>3 DEF Moves
<1> QED
  BY <1>1, <1>2, <1>4, <1>5, DisownUncounted, CountKept DEF CountInv

\* A wake-up, with a client or a listener that goes back to its start.
LEMMA CountWoken ==
  ASSUME Types, CountInv, UNCHANGED <<core_owner, dec_irq, asic>>,
         \A x \in Clients :
           \/ client'[x].at = client[x].at
           \/ client[x].at = "asleep" /\ client'[x].at = "scan"
           \/ client[x].at = "up" /\ client'[x].at = "idle",
         \A f \in Files :
           \/ dev'[f] = dev[f]
           \/ /\ dev'[f].listener = "loop" /\ dev[f].listener = "up"
              /\ dev'[f].jobs = dev[f].jobs
           \/ dev'[f].listener = "close" /\ dev[f].listener = "closeup"
  PROVE  CountInv'
<1>1. \A f \in Files :
           \/ /\ dev'[f].listener \in Loops /\ dev[f].listener \in Loops
           \/ /\ dev'[f].listener = dev[f].listener /\ dev'[f].jobs = dev[f].jobs
              /\ dev'[f].cb_func \subseteq dev[f].cb_func
           \/ dev'[f].listener \in {"close", "closeup"}
  BY DEF Loops
<1>2. ASSUME NEW x \in Clients
      PROVE  \/ client'[x].at = client[x].at
             \/ dev'[FileOf[x]].listener # "none" /\ client'[x].at # "decwait"
             \/ x \in MultiCore /\ client'[x].at \in {"idle", "scan", "asleep", "own"}
             \/ ~HasMulti(FileOf[x]) /\ x \notin MultiCore
             \/ client'[x].at = "idle"
  <2>1. CASE client[x].at = "asleep" /\ client'[x].at = "scan"
    <3>1. dev'[FileOf[x]].listener = "none" => dev[FileOf[x]].listener = "none"
      BY <1>1, Records DEF Loops
    <3> QED
      BY <2>1, <3>1 DEF CountInv, ListenerFirst
  <2> QED
    BY <2>1
<1>3. ListenerFirst'
  BY <1>1, <1>2, FirstKept DEF CountInv
<1>4. \A x \in Clients : client'[x].at = "pushed" <=> client[x].at = "pushed"
  OBVIOUS
<1>5. ASSUME NEW f \in Files, dev'[f].listener \in Loops
      PROVE  dev[f].listener \in Loops /\ dev'[f].jobs = dev[f].jobs
  BY <1>5 DEF Loops
<1> QED
  BY <1>3, <1>4, <1>5, CountsKept DEF CountInv

LEMMA CountReleased ==
  ASSUME Types, CountInv, NEW c \in Clients, Released(c)
  PROVE  CountInv'
<1> DEFINE cl == [client EXCEPT ![c] = IdleClient]
<1>1. /\ client[c].at = "up" /\ client' = WakeAll(cl)
      /\ UNCHANGED <<core_owner, dec_irq, asic, dev>>
  BY DEF Released, UpAndWake
<1>2. IdleClient \in ClientRecord
  BY CoresFinite DEF IdleClient, ClientRecord
<1>3. cl \in [Clients -> ClientRecord] /\ cl[c].at = "idle"
      /\ \A x \in Clients \ {c} : cl[x] = client[x]
  BY <1>2 DEF Types, IdleClient
<1> HIDE DEF cl
<1>4. \A x \in Clients :
           \/ client'[x].at = client[x].at
           \/ client[x].at = "asleep" /\ client'[x].at = "scan"
           \/ client[x].at = "up" /\ client'[x].at = "idle"
  <2>1. \A x \in Clients : \/ client'[x].at = cl[x].at
                           \/ cl[x].at = "asleep" /\ client'[x].at = "scan"
    BY <1>1, <1>3, Woken
  <2> QED
    BY <1>1, <1>3, <2>1
<1> QED
  BY <1>1, <1>4, CountWoken

LEMMA CountRaised ==
  ASSUME Types, CountInv, NEW f \in Files, CallbackDone(f) \/ CloseCoreReleased(f)
  PROVE  CountInv'
<1>1. client' = WakeAll(client) /\ UNCHANGED <<core_owner, dec_irq, asic>>
  BY DEF CallbackDone, CloseCoreReleased, UpAndWake
<1>2. /\ \A g \in Files \ {f} : dev'[g] = dev[g]
      /\ \/ /\ dev'[f].listener = "loop" /\ dev[f].listener = "up"
            /\ dev'[f].jobs = dev[f].jobs
         \/ dev'[f].listener = "close" /\ dev[f].listener = "closeup"
  BY DEF CallbackDone, CloseCoreReleased, Types, DevRecord
<1>3. \A x \in Clients :
           \/ client'[x].at = client[x].at
           \/ client[x].at = "asleep" /\ client'[x].at = "scan"
  BY <1>1, Woken DEF Types
<1> QED
  BY <1>1, <1>2, <1>3, CountWoken

LEMMA CountHwEnd ==
  ASSUME Types, CountInv, NEW k \in Cores, HwEnd(k)
  PROVE  CountInv'
<1>1. /\ State(k) = "run" /\ State(k)' = "irq"
      /\ \A j \in Cores \ {k} : State(j)' = State(j)
      /\ UNCHANGED <<core_owner, dec_irq, client, dev>>
  BY DEF HwEnd, Types, AsicRecord, State
<1>2. \A f \in Files, j \in Cores : Owns(f, j)' /\ Due(j)' <=> Owns(f, j) /\ Due(j)
  BY <1>1 DEF Owns, Due
<1>3. ListenerFirst'
  BY <1>1, FirstKept DEF CountInv
<1> QED
  BY <1>1, <1>2, <1>3, CountKept DEF CountInv

LEMMA CountIsr ==
  ASSUME Types, CountInv, Isr
  PROVE  CountInv'
<1> DEFINE raised == {k \in Cores : asic[k].st = "irq"}
<1>1. /\ dec_irq' = dec_irq \cup raised /\ UNCHANGED <<core_owner, client, dev>>
      /\ \A j \in Cores : State(j)' = IF j \in raised THEN "done" ELSE State(j)
  BY DEF Isr, Types, AsicRecord, State
<1>2. \A f \in Files, j \in Cores : Owns(f, j)' /\ Due(j)' <=> Owns(f, j) /\ Due(j)
  BY <1>1 DEF Owns, Due, State
<1>3. ListenerFirst'
  BY <1>1, FirstKept DEF CountInv
<1> QED
  BY <1>1, <1>2, <1>3, CountKept DEF CountInv

\* CORE_WAIT takes one job, and counts it.
LEMMA CountCoreWait ==
  ASSUME Types, JobInv, CountInv, NEW f \in Files, NEW k \in Cores, CoreWait(f, k)
  PROVE  CountInv'
<1>0. /\ dev[f] \in DevRecord /\ dev[f].listener = "loop" /\ k \in dec_irq /\ Owns(f, k)
      /\ dec_irq' = dec_irq \ ({k} \cup {z \in FreeCores : z < k})
      /\ UNCHANGED <<core_owner, asic, client>>
  BY Owned, Records DEF CoreWait
<1>1. /\ \A g \in Files \ {f} : dev'[g] = dev[g]
      /\ dev'[f].listener = "got" /\ dev'[f].jobs = dev[f].jobs - 1
  BY DEF CoreWait, Types, DevRecord
<1>2. State(k) = "done" /\ Due(k) /\ ~Due(k)'
  BY <1>0 DEF JobInv, IrqRight, Due, State
<1>3. \A g \in Files, j \in Cores \ {k} : Owns(g, j)' /\ Due(j)' <=> Owns(g, j) /\ Due(j)
  BY <1>0 DEF Owns, Due, State, FreeCores
<1>4. ListenerFirst'
  <2>1. \A g \in Files :
           \/ /\ dev'[g].listener \in Loops /\ dev[g].listener \in Loops
           \/ /\ dev'[g].listener = dev[g].listener /\ dev'[g].jobs = dev[g].jobs
              /\ dev'[g].cb_func \subseteq dev[g].cb_func
    BY <1>0, <1>1 DEF Loops
  <2> QED
    BY <1>0, <2>1, FirstKept DEF CountInv
<1>5. ASSUME NEW g \in Files \ {f}, dev'[g].listener \in Loops PROVE Counted(g)'
  <2>1. ~Owns(g, k) /\ ~Owns(g, k)'
    BY <1>0 DEF Owns
  <2> QED
    BY <1>0, <1>1, <1>3, <1>5, <2>1, CountKept DEF CountInv
<1>6. Counted(f)'
  <2>1. Untaken(f)' = Untaken(f) \ {k} /\ k \in Untaken(f)
    BY <1>0, <1>2, <1>3 DEF Untaken
  <2>2. Pushing(f)' = Pushing(f)
    BY <1>0 DEF Pushing, ClientsOf
  <2>3. Cardinality(Untaken(f)') = Cardinality(Untaken(f)) - 1
    BY <2>1, CountsFinite, FS_RemoveElement
  <2>4. Counted(f)
    BY <1>0 DEF CountInv, Loops
  <2> QED
    BY <1>1, <2>2, <2>3, <2>4, CountsFinite DEF Counted
<1> QED
  BY <1>4, <1>5, <1>6 DEF CountInv

LEMMA CountDispatch ==
  ASSUME Types, CountInv, NEW f \in Files, Dispatch(f)
  PROVE  CountInv'
<1>k. PICK k \in Cores : k = dev[f].id
  BY Records
<1>1. /\ UNCHANGED <<core_owner, dec_irq, asic, client>>
      /\ dev[f] \in DevRecord /\ dev[f].listener = "got"
      /\ \A g \in Files \ {f} : dev'[g] = dev[g]
  BY Records DEF Dispatch, Types
<1>2. dev'[f].listener \in {"callback", "loop"} /\ dev'[f].jobs = dev[f].jobs
  <2>1. CASE k \in dev[f].cb_func
    BY <1>k, <1>1, <2>1 DEF Dispatch, Types, DevRecord
  <2>2. CASE k \notin dev[f].cb_func
    <3>1. dev' = [dev EXCEPT ![f].listener = "loop", ![f].id = 0,
                             ![f].sc_dec_rdy_sem[k] = @ + 1]
      BY <1>k, <2>2 DEF Dispatch
    <3> QED
      BY <1>1, <3>1 DEF Types, DevRecord
  <2> QED
    BY <2>1, <2>2
<1>3. \A g \in Files :
           \/ /\ dev'[g].listener \in Loops /\ dev[g].listener \in Loops
           \/ /\ dev'[g].listener = dev[g].listener /\ dev'[g].jobs = dev[g].jobs
              /\ dev'[g].cb_func \subseteq dev[g].cb_func
  BY <1>1, <1>2 DEF Loops
<1>4. ListenerFirst'
  BY <1>1, <1>3, FirstKept DEF CountInv
<1>5. \A g \in Files : dev'[g].jobs = dev[g].jobs
  BY <1>1, <1>2
<1> QED
  BY <1>1, <1>3, <1>4, <1>5, CountsKept DEF CountInv

LEMMA CountCallbackReleases ==
  ASSUME Types, JobInv, CountInv, NEW f \in Files, CallbackReleases(f)
  PROVE  CountInv'
<1>k. PICK k \in Cores : k = dev[f].id
  BY Records
<1>1. /\ Disown(k) /\ client' = client /\ Has(f, k)
      /\ \A g \in Files \ {f} : dev'[g] = dev[g]
      /\ dev[f].listener = "callback" /\ dev'[f].listener = "up" /\ dev'[f].jobs = dev[f].jobs
  BY <1>k DEF CallbackReleases, Types, DevRecord, Has
<1>2. ~Due(k)
  BY <1>1 DEF JobInv, ListenersRight, Due
<1>3. \A g \in Files :
           \/ /\ dev'[g].listener \in Loops /\ dev[g].listener \in Loops
           \/ /\ dev'[g].listener = dev[g].listener /\ dev'[g].jobs = dev[g].jobs
              /\ dev'[g].cb_func \subseteq dev[g].cb_func
  BY <1>1 DEF Loops
<1>4. ListenerFirst'
  BY <1>1, <1>3, FirstKept DEF CountInv
<1>5. \A g \in Files : dev'[g].jobs = dev[g].jobs
  BY <1>1
<1> QED
  BY <1>1, <1>2, <1>3, <1>4, <1>5, DisownUncounted, CountKept DEF CountInv

\* The end of a process: its own counters stop to matter, those of the others stay.
LEMMA CountCloseFile ==
  ASSUME Types, CountInv, NEW f \in Files, CloseFile(f)
  PROVE  CountInv'
<1>1. /\ UNCHANGED <<core_owner, dec_irq, asic>>
      /\ \A c \in Clients : IF FileOf[c] = f THEN client'[c].at = "dead"
                                             ELSE client'[c] = client[c]
      /\ \A g \in Files \ {f} : dev'[g] = dev[g]
      /\ dev'[f].listener = "close"
  BY DEF CloseFile, IdleClient, Types, NewDev
<1>2. ListenerFirst'
  BY <1>1, FirstKept DEF CountInv
<1>3. ASSUME NEW g \in Files, dev'[g].listener \in Loops PROVE Counted(g)'
  BY <1>1, <1>3, CountsKept DEF Loops
<1> QED
  BY <1>2, <1>3 DEF CountInv

LEMMA CountCloseCore ==
  ASSUME Types, DeadWhileClosed, JobInv, CountInv, NEW f \in Files, CloseCore(f)
  PROVE  CountInv'
<1>n. PICK n \in Cores : n = dev[f].id
  BY Records
<1>0. dev[f].listener = "close" /\ dev[f] \in DevRecord
  BY Records DEF CloseCore
<1>1. CASE n \in OwnedBy(f)
  <2>1. /\ Disown(n) /\ client' = client
        /\ \A g \in Files \ {f} : dev'[g] = dev[g]
        /\ dev'[f].listener = "closeup"
    BY <1>n, <1>1 DEF CloseCore, Types, DevRecord
  <2>2. ~Due(n)
    <3>1. Owns(f, n)
      BY <1>1, Owned
    <3>2. client[core_owner[n]].at = "dead"
      BY <1>0, <3>1, Records DEF DeadWhileClosed, Owns
    <3> QED
      BY <3>1, <3>2 DEF JobInv, OwnersRight, IrqRight, Owns, Due
  <2>3. ListenerFirst'
    BY <2>1, FirstKept DEF CountInv
  <2>4. ASSUME NEW g \in Files, dev'[g].listener \in Loops PROVE Counted(g)'
    <3>1. dev'[g] = dev[g]
      BY <2>1, <2>4 DEF Loops
    <3> QED
      BY <2>1, <2>2, <2>4, <3>1, DisownUncounted, CountKept DEF CountInv
  <2> QED
    BY <2>3, <2>4 DEF CountInv
<1>2. CASE n \notin OwnedBy(f) /\ n < LastCore
  <2>1. /\ UNCHANGED <<core_owner, dec_irq, asic, client>>
        /\ \A g \in Files \ {f} : dev'[g] = dev[g]
        /\ dev'[f].listener = "close"
    BY <1>n, <1>0, <1>2 DEF CloseCore, Types, DevRecord
  <2>2. ListenerFirst'
    BY <2>1, FirstKept DEF CountInv
  <2> QED
    BY <1>0, <2>1, <2>2, CountsKept DEF CountInv, Loops
<1>3. CASE n \notin OwnedBy(f) /\ ~(n < LastCore)
  <2>1. /\ UNCHANGED <<core_owner, dec_irq, asic>>
        /\ dev' = [dev EXCEPT ![f] = NewDev]
        /\ \A c \in Clients : client'[c] = IF FileOf[c] = f THEN IdleClient ELSE client[c]
    BY <1>n, <1>3 DEF CloseCore
  <2>2. /\ \A g \in Files \ {f} : dev'[g] = dev[g]
        /\ dev'[f].listener = "none" /\ dev'[f].jobs = 0 /\ dev'[f].cb_func = {}
    BY <2>1 DEF Types, NewDev
  <2>3. \A c \in Clients : IF FileOf[c] = f THEN client'[c].at = "idle"
                                            ELSE client'[c] = client[c]
    BY <2>1 DEF IdleClient
  <2>4. ListenerFirst'
    <3>1. ASSUME NEW g \in Files
          PROVE  /\ dev'[g].listener = "none" => dev'[g].jobs = 0 /\ dev'[g].cb_func = {}
                 /\ dev'[g].listener \in Loops => HasMulti(g)
      BY <2>2 DEF CountInv, ListenerFirst, Loops
    <3>2. ASSUME NEW x \in Clients
          PROVE  /\ dev'[FileOf[x]].listener = "none" =>
                      IF x \in MultiCore THEN client'[x].at \in {"idle", "scan", "asleep", "own"}
                      ELSE HasMulti(FileOf[x]) => client'[x].at = "idle"
                 /\ client'[x].at = "decwait" => ~HasMulti(FileOf[x])
      <4>1. CASE FileOf[x] = f
        BY <2>3, <4>1
      <4>2. CASE FileOf[x] # f
        BY <2>2, <2>3, <4>2, Records DEF CountInv, ListenerFirst
      <4> QED
        BY <4>1, <4>2
    <3> QED
      BY <3>1, <3>2 DEF ListenerFirst, HasMulti, ClientsOf
  <2>5. ASSUME NEW g \in Files, dev'[g].listener \in Loops PROVE Counted(g)'
    BY <2>1, <2>2, <2>3, <2>5, CountsKept DEF Loops
  <2> QED
    BY <2>4, <2>5 DEF CountInv
<1> QED
  BY <1>1, <1>2, <1>3

LEMMA CountInit == Init => CountInv
<1> SUFFICES ASSUME Init PROVE CountInv
  OBVIOUS
<1>1. /\ \A c \in Clients : client[c].at = "idle" /\ FileOf[c] \in Files
      /\ \A f \in Files : dev[f].listener = "none" /\ dev[f].jobs = 0 /\ dev[f].cb_func = {}
  BY ClientsAssumption DEF Init, IdleClient, NewDev
<1> QED
  BY <1>1 DEF CountInv, ListenerFirst, Loops

LEMMA CountNext ==
  ASSUME ~EarlySync, Types, DeadWhileClosed, JobInv, CountInv, [Next]_vars
  PROVE  CountInv'
<1>1. ASSUME NEW c \in Clients, ReserveDown(c) \/ ClientStep(c) PROVE CountInv'
  BY <1>1, CountReserveDown, CountGetDecCore, CountSetIRQCallback, CountEnableHw,
     CountCountJob, CountWaitHwReady, CountDecWait, CountSemWait, CountReleaseHw,
     CountReleased DEF ClientStep
<1>2. ASSUME NEW f \in Files, DeviceStep(f) \/ (\E k \in Cores : CoreWait(f, k)) \/ CloseFile(f)
      PROVE CountInv'
  BY <1>2, CountDispatch, CountCallbackReleases, CountRaised, CountCloseCore,
     CountCoreWait, CountCloseFile DEF DeviceStep
<1>3. CASE UNCHANGED vars
  <2>1. UNCHANGED <<core_owner, dec_irq, asic, client, dev>>
    BY <1>3 DEF vars
  <2>2. ListenerFirst'
    BY <2>1, FirstKept DEF CountInv
  <2> QED
    BY <2>1, <2>2, CountsKept DEF CountInv
<1> QED
  BY <1>1, <1>2, <1>3, CountHwEnd, CountIsr DEF Next

\* The listener's two counters differ by the jobs of the process it has still to
\* take, less those not counted yet, if no single-core instance of the process
\* starts before the listener is there and no process dies while it has a job.
THEOREM JobsCounted ==
  ASSUME ~EarlySync, "run" \notin KillAt
  PROVE  Spec => []JobCountExact
<1>1. IInv /\ JobInv /\ CountInv /\ [Next]_vars => JobInv' /\ CountInv'
  BY JobNext, CountNext DEF IInv
<1>2. Init => JobInv /\ CountInv
  BY JobInvInit, CountInit
<1>3. Spec => [](JobInv /\ CountInv)
  BY <1>1, <1>2, Invariance, PTL DEF Spec
<1>4. ASSUME CountInv PROVE JobCountExact
  <2>1. ASSUME NEW f \in Files
        PROVE  {k \in OwnedBy(f) : asic[k].st \in {"run", "irq"} \/ k \in dec_irq} = Untaken(f)
    BY Owned DEF Untaken, Due, State
  <2> QED
    BY <1>4, <2>1 DEF JobCountExact, CountInv, Counted, Pushing, Loops
<1> QED
  BY <1>3, <1>4, PTL
=============================================================================
