--------------------------- MODULE Process_proofs ---------------------------
(* Proofs about the life of the process and what it leaves on disk.        *)
EXTENDS Process, TLAPS

-----------------------------------------------------------------------------
(* The files of self-signed certificates (module SelfSigned).              *)

\* What holds between the steps: the key is created only when the certificate is
\* whole, and from then on neither is opened again unless the key is the one
\* being written.
FileInv(n) ==
    /\ Exists(key[n]) => Whole(cert[n])
    /\ Whole(key[n]) => key[n] = cert[n]
    /\ at[n] \in {"cert", "certOpen", "key"} => ~Exists(key[n])
    /\ at[n] \in {"cert", "certOpen", "key", "keyOpen"} => made[n] > 0
    /\ at[n] \in {"key", "keyOpen"} => cert[n] = made[n]
    /\ at[n] = "keyOpen" => key[n] = Torn
    /\ at[n] = "ready" => Exists(cert[n]) /\ Exists(key[n])

FilesInv == \A n \in Nodes : FileInv(n)

\* The files, the pairs made and the place of every call are well typed in every
\* reachable state of generateSelfSigned.
THEOREM FilesTypeCorrect == FilesSpec => []FilesTypeOK
<1> USE SelfSignedAssumption DEF SelfSignedAssumption, Absent, Torn, Exists
<1>1. FilesInit => FilesTypeOK
  BY DEF FilesInit, FilesTypeOK
<1>2. FilesTypeOK /\ [FilesNext]_fileVars => FilesTypeOK'
  <2> SUFFICES ASSUME FilesTypeOK, [FilesNext]_fileVars
               PROVE  FilesTypeOK'
    OBVIOUS
  <2>0. /\ Absent \in Absent..MaxPairs /\ Torn \in Absent..MaxPairs
        /\ \A n \in Nodes : made[n] \in Absent..MaxPairs /\ made[n] \in Nat
    BY DEF FilesTypeOK
  <2>1. CASE Crash
    BY <2>0, <2>1 DEF Crash, FilesTypeOK
  <2>2. ASSUME NEW n \in Nodes, Reuse(n) PROVE FilesTypeOK'
    BY <2>0, <2>2 DEF Reuse, Goto, FilesTypeOK
  <2>3. ASSUME NEW n \in Nodes, Generate(n) PROVE FilesTypeOK'
    BY <2>0, <2>3 DEF Generate, Goto, FilesTypeOK
  <2>4. ASSUME NEW n \in Nodes, OpenCert(n) PROVE FilesTypeOK'
    BY <2>0, <2>4 DEF OpenCert, Goto, FilesTypeOK
  <2>5. ASSUME NEW n \in Nodes, WriteCert(n) PROVE FilesTypeOK'
    BY <2>0, <2>5 DEF WriteCert, Goto, FilesTypeOK
  <2>6. ASSUME NEW n \in Nodes, OpenKey(n) PROVE FilesTypeOK'
    BY <2>0, <2>6 DEF OpenKey, Goto, FilesTypeOK
  <2>7. ASSUME NEW n \in Nodes, WriteKey(n) PROVE FilesTypeOK'
    BY <2>0, <2>7 DEF WriteKey, Goto, FilesTypeOK
  <2>8. ASSUME NEW n \in Nodes, Fail(n) PROVE FilesTypeOK'
    BY <2>0, <2>8 DEF Fail, Goto, FilesTypeOK
  <2>9. ASSUME NEW n \in Nodes, Return(n) PROVE FilesTypeOK'
    BY <2>0, <2>9 DEF Return, Goto, FilesTypeOK
  <2>10. CASE UNCHANGED fileVars
    BY <2>0, <2>10 DEF fileVars, FilesTypeOK
  <2> QED
    BY <2>1, <2>2, <2>3, <2>4, <2>5, <2>6, <2>7, <2>8, <2>9, <2>10
    DEF FilesNext, Call, Proceed
<1> QED
  BY <1>1, <1>2, PTL DEF FilesSpec

\* FilesInv holds in every reachable state of generateSelfSigned.
THEOREM FilesInvariant == FilesSpec => []FilesInv
<1> USE DEF Absent, Torn, Exists, Whole
<1>1. FilesInit => FilesInv
  BY DEF FilesInit, FilesInv, FileInv
<1>2. FilesTypeOK /\ FilesInv /\ [FilesNext]_fileVars => FilesInv'
  <2> SUFFICES ASSUME FilesTypeOK, FilesInv, [FilesNext]_fileVars, NEW m \in Nodes
               PROVE  FileInv(m)'
    BY DEF FilesInv
  <2>0. /\ cert[m] \in Int /\ key[m] \in Int /\ made[m] \in Nat
        /\ FileInv(m)
    BY SelfSignedAssumption DEF SelfSignedAssumption, FilesTypeOK, FilesInv
  <2>1. CASE Crash
    BY <2>0, <2>1 DEF Crash, FileInv
  <2>2. ASSUME NEW n \in Nodes, Reuse(n) PROVE FileInv(m)'
    BY <2>0, <2>2 DEF Reuse, Goto, FileInv, FilesTypeOK
  <2>3. ASSUME NEW n \in Nodes, Generate(n) PROVE FileInv(m)'
    BY <2>0, <2>3 DEF Generate, Goto, FileInv, FilesTypeOK
  <2>4. ASSUME NEW n \in Nodes, OpenCert(n) PROVE FileInv(m)'
    BY <2>0, <2>4 DEF OpenCert, Goto, FileInv, FilesTypeOK
  <2>5. ASSUME NEW n \in Nodes, WriteCert(n) PROVE FileInv(m)'
    BY <2>0, <2>5 DEF WriteCert, Goto, FileInv, FilesTypeOK
  <2>6. ASSUME NEW n \in Nodes, OpenKey(n) PROVE FileInv(m)'
    BY <2>0, <2>6 DEF OpenKey, Goto, FileInv, FilesTypeOK
  <2>7. ASSUME NEW n \in Nodes, WriteKey(n) PROVE FileInv(m)'
    BY <2>0, <2>7 DEF WriteKey, Goto, FileInv, FilesTypeOK
  <2>8. ASSUME NEW n \in Nodes, Fail(n) PROVE FileInv(m)'
    BY <2>0, <2>8 DEF Fail, Goto, FileInv, FilesTypeOK
  <2>9. ASSUME NEW n \in Nodes, Return(n) PROVE FileInv(m)'
    BY <2>0, <2>9 DEF Return, Goto, FileInv, FilesTypeOK
  <2>10. CASE UNCHANGED fileVars
    BY <2>0, <2>10 DEF fileVars, FileInv
  <2> QED
    BY <2>1, <2>2, <2>3, <2>4, <2>5, <2>6, <2>7, <2>8, <2>9, <2>10
    DEF FilesNext, Call, Proceed
<1> QED
  BY <1>1, <1>2, FilesTypeCorrect, PTL DEF FilesSpec

\* The certificate and the key that a call returns belong together, whatever was
\* killed or failed before; only the key may be torn.
THEOREM ReturnedPairFits == FilesSpec => []PairFits
<1>1. FilesTypeOK /\ FilesInv => PairFits
  BY DEF FilesTypeOK, FilesInv, FileInv, PairFits, Exists, Whole, Absent, Torn
<1> QED
  BY <1>1, FilesTypeCorrect, FilesInvariant, PTL

\* Once the key of a node is whole no step writes either of its files again.
THEOREM PairIsKept == FilesSpec => KeptForGood
<1>1. FilesTypeOK /\ FilesInv /\ [FilesNext]_fileVars
        => [\A n \in Nodes : Whole(key[n]) => UNCHANGED <<cert[n], key[n]>>]_fileVars
  <2> SUFFICES ASSUME FilesTypeOK, FilesInv, FilesNext,
                      NEW n \in Nodes, Whole(key[n])
               PROVE  cert'[n] = cert[n] /\ key'[n] = key[n]
    BY DEF fileVars
  <2>1. at[n] \notin {"cert", "certOpen", "key", "keyOpen"}
    BY DEF FilesInv, FileInv, Whole, Exists, Absent, Torn
  <2>2. CASE Crash
    BY <2>2 DEF Crash
  <2>3. ASSUME NEW m \in Nodes, Call(m) \/ Proceed(m)
        PROVE  cert'[n] = cert[n] /\ key'[n] = key[n]
    BY <2>1, <2>3 DEF Call, Proceed, Reuse, Generate, OpenCert, WriteCert, OpenKey, WriteKey,
                       Fail, Return, FilesTypeOK
  <2> QED
    BY <2>2, <2>3 DEF FilesNext
<1> QED
  BY <1>1, FilesTypeCorrect, FilesInvariant, PTL DEF FilesSpec, KeptForGood

-----------------------------------------------------------------------------
(* The process.                                                            *)

\* Whatever systemd, main and the workers do, the files see only the steps of
\* generateSelfSigned and crashes: Process implements SelfSigned.
THEOREM ImplementsFiles == Spec => FilesSpec
<1>1. Init => FilesInit
  BY DEF Init
<1>2. [Next]_vars => [FilesNext]_fileVars
  <2> SUFFICES ASSUME [Next]_vars PROVE [FilesNext]_fileVars
    OBVIOUS
  <2>1. CASE Kill
    BY <2>1 DEF Kill, FilesNext
  <2>2. CASE SystemctlStart \/ SystemctlStop \/ Spawn \/ Listen \/ ListenFails \/ RunReturns
    BY <2>2 DEF SystemctlStart, SystemctlStop, Spawn, Listen, ListenFails, RunReturns
  <2>3. ASSUME NEW n \in Nodes, Booted(n) \/ BootStops(n) \/ Stopped(n) \/ Ended(n)
        PROVE  UNCHANGED fileVars
    BY <2>3 DEF Booted, BootStops, Stopped, Ended, WorkerGoes
  <2>4. ASSUME NEW n \in Nodes, CallFiles(n) \/ ProceedFiles(n)
        PROVE  FilesNext
    BY <2>4 DEF CallFiles, ProceedFiles, FilesNext
  <2>5. CASE UNCHANGED vars
    BY <2>5 DEF vars
  <2> QED
    BY <2>1, <2>2, <2>3, <2>4, <2>5 DEF Next, Worker
<1> QED
  BY <1>1, <1>2, PTL DEF Spec, FilesSpec

\* However often the process is killed and started again, the pair a runtime is
\* given fits, and a whole key and its certificate are never replaced.
THEOREM CertificatesSurvive == Spec => []PairFits /\ KeptForGood
BY ImplementsFiles, ReturnedPairFits, PairIsKept, PTL

\* The life of the process is well typed.
THEOREM TypeCorrect == Spec => []TypeOK
<1> DEFINE LifeOK ==
      /\ wanted \in BOOLEAN
      /\ proc \in {"down", "starting", "running", "exited", "failed", "killed"}
      /\ cancelled \in BOOLEAN
      /\ worker \in [Nodes -> {"none", "boot", "up", "final", "ended"}]
      /\ waiting \subseteq Nodes
      /\ kills \in 0..MaxKills
<1> USE ProcessAssumption DEF ProcessAssumption
<1>1. Init => LifeOK
  <2> SUFFICES ASSUME Init PROVE LifeOK
    OBVIOUS
  <2>1. kills \in 0..MaxKills
    BY DEF Init
  <2>2. worker \in [Nodes -> {"none", "boot", "up", "final", "ended"}]
    BY DEF Init
  <2> QED
    BY <2>1, <2>2 DEF Init
<1>2. LifeOK /\ [Next]_vars => LifeOK'
  <2> SUFFICES ASSUME LifeOK, [Next]_vars PROVE LifeOK'
    OBVIOUS
  <2>1. CASE SystemctlStart \/ SystemctlStop
    BY <2>1, Zenon DEF SystemctlStart, SystemctlStop, Alive
  <2>2. CASE Spawn \/ Listen
    BY <2>2 DEF Spawn, Listen
  <2>3. CASE Kill
    BY <2>3 DEF Kill
  <2>4. CASE ListenFails \/ RunReturns
    BY <2>4 DEF ListenFails, RunReturns, ExitAfter
  <2>5. ASSUME NEW n \in Nodes, Booted(n) \/ BootStops(n) \/ Stopped(n) \/ Ended(n)
        PROVE  LifeOK'
    BY <2>5 DEF Booted, BootStops, Stopped, Ended, WorkerGoes
  <2>6. ASSUME NEW n \in Nodes, CallFiles(n) \/ ProceedFiles(n)
        PROVE  LifeOK'
    BY <2>6 DEF CallFiles, ProceedFiles, lifeVars
  <2>7. CASE UNCHANGED vars
    BY <2>7 DEF vars, lifeVars
  <2> QED
    BY <2>1, <2>2, <2>3, <2>4, <2>5, <2>6, <2>7 DEF Next, Worker
<1>3. FilesTypeOK /\ LifeOK => TypeOK
  BY DEF TypeOK
<1> QED
  BY <1>1, <1>2, <1>3, ImplementsFiles, FilesTypeCorrect, PTL DEF Spec

\* A worker that has not ended is awaited; only a worker that boots or is up is
\* inside generateSelfSigned; a process that has not begun has no workers.
LifeInv ==
  /\ proc # "running" => \A n \in Nodes : at[n] = "idle"
  /\ proc = "starting" => \A n \in Nodes : worker[n] = "none"
  /\ proc \in {"exited", "failed"} => \A n \in Nodes : worker[n] \in {"none", "ended"}
  /\ \A n \in Nodes : at[n] # "idle" => worker[n] \in {"boot", "up"}
  /\ proc = "running" =>
       \A n \in Nodes : worker[n] \in {"none", "ended"} \/ n \in waiting

\* A process that ends by itself has no worker left that has still to report or
\* is building a runtime.
THEOREM NothingLeftBehind == Spec => []EndsAfterWorkers
<1>1. Init => LifeInv
  BY DEF Init, FilesInit, LifeInv
<1>2. TypeOK /\ LifeInv /\ [Next]_vars => LifeInv'
  <2> SUFFICES ASSUME TypeOK, LifeInv, [Next]_vars PROVE LifeInv'
    OBVIOUS
  <2> USE DEF LifeInv, TypeOK, FilesTypeOK
  <2>1. CASE SystemctlStart \/ SystemctlStop
    BY <2>1 DEF SystemctlStart, SystemctlStop, Alive, fileVars
  <2>2. CASE Spawn
    BY <2>2 DEF Spawn, fileVars
  <2>3. CASE Listen
    BY <2>3 DEF Listen, fileVars
  <2>4. CASE Kill
    BY <2>4 DEF Kill, Crash
  <2>5. CASE ListenFails \/ RunReturns
    BY <2>5 DEF ListenFails, RunReturns, ExitAfter, fileVars
  <2>6. ASSUME NEW n \in Nodes, Booted(n) \/ BootStops(n) \/ Stopped(n) \/ Ended(n)
        PROVE  LifeInv'
    BY <2>6 DEF Booted, BootStops, Stopped, Ended, WorkerGoes, fileVars
  <2>7. ASSUME NEW n \in Nodes, CallFiles(n)
        PROVE  LifeInv'
    BY <2>7 DEF CallFiles, Call, Reuse, Generate, Goto, lifeVars
  <2>8. ASSUME NEW n \in Nodes, ProceedFiles(n)
        PROVE  LifeInv'
    BY <2>8 DEF ProceedFiles, Proceed, OpenCert, WriteCert, OpenKey, WriteKey, Fail, Return,
                Goto, lifeVars
  <2>9. CASE UNCHANGED vars
    BY <2>9 DEF vars, fileVars, lifeVars
  <2> QED
    BY <2>1, <2>2, <2>3, <2>4, <2>5, <2>6, <2>7, <2>8, <2>9 DEF Next, Worker
<1>3. LifeInv => EndsAfterWorkers
  BY DEF LifeInv, EndsAfterWorkers
<1> QED
  BY <1>1, <1>2, <1>3, TypeCorrect, PTL DEF Spec

\* A process that was told to stop does not exit with a failure, whichever branch
\* the select of App.Run takes.
THEOREM StopsWithoutFailure == Spec => []StopIsClean
<1>1. Init => StopIsClean
  BY DEF Init, StopIsClean
<1>2. StopIsClean /\ [Next]_vars => StopIsClean'
  <2> SUFFICES ASSUME StopIsClean, [Next]_vars PROVE StopIsClean'
    OBVIOUS
  <2> USE DEF StopIsClean
  <2>1. CASE SystemctlStart \/ SystemctlStop \/ Spawn \/ Kill \/ Listen
    BY <2>1 DEF SystemctlStart, SystemctlStop, Spawn, Kill, Listen, Alive
  <2>2. CASE ListenFails \/ RunReturns
    BY <2>2 DEF ListenFails, RunReturns, ExitAfter
  <2>3. ASSUME NEW n \in Nodes, Worker(n)
        PROVE  UNCHANGED <<proc, cancelled>>
    BY <2>3 DEF Worker, Booted, BootStops, Stopped, Ended, WorkerGoes, CallFiles,
                ProceedFiles, lifeVars
  <2>4. CASE UNCHANGED vars
    BY <2>4 DEF vars, lifeVars
  <2> QED
    BY <2>1, <2>2, <2>3, <2>4 DEF Next
<1> QED
  BY <1>1, <1>2, PTL DEF Spec

\* A process ends by itself only with its last worker, and after a signal only
\* without a failure.
THEOREM GracefulEnd == Spec => []EndsGracefully
BY NothingLeftBehind, StopsWithoutFailure, PTL DEF EndsGracefully
=============================================================================
