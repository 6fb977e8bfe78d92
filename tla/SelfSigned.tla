----------------------------- MODULE SelfSigned -----------------------------
(***************************************************************************)
(* The self-signed certificate of a node (internal/certificate,            *)
(* generateSelfSigned): two files in the data directory of the node, which *)
(* outlive the process.  They are looked for, and if one of them is        *)
(* missing a new pair is made and both are written, the certificate first. *)
(*                                                                         *)
(* os.WriteFile truncates or creates a file and then fills it, so a file   *)
(* exists before it is whole, and stays torn when the process is killed or *)
(* the disk is full in between.  A file holds the number of the pair it    *)
(* belongs to.  What the page cache loses with the power is not modelled.  *)
(***************************************************************************)
EXTENDS Integers

CONSTANTS
  Nodes,        \* nodes of this process, each with a directory of its own
  MaxPairs      \* bound: pairs made for one node

ASSUME SelfSignedAssumption == MaxPairs \in Nat

VARIABLES
  cert, key,    \* cert.pem and key.pem of each node
  made,         \* pairs made for each node; the last one is in memory
  at            \* where generateSelfSigned is for each node

fileVars == <<cert, key, made, at>>

\* What a file may be apart from holding pair 1, 2, ...
Absent == -1
Torn == 0

Exists(f) == f # Absent
Whole(f) == f > 0

FilesInit ==
  /\ cert = [n \in Nodes |-> Absent]
  /\ key = [n \in Nodes |-> Absent]
  /\ made = [n \in Nodes |-> 0]
  /\ at = [n \in Nodes |-> "idle"]

Goto(n, place) == at' = [at EXCEPT ![n] = place]

\* Both files are there: they are used, whatever they hold.
Reuse(n) ==
  /\ at[n] = "idle" /\ Exists(cert[n]) /\ Exists(key[n])
  /\ Goto(n, "ready")
  /\ UNCHANGED <<cert, key, made>>

\* Mutant: a pair is made whether or not there is one.
GenerateAlways(n) ==
  /\ at[n] = "idle" /\ made[n] < MaxPairs
  /\ made' = [made EXCEPT ![n] = @ + 1]
  /\ Goto(n, "cert")
  /\ UNCHANGED <<cert, key>>

\* Mutant: only the file that is missing is written.
GenerateMissing(n) ==
  /\ at[n] = "idle" /\ made[n] < MaxPairs
  /\ ~(Exists(cert[n]) /\ Exists(key[n]))
  /\ made' = [made EXCEPT ![n] = @ + 1]
  /\ Goto(n, IF Exists(cert[n]) THEN "key" ELSE "cert")
  /\ UNCHANGED <<cert, key>>

\* A file is missing: a new pair is made for both.
Generate(n) ==
  /\ at[n] = "idle" /\ made[n] < MaxPairs
  /\ ~(Exists(cert[n]) /\ Exists(key[n]))
  /\ made' = [made EXCEPT ![n] = @ + 1]
  /\ Goto(n, "cert")
  /\ UNCHANGED <<cert, key>>

OpenCert(n) ==
  /\ at[n] = "cert"
  /\ cert' = [cert EXCEPT ![n] = Torn]
  /\ Goto(n, "certOpen")
  /\ UNCHANGED <<key, made>>

WriteCert(n) ==
  /\ at[n] = "certOpen"
  /\ cert' = [cert EXCEPT ![n] = made[n]]
  /\ Goto(n, "key")
  /\ UNCHANGED <<key, made>>

OpenKey(n) ==
  /\ at[n] = "key"
  /\ key' = [key EXCEPT ![n] = Torn]
  /\ Goto(n, "keyOpen")
  /\ UNCHANGED <<cert, made>>

\* Mutant: the key written is that of another pair.
WriteKeyNext(n) ==
  /\ at[n] = "keyOpen"
  /\ key' = [key EXCEPT ![n] = made[n] + 1]
  /\ Goto(n, "ready")
  /\ UNCHANGED <<cert, made>>

WriteKey(n) ==
  /\ at[n] = "keyOpen"
  /\ key' = [key EXCEPT ![n] = made[n]]
  /\ Goto(n, "ready")
  /\ UNCHANGED <<cert, made>>

\* MkdirAll or a WriteFile returns an error, and leaves what it has done.
Fail(n) ==
  /\ at[n] \in {"cert", "certOpen", "key", "keyOpen"}
  /\ Goto(n, "idle")
  /\ UNCHANGED <<cert, key, made>>

\* The paths of both files are returned to the builder of the runtime.
Return(n) ==
  /\ at[n] = "ready"
  /\ Goto(n, "idle")
  /\ UNCHANGED <<cert, key, made>>

\* The process is killed: the files stay, what was in memory is gone.
Crash ==
  /\ at' = [n \in Nodes |-> "idle"]
  /\ UNCHANGED <<cert, key, made>>

Call(n) == Reuse(n) \/ Generate(n)
Proceed(n) ==
  \/ OpenCert(n) \/ WriteCert(n) \/ OpenKey(n) \/ WriteKey(n)
  \/ Fail(n) \/ Return(n)

FilesNext == Crash \/ \E n \in Nodes : Call(n) \/ Proceed(n)

FilesSpec == FilesInit /\ [][FilesNext]_fileVars

-----------------------------------------------------------------------------
(* Properties.                                                             *)

FilesTypeOK ==
  /\ cert \in [Nodes -> Absent..MaxPairs]
  /\ key \in [Nodes -> Absent..MaxPairs]
  /\ made \in [Nodes -> 0..MaxPairs]
  /\ at \in [Nodes -> {"idle", "cert", "certOpen", "key", "keyOpen", "ready"}]

\* Whatever was killed or failed before, the files that generateSelfSigned
\* returns are a whole certificate and the key that belongs to it; at worst the
\* key was torn while it was written, a certificate never.
PairFits ==
  \A n \in Nodes : at[n] = "ready" => Whole(cert[n]) /\ key[n] \in {Torn, cert[n]}

\* A certificate with a whole key, which clients may have pinned, is never
\* written again, neither by a later runtime nor after a restart.
KeptForGood == [][\A n \in Nodes : Whole(key[n]) => UNCHANGED <<cert[n], key[n]>>]_fileVars
=============================================================================
