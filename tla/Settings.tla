------------------------------ MODULE Settings ------------------------------
(***************************************************************************)
(* The configuration of the process: the file, the environment that        *)
(* overrides it, the checks of Validate, and what they are for: a worker   *)
(* for each enabled node with tickers that do not panic.  A duration as it *)
(* was written is "unset", "bad" or a number of ticks.                     *)
(***************************************************************************)
EXTENDS Integers, Sequences, SequencesExt

CONSTANTS
  Second,        \* ticks of a time.Duration in a second, 10^9 in the code
  HalfRange      \* a duration lies in -HalfRange .. HalfRange - 1, 2^63 there

ASSUME DurationAssumption ==
  Second \in Nat \ {0} /\ HalfRange \in Nat /\ 60 * Second < HalfRange

\* Arithmetic on time.Duration wraps round.
WrapDuration(x) == ((x + HalfRange) % (2 * HalfRange)) - HalfRange

IsEnabled(node) == node.enabled \in {"unset", "true"}

\* A variable of the environment that is empty leaves the setting alone.
Override(setting, variable) == IF variable = "" THEN setting ELSE variable

\* The token named by token_env counts only if there is no other, the node of
\* the environment only if the file lists none at all.
applyEnvironment(file, env) ==
  LET token == Override(file.token, env.token)
  IN  [url    |-> Override(file.url, env.url),
       token  |-> IF token = "" /\ file.tokenEnv # "" THEN env.named ELSE token,
       nodes  |-> IF env.node # "" /\ file.nodes = <<>>
                    THEN <<[id |-> env.node, enabled |-> "unset"]>> ELSE file.nodes,
       pull   |-> file.pull,
       report |-> file.report]

\* time.ParseDuration of a setting that is left alone when it is empty.
Parsed(raw) == CASE raw.text = "unset" -> 0 [] OTHER -> raw.ticks

\* The loop of Validate over the nodes: whether it has gone on so far, and the
\* ids of the enabled nodes it has seen.
Scanned(nodes) ==
  LET after[n \in 0 .. Len(nodes)] ==
        IF n = 0 THEN [ok |-> TRUE, seen |-> {}]
        ELSE LET was == after[n - 1]
                 id == nodes[n].id
             IN  IF ~IsEnabled(nodes[n]) THEN was
                 ELSE [ok |-> was.ok /\ id # "" /\ id \notin was.seen, seen |-> was.seen \union {id}]
  IN  after[Len(nodes)]

Validate(cfg) ==
  /\ cfg.url \in {"http://panel", "https://panel"}
  /\ cfg.token # ""
  /\ Scanned(cfg.nodes).ok /\ Scanned(cfg.nodes).seen # {}
  /\ Parsed(cfg.pull) >= 0 /\ Parsed(cfg.report) >= 0

Load(file, env) ==
  LET cfg == applyEnvironment(file, env)
  IN  IF "bad" \in {cfg.pull.text, cfg.report.text} \/ ~Validate(cfg)
        THEN [ok |-> FALSE]
        ELSE [ok |-> TRUE, cfg |-> cfg]

\* Mutant: a local setting of zero is taken as it is.
IntervalTakesZero(local, seconds) ==
  IF local >= 0 THEN local ELSE WrapDuration((IF seconds <= 0 THEN 60 ELSE seconds) * Second)

\* The period of a ticker: the local setting, else the panel's, else a minute.
interval(local, seconds) ==
  IF local > 0 THEN local ELSE WrapDuration((IF seconds <= 0 THEN 60 ELSE seconds) * Second)

-----------------------------------------------------------------------------
(* What the rest of the program relies on.                                 *)

\* A number of seconds that does not fit a duration: in 64 bits its ticks are
\* zero or have the sign bit.  The least is HalfRange \div Second rounded up.
Overflows(seconds) ==
  LET bits == (seconds * Second) % (2 * HalfRange) IN seconds > 0 /\ (bits = 0 \/ bits >= HalfRange)

\* time.NewTicker panics unless its period is positive, and a panic ends the
\* process of every node.  Of a configuration that loads, that happens exactly
\* to a ticker without a local setting when the panel's number overflows: no
\* text of the file, no missing, zero or negative number does it, nor any below
\* HalfRange \div Second.
PanicsOnOverflow(file, env, seconds) ==
  LET loaded == Load(file, env)
  IN  loaded.ok =>
        /\ \A local \in {Parsed(loaded.cfg.pull), Parsed(loaded.cfg.report)} :
             interval(local, seconds) <= 0 <=> local = 0 /\ Overflows(seconds)
        /\ seconds * Second < HalfRange => ~Overflows(seconds)
=============================================================================
