------------------------------ MODULE UserStore -----------------------------
(***************************************************************************)
(* The users of the process-wide Store (internal/state) and the admission  *)
(* of connections: every node worker replaces the users of the one Store   *)
(* its nodes share, and the connections of every node are resolved to a    *)
(* user and admitted against that user's device limit.                     *)
(*                                                                         *)
(* The workers and the connections run concurrently; a step is a critical  *)
(* section of secretMu or of a shard.  A user stands for its id and its    *)
(* UUID.  An entry of ips is the time its source was last admitted, here   *)
(* the ticks it is still valid: an expired entry is as good as a deleted   *)
(* one, because Open prunes before it counts and Snapshot skips it.        *)
(***************************************************************************)
EXTENDS Integers, FiniteSets

CONSTANTS
  Nodes,        \* nodes of this process
  Users,
  Sources,      \* client addresses
  NoSource,     \* the empty source: Open does not count it as a device
  Conns,        \* connection attempts
  Lists,        \* user lists of the panel: the DeviceLimit of each listed user
  SecretNodes,  \* nodes whose protocol names a user by UUID (mieru, socks, http, naive)
  TTL           \* ticks an admitted source stays alive (Store.ttl)

ASSUME UserStoreAssumption ==
  /\ IsFiniteSet(Sources)
  /\ NoSource \notin Sources
  /\ \A l \in Lists : DOMAIN l \subseteq Users /\ l \in [DOMAIN l -> Nat]
  /\ SecretNodes \subseteq Nodes
  /\ TTL \in Nat \ {0}

VARIABLES
  bySecret,     \* the users bySecret has an entry for
  known,        \* the users with a userState in their shard
  limit,        \* userState.policy.DeviceLimit; 0 is unlimited
  left,         \* ips: ticks each source of each user stays valid, 0: none
  step,         \* progress of the apply of each node
  list,         \* the list a node gives to ReplaceUsers
  todo,         \* users of that list still to be put into their shard
  served,       \* the users the runtime of a node authenticates
  conn,         \* each connection attempt
  age           \* history: ticks since a connection was admitted, up to TTL

applyVars == <<step, list, todo, served>>
vars == <<bySecret, known, limit, left, applyVars, conn, age>>

Attempt == [phase : {"auth", "resolved", "open", "refused", "closed"},
            node : Nodes, user : Users, source : Sources \cup {NoSource}]

New == [phase |-> "new"]

Init ==
  /\ bySecret = {}
  /\ known = {}
  /\ limit = [u \in Users |-> 0]
  /\ left = [u \in Users |-> [s \in Sources |-> 0]]
  /\ step = [n \in Nodes |-> "idle"]
  /\ list = [n \in Nodes |-> << >>]
  /\ todo = [n \in Nodes |-> {}]
  /\ served = [n \in Nodes |-> {}]
  /\ conn = [c \in Conns |-> New]
  /\ age = [c \in Conns |-> TTL]

Live(u) == {s \in Sources : left[u][s] > 0}

-----------------------------------------------------------------------------
(* ReplaceUsers, called by the apply of a node, and what follows it.       *)

\* Mutant: the secrets of the old list of the node are deleted last.
ReplaceSecretsStale(n, l) ==
  /\ step[n] = "idle"
  /\ step' = [step EXCEPT ![n] = "shards"]
  /\ list' = [list EXCEPT ![n] = l]
  /\ todo' = [todo EXCEPT ![n] = DOMAIN l]
  /\ bySecret' = (bySecret \cup DOMAIN l) \ DOMAIN list[n]
  /\ UNCHANGED <<known, limit, left, served, conn, age>>

\* Mutant: users that are not in the new list are deleted from their shards.
ReplaceSecretsDeletes(n, l) ==
  /\ step[n] = "idle"
  /\ step' = [step EXCEPT ![n] = "shards"]
  /\ list' = [list EXCEPT ![n] = l]
  /\ todo' = [todo EXCEPT ![n] = DOMAIN l]
  /\ bySecret' = DOMAIN l
  /\ known' = known \cap DOMAIN l
  /\ UNCHANGED <<limit, left, served, conn, age>>

\* The new secret map, for all nodes, replaces the old one.
ReplaceSecrets(n, l) ==
  /\ step[n] = "idle"
  /\ step' = [step EXCEPT ![n] = "shards"]
  /\ list' = [list EXCEPT ![n] = l]
  /\ todo' = [todo EXCEPT ![n] = DOMAIN l]
  /\ bySecret' = DOMAIN l
  /\ UNCHANGED <<known, limit, left, served, conn, age>>

\* Mutant: a limit is stored as the number of further devices.
ReplaceUserFurther(n, u) ==
  /\ u \in todo[n]
  /\ todo' = [todo EXCEPT ![n] = @ \ {u}]
  /\ known' = known \cup {u}
  /\ limit' = [limit EXCEPT ![u] = list[n][u] - 1]
  /\ UNCHANGED <<bySecret, left, step, list, served, conn, age>>

\* One user after the other is created or updated under the lock of its shard.
ReplaceUser(n, u) ==
  /\ u \in todo[n]
  /\ todo' = [todo EXCEPT ![n] = @ \ {u}]
  /\ known' = known \cup {u}
  /\ limit' = [limit EXCEPT ![u] = list[n][u]]
  /\ UNCHANGED <<bySecret, left, step, list, served, conn, age>>

\* The runtime is reloaded or rebuilt with the new users.
Serve(n) ==
  /\ step[n] = "shards"
  /\ todo[n] = {}
  /\ step' = [step EXCEPT ![n] = "idle"]
  /\ served' = [served EXCEPT ![n] = DOMAIN list[n]]
  /\ UNCHANGED <<bySecret, known, limit, left, list, todo, conn, age>>

\* Creating the runtime fails, and the old one goes on with the old users; or
\* starting it fails, and the node serves nobody.
ServeFailed(n) ==
  /\ step[n] = "shards"
  /\ todo[n] = {}
  /\ step' = [step EXCEPT ![n] = "idle"]
  /\ \E rest \in {served[n], {}} : served' = [served EXCEPT ![n] = rest]
  /\ UNCHANGED <<bySecret, known, limit, left, list, todo, conn, age>>

-----------------------------------------------------------------------------
(* A connection: the kernel authenticates it, the tracker (or the mieru    *)
(* handler) resolves its user and asks Store.Open.                         *)

Connect(c, n, u, s) ==
  /\ conn[c] = New
  /\ u \in served[n]
  /\ conn' = [conn EXCEPT ![c] = [phase |-> "auth", node |-> n, user |-> u, source |-> s]]
  /\ UNCHANGED <<bySecret, known, limit, left, applyVars, age>>

\* resolveUser: a numeric name is the id; any other is looked up by UserBySecret.
Resolves(n, u) == n \in SecretNodes => u \in bySecret

Resolve(c) ==
  /\ conn[c].phase = "auth"
  /\ conn' = [conn EXCEPT ![c].phase =
                IF Resolves(conn[c].node, conn[c].user) THEN "resolved" ELSE "refused"]
  /\ UNCHANGED <<bySecret, known, limit, left, applyVars, age>>

\* Mutant: one device too many.
AdmitsOneMore(u, s) == s \in Live(u) \/ limit[u] = 0 \/ Cardinality(Live(u)) <= limit[u]

\* A source already alive is admitted again; a new one only below the limit.
Admits(u, s) == s \in Live(u) \/ limit[u] = 0 \/ Cardinality(Live(u)) < limit[u]

\* Open, under the lock of the user's shard.  An admission renews the source.
Open(c) ==
  LET u == conn[c].user
      s == conn[c].source
      admitted == u \in known /\ (s = NoSource \/ Admits(u, s))
  IN  /\ conn[c].phase = "resolved"
      /\ conn' = [conn EXCEPT ![c].phase = IF admitted THEN "open" ELSE "refused"]
      /\ age' = [age EXCEPT ![c] = IF admitted THEN 0 ELSE @]
      /\ IF admitted /\ s # NoSource
           THEN left' = [left EXCEPT ![u][s] = TTL]
           ELSE UNCHANGED left
      /\ UNCHANGED <<bySecret, known, limit, applyVars>>

\* Mutant: Close takes the source off the devices of its user.
CloseConnFrees(c) ==
  /\ conn[c].phase = "open"
  /\ conn' = [conn EXCEPT ![c].phase = "closed"]
  /\ left' = [u \in Users |-> [s \in Sources |->
                IF u = conn[c].user /\ s = conn[c].source THEN 0 ELSE left[u][s]]]
  /\ UNCHANGED <<bySecret, known, limit, applyVars, age>>

\* Close gives nothing back: a source stays a device until it expires.
CloseConn(c) ==
  /\ conn[c].phase = "open"
  /\ conn' = [conn EXCEPT ![c].phase = "closed"]
  /\ UNCHANGED <<bySecret, known, limit, left, applyVars, age>>

\* Time passes: an address expires whether or not its connections are open.
Tick ==
  /\ left' = [u \in Users |-> [s \in Sources |-> IF left[u][s] > 0 THEN left[u][s] - 1 ELSE 0]]
  /\ age' = [c \in Conns |-> IF age[c] < TTL THEN age[c] + 1 ELSE TTL]
  /\ UNCHANGED <<bySecret, known, limit, applyVars, conn>>

-----------------------------------------------------------------------------
ApplyStep(n) ==
  \/ \E l \in Lists : ReplaceSecrets(n, l)
  \/ \E u \in Users : ReplaceUser(n, u)
  \/ Serve(n) \/ ServeFailed(n)

ConnStep(c) ==
  \/ \E n \in Nodes, u \in Users, s \in Sources \cup {NoSource} : Connect(c, n, u, s)
  \/ Resolve(c) \/ Open(c) \/ CloseConn(c)

Next ==
  \/ \E n \in Nodes : ApplyStep(n)
  \/ \E c \in Conns : ConnStep(c)
  \/ Tick

Spec == Init /\ [][Next]_vars

-----------------------------------------------------------------------------
(* Properties.                                                             *)

TypeOK ==
  /\ bySecret \subseteq Users
  /\ known \subseteq Users
  /\ limit \in [Users -> Nat]
  /\ left \in [Users -> [Sources -> 0..TTL]]
  /\ step \in [Nodes -> {"idle", "shards"}]
  /\ list \in [Nodes -> Lists \cup {<< >>}]
  /\ todo \in [Nodes -> SUBSET Users]
  /\ served \in [Nodes -> SUBSET Users]
  /\ conn \in [Conns -> Attempt \cup {New}]
  /\ age \in [Conns -> 0..TTL]

\* ReplaceUsers is not atomic and its callers interleave, yet a user that a
\* runtime authenticates is in its shard: Open refuses it for its devices only.
ServedKnown ==
  /\ \A n \in Nodes : served[n] \subseteq known
  /\ bySecret \subseteq known \cup UNION {todo[n] : n \in Nodes}

\* The addresses from which a user was admitted less than a TTL ago, with a
\* connection that may have been closed since.
RecentOf(u) ==
  {s \in Sources : \E c \in Conns : age[c] < TTL /\ conn[c].user = u /\ conn[c].source = s}

\* An address counts against the limit of its user for a whole TTL after each
\* admission, on whatever node, and whatever opens, closes or changes meanwhile.
RecentSourcesLive == \A u \in Users : RecentOf(u) \subseteq Live(u)

\* Within any TTL a user is admitted from no more addresses, on all nodes of the
\* process together, than some list of the panel allows it: than its limit,
\* where the lists agree about it.
DevicesWithinLimit ==
  \A u \in Users :
    RecentOf(u) # {} =>
      \E l \in Lists : u \in DOMAIN l /\ (l[u] = 0 \/ Cardinality(RecentOf(u)) <= l[u])

\* "device limits are enforced strictly across the nodes of a process": the open
\* connections of a user come from no more addresses than its limit.
OpenOf(u, s) == {c \in Conns : conn[c].phase = "open" /\ conn[c].user = u /\ conn[c].source = s}

StrictDeviceLimit ==
  \A u \in Users :
    limit[u] > 0 => Cardinality({s \in Sources : OpenOf(u, s) # {}}) <= limit[u]


\* The users that the panel lists for every node can be resolved as soon as one
\* is served, while any node applies any list and others come and go.
CommonUsers == {u \in Users : \A l \in Lists : u \in DOMAIN l}

CommonResolve == \A n \in SecretNodes : served[n] \cap CommonUsers \subseteq bySecret
=============================================================================
