------------------------------- MODULE SSHPool ------------------------------
(***************************************************************************)
(* The pool of SSH connections (internal/runner/ssh_pool.go): one mutex    *)
(* over a map from host, port and user to a connection, which is let go    *)
(* of while a new connection is dialled.  A connection may break at any    *)
(* time; Get notices when it asks for a keepalive.  A user gives back what *)
(* it got once, by key (ssh_runner.go:305, functions/ssh_functions.go,     *)
(* cloud/ssh.go), or never, when the set-up of its runner fails.           *)
(***************************************************************************)
EXTENDS Integers, FiniteSets

CONSTANTS
  Host, User, Client, NoClient,
  MaxSetupFails  \* bound: set-ups that fail with a connection

ASSUME SSHPoolAssumption ==
  IsFiniteSet(User) /\ NoClient \notin Client /\ MaxSetupFails \in Nat

VARIABLES
  link,         \* each client: "new" (not dialled yet), "up", "broken", "closed"
  connections,  \* the client in the pool for each host, or NoClient
  refCount,     \* its reference count
  idle,         \* it has not been used for idleTimeout
  userAt,       \* where each user is
  host, has,    \* the host it asked for, the client it has
  kept,         \* history: references to it that nobody will give back
  displaced,    \* history: hosts whose connection was replaced while it was used
  shut          \* history: CloseAll was called

poolMap  == <<connections, refCount, idle>>
users    == <<userAt, host, has>>
poolVars == <<link, poolMap, users, kept, displaced, shut>>

PoolTypeOK ==
  /\ link \in [Client -> {"new", "up", "broken", "closed"}]
  /\ connections \in [Host -> Client \cup {NoClient}]
  /\ refCount \in [Host -> Int]
  /\ idle \in [Host -> BOOLEAN]
  /\ userAt \in [User -> {"out", "dialling", "storing", "using"}]
  /\ host \in [User -> Host]
  /\ has \in [User -> Client \cup {NoClient}]
  /\ kept \in [Host -> Nat]
  /\ displaced \subseteq Host /\ shut \in BOOLEAN

PoolInit ==
  /\ link = [c \in Client |-> "new"]
  /\ connections = [h \in Host |-> NoClient]
  /\ refCount = [h \in Host |-> 0]
  /\ idle = [h \in Host |-> FALSE]
  /\ userAt = [u \in User |-> "out"]
  /\ host \in [User -> Host]
  /\ has = [u \in User |-> NoClient]
  /\ kept = [h \in Host |-> 0]
  /\ displaced = {} /\ shut = FALSE

UsersOf(h) == {u \in User : userAt[u] = "using" /\ host[u] = h}

Close(c)     == link' = [link EXCEPT ![c] = "closed"]
Remove(h)    == /\ connections' = [connections EXCEPT ![h] = NoClient]
                /\ refCount' = [refCount EXCEPT ![h] = 0]
                /\ idle' = [idle EXCEPT ![h] = FALSE]
                /\ kept' = [kept EXCEPT ![h] = 0]
Use(u, h, c) == /\ userAt' = [userAt EXCEPT ![u] = "using"]
                /\ host' = [host EXCEPT ![u] = h]
                /\ has' = [has EXCEPT ![u] = c]
Refer(h, n)  == /\ refCount' = [refCount EXCEPT ![h] = n]
                /\ idle' = [idle EXCEPT ![h] = FALSE]
-----------------------------------------------------------------------------
(* Get.                                                                     *)

GetPooled(u, h) ==
  /\ userAt[u] = "out"
  /\ connections[h] # NoClient /\ link[connections[h]] = "up"
  /\ Use(u, h, connections[h]) /\ Refer(h, refCount[h] + 1)
  /\ UNCHANGED <<link, connections, kept, displaced, shut>>

(* The pooled connection is dead: it is closed and removed, whoever uses it.*)
GetDead(u, h) ==
  /\ userAt[u] = "out"
  /\ connections[h] # NoClient /\ link[connections[h]] # "up"
  /\ Close(connections[h]) /\ Remove(h)
  /\ displaced' = IF UsersOf(h) = {} THEN displaced ELSE displaced \cup {h}
  /\ userAt' = [userAt EXCEPT ![u] = "dialling"]
  /\ host' = [host EXCEPT ![u] = h]
  /\ UNCHANGED <<has, shut>>

GetNone(u, h) ==
  /\ userAt[u] = "out"
  /\ connections[h] = NoClient
  /\ userAt' = [userAt EXCEPT ![u] = "dialling"]
  /\ host' = [host EXCEPT ![u] = h]
  /\ UNCHANGED <<link, poolMap, has, kept, displaced, shut>>

(* The dial, retried if the network fails.                                  *)
Dial(u) ==
  /\ userAt[u] = "dialling"
  /\ \E c \in Client :
       /\ link[c] = "new"
       /\ link' = [link EXCEPT ![c] = "up"]
       /\ has' = [has EXCEPT ![u] = c]
  /\ userAt' = [userAt EXCEPT ![u] = "storing"]
  /\ UNCHANGED <<poolMap, host, kept, displaced, shut>>

DialFails(u) ==
  /\ userAt[u] = "dialling"
  /\ userAt' = [userAt EXCEPT ![u] = "out"]
  /\ UNCHANGED <<link, poolMap, host, has, kept, displaced, shut>>

(* Mutant: the new connection is stored whether or not there is one.        *)
StoreOver(u) ==
  /\ userAt[u] = "storing"
  /\ connections' = [connections EXCEPT ![host[u]] = has[u]]
  /\ Use(u, host[u], has[u]) /\ Refer(host[u], 1)
  /\ UNCHANGED <<link, kept, displaced, shut>>

(* Somebody else may have stored a connection meanwhile: it is used, dead   *)
(* or not, and the new one closed.                                          *)
Store(u) ==
  /\ userAt[u] = "storing"
  /\ LET h == host[u]
         existing == connections[h]
     IN IF existing # NoClient
          THEN /\ Close(has[u])
               /\ Use(u, h, existing) /\ Refer(h, refCount[h] + 1)
               /\ UNCHANGED connections
          ELSE /\ connections' = [connections EXCEPT ![h] = has[u]]
               /\ Use(u, h, has[u]) /\ Refer(h, 1)
               /\ UNCHANGED link
  /\ UNCHANGED <<kept, displaced, shut>>
-----------------------------------------------------------------------------
(* Release takes a reference from whatever connection has the key by then.  *)
Release(u) ==
  /\ userAt[u] = "using"
  /\ userAt' = [userAt EXCEPT ![u] = "out"]
  /\ has' = [has EXCEPT ![u] = NoClient]
  /\ IF connections[host[u]] # NoClient
       THEN Refer(host[u], refCount[host[u]] - 1)
       ELSE UNCHANGED <<refCount, idle>>
  /\ UNCHANGED <<link, connections, host, kept, displaced, shut>>

(* Setup fails after Get (the directory on the host), and the executor      *)
(* returns without Cleanup.                                                 *)
SetupFails(u) ==
  /\ userAt[u] = "using"
  /\ kept[host[u]] < MaxSetupFails
  /\ userAt' = [userAt EXCEPT ![u] = "out"]
  /\ has' = [has EXCEPT ![u] = NoClient]
  /\ kept' = IF connections[host[u]] # has[u] THEN kept
             ELSE [kept EXCEPT ![host[u]] = @ + 1]
  /\ UNCHANGED <<link, poolMap, host, displaced, shut>>

(* cleanupIdle, for one connection.                                         *)
CleanupIdle(h) ==
  /\ connections[h] # NoClient /\ refCount[h] = 0 /\ idle[h]
  /\ Close(connections[h]) /\ Remove(h)
  /\ UNCHANGED <<users, displaced, shut>>

CloseAll ==
  /\ link' = [c \in Client |-> IF \E h \in Host : connections[h] = c THEN "closed" ELSE link[c]]
  /\ connections' = [h \in Host |-> NoClient]
  /\ refCount' = [h \in Host |-> 0]
  /\ idle' = [h \in Host |-> FALSE]
  /\ kept' = [h \in Host |-> 0]
  /\ shut' = TRUE
  /\ UNCHANGED <<users, displaced>>

IdleTimeout(h) ==
  /\ connections[h] # NoClient /\ ~ idle[h]
  /\ idle' = [idle EXCEPT ![h] = TRUE]
  /\ UNCHANGED <<link, connections, refCount, users, kept, displaced, shut>>

Break(c) ==
  /\ link[c] = "up"
  /\ link' = [link EXCEPT ![c] = "broken"]
  /\ UNCHANGED <<poolMap, users, kept, displaced, shut>>

PoolNext ==
  \/ \E u \in User, h \in Host : GetPooled(u, h) \/ GetDead(u, h) \/ GetNone(u, h)
  \/ \E u \in User : Dial(u) \/ DialFails(u) \/ Store(u) \/ Release(u) \/ SetupFails(u)
  \/ \E h \in Host : CleanupIdle(h) \/ IdleTimeout(h)
  \/ \E c \in Client : Break(c)
  \/ CloseAll

PoolSpec == PoolInit /\ [][PoolNext]_poolVars
-----------------------------------------------------------------------------
(* A client that was dialled and not closed is in the pool, or with the     *)
(* caller of Get that dialled it: two callers that dial the same host at    *)
(* once leave no connection behind (ssh_pool.go:165-188).                   *)
NoClientLeaks ==
  \A c \in Client : link[c] \in {"up", "broken"} =>
    \/ \E h \in Host : connections[h] = c
    \/ \E u \in User : userAt[u] = "storing" /\ has[u] = c

(* As long as no connection was replaced under its users, nobody's          *)
(* connection is closed by the cleanup: a user's client is the pooled one   *)
(* and the count is the number of its users, and of those that are gone     *)
(* without giving it back (ssh_pool.go:91, :190-198, executor.go:1014).     *)
UsersAreCounted ==
  ~ shut => \A h \in Host \ displaced :
    /\ \A u \in UsersOf(h) : has[u] = connections[h] /\ link[has[u]] # "closed"
    /\ connections[h] # NoClient => refCount[h] = Cardinality(UsersOf(h)) + kept[h]

(* Connections are neither lost nor closed under their users.               *)
PoolIsSound == NoClientLeaks /\ UsersAreCounted
=============================================================================
