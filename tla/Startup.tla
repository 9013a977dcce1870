------------------------------ MODULE Startup -------------------------------
(***************************************************************************)
(* The life of a node on its host: "blockmania init" writes the files of a  *)
(* network, "blockmania run" starts a process, which announces its address  *)
(* and serves until a signal or a log.Fatal ends it, and a peer elsewhere   *)
(* looks the address up and dials.  The operator may start a process while  *)
(* another one of the same node is still there.                             *)
(*                                                                         *)
(* A goroutine is the list of the calls that it still has to make.          *)
(***************************************************************************)
EXTENDS Integers, Sequences

CONSTANTS
    MaxProc,    \* bound: processes that the operator starts for the node
    NodeCount,  \* the nodes of the network
    nodeID,     \* this node
    Registries, \* the registries of the configuration, in order
    Handler     \* bound: HTTP requests that a process has at a time

ASSUME StartupAssumption ==
    /\ MaxProc \in Nat /\ NodeCount \in Nat /\ nodeID \in 1 .. NodeCount
    /\ Registries \in Seq(STRING)

VARIABLES
    dir, keys, nodes, \* networkDir exists; nodes with keys.yaml; nodes with node.yaml
    net,              \* network.yaml: "none", "cut", "full"
    initialising,     \* blockmania init is running
    cfg,              \* cfg[p]: the network.yaml that p has loaded
    todo,             \* todo[p][g]: the calls that goroutine g of p has to make
    funcs, mu,        \* what exitutil of p runs, and the goroutine in Exit
    lock, port, db,   \* the process with the lock file, the pubsub port, the store
    reading,          \* main of the process was in getNotIncluded when it called Fatal
    listening,        \* the processes that accept connections of peers
    serving, calls,   \* those that accept HTTP requests, and the requests they have
    cancelled,        \* those whose context is cancelled
    ended,            \* ended[p]: "no", "exit", "killed"
    records,          \* records[r]: the address that registry r has
    contact, conn     \* the peer: the address it knows, the process it is connected to

files == <<dir, keys, nodes, net, initialising>>
held == <<lock, port, db, reading>>
http == <<serving, calls>>
peer == <<contact, conn>>
vars == <<files, cfg, todo, funcs, mu, held, listening, http, cancelled, ended, records, peer>>

Proc == 1 .. MaxProc
None == 0
G == {"main", "gen", "other"}
R == 1 .. Len(Registries)

\* What runCommand calls until it waits for a signal.
runCalls ==
    <<"LoadConfiguration", "EnsureRuntimeDirs", "TryLock", "pubsub.New", "network.New",
      "Credentials", "broadcast.New", "Listen">>
    \o [r \in R |-> Registries[r]]
    \o <<"rest.Start", "txlistener.New", "AtExit", "signal">>

CancelFirst == <<"pubsub.Close", "cancel", "rest.Shutdown", "wg.Wait", "Unlock">>
cleanup == <<"pubsub.Close", "rest.Shutdown", "wg.Wait", "cancel", "Unlock">>

Init ==
    /\ dir = FALSE /\ keys = 0 /\ nodes = 0 /\ net = "none" /\ initialising = FALSE
    /\ cfg = [p \in Proc |-> "none"]
    /\ todo = [p \in Proc |-> [g \in G |-> <<>>]]
    /\ funcs = [p \in Proc |-> <<"Sync">>] /\ mu = [p \in Proc |-> "free"]
    /\ lock = None /\ port = None /\ db = None /\ reading = None
    /\ listening = {} /\ serving = {} /\ cancelled = {}
    /\ calls = [p \in Proc |-> [h \in Handler |-> "none"]]
    /\ ended = [p \in Proc |-> "no"]
    /\ records = [r \in R |-> None]
    /\ contact = None /\ conn = None

-----------------------------------------------------------------------------
\* blockmania init.

Validate == NodeCount >= 4

\* A directory that exists is refused; the flag -f changes nothing.
CreateUnlessExists == ~dir /\ dir' = TRUE

\* What Generate does before its loop.
Generate == CreateUnlessExists /\ initialising' = TRUE

initCommand ==
    /\ ~initialising
    /\ Validate
    /\ Generate
    /\ UNCHANGED <<keys, nodes, net, cfg, todo, funcs, mu, held, listening, http, cancelled, ended, records, peer>>

\* Each turn of the loop: the directory and the keys of a node, then its configuration.
genKeys ==
    /\ initialising
    /\ keys = nodes /\ nodes < NodeCount
    /\ keys' = keys + 1
    /\ UNCHANGED <<dir, nodes, net, initialising, cfg, todo, funcs, mu, held, listening, http, cancelled, ended, records, peer>>

genNode ==
    /\ initialising
    /\ keys = nodes + 1
    /\ nodes' = nodes + 1
    /\ UNCHANGED <<dir, keys, net, initialising, cfg, todo, funcs, mu, held, listening, http, cancelled, ended, records, peer>>

\* At last network.yaml, which is created and then written.
writeYAML(file) == IF file = "none" THEN "cut" ELSE "full"

genNetwork ==
    /\ initialising
    /\ keys = nodes /\ nodes = NodeCount
    /\ net' = writeYAML(net)
    /\ initialising' = (net' # "full")
    /\ UNCHANGED <<dir, keys, nodes, cfg, todo, funcs, mu, held, listening, http, cancelled, ended, records, peer>>

\* It fails, or is killed.
stopInit ==
    /\ initialising
    /\ initialising' = FALSE
    /\ UNCHANGED <<dir, keys, nodes, net, cfg, todo, funcs, mu, held, listening, http, cancelled, ended, records, peer>>

-----------------------------------------------------------------------------
Calls(p, g, f) == todo[p][g] # <<>> /\ Head(todo[p][g]) = f
Returns(p, g) == todo' = [todo EXCEPT ![p][g] = Tail(@)]
\* main returns 1 and calls Exit; log.Fatal calls Exit.
Exits(p, g) == todo' = [todo EXCEPT ![p][g] = <<"Exit">>]

\* blockmania run.
runCommand(p) ==
    /\ ended[p] = "no" /\ todo[p]["main"] = <<>>
    /\ \A q \in 1 .. p - 1 : todo[q]["main"] # <<>> \/ ended[q] # "no"
    /\ todo' = [todo EXCEPT ![p]["main"] = runCalls]
    /\ UNCHANGED <<files, cfg, funcs, mu, held, listening, http, cancelled, ended, records, peer>>

\* A file that is cut may still be YAML.
LoadConfiguration(p) ==
    /\ Calls(p, "main", "LoadConfiguration")
    /\ \/ /\ net # "none" /\ nodes >= nodeID /\ keys >= nodeID
          /\ cfg' = [cfg EXCEPT ![p] = net]
          /\ Returns(p, "main")
       \/ net # "full" /\ Exits(p, "main") /\ UNCHANGED cfg
    /\ UNCHANGED <<files, funcs, mu, held, listening, http, cancelled, ended, records, peer>>

EnsureRuntimeDirs(p) ==
    /\ Calls(p, "main", "EnsureRuntimeDirs")
    /\ Returns(p, "main") \/ Exits(p, "main")
    /\ UNCHANGED <<files, cfg, funcs, mu, held, listening, http, cancelled, ended, records, peer>>

TryLock(p) ==
    /\ Calls(p, "main", "TryLock")
    /\ IF lock = None THEN lock' = p /\ Returns(p, "main") ELSE Exits(p, "main") /\ UNCHANGED lock
    /\ UNCHANGED <<files, cfg, funcs, mu, port, db, reading, listening, http, cancelled, ended, records, peer>>

\* The port is the process's until it ends: pubsub.Close closes connections only.
Shared == TRUE
Available == port = None

pubsubNew(p) ==
    /\ Calls(p, "main", "pubsub.New")
    /\ IF Available THEN port' = p /\ Returns(p, "main") ELSE Exits(p, "main") /\ UNCHANGED port
    /\ UNCHANGED <<files, cfg, funcs, mu, lock, db, reading, listening, http, cancelled, ended, records, peer>>

\* The ID of the network must be the hash of its seed nodes, with which the file ends; the
\* certificates and keys of the peers may be refused too.
NoCheck(c) == TRUE
HashMatches(c) == c = "full"

networkNew(p) ==
    /\ Calls(p, "main", "network.New")
    /\ (HashMatches(cfg[p]) /\ Returns(p, "main")) \/ Exits(p, "main")
    /\ UNCHANGED <<files, cfg, funcs, mu, held, listening, http, cancelled, ended, records, peer>>

\* The rest of node.Run before broadcast.New: a port that is free, the certificate and the
\* signing key of the node, the size limits.
Credentials(p) ==
    /\ Calls(p, "main", "Credentials")
    /\ Returns(p, "main") \/ Exits(p, "main")
    /\ UNCHANGED <<files, cfg, funcs, mu, held, listening, http, cancelled, ended, records, peer>>

\* broadcast.New opens the store, registers its closing, loads the state (which may find
\* the store damaged and call Fatal, with the lock of the store or without it), and starts
\* goroutines.
NotRegistered(fs) == fs
Registered(fs) == <<"db.Close">> \o fs

broadcastNew(p) ==
    /\ Calls(p, "main", "broadcast.New")
    /\ IF db # None
       THEN Exits(p, "main") /\ UNCHANGED <<db, funcs, reading>>
       ELSE /\ db' = p
            /\ funcs' = [funcs EXCEPT ![p] = Registered(@)]
            /\ \/ /\ todo' = [todo EXCEPT ![p] = [main |-> Tail(@["main"]), gen |-> <<"work">>,
                                                  other |-> <<"work">>]]
                  /\ UNCHANGED reading
               \/ Exits(p, "main") /\ reading' \in {reading, p}
    /\ UNCHANGED <<files, cfg, mu, lock, port, listening, http, cancelled, ended, records, peer>>

\* The port was free before, and may be taken by now.
Listen(p) ==
    /\ Calls(p, "main", "Listen")
    /\ \/ listening' = listening \cup {p} /\ Returns(p, "main") /\ UNCHANGED cancelled
       \/ cancelled' = cancelled \cup {p} /\ Exits(p, "main") /\ UNCHANGED listening
    /\ UNCHANGED <<files, cfg, funcs, mu, held, http, ended, records, peer>>

announceRegistry(p, r) ==
    /\ Calls(p, "main", Registries[r])
    /\ \/ records' = [records EXCEPT ![r] = p] /\ Returns(p, "main")
       \/ Exits(p, "main") /\ UNCHANGED records
    /\ UNCHANGED <<files, cfg, funcs, mu, held, listening, http, cancelled, ended, peer>>

\* ListenAndServe may fail, which is only logged.
restStart(p) ==
    /\ Calls(p, "main", "rest.Start")
    /\ serving' \in {serving, serving \cup {p}}
    /\ Returns(p, "main")
    /\ UNCHANGED <<files, cfg, funcs, mu, held, listening, calls, cancelled, ended, records, peer>>

txlistenerNew(p) ==
    /\ Calls(p, "main", "txlistener.New")
    /\ Returns(p, "main") \/ Exits(p, "main")
    /\ UNCHANGED <<files, cfg, funcs, mu, held, listening, http, cancelled, ended, records, peer>>

AtExit(p) ==
    /\ Calls(p, "main", "AtExit")
    /\ mu[p] = "free"
    /\ funcs' = [funcs EXCEPT ![p] = cleanup \o @]
    /\ Returns(p, "main")
    /\ UNCHANGED <<files, cfg, mu, held, listening, http, cancelled, ended, records, peer>>

\* A signal: the deferred cleanup, and then Exit.
signal(p) ==
    /\ Calls(p, "main", "signal")
    /\ todo' = [todo EXCEPT ![p]["main"] = cleanup \o <<"Exit">>]
    /\ UNCHANGED <<files, cfg, funcs, mu, held, listening, http, cancelled, ended, records, peer>>

-----------------------------------------------------------------------------
\* A request waits in AddTransaction for the next block; one whose transaction never fits
\* waits for ever.
addTransaction(p, h) ==
    /\ p \in serving
    /\ calls[p][h] = "none"
    /\ \E how \in {"wait", "never"} : calls' = [calls EXCEPT ![p][h] = how]
    /\ UNCHANGED <<files, cfg, todo, funcs, mu, held, listening, serving, cancelled, ended, records, peer>>

\* A request with a list waits once for each, also when the server no longer accepts others.
addTransactions(p, h) ==
    /\ p \in serving
    /\ calls[p][h] = "none"
    /\ calls' = [calls EXCEPT ![p][h] = "more"]
    /\ UNCHANGED <<files, cfg, todo, funcs, mu, held, listening, serving, cancelled, ended, records, peer>>

AfterBlock(call) ==
    CASE call = "more" -> "wait"
      [] call = "wait" -> "none"
      [] OTHER -> call

\* genBlocks makes a block, or sees that the context is cancelled.
genBlocks(p) ==
    /\ Calls(p, "gen", "work")
    /\ IF p \in cancelled
       THEN Returns(p, "gen") /\ UNCHANGED calls
       ELSE calls' = [calls EXCEPT ![p] = [h \in Handler |-> AfterBlock(@[h])]] /\ UNCHANGED todo
    /\ UNCHANGED <<files, cfg, funcs, mu, held, listening, serving, cancelled, ended, records, peer>>

\* genBlocks or another goroutine cannot go on.
Fatal(p, g) ==
    /\ Calls(p, g, "work")
    /\ Exits(p, g)
    /\ UNCHANGED <<files, cfg, funcs, mu, held, listening, http, cancelled, ended, records, peer>>

-----------------------------------------------------------------------------
\* The first goroutine in Exit runs the functions; any other one waits for ever.
Exit(p, g) ==
    /\ Calls(p, g, "Exit")
    /\ mu[p] = "free"
    /\ mu' = [mu EXCEPT ![p] = g]
    /\ todo' = [todo EXCEPT ![p][g] = funcs[p] \o <<"os.Exit">>]
    /\ UNCHANGED <<files, cfg, funcs, held, listening, http, cancelled, ended, records, peer>>

\* rest.Shutdown stops accepting requests and waits for those that there are.
restShutdown(p, g) ==
    /\ \/ Calls(p, g, "rest.Shutdown") /\ serving' = serving \ {p}
       \/ /\ Calls(p, g, "wg.Wait")
          /\ \A h \in Handler : calls[p][h] = "none"
          /\ UNCHANGED serving
    /\ Returns(p, g)
    /\ UNCHANGED <<files, cfg, funcs, mu, held, listening, calls, cancelled, ended, records, peer>>

nodeShutdown(p, g) ==
    /\ Calls(p, g, "cancel")
    /\ cancelled' = cancelled \cup {p}
    /\ Returns(p, g)
    /\ UNCHANGED <<files, cfg, funcs, mu, held, listening, http, ended, records, peer>>

Unlock(p, g) ==
    /\ Calls(p, g, "Unlock")
    /\ lock' = IF lock = p THEN None ELSE lock
    /\ Returns(p, g)
    /\ UNCHANGED <<files, cfg, funcs, mu, port, db, reading, listening, http, cancelled, ended, records, peer>>

closeDB(p, g) ==
    /\ Calls(p, g, "db.Close")
    /\ reading # p
    /\ db' = IF db = p THEN None ELSE db
    /\ Returns(p, g)
    /\ UNCHANGED <<files, cfg, funcs, mu, lock, port, reading, listening, http, cancelled, ended, records, peer>>

\* The connections of the feed are closed, the log is synced: nothing that is modelled.
otherFuncs(p, g) ==
    /\ Calls(p, g, "pubsub.Close") \/ Calls(p, g, "Sync")
    /\ Returns(p, g)
    /\ UNCHANGED <<files, cfg, funcs, mu, held, listening, http, cancelled, ended, records, peer>>

\* External: the operating system frees what the process has.
freed(x, p) == IF x = p THEN None ELSE x

Ends(p, how) ==
    /\ ended' = [ended EXCEPT ![p] = how]
    /\ todo' = [todo EXCEPT ![p] = [g \in G |-> <<>>]]
    /\ lock' = freed(lock, p) /\ port' = freed(port, p) /\ db' = freed(db, p)
    /\ reading' = freed(reading, p) /\ conn' = freed(conn, p)
    /\ listening' = listening \ {p} /\ serving' = serving \ {p} /\ cancelled' = cancelled \ {p}
    /\ calls' = [calls EXCEPT ![p] = [h \in Handler |-> "none"]]
    /\ mu' = [mu EXCEPT ![p] = "free"] /\ funcs' = [funcs EXCEPT ![p] = <<>>]
    /\ cfg' = [cfg EXCEPT ![p] = "none"]
    /\ UNCHANGED <<files, records, contact>>

osExit(p, g) == Calls(p, g, "os.Exit") /\ Ends(p, "exit")

\* A crash: kill -9, or a panic.
kill(p) == todo[p]["main"] # <<>> /\ Ends(p, "killed")

-----------------------------------------------------------------------------
\* The peer asks the registries again and again, and keeps the address it got last.
FirstOnly(old, new) == IF old = None THEN new ELSE old
Update(old, new) == new

Lookup == contact

bootstrapRegistries(r) ==
    /\ records[r] # None
    /\ contact' = Update(contact, records[r])
    /\ UNCHANGED <<files, cfg, todo, funcs, mu, held, listening, http, cancelled, ended, records, conn>>

BootstrapRegistries == \E r \in R : bootstrapRegistries(r)

\* It dials, and dials again when that fails or the connection ends.
Dial ==
    /\ conn = None
    /\ Lookup \in listening
    /\ conn' = Lookup
    /\ UNCHANGED <<files, cfg, todo, funcs, mu, held, listening, http, cancelled, ended, records, contact>>

-----------------------------------------------------------------------------
init == initCommand \/ genKeys \/ genNode \/ genNetwork \/ stopInit
start(p) ==
    \/ LoadConfiguration(p) \/ EnsureRuntimeDirs(p) \/ TryLock(p) \/ pubsubNew(p) \/ networkNew(p)
    \/ Credentials(p) \/ broadcastNew(p) \/ Listen(p) \/ (\E r \in R : announceRegistry(p, r)) \/ restStart(p)
    \/ txlistenerNew(p) \/ AtExit(p)
exit(p, g) ==
    \/ Exit(p, g) \/ restShutdown(p, g) \/ nodeShutdown(p, g) \/ Unlock(p, g) \/ closeDB(p, g)
    \/ otherFuncs(p, g) \/ osExit(p, g)

Next ==
    \/ init \/ Dial \/ BootstrapRegistries
    \/ \E p \in Proc :
         \/ runCommand(p) \/ start(p) \/ signal(p) \/ genBlocks(p) \/ kill(p)
         \/ \E h \in Handler : addTransaction(p, h) \/ addTransactions(p, h)
         \/ \E g \in G : exit(p, g)
         \/ \E g \in G \ {"main"} : Fatal(p, g)

Spec == Init /\ [][Next]_vars

\* Goroutines go on, and so do the loops of the peer.
Fairness ==
    /\ \A p \in Proc : WF_vars(start(p)) /\ WF_vars(genBlocks(p)) /\ \A g \in G : WF_vars(exit(p, g))
    /\ WF_vars(Dial) /\ \A r \in R : WF_vars(bootstrapRegistries(r))

FairSpec == Spec /\ Fairness

-----------------------------------------------------------------------------
\* A node opens its store only with the complete configuration of a network, wherever init
\* may have been stopped (Generate writes network.yaml last, and network.New compares the
\* ID with the hash).
RunsOnComplete == db # None => net = "full" /\ keys = NodeCount /\ nodes = NodeCount

\* Two processes of a node never take part at the same time, also not when one is started
\* while the other ends and has let go of its lock file already (runCommand, cleanup).
OneListens == \A p, q \in listening : p = q

\* A process that ends by itself has closed its store, whichever goroutines call Exit and
\* however far the start has come (the function that broadcast.New gives to AtExit).
EndsClean ==
    [][\A p \in Proc : ended[p] = "no" /\ ended'[p] = "exit" => db # p]_vars

\* A process that is to end does end.  Three things can keep it: a transaction that never
\* fits, genBlocks in Exit while a request waits for its next block, and Exit called with
\* the lock of the store (cleanup, rest.Shutdown, Exit and the closing of the store).
Ending(p) == \E g \in G : \E f \in {"Exit", "os.Exit"} :
                todo[p][g] # <<>> /\ todo[p][g][Len(todo[p][g])] = f
Hung(p) ==
    \/ \E h \in Handler : calls[p][h] = "never"
    \/ \E h \in Handler : calls[p][h] \in {"wait", "more"} /\ todo[p]["gen"] # <<>> /\ ~Calls(p, "gen", "work")
    \/ reading = p

ExitTerminates == \A p \in Proc : <>[](~Ending(p) \/ Hung(p))

\* When a process stays up, the peer is connected to it in the end, whatever addresses
\* earlier processes have left in the registries (announceRegistry, bootstrapRegistries,
\* Dial, and the lock file and the port that keep a second process out).
Up(p) == p \in listening /\ Calls(p, "main", "signal")

PeerReached == \A p \in Proc : (<>[]Up(p)) => <>[](conn = p)
=============================================================================
