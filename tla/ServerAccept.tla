------------------------------ MODULE ServerAccept ------------------------------
(***************************************************************************)
(* Server::serve (glaredb/src/server.rs): a loop that awaits the next      *)
(* connection on the Postgres listener and spawns a task that runs        *)
(* handle_connection for it; a handler's error is only logged.  An error  *)
(* from accept() itself leaves the loop through `?`, and serve returns.   *)
(*                                                                         *)
(* Before it, Server::connect bootstraps the server: it creates the temp *)
(* dir, opens the metadata object store, prefixes it with the database   *)
(* name, opens the stable store and builds the engine; any step may fail.*)
(*                                                                         *)
(* Clients connect at any time; the OS may fail an accept (a client that  *)
(* reset, a descriptor limit).  A connection's handler may run for ever  *)
(* (a client that stays connected).                                        *)
(***************************************************************************)
EXTENDS Naturals

CONSTANT Clients   \* clients that may connect (model values)

VARIABLES
  conn,         \* conn[c]: "idle", "pending" (in the listen backlog), "open", "closed"
  serving       \* "connecting", "running" while serve loops, "stopped" once it returned

vars == <<conn, serving>>

TypeOK ==
  /\ conn \in [Clients -> {"idle", "pending", "open", "closed"}]
  /\ serving \in {"connecting", "running", "stopped"}

Init ==
  /\ conn = [c \in Clients |-> "idle"]
  /\ serving = "connecting"

(* The ObjectStoreKind variants of the metadata store's configuration.    *)
StoreKinds == {"LocalTemporary", "Local", "Memory", "Gcs", "S3"}

(***************************************************************************)
(* open_object_store: a temporary store (its temp dir may fail), a local  *)
(* directory (create_dir_all and new_with_prefix may fail), memory (never *)
(* fails), GCS (the builder may fail), or S3, which is always an error.   *)
(***************************************************************************)
OpenObjectStore(kind) ==
  CASE kind = "S3"     -> {FALSE}
    [] kind = "Memory" -> {TRUE}
    [] OTHER           -> BOOLEAN

(***************************************************************************)
(* Server::connect(config) then serve: create_dir_all(temp_dir)?, the     *)
(* object store, PrefixObjectStore over it, ObjectStableStore::open(..)?   *)
(* and Engine::new(..)?.  Success builds the ProtocolHandler and serve    *)
(* starts its loop; an error is returned and nothing is served.           *)
(***************************************************************************)
ServerConnect(kind, ok) ==
  /\ serving = "connecting"
  /\ ok => TRUE \in OpenObjectStore(kind)
  /\ serving' = IF ok THEN "running" ELSE "stopped"
  /\ UNCHANGED conn

(* A client connects: it waits in the listener's backlog.                 *)
Connect(c) ==
  /\ conn[c] = "idle"
  /\ conn' = [conn EXCEPT ![c] = "pending"]
  /\ UNCHANGED serving

(* Mutant: serve awaits handle_connection instead of spawning it, so it  *)
(* accepts only when no connection is open.                               *)
AcceptInline(c) ==
  /\ serving = "running"
  /\ conn[c] = "pending"
  /\ \A d \in Clients : conn[d] # "open"
  /\ conn' = [conn EXCEPT ![c] = "open"]
  /\ UNCHANGED serving

(***************************************************************************)
(* One turn of the loop: accept() returns the client's connection and     *)
(* tokio::spawn starts its handler; the loop goes straight back to accept. *)
(***************************************************************************)
Accept(c) ==
  /\ serving = "running"
  /\ conn[c] = "pending"
  /\ conn' = [conn EXCEPT ![c] = "open"]
  /\ UNCHANGED serving

(* accept() fails: `?` returns the error from serve.                      *)
AcceptError ==
  /\ serving = "running"
  /\ serving' = "stopped"
  /\ UNCHANGED conn

(* handle_connection returns, Ok or Err; either way it is only logged.    *)
HandlerDone(c) ==
  /\ conn[c] = "open"
  /\ conn' = [conn EXCEPT ![c] = "closed"]
  /\ UNCHANGED serving

Next ==
  \/ \E kind \in StoreKinds, ok \in BOOLEAN : ServerConnect(kind, ok)
  \/ AcceptError
  \/ \E c \in Clients : Connect(c) \/ Accept(c) \/ HandlerDone(c)

(* The runtime keeps polling serve's accept and the bootstrap's awaits,  *)
(* each of which returns, Ok or Err; clients, handlers and the OS get no  *)
(* fairness.                                                               *)
Spec ==
  /\ Init /\ [][Next]_vars
  /\ WF_vars(\E kind \in StoreKinds, ok \in BOOLEAN : ServerConnect(kind, ok))
  /\ \A c \in Clients : WF_vars(Accept(c))

(***************************************************************************)
(* Properties                                                              *)
(***************************************************************************)

(* A client that connects is served (its handler is spawned) unless serve *)
(* has returned, however long the connections before it stay open: the    *)
(* handlers are spawned, not awaited, in serve's loop.                    *)
AcceptProgress ==
  \A c \in Clients : conn[c] = "pending" ~> (conn[c] = "open" \/ serving = "stopped")

=============================================================================
