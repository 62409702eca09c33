------------------------------ MODULE KVServer ------------------------------
(***************************************************************************)
(* The RPC server and clients of ds/6.824/code/kv/main.go. One process     *)
(* runs the server and the client main, which puts and then gets; the      *)
(* others are processes of their own that connect to its port. Each call   *)
(* has its own connection, which the accept loop hands to a goroutine that *)
(* runs the handler under kv.mu.                                           *)
(***************************************************************************)
EXTENDS Naturals

CONSTANTS Client, Key, Value,
          main,        \* the client in the server's own process
          subject,     \* the key that main puts and gets
          written,     \* the value it puts
          MaxCalls     \* how many calls another client makes

ASSUME MainIsClient == main \in Client
ASSUME MainPutsIsTyped == subject \in Key /\ written \in Value
ASSUME MaxCallsNat == MaxCalls \in Nat

VARIABLES server,   \* "down", "up" or "dead"
          mu,       \* kv.mu is locked
          data,     \* kv.data
          pc,       \* where each client is
          calls,    \* how many calls it has completed
          call,     \* what it asked, while it waits
          handler,  \* where the handler of its call is
          reply     \* what the handler has put into the reply

client == <<pc, calls, call>>
serverVars == <<server, mu, data, client, handler, reply>>

NoCall == [op |-> "none"]
GetArgs == [op : {"get"}, key : Key]
PutArgs == [op : {"put"}, key : Key, value : Value]

NoReply == [err |-> "none"]
OK(v) == [err |-> "OK", value |-> v]
Stored == [err |-> "OK"]
ErrNoKey == [err |-> "ErrNoKey"]
Reply == {Stored, ErrNoKey} \cup {OK(v) : v \in Value}

ServerTypeOK == /\ server \in {"down", "up", "dead"}
                /\ mu \in BOOLEAN
                /\ DOMAIN data \subseteq Key
                /\ data \in [DOMAIN data -> Value]
                /\ pc \in [Client -> {"idle", "connected", "waiting", "fatal"}]
                /\ calls \in [Client -> Nat]
                /\ call \in [Client -> GetArgs \cup PutArgs \cup {NoCall}]
                /\ handler \in [Client -> {"none", "backlog", "serve", "lock", "access", "unlock", "sent"}]
                /\ reply \in [Client -> Reply \cup {NoReply}]

ServerInit == /\ server = "down"
              /\ mu = FALSE
              /\ data = [k \in {} |-> k]
              /\ pc = [c \in Client |-> "idle"]
              /\ calls = [c \in Client |-> 0]
              /\ call = [c \in Client |-> NoCall]
              /\ handler = [c \in Client |-> "none"]
              /\ reply = [c \in Client |-> NoReply]

(* server(): Listen, or log.Fatal when the port is taken. main goes on     *)
(* when it has returned.                                                   *)
Listen == /\ server = "down"
          /\ \/ server' = "up" /\ UNCHANGED pc
             \/ server' = "dead" /\ pc' = [pc EXCEPT ![main] = "fatal"]
          /\ UNCHANGED <<mu, data, calls, call, handler, reply>>

(* connect(): without a listener, log.Fatal. The kernel completes the      *)
(* connection; the accept loop may be late.                                *)
Connect(c) ==
  /\ pc[c] = "idle"
  /\ calls[c] < IF c = main THEN 2 ELSE MaxCalls
  /\ c = main => server # "down"
  /\ IF server = "up"
       THEN /\ pc' = [pc EXCEPT ![c] = "connected"]
            /\ handler' = [handler EXCEPT ![c] = "backlog"]
       ELSE /\ pc' = [pc EXCEPT ![c] = "fatal"]
            /\ UNCHANGED handler
  /\ UNCHANGED <<server, mu, data, calls, call, reply>>

(* The accept loop takes a connection and starts ServeConn for it. *)
Accept(c) == /\ server = "up"
             /\ handler[c] = "backlog"
             /\ handler' = [handler EXCEPT ![c] = "serve"]
             /\ UNCHANGED <<server, mu, data, client, reply>>

(* client.Call sends the request; main puts first, then gets. *)
Args(c) == IF c # main THEN GetArgs \cup PutArgs
           ELSE IF calls[c] = 0 THEN {[op |-> "put", key |-> subject, value |-> written]}
           ELSE {[op |-> "get", key |-> subject]}

Call(c, args) == /\ pc[c] = "connected"
                 /\ pc' = [pc EXCEPT ![c] = "waiting"]
                 /\ call' = [call EXCEPT ![c] = args]
                 /\ UNCHANGED <<server, mu, data, calls, handler, reply>>

(* ServeConn reads the request and calls the handler. *)
Serve(c) == /\ handler[c] = "serve"
            /\ call[c] # NoCall
            /\ handler' = [handler EXCEPT ![c] = "lock"]
            /\ UNCHANGED <<server, mu, data, client, reply>>

(* Mutant: the mutex is not taken. *)
Lock_Unguarded(c) == /\ handler[c] = "lock"
                     /\ mu' = TRUE
                     /\ handler' = [handler EXCEPT ![c] = "access"]
                     /\ UNCHANGED <<server, data, client, reply>>

(* kv.mu.Lock(), lines 107 and 122. *)
Lock(c) == /\ handler[c] = "lock"
           /\ ~mu
           /\ mu' = TRUE
           /\ handler' = [handler EXCEPT ![c] = "access"]
           /\ UNCHANGED <<server, data, client, reply>>

(* Mutant: a missing key is answered with an empty value and OK. *)
Get_Empty(c) == /\ handler[c] = "access"
                /\ call[c].op = "get"
                /\ reply' = [reply EXCEPT ![c] =
                     OK(IF call[c].key \in DOMAIN data THEN data[call[c].key] ELSE "")]
                /\ handler' = [handler EXCEPT ![c] = "unlock"]
                /\ UNCHANGED <<server, mu, data, client>>

(* Lines 110-118. *)
Get(c) == /\ handler[c] = "access"
          /\ call[c].op = "get"
          /\ reply' = [reply EXCEPT ![c] =
               IF call[c].key \in DOMAIN data THEN OK(data[call[c].key]) ELSE ErrNoKey]
          /\ handler' = [handler EXCEPT ![c] = "unlock"]
          /\ UNCHANGED <<server, mu, data, client>>

(* Mutant: a key that is there keeps its value. *)
Put_IfAbsent(c) ==
  /\ handler[c] = "access"
  /\ call[c].op = "put"
  /\ data' = [k \in DOMAIN data \cup {call[c].key} |->
                IF k \in DOMAIN data THEN data[k] ELSE call[c].value]
  /\ reply' = [reply EXCEPT ![c] = Stored]
  /\ handler' = [handler EXCEPT ![c] = "unlock"]
  /\ UNCHANGED <<server, mu, client>>

(* Lines 125-127. *)
Put(c) == /\ handler[c] = "access"
          /\ call[c].op = "put"
          /\ data' = [k \in DOMAIN data \cup {call[c].key} |->
                        IF k = call[c].key THEN call[c].value ELSE data[k]]
          /\ reply' = [reply EXCEPT ![c] = Stored]
          /\ handler' = [handler EXCEPT ![c] = "unlock"]
          /\ UNCHANGED <<server, mu, client>>

(* Mutant: a handler whose client has died does not release the mutex.     *)
Unlock_IfAlive(c) == /\ handler[c] = "unlock"
                     /\ pc[c] = "waiting"
                     /\ mu' = FALSE
                     /\ handler' = [handler EXCEPT ![c] = "sent"]
                     /\ UNCHANGED <<server, data, client, reply>>

(* The deferred kv.mu.Unlock(), and the reply goes out. *)
Unlock(c) == /\ handler[c] = "unlock"
             /\ mu' = FALSE
             /\ handler' = [handler EXCEPT ![c] = "sent"]
             /\ UNCHANGED <<server, data, client, reply>>

(* client.Call returns and client.Close() ends the connection. *)
Return(c) == /\ pc[c] = "waiting"
             /\ handler[c] = "sent"
             /\ pc' = [pc EXCEPT ![c] = "idle"]
             /\ calls' = [calls EXCEPT ![c] = @ + 1]
             /\ call' = [call EXCEPT ![c] = NoCall]
             /\ handler' = [handler EXCEPT ![c] = "none"]
             /\ reply' = [reply EXCEPT ![c] = NoReply]
             /\ UNCHANGED <<server, mu, data>>

(* The server's process ends, which loses its handlers; replies on the     *)
(* wire may still arrive.                                                  *)
Down == /\ server' = "dead"
        /\ handler' = [c \in Client |-> IF handler[c] = "sent" THEN "sent" ELSE "none"]

(* client.Call fails and log.Fatal ends the client: its connection broke,  *)
(* or the server died. A handler that runs already is not stopped by it,   *)
(* unless the client is main, whose process is the server's.               *)
Fatal(c) == /\ pc[c] \in {"connected", "waiting"}
            /\ pc' = [pc EXCEPT ![c] = "fatal"]
            /\ IF c = main THEN Down ELSE UNCHANGED <<server, handler>>
            /\ UNCHANGED <<mu, data, calls, call, reply>>

(* main returns after its get. *)
ServerExit == /\ server = "up"
              /\ pc[main] = "idle"
              /\ calls[main] = 2
              /\ Down
              /\ UNCHANGED <<mu, data, client, reply>>

Serving(c) == Accept(c) \/ Serve(c) \/ Get(c) \/ Put(c) \/ Unlock(c)

(* Every client has made its calls or died, and no handler is left. *)
Terminated == /\ server = "dead"
              /\ \A c \in Client : pc[c] \in {"idle", "fatal"}
              /\ UNCHANGED serverVars

ServerNext == \/ Listen \/ ServerExit \/ Terminated
              \/ \E c \in Client :
                   \/ Connect(c) \/ Serving(c) \/ Lock(c) \/ Return(c) \/ Fatal(c)
                   \/ \E args \in Args(c) : Call(c, args)

(* The scheduler runs every goroutine; a sync.Mutex starves none. A reply  *)
(* that was sent arrives, unless the connection breaks, and a call to a    *)
(* dead server fails.                                                      *)
ServerFairness ==
  \A c \in Client : /\ WF_serverVars(Serving(c))
                    /\ SF_serverVars(Lock(c))
                    /\ WF_serverVars(Return(c))
                    /\ WF_serverVars(server = "dead" /\ handler[c] # "sent" /\ Fatal(c))

ServerSpec == ServerInit /\ [][ServerNext]_serverVars /\ ServerFairness

-----------------------------------------------------------------------------
(* No two handlers are at the map at once when one of them writes it: the  *)
(* Go runtime aborts the process when it sees that.                        *)
NoMapRace ==
  \A c, d \in Client :
    c # d /\ handler[c] = "access" /\ handler[d] = "access"
      => call[c].op = "get" /\ call[d].op = "get"

(* The mutex is locked exactly while a handler is between its Lock and its *)
(* deferred Unlock, whatever the reply and whatever became of the client.  *)
MutexHeldInHandler ==
  server = "up" => (mu <=> \E c \in Client : handler[c] \in {"access", "unlock"})

(* The server implements the store: calls take effect at one instant, and  *)
(* at most once even when the client sees an error.                        *)
Abstract == INSTANCE KVStore WITH alive <- {c \in Client : pc[c] # "fatal"}

ImplementsStore == Abstract!Spec

(* A client that waits gets its answer or an error. *)
Answered == \A c \in Client : pc[c] = "waiting" ~> pc[c] # "waiting"
=============================================================================
