------------------------------ MODULE KVStore ------------------------------
(***************************************************************************)
(* What the key-value service of ds/6.824/code/kv/main.go promises to its  *)
(* clients: Get and Put take effect at one instant between their call and  *)
(* their return, and a call that ends in an error took effect once or not  *)
(* at all.                                                                 *)
(***************************************************************************)
CONSTANTS Client, Key, Value

NoCall == [op |-> "none"]
Request == [op : {"get"}, key : Key] \cup [op : {"put"}, key : Key, value : Value]

NoReply == [err |-> "none"]
OK(v) == [err |-> "OK", value |-> v]
Stored == [err |-> "OK"]
ErrNoKey == [err |-> "ErrNoKey"]
Reply == {Stored, ErrNoKey} \cup {OK(v) : v \in Value}

VARIABLES data,    \* the map, from the keys present to their values
          call,    \* the call of each client
          reply,   \* its reply, once it took effect
          alive    \* the clients that have not died of an error

vars == <<data, call, reply, alive>>

TypeOK == /\ DOMAIN data \subseteq Key
          /\ data \in [DOMAIN data -> Value]
          /\ call \in [Client -> Request \cup {NoCall}]
          /\ reply \in [Client -> Reply \cup {NoReply}]
          /\ alive \subseteq Client

Init == /\ data = [k \in {} |-> k]
        /\ call = [c \in Client |-> NoCall]
        /\ reply = [c \in Client |-> NoReply]
        /\ alive = Client

Invoke(c, r) == /\ c \in alive
                /\ call[c] = NoCall
                /\ call' = [call EXCEPT ![c] = r]
                /\ UNCHANGED <<data, reply, alive>>

(* kv.data[key] = value *)
Put(k, v) == data' = [x \in DOMAIN data \cup {k} |-> IF x = k THEN v ELSE data[x]]

Apply(c) ==
  /\ call[c] # NoCall
  /\ reply[c] = NoReply
  /\ \/ /\ call[c].op = "put"
        /\ Put(call[c].key, call[c].value)
        /\ reply' = [reply EXCEPT ![c] = Stored]
     \/ /\ call[c].op = "get"
        /\ reply' = [reply EXCEPT ![c] =
             IF call[c].key \in DOMAIN data THEN OK(data[call[c].key]) ELSE ErrNoKey]
        /\ UNCHANGED data
  /\ UNCHANGED <<call, alive>>

Return(c) == /\ c \in alive
             /\ reply[c] # NoReply
             /\ call' = [call EXCEPT ![c] = NoCall]
             /\ reply' = [reply EXCEPT ![c] = NoReply]
             /\ UNCHANGED <<data, alive>>

Fail(c) == /\ c \in alive
           /\ alive' = alive \ {c}
           /\ UNCHANGED <<data, call, reply>>

Next == \E c \in Client : \/ \E r \in Request : Invoke(c, r)
                          \/ Apply(c) \/ Return(c) \/ Fail(c)

Spec == Init /\ [][Next]_vars
=============================================================================
