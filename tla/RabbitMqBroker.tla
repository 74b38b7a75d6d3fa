--------------------------- MODULE RabbitMqBroker ---------------------------
(***************************************************************************)
(* The main queue, its consumers and its dead-letter queue, as the         *)
(* RabbitMqBroker adapter declares and uses them: a durable quorum queue   *)
(* with manual acknowledgements, one active consumer at a time and no      *)
(* delivery limit.  RabbitMQ itself is external; what is modelled is what  *)
(* the adapter relies on.                                                  *)
(*                                                                         *)
(* Every publication is a copy of its own, because a publication whose     *)
(* confirm is lost is repeated.  A copy is on its way to the broker        *)
(* (transit), ready, or held: delivered on the connection of a worker and  *)
(* not acknowledged.  The order of the queue is left open.                 *)
(***************************************************************************)
EXTENDS JobEnvelope

CONSTANTS Workers,  \* the worker processes
          Copies    \* bound: publications that exist at the same time

ASSUME WorkersAssumption == None \notin Workers /\ None \notin Copies

VARIABLES place, env, holder, \* of each copy: where it is, what it says, who holds it
          conn,               \* the connection of each worker
          activeConsumer,     \* the consumer the broker delivers to
          dead                \* what has been dead-lettered

copyVars   == <<place, env, holder>>
brokerVars == <<place, env, holder, conn, activeConsumer, dead>>

BrokerTypeOK ==
    /\ place \in [Copies -> {"free", "transit", "ready", "held"}]
    /\ env \in [Copies -> Envelopes \cup {None}]
    /\ holder \in [Copies -> Workers \cup {None}]
    /\ conn \in [Workers -> {"closed", "open", "consuming"}]
    /\ activeConsumer \in Workers \cup {None}
    /\ dead \subseteq Envelopes

BrokerInit ==
    /\ place = [c \in Copies |-> "free"]
    /\ env = [c \in Copies |-> None]
    /\ holder = [c \in Copies |-> None]
    /\ conn = [w \in Workers |-> "closed"]
    /\ activeConsumer = None
    /\ dead = {}

(* In the queue, or delivered and unacknowledged: not lost. *)
InFlight(c, e) == place[c] \in {"ready", "held"} /\ env[c] = e

(* sendToQueue writes the message to the socket. *)
Send(c, e) ==
    /\ place[c] = "free"
    /\ place' = [place EXCEPT ![c] = "transit"]
    /\ env' = [env EXCEPT ![c] = e]
    /\ UNCHANGED <<holder, conn, activeConsumer, dead>>

Remove(c) == /\ place' = [place EXCEPT ![c] = "free"]
             /\ env' = [env EXCEPT ![c] = None]
             /\ holder' = [holder EXCEPT ![c] = None]

(* The broker stores the message, or it never does: the message is        *)
(* returned, rejected, or lost with the socket.                           *)
Store(c) == /\ place[c] = "transit"
            /\ place' = [place EXCEPT ![c] = "ready"]
            /\ UNCHANGED <<env, holder, conn, activeConsumer, dead>>
Drop(c)  == /\ place[c] = "transit"
            /\ Remove(c)
            /\ UNCHANGED <<conn, activeConsumer, dead>>

PushTo(w, c) ==
    /\ activeConsumer = w
    /\ place[c] = "ready"
    /\ place' = [place EXCEPT ![c] = "held"]
    /\ holder' = [holder EXCEPT ![c] = w]
    /\ UNCHANGED <<env, conn, activeConsumer, dead>>

(* channel.ack and channel.reject(delivery, false), on an open channel. *)
AckCopy(c)    == Remove(c) /\ UNCHANGED <<conn, activeConsumer, dead>>
RejectCopy(c) == /\ Remove(c)
                 /\ dead' = dead \cup {env[c]}
                 /\ UNCHANGED <<conn, activeConsumer>>

Connect(w) == /\ conn' = [conn EXCEPT ![w] = "open"]
              /\ UNCHANGED <<copyVars, activeConsumer, dead>>

Register(w) == /\ conn' = [conn EXCEPT ![w] = "consuming"]
               /\ UNCHANGED <<copyVars, activeConsumer, dead>>

(* Single active consumer: the next registered consumer takes over once    *)
(* the active one is cancelled or its connection is gone.                  *)
Without(w) == IF activeConsumer = w THEN None ELSE activeConsumer

Activate(w) == /\ activeConsumer = None
               /\ conn[w] = "consuming"
               /\ activeConsumer' = w
               /\ UNCHANGED <<copyVars, conn, dead>>

(* Cancelling stops deliveries; the unacknowledged ones stay held. *)
Cancel(w) == /\ conn' = [conn EXCEPT ![w] = "open"]
             /\ activeConsumer' = Without(w)
             /\ UNCHANGED <<copyVars, dead>>

(* The end of a connection puts what it held back into the queue. *)
Disconnect(w) ==
    /\ conn' = [conn EXCEPT ![w] = "closed"]
    /\ activeConsumer' = Without(w)
    /\ place' = [c \in Copies |-> IF holder[c] = w THEN "ready" ELSE place[c]]
    /\ holder' = [c \in Copies |-> IF holder[c] = w THEN None ELSE holder[c]]
    /\ UNCHANGED <<env, dead>>
=============================================================================
