------------------------------- MODULE ChatRoom -------------------------------
(***************************************************************************)
(* charming_chatroom/server.c: a main thread that accepts guests into a    *)
(* few slots, one thread per guest that reads a message and writes it to   *)
(* every slot, and SIGINT.  Guests send messages and leave.                *)
(*                                                                         *)
(* A socket is the number of its descriptor, and numbers are reused: the   *)
(* kernel gives out the lowest free one.  A thread closes its guest's      *)
(* socket before it takes the mutex to clear the slot, so for a while the  *)
(* slot holds a number that is closed, or that is another guest's.  In the *)
(* first case write_all_to_socket tries again for ever.  The change may    *)
(* come between the two writes of a message, its size and its bytes: then  *)
(* the other guest gets bytes without a size before them, takes their      *)
(* first four for one, and makes nothing of all that follows.              *)
(*                                                                         *)
(* A message is known by the guest that sends it: each sends at most one.  *)
(***************************************************************************)
EXTENDS Integers, Sequences, SequencesExt, FiniteSetsExt

CONSTANTS MAX_CLIENTS,
          Guest, Fd,      \* client processes; descriptor numbers for them
          Talkers         \* sets of guests that send a message

ASSUME ChatRoomAssumption == /\ MAX_CLIENTS \in Nat \ {0}
                             /\ IsFiniteSet(Guest) /\ IsFiniteSet(Fd)
                             /\ Fd \subseteq Nat
                             /\ Cardinality(Fd) > MAX_CLIENTS
                             /\ Talkers \subseteq SUBSET Guest

Slot == 0..(MAX_CLIENTS - 1)
Free == -1

VARIABLES clients, clientsCount, endSession,
          holder,      \* of mutex: a slot's thread, or Free
          server,      \* main thread: "accept", "join", "exit" or "killed"
          accepted,    \* client_fd, or Free
          thread,      \* per slot: where its process_client is
          next,        \* per slot: the loop index of write_to_clients
          message,     \* per slot: the guest whose message buffer holds, or {}
          socket,      \* per descriptor: the guest at its other end, or {}
          guest,       \* per guest: "out", "waiting", "in" or "left"
          unsent,      \* guests that have a message to send
          heard,       \* per guest: the messages it has received
          sized,       \* per slot: between its thread's two writes, the
                       \* guest at the other end of the first, or {}
          outOfStep    \* guests that were sent bytes without a size

slots    == <<clients, clientsCount, holder>>
chatMain == <<server, accepted, endSession>>
threads  == <<thread, next, message>>
guests   == <<guest, unsent, heard>>
streams  == <<sized, outOfStep>>
chatVars == <<slots, chatMain, threads, socket, guests, streams>>

ChatInit == /\ clients = [s \in Slot |-> Free] /\ clientsCount = 0
            /\ endSession = FALSE
            /\ holder = Free
            /\ server = "accept" /\ accepted = Free
            /\ thread = [s \in Slot |-> "none"]
            /\ next = [s \in Slot |-> 0]
            /\ message = [s \in Slot |-> {}]
            /\ socket = [f \in Fd |-> {}]
            /\ guest = [g \in Guest |-> "out"]
            /\ unsent \in Talkers
            /\ heard = [g \in Guest |-> <<>>]
            /\ sized = [s \in Slot |-> {}] /\ outOfStep = {}

Step(s, from, to) == thread[s] = from /\ thread' = [thread EXCEPT ![s] = to]

\* A killed process takes all of its threads with it.
Running == server # "killed"

-----------------------------------------------------------------------------
\* accept, which does not need the mutex.
Accept == /\ server = "accept"
          /\ \E g \in Guest : LET f == Min({ x \in Fd : socket[x] = {} }) IN
               /\ guest[g] = "waiting"
               /\ guest' = [guest EXCEPT ![g] = "in"]
               /\ socket' = [socket EXCEPT ![f] = {g}]
               /\ accepted' = f
          /\ server' = "join"
          /\ UNCHANGED <<slots, endSession, threads, unsent, heard, streams>>

\* What run_server does after a client has been served or sent away.
Loop == /\ server' = IF endSession THEN "cleanup" ELSE "accept"
        /\ accepted' = Free
        /\ UNCHANGED endSession

\* With the mutex: the first free slot, and a thread for it.
Join == /\ server = "join" /\ holder = Free
        /\ clientsCount < MAX_CLIENTS
        /\ LET s == Min({ t \in Slot : clients[t] = Free }) IN
             /\ clients' = [clients EXCEPT ![s] = accepted]
             /\ thread' = [thread EXCEPT ![s] = "while"]
        /\ clientsCount' = clientsCount + 1
        /\ Loop
        /\ UNCHANGED <<holder, next, message, socket, guests, streams>>

\* With the mutex: the room is full, and the new guest is shut out.
Refuse == /\ server = "join" /\ holder = Free
          /\ clientsCount >= MAX_CLIENTS
          /\ socket' = [socket EXCEPT ![accepted] = {}]
          /\ guest' = [g \in Guest |-> IF g \in socket[accepted] THEN "left"
                                       ELSE guest[g]]
          /\ Loop
          /\ UNCHANGED <<slots, threads, unsent, heard, streams>>

\* SIGINT.  If the main thread handles it in accept, that fails and the process
\* exits at once; if another thread does, accept goes on waiting.
CloseServer == /\ Running /\ server # "exit" /\ ~endSession
               /\ endSession' = TRUE
               /\ \/ server' = "killed"  /\ server = "accept"
                  \/ server' = server
               /\ UNCHANGED <<slots, accepted, threads, socket, guests, streams>>

\* Every socket in a slot is shut down and closed, without the mutex.
Cleanup == /\ server = "cleanup"
           /\ server' = "exit"
           /\ socket' = [f \in Fd |-> IF \E s \in Slot : clients[s] = f THEN {}
                                      ELSE socket[f]]
           /\ UNCHANGED <<slots, accepted, endSession, threads, guests, streams>>

-----------------------------------------------------------------------------
\* The loop of process_client ends when the session does.
StopReading(s) == /\ Running /\ endSession
                  /\ Step(s, "while", "close")
                  /\ UNCHANGED <<slots, chatMain, next, message, socket, guests, streams>>

Read(s) == /\ Running /\ ~endSession
           /\ Step(s, "while", "read")
           /\ UNCHANGED <<slots, chatMain, next, message, socket, guests, streams>>

\* A whole message has come.
Receive(s) == /\ Running /\ Step(s, "read", "lock")
              /\ socket[clients[s]] \cap unsent # {}
              /\ message' = [message EXCEPT ![s] = socket[clients[s]]]
              /\ unsent' = unsent \ socket[clients[s]]
              /\ UNCHANGED <<slots, chatMain, next, socket, guest, heard, streams>>

\* The guest has left, or cleanup has shut the socket down.
EndOfFile(s) == /\ Running /\ Step(s, "read", "close")
                /\ \A g \in socket[clients[s]] : guest[g] = "left" /\ g \notin unsent
                /\ UNCHANGED <<slots, chatMain, next, message, socket, guests, streams>>

\* Fault: write_to_clients does not take the mutex.
LockNot(s) == /\ Running /\ Step(s, "lock", "write")
              /\ UNCHANGED holder
              /\ next' = [next EXCEPT ![s] = 0]
              /\ UNCHANGED <<clients, clientsCount, chatMain, message, socket, guests, streams>>

\* write_to_clients takes the mutex, and keeps it during all of its writes.
Lock(s) == /\ Running /\ Step(s, "lock", "write")
           /\ holder = Free /\ holder' = s
           /\ next' = [next EXCEPT ![s] = 0]
           /\ UNCHANGED <<clients, clientsCount, chatMain, message, socket, guests, streams>>

\* In the loop over the slots; between the two writes its index stands still.
Broadcasting(s) == Running /\ thread[s] \in {"write", "body"} /\ next[s] < MAX_CLIENTS
Writing(s) == thread[s] = "write" /\ Broadcasting(s)

\* Fault: the loop ends at the first free slot.
StopAtFree(s) == /\ Writing(s) /\ clients[next[s]] = Free
                 /\ next' = [next EXCEPT ![s] = MAX_CLIENTS]
                 /\ UNCHANGED <<slots, chatMain, thread, message, socket, guests, streams>>

SkipFree(s) == /\ Writing(s) /\ clients[next[s]] = Free
               /\ next' = [next EXCEPT ![s] = @ + 1]
               /\ UNCHANGED <<slots, chatMain, thread, message, socket, guests, streams>>

\* write_message_size, to whoever is at the other end now.
WriteSize(s) == /\ Writing(s) /\ clients[next[s]] # Free
                /\ socket[clients[next[s]]] # {}
                /\ Step(s, "write", "body")
                /\ sized' = [sized EXCEPT ![s] = socket[clients[next[s]]]]
                /\ UNCHANGED <<slots, chatMain, next, message, socket, guests, outOfStep>>

\* write_all_to_socket, to whoever is at the other end by then.  A guest that
\* has left gets nothing, and one that is out of step cannot read it.
WriteBody(s) ==
  LET to == socket[clients[next[s]]]
      reads(g) == g \in to \cap sized[s] /\ guest[g] = "in" /\ g \notin outOfStep
  IN /\ Broadcasting(s) /\ Step(s, "body", "write")
     /\ clients[next[s]] # Free /\ to # {}
     /\ heard' = [g \in Guest |-> IF reads(g) THEN heard[g] \o SetToSeq(message[s])
                                  ELSE heard[g]]
     /\ outOfStep' = outOfStep \cup (to \ sized[s])
     /\ sized' = [sized EXCEPT ![s] = {}]
     /\ next' = [next EXCEPT ![s] = @ + 1]
     /\ UNCHANGED <<slots, chatMain, message, socket, guest, unsent>>

\* A write to a guest that has left may raise SIGPIPE, which the server neither
\* ignores nor handles.
BrokenPipe(s) == /\ Broadcasting(s) /\ clients[next[s]] # Free
                 /\ \E g \in socket[clients[next[s]]] : guest[g] = "left"
                 /\ server' = "killed"
                 /\ UNCHANGED <<slots, accepted, endSession, threads, socket, guests, streams>>

Unlock(s) == /\ Running /\ next[s] = MAX_CLIENTS
             /\ Step(s, "write", "while")
             /\ holder' = Free
             /\ message' = [message EXCEPT ![s] = {}]
             /\ UNCHANGED <<clients, clientsCount, chatMain, next, socket, guests, streams>>

\* close, before the mutex is taken.
Close(s) == /\ Running /\ Step(s, "close", "clear")
            /\ socket' = [socket EXCEPT ![clients[s]] = {}]
            /\ UNCHANGED <<slots, chatMain, next, message, guests, streams>>

\* Fault: a guest that leaves is still counted.
ClearKeepsCount(s) == /\ Running /\ Step(s, "clear", "none")
                      /\ holder = Free
                      /\ clients' = [clients EXCEPT ![s] = Free]
                      /\ UNCHANGED clientsCount
                      /\ UNCHANGED <<holder, chatMain, next, message, socket, guests, streams>>

Clear(s) == /\ Running /\ Step(s, "clear", "none")
            /\ holder = Free
            /\ clients' = [clients EXCEPT ![s] = Free]
            /\ clientsCount' = clientsCount - 1
            /\ UNCHANGED <<holder, chatMain, next, message, socket, guests, streams>>

ProcessClient(s) == \/ Read(s) \/ StopReading(s) \/ Receive(s) \/ EndOfFile(s)
                    \/ Lock(s) \/ SkipFree(s) \/ WriteSize(s) \/ WriteBody(s)
                    \/ BrokenPipe(s) \/ Unlock(s) \/ Close(s) \/ Clear(s)

-----------------------------------------------------------------------------
\* Guests: connecting, and leaving, with or without having sent everything.
Connect(g) == /\ guest[g] = "out" /\ server \notin {"exit", "killed"}
              /\ guest' = [guest EXCEPT ![g] = "waiting"]
              /\ UNCHANGED <<slots, chatMain, threads, socket, unsent, heard, streams>>

Leave(g) == /\ guest[g] = "in"
            /\ guest' = [guest EXCEPT ![g] = "left"]
            /\ unsent' \in {unsent, unsent \ {g}}
            /\ UNCHANGED <<slots, chatMain, threads, socket, heard, streams>>

RunServer == Accept \/ Join \/ Refuse \/ Cleanup

ChatNext == \/ RunServer \/ CloseServer
            \/ \E s \in Slot : ProcessClient(s)
            \/ \E g \in Guest : Connect(g) \/ Leave(g)

ChatSpec == ChatInit /\ [][ChatNext]_chatVars

ChatFairness == /\ WF_chatVars(RunServer)
                /\ \A s \in Slot : WF_chatVars(ProcessClient(s))

-----------------------------------------------------------------------------
\* No two messages come one way round in p and the other way round in q.
InOrder(p, q) == \A i, j \in DOMAIN p, k, l \in DOMAIN q :
                    i < j /\ k < l /\ p[i] = q[l] /\ p[j] = q[k] => p[i] = p[j]

\* Messages of different guests reach all listeners in the same order, though
\* a thread per guest writes them and slots and numbers change hands.  (A guest
\* whose number stands in two slots is written the same message twice.)
SameOrder == \A g, h \in Guest : InOrder(heard[g], heard[h])

Listener(t) == { g \in socket[clients[t]] : guest[g] = "in" }

\* A broadcast misses nobody.  The guest of every slot that it has passed has got
\* the message, unless the guest has left, its thread has closed its socket, or
\* it is out of step; and between the two writes to a slot, the guest there is
\* the one that got the size, unless its thread has closed its socket: nobody
\* else's stream is put out of step.
NobodyMissed ==
  \A s \in Slot : thread[s] \in {"write", "body"} =>
     /\ \A t \in Slot : t < next[s] /\ clients[t] # Free /\ thread[t] # "clear" =>
           \A g \in Listener(t) \ outOfStep : message[s] \subseteq ToSet(heard[g])
     /\ thread[s] = "body" /\ thread[next[s]] # "clear" =>
           Listener(next[s]) \subseteq sized[s]

\* A write to a slot whose socket is closed: nothing but a new guest with the
\* same number ends it, and the mutex is held meanwhile.
Stuck == \E s \in Slot : /\ Broadcasting(s) /\ clients[next[s]] # Free
                         /\ socket[clients[next[s]]] = {}

\* Unless a broadcast meets a closed socket, or SIGINT or SIGPIPE ends the
\* server, the room comes to rest: nobody waits to be let in, every message has
\* been passed on, and the count is that of the guests that have stayed.
AtRest == /\ server = "accept" /\ holder = Free
          /\ \A g \in Guest : guest[g] # "waiting"
          /\ \A s \in Slot : \/ thread[s] = "none"
                             \/ thread[s] = "read" /\ Listener(s) # {}
          /\ unsent \cap UNION { socket[f] : f \in Fd } = {}
          /\ clientsCount = Cardinality({ s \in Slot : thread[s] = "read" })

ComesToRest == [](~Stuck /\ Running /\ ~endSession) => <>[]AtRest
=============================================================================
