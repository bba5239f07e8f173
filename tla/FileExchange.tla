----------------------------- MODULE FileExchange -----------------------------
(***************************************************************************)
(* nonstop_networking/client.c against FileServer: each client sends one   *)
(* request, closes its writing end and reads the answer.  It may die at    *)
(* any moment, and its local file may turn out shorter than stat said.     *)
(***************************************************************************)
EXTENDS FileServer, FiniteSetsExt

CONSTANT Sessions   \* functions from clients to requests: method, filename,
                    \* size (by stat) and len (what can be read)

\* A LIST has no use for a name, and an unknown method may come with none.
ASSUME SessionsAssumption ==
  \A s \in Sessions : \A c \in Client :
     /\ s[c].size \in Nat /\ s[c].len \in 0..s[c].size
     /\ s[c].filename \in Name \cup {NULL}
     /\ s[c].method \in {"GET", "PUT", "DELETE"} => s[c].filename \in Name

\* A client that reports nothing has neither died nor found its answer wrong.
ASSUME NoReportAssumption ==
  NULL \notin {"done", "too little data", "too much data"}

VARIABLES request,  \* per client: its arguments
          stage,    \* per client: where in main it is
          outcome   \* per client: what it reports in the end

clientVars == <<request, stage, outcome>>
vars       == <<serverVars, fromClient, clientVars>>

Init == /\ ServerInit
        /\ request \in Sessions
        /\ stage = [c \in Client |-> "start"]
        /\ outcome = [c \in Client |-> NULL]

Goto(c, from, to) == stage[c] = from /\ stage' = [stage EXCEPT ![c] = to]

Report(c, o) == outcome' = [outcome EXCEPT ![c] = o]

-----------------------------------------------------------------------------
\* Connecting and the first byte of the request are one step: the network may
\* deliver the rest of the line much later.
ConnectToServer(c) == /\ Goto(c, "start", "request")
                      /\ pc # "exit"
                      /\ pending' = pending \cup {c}
                      /\ UNCHANGED <<info, tables, storage, control, reply,
                                     fromClient, request, outcome>>

SendLine(c) == line' = [line EXCEPT ![c] = [method   |-> request[c].method,
                                            filename |-> request[c].filename]]

\* send_request, and shutdown of the writing end.
SendRequest(c) == /\ Goto(c, "request", "response")
                  /\ request[c].method # "PUT"
                  /\ SendLine(c)
                  /\ closed' = [closed EXCEPT ![c] = TRUE]
                  /\ UNCHANGED <<serverVars, size, sent, gone, request, outcome>>

SendPut(c) == /\ Goto(c, "request", "upload")
              /\ request[c].method = "PUT"
              /\ SendLine(c)
              /\ UNCHANGED <<serverVars, size, sent, closed, gone, request, outcome>>

SendSize(c) == /\ stage[c] = "upload" /\ size[c] = NULL
               /\ size' = [size EXCEPT ![c] = request[c].size]
               /\ UNCHANGED <<serverVars, line, sent, closed, gone, clientVars>>

\* localfile_write, up to the end of the local file.
SendBlock(c) == /\ stage[c] = "upload" /\ size[c] # NULL
                /\ sent[c] < request[c].len
                /\ sent' = [sent EXCEPT ![c] = @ + 1]
                /\ UNCHANGED <<serverVars, line, size, closed, gone, clientVars>>

\* shutdown of the writing end; only that lets the server go on.
Uploaded(c) == /\ Goto(c, "upload", "response")
               /\ size[c] # NULL /\ sent[c] = request[c].len
               /\ closed' = [closed EXCEPT ![c] = TRUE]
               /\ UNCHANGED <<serverVars, line, size, sent, gone, request, outcome>>

\* The bytes of a list of names, with a newline between any two.
ListBytes(names) == FoldLeft(LAMBDA n, name : n + NameLength[name], 0, names)
                    + Max({Len(names) - 1, 0})

\* What handle_get or handle_list will have read behind the length.
Received(r) == IF "names" \in DOMAIN r THEN ListBytes(r.names)
               ELSE IF "content" \in DOMAIN r THEN r.content.len
               ELSE 0

\* The length it has read, which stays uninitialised if none has come.
Announced(r) == IF "announced" \in DOMAIN r THEN {r.announced} ELSE Garbage

Verdict(received, announced) == IF received < announced THEN "too little data"
                                ELSE IF received > announced THEN "too much data"
                                ELSE "done"

\* A client reads to the end of what the server writes: until it closes the
\* connection, or exits.
HandleResponse(c) ==
  /\ Goto(c, "response", "end")
  /\ reply[c] # NULL /\ info[c] = NULL
  /\ IF reply[c].kind = "ERROR" THEN Report(c, "error")
     ELSE IF request[c].method \in {"PUT", "DELETE"} THEN Report(c, "done")
     ELSE \E a \in Announced(reply[c]) : Report(c, Verdict(Received(reply[c]), a))
  /\ UNCHANGED <<serverVars, fromClient, request>>

\* The server has exited: nothing more can be sent, and nothing will come.
ConnectionClosed(c) == /\ pc = "exit" /\ reply[c] = NULL
                       /\ stage[c] # "end"
                       /\ stage' = [stage EXCEPT ![c] = "end"]
                       /\ Report(c, "connection closed")
                       /\ UNCHANGED <<serverVars, fromClient, request>>

\* The client dies, with whatever it has sent until then.
HangUp(c) == /\ stage[c] \notin {"start", "end"}
             /\ stage' = [stage EXCEPT ![c] = "end"]
             /\ closed' = [closed EXCEPT ![c] = TRUE]
             /\ gone' = gone \cup {c}
             /\ UNCHANGED <<serverVars, line, size, sent, request, outcome>>

Main(c) == \/ ConnectToServer(c) \/ SendRequest(c) \/ SendPut(c)
           \/ SendSize(c) \/ SendBlock(c) \/ Uploaded(c)
           \/ HandleResponse(c) \/ ConnectionClosed(c)

Server == (\E c \in Client : RunEpoll(c)) /\ UNCHANGED <<fromClient, clientVars>>

Interrupt == ServerEnd /\ UNCHANGED <<fromClient, clientVars>>

Next == Server \/ Interrupt \/ \E c \in Client : Main(c) \/ HangUp(c)

Spec == Init /\ [][Next]_vars

\* The server handles events as long as there are any; a client carries on
\* until it is answered or dies.
FairSpec == Spec /\ WF_vars(Server) /\ \A c \in Client : WF_vars(Main(c))

-----------------------------------------------------------------------------
\* Types of the tables, the directory and the connections.
TypeOK == /\ info \in [Client -> InfoRecord \cup {NULL}]
          /\ filename_vec \in Seq(Name) /\ filename_size \in Nat
          /\ filesize \in [Name -> 0..(Word - 1) \cup {NULL}]
          /\ files \in [Name -> File \cup {NULL}]
          /\ pc \in {"epoll", "header", "body", "closed", "size", "data", "exit"}
          /\ serving \in Client \cup {NULL}
          /\ existed \in BOOLEAN /\ spoiled \in BOOLEAN
          /\ pending \subseteq Client /\ gone \subseteq Client
          /\ size \in [Client -> Nat \cup {NULL}] /\ sent \in [Client -> Nat]
          /\ closed \in [Client -> BOOLEAN]

\* The server was ended in the middle of its answer to c.
Cut(c) == pc = "exit" /\ serving = c

\* A GET that is told a length no unsigned int can hold: what lies behind the
\* recorded size was taken for a part of it.
Misread(c) == /\ request[c].method = "GET"
              /\ "announced" \in DOMAIN reply[c] /\ reply[c].announced >= Word

\* The number of bytes that LIST and GET announce is the number they send,
\* after any sequence of stored, failed and deleted uploads: no client ever
\* reports too much data, and none too little, unless SIGINT has cut its answer
\* or the recorded size was misread.
NothingMissing ==
  \A c \in Client : /\ outcome[c] # "too much data"
                    /\ outcome[c] = "too little data" => Cut(c) \/ Misread(c)

\* All that a client has uploaded, or nothing of one that has died before it
\* had sent the length.
Whole(f) == \/ size[f.by] # NULL /\ f.len = size[f.by]
            \/ size[f.by] = NULL /\ f.len = 0 /\ f.by \in gone

\* An upload whose length does not fit into the table.
Long(f) == size[f.by] # NULL /\ size[f.by] >= Word

\* A PUT that is answered OK had its whole file stored, and a GET that is
\* content with its answer has the whole upload of one client, never a part or
\* a mixture: unless the upload is so long that its recorded length is wrong,
\* or SIGINT came before the length was written.
AnswersWhole ==
  \A c \in Client : reply[c] # NULL /\ reply[c].kind = "OK" =>
     CASE request[c].method = "PUT" -> Whole([by |-> c, len |-> sent[c]])
       [] request[c].method = "GET" ->
            outcome[c] = "done" => \/ Cut(c) /\ "announced" \notin DOMAIN reply[c]
                                   \/ Whole(reply[c].content)
                                   \/ Long(reply[c].content)
       [] OTHER -> TRUE

\* Every client comes to an end, however many others fail in the middle of
\* their requests and whenever the server is interrupted.
AllAnswered == <>(\A c \in Client : stage[c] = "end")

=============================================================================
