------------------------------ MODULE FileServer ------------------------------
(***************************************************************************)
(* nonstop_networking/server.c: one thread, one epoll loop.  An event of a *)
(* client is handled to its end before the next one, but not at once: the  *)
(* server blocks while it reads a request or an upload, and SIGINT may end *)
(* it between any two blocks that it reads and any two of its writes.      *)
(* What happens between two events of a client (its header is read in one, *)
(* the answer written in another) is up to the other clients.              *)
(*                                                                         *)
(* A content is known by the client that uploads it, and by its length in  *)
(* blocks.  Of an open file the length is what fwrite has been given: exit *)
(* flushes it.                                                             *)
(***************************************************************************)
EXTENDS Integers, Sequences, SequencesExt

CONSTANTS Client, Name,
          NULL,
          NameLength,     \* strlen of each name
          Garbage,        \* what an uninitialised size_t may hold
          Word,           \* the first length that an unsigned int cannot hold
          Upper           \* what the four bytes behind an unsigned int may hold

Methods    == {"GET", "PUT", "DELETE", "LIST"}
InfoRecord == [state    : Int,
               method   : Methods \cup {NULL},
               filename : Name \cup {NULL}]
File       == [by : Client, len : Nat]

ASSUME NullAssumption == NULL \notin Client \cup Name \cup Nat \cup File \cup InfoRecord
ASSUME NameLengthAssumption == NameLength \in [Name -> Nat \ {0}]
ASSUME GarbageAssumption == Garbage \subseteq Nat /\ Upper \subseteq Nat
ASSUME WordAssumption == Word \in Nat \ {0}

VARIABLES info,             \* client_dictionary: state, method, filename
          filename_vec,     \* the names LIST shows
          filename_size,    \* the sum of their lengths
          filesize,         \* client_dict_filesize
          files,            \* the temporary directory
          pc,               \* where in run_epoll the server is
          serving,          \* the client whose event is being handled
          existed,          \* isExisted
          spoiled,          \* history: a PUT that failed has removed a file
          pending,          \* clients not yet accepted; their first byte is there
          line,             \* per client: the header line it has sent
          size, sent,       \* per client: announced length and bytes of the body
          closed,           \* per client: nothing more will come
          gone,             \* clients that have died: writes to them may fail
          reply             \* per client: what has been written to it

tables     == <<filename_vec, filename_size, filesize>>
storage    == <<files, existed, spoiled>>
control    == <<pc, serving>>
fromClient == <<line, size, sent, closed, gone>>
serverVars == <<info, tables, storage, control, pending, reply>>

Fresh == [state |-> 0, method |-> NULL, filename |-> NULL]

ServerInit == /\ info = [c \in Client |-> NULL]
              /\ filename_vec = <<>> /\ filename_size = 0
              /\ filesize = [n \in Name |-> NULL]
              /\ files = [n \in Name |-> NULL]
              /\ pc = "epoll" /\ serving = NULL
              /\ existed = FALSE /\ spoiled = FALSE
              /\ pending = {}
              /\ line = [c \in Client |-> NULL]
              /\ size = [c \in Client |-> NULL]
              /\ sent = [c \in Client |-> 0]
              /\ closed = [c \in Client |-> FALSE]
              /\ gone = {}
              /\ reply = [c \in Client |-> NULL]

\* What LIST announces: the names, with a newline between any two of them.
ListLength == IF filename_vec = <<>> THEN 0
              ELSE filename_size + Len(filename_vec) - 1

SetState(c, s) == info' = [info EXCEPT ![c].state = s]

\* The last lines of run_epoll's loop: the client is removed and closed.
Close(c) == info' = [info EXCEPT ![c] = NULL]

Answer(c, r) == reply' = [reply EXCEPT ![c] = r]

-----------------------------------------------------------------------------
Accept(c) == /\ pc = "epoll" /\ c \in pending
             /\ pending' = pending \ {c}
             /\ info' = [info EXCEPT ![c] = Fresh]
             /\ UNCHANGED <<tables, storage, control, reply>>

\* EPOLLIN of a client whose header has not been read yet.
ProcessHeader(c) == /\ pc = "epoll" /\ info[c] # NULL /\ info[c].state = 0
                    /\ pc' = "header" /\ serving' = c
                    /\ UNCHANGED <<info, tables, storage, reply>>

\* The client is gone before the newline, or the method is unknown.
BadRequest(c) == /\ pc = "header" /\ serving = c
                 /\ IF line[c] = NULL THEN closed[c]
                    ELSE line[c].method \notin Methods
                 /\ SetState(c, -1)
                 /\ pc' = "epoll" /\ serving' = NULL
                 /\ UNCHANGED <<tables, storage, reply>>

\* parse_request for everything but PUT: the record is filled, no more.
ParseRequest(c) == /\ pc = "header" /\ serving = c /\ line[c] # NULL
                   /\ line[c].method \in Methods \ {"PUT"}
                   /\ info' = [info EXCEPT ![c] = [state    |-> 1,
                                                   method   |-> line[c].method,
                                                   filename |-> line[c].filename]]
                   /\ pc' = "epoll" /\ serving' = NULL
                   /\ UNCHANGED <<tables, storage, reply>>

\* parse_request for PUT: fopen with "w+" cuts the file before a byte is read.
OpenUpload(c) == /\ pc = "header" /\ serving = c /\ line[c] # NULL
                 /\ line[c].method = "PUT"
                 /\ info' = [info EXCEPT ![c].method = "PUT",
                                         ![c].filename = line[c].filename]
                 /\ existed' = (files[line[c].filename] # NULL)
                 /\ files' = [files EXCEPT ![line[c].filename] = [by |-> c, len |-> 0]]
                 /\ pc' = "body"
                 /\ UNCHANGED <<tables, spoiled, serving, reply>>

\* One block of the body: read, and given to fwrite.
ReadBlock(c) == LET n == info[c].filename IN
                /\ pc = "body" /\ serving = c
                /\ files[n].len < sent[c]
                /\ files' = [files EXCEPT ![n].len = @ + 1]
                /\ UNCHANGED <<info, tables, existed, spoiled, control, reply>>

\* The loop reads on behind file_size, so it ends when the client closes; then
\* fclose.
CloseFile(c) == /\ pc = "body" /\ serving = c
                /\ closed[c] /\ files[info[c].filename].len = sent[c]
                /\ pc' = "closed"
                /\ UNCHANGED <<info, tables, storage, serving, reply>>

\* file_size as the server sees it; a client that closes before it has sent it
\* leaves the variable uninitialised.
FileSize(c) == IF size[c] = NULL THEN Garbage ELSE {size[c]}

Read(c) == pc = "closed" /\ serving = c /\ pc' = "epoll" /\ serving' = NULL

\* Fault: an upload that is too short is kept.
KeepShortUpload(c) == /\ Read(c)
                      /\ \E s \in FileSize(c) : sent[c] # s
                      /\ SetState(c, -2)
                      /\ spoiled' = (spoiled \/ existed)
                      /\ UNCHANGED <<tables, files, existed, reply>>

\* What is recorded of a length is an unsigned int.
Recorded(n, length) == filesize' = [filesize EXCEPT ![n] = length % Word]

\* Fault: the early return is missing, so the upload counts as stored.
RefuseAndGoOn(c) ==
  LET n == info[c].filename IN
  /\ Read(c)
  /\ \E s \in FileSize(c) : sent[c] # s
  /\ SetState(c, 1)
  /\ files' = [files EXCEPT ![n] = NULL]
  /\ filename_vec' = IF existed THEN filename_vec ELSE Append(filename_vec, n)
  /\ filename_size' = IF existed THEN filename_size ELSE filename_size + NameLength[n]
  /\ Recorded(n, sent[c])
  /\ spoiled' = (spoiled \/ existed)
  /\ UNCHANGED <<existed, reply>>

\* The length is not the announced one: the file is removed.  Its name and size
\* stay in the tables if they were there.
RefuseUpload(c) == /\ Read(c)
                   /\ \E s \in FileSize(c) : sent[c] # s
                   /\ SetState(c, -2)
                   /\ files' = [files EXCEPT ![info[c].filename] = NULL]
                   /\ spoiled' = (spoiled \/ existed)
                   /\ UNCHANGED <<tables, existed, reply>>

\* Fault: the size of a name that is already listed is not updated.
StoreWithOldSize(c) ==
  LET n == info[c].filename IN
  /\ Read(c)
  /\ sent[c] \in FileSize(c)
  /\ SetState(c, 1)
  /\ filename_vec' = IF existed THEN filename_vec ELSE Append(filename_vec, n)
  /\ filename_size' = IF existed THEN filename_size ELSE filename_size + NameLength[n]
  /\ IF existed THEN UNCHANGED filesize ELSE Recorded(n, sent[c])
  /\ UNCHANGED <<storage, reply>>

\* Fault: every upload appends its name.
StoreTwice(c) ==
  LET n == info[c].filename IN
  /\ Read(c)
  /\ sent[c] \in FileSize(c)
  /\ SetState(c, 1)
  /\ filename_vec' = Append(filename_vec, n)
  /\ filename_size' = filename_size + NameLength[n]
  /\ Recorded(n, sent[c])
  /\ UNCHANGED <<storage, reply>>

\* Fault: filename_size grows although the name is listed already.
StoreCountsAgain(c) ==
  LET n == info[c].filename IN
  /\ Read(c)
  /\ sent[c] \in FileSize(c)
  /\ SetState(c, 1)
  /\ filename_vec' = IF existed THEN filename_vec ELSE Append(filename_vec, n)
  /\ filename_size' = filename_size + NameLength[n]
  /\ Recorded(n, sent[c])
  /\ UNCHANGED <<storage, reply>>

\* The whole upload has come: list a new name, record the size.  A SIGINT
\* between the two is like one after them, as the name is listed first.
StoreUpload(c) ==
  LET n == info[c].filename IN
  /\ Read(c)
  /\ sent[c] \in FileSize(c)
  /\ SetState(c, 1)
  /\ filename_vec' = IF existed THEN filename_vec ELSE Append(filename_vec, n)
  /\ filename_size' = IF existed THEN filename_size ELSE filename_size + NameLength[n]
  /\ Recorded(n, sent[c])
  /\ UNCHANGED <<storage, reply>>

-----------------------------------------------------------------------------
\* EPOLLOUT of a client whose request has been read: process_method.
Ready(c, method) == /\ pc = "epoll" /\ info[c] # NULL /\ info[c].state = 1
                    /\ info[c].method = method

AnswerPut(c) == /\ Ready(c, "PUT")
                /\ Answer(c, [kind |-> "OK"])
                /\ Close(c)
                /\ UNCHANGED <<tables, storage, control>>

\* The first write of the answer to LIST, or to GET of a name that has a file.
WriteOK(c) == /\ \/ Ready(c, "LIST")
                 \/ Ready(c, "GET") /\ files[info[c].filename] # NULL
              /\ Answer(c, [kind |-> "OK"])
              /\ pc' = "size" /\ serving' = c
              /\ UNCHANGED <<info, tables, storage>>

Answering(c, method) == serving = c /\ info[c].method = method

\* get_filesize of LIST.
WriteListSize(c) == /\ pc = "size" /\ Answering(c, "LIST")
                    /\ Answer(c, [kind |-> "OK", announced |-> ListLength, names |-> <<>>])
                    /\ pc' = "data"
                    /\ UNCHANGED <<info, tables, storage, serving>>

\* get_filesize of GET reads a size_t where an unsigned int has been stored.
WriteFileSize(c) == LET n == info[c].filename IN
                    /\ pc = "size" /\ Answering(c, "GET")
                    /\ \E k \in Upper :
                         Answer(c, [kind |-> "OK", announced |-> filesize[n] + k * Word,
                                    content |-> [by |-> files[n].by, len |-> 0]])
                    /\ pc' = "data"
                    /\ UNCHANGED <<info, tables, storage, serving>>

\* One more name, with the newline that parts it from the one before.
WriteName(c) == LET names == reply[c].names IN
                /\ pc = "data" /\ Answering(c, "LIST")
                /\ Len(names) < Len(filename_vec)
                /\ reply' = [reply EXCEPT ![c].names =
                                Append(names, filename_vec[Len(names) + 1])]
                /\ UNCHANGED <<info, tables, storage, control>>

\* localfile_write goes on to the end of the file or to the announced length.
BlockLeft(c) == /\ pc = "data" /\ Answering(c, "GET")
                /\ reply[c].content.len < reply[c].announced
                /\ reply[c].content.len < files[info[c].filename].len

WriteBlock(c) == /\ BlockLeft(c)
                 /\ reply' = [reply EXCEPT ![c].content.len = @ + 1]
                 /\ UNCHANGED <<info, tables, storage, control>>

\* localfile_write returns -1: the answer goes on as an error.
WriteFails(c) == /\ BlockLeft(c) /\ c \in gone
                 /\ SetState(c, -3)
                 /\ pc' = "epoll" /\ serving' = NULL
                 /\ UNCHANGED <<tables, storage, reply>>

\* Nothing is left to be written.
Answered(c) == /\ pc = "data" /\ serving = c
               /\ ~BlockLeft(c)
               /\ info[c].method = "LIST" => Len(reply[c].names) = Len(filename_vec)
               /\ Close(c)
               /\ pc' = "epoll" /\ serving' = NULL
               /\ UNCHANGED <<tables, storage, reply>>

\* Fault: the state is not set, so the same event comes again and again.
NoSuchFileForgotten(c) == /\ Ready(c, "GET") \/ Ready(c, "DELETE")
                          /\ files[info[c].filename] = NULL
                          /\ UNCHANGED <<info, tables, storage, control, reply>>

\* GET or DELETE of a name that has no file.
NoSuchFile(c) == /\ Ready(c, "GET") \/ Ready(c, "DELETE")
                 /\ files[info[c].filename] = NULL
                 /\ SetState(c, -3)
                 /\ UNCHANGED <<tables, storage, control, reply>>

\* The file goes, then the first entry of its name and its size.  A file whose
\* name is not listed would be reported as missing after it is gone.  A SIGINT
\* in the middle would remove the file as well, and nothing has been written.
AnswerDelete(c) == LET n == info[c].filename IN
  /\ Ready(c, "DELETE")
  /\ files[n] # NULL
  /\ files' = [files EXCEPT ![n] = NULL]
  /\ IF n \in ToSet(filename_vec)
     THEN /\ filename_size' = filename_size - NameLength[n]
          /\ filesize' = [filesize EXCEPT ![n] = NULL]
          /\ filename_vec' = RemoveFirst(filename_vec, n)
          /\ Answer(c, [kind |-> "OK"])
          /\ Close(c)
     ELSE SetState(c, -3) /\ UNCHANGED <<tables, reply>>
  /\ UNCHANGED <<existed, spoiled, control>>

\* Its two writes are one: without the second the client still has its error.
ProcessError(c) == /\ pc = "epoll" /\ info[c] # NULL /\ info[c].state < 0
                   /\ Answer(c, [kind |-> "ERROR", code |-> info[c].state])
                   /\ Close(c)
                   /\ UNCHANGED <<tables, storage, control>>

\* SIGINT, between any two steps, also of one event: clean_up unlinks the listed
\* files, and the server exits.
ServerEnd == /\ pc # "exit"
             /\ pc' = "exit"
             /\ files' = [n \in Name |-> IF n \in ToSet(filename_vec) THEN NULL
                                         ELSE files[n]]
             /\ info' = [c \in Client |-> NULL]
             /\ UNCHANGED <<tables, existed, spoiled, serving, reply, pending>>

\* One event in run_epoll's loop, or the next step of what an event has begun.
Handle(c) == \/ ProcessHeader(c) \/ BadRequest(c) \/ ParseRequest(c)
             \/ OpenUpload(c) \/ ReadBlock(c) \/ CloseFile(c)
             \/ RefuseUpload(c) \/ StoreUpload(c)
             \/ AnswerPut(c) \/ AnswerDelete(c)
             \/ WriteOK(c) \/ WriteListSize(c) \/ WriteFileSize(c)
             \/ WriteName(c) \/ WriteBlock(c) \/ WriteFails(c) \/ Answered(c)
             \/ NoSuchFile(c) \/ ProcessError(c)

RunEpoll(c) == Accept(c) \/ (Handle(c) /\ UNCHANGED pending)

-----------------------------------------------------------------------------
\* The name that an upload under way has cut its file of.
Uploading == IF pc \in {"body", "closed"} THEN {info[serving].filename} ELSE {}
Stored    == { n \in Name \ Uploading : files[n] # NULL }

\* Whatever clients do, every stored file is listed, and with its own length
\* as far as an unsigned int holds it: GET finds the size of its file, DELETE
\* finds the name it takes out.
StoredIsListed ==
  pc # "exit" => \A n \in Stored : /\ n \in ToSet(filename_vec)
                                   /\ filesize[n] = files[n].len % Word

\* Unless a failed PUT has removed a stored file, LIST shows exactly the
\* stored files, each once, though uploads, deletions and failures interleave.
ListExact == pc # "exit" /\ ~spoiled =>
               /\ ToSet(filename_vec) \ Uploading = Stored
               /\ IsInjective(filename_vec)

\* SIGINT leaves no file behind but what has come of the upload it interrupts,
\* a part of it or all: a PUT of a new name, which is not answered.
CleanExit == pc = "exit" =>
               \A n \in Name : files[n] # NULL =>
                  /\ serving # NULL /\ ~existed
                  /\ files[n].by = serving /\ reply[serving] = NULL
=============================================================================
