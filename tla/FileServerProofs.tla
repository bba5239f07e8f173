--------------------------- MODULE FileServerProofs ---------------------------
(***************************************************************************)
(* nonstop_networking for any clients, requests and names: what the tables *)
(* of the server say of the temporary directory, what SIGINT leaves there, *)
(* whose bytes an answer stands for, and that it is as long as announced.  *)
(***************************************************************************)
EXTENDS FileExchange, SequenceLemmas

Stages == {"start", "request", "upload", "response", "end"}
PCs    == {"epoll", "header", "body", "closed", "size", "data", "exit"}

\* What has been written of an answer: the OK alone, or the length and a part
\* of what is announced.
OKOnly     == [kind |-> "OK"]
ListAnswer == [kind : {"OK"}, announced : Int, names : Seq(Name)]
GetAnswer  == [kind : {"OK"}, announced : Nat, content : File]

ServerTypes == /\ info \in [Client -> InfoRecord \cup {NULL}]
               /\ filename_vec \in Seq(Name) /\ filename_size \in Int
               /\ filesize \in [Name -> Nat \cup {NULL}]
               /\ files \in [Name -> File \cup {NULL}]
               /\ pc \in PCs /\ serving \in Client \cup {NULL}
               /\ existed \in BOOLEAN /\ spoiled \in BOOLEAN
               /\ DOMAIN reply = Client

ClientTypes == /\ request \in Sessions
               /\ DOMAIN line = Client /\ DOMAIN outcome = Client
               /\ size \in [Client -> Nat \cup {NULL}] /\ sent \in [Client -> Nat]
               /\ closed \in [Client -> BOOLEAN]
               /\ stage \in [Client -> Stages]

\* Of an upload the server has read no more than was sent, and after the client
\* has closed all of it.  It knows whether the name was there before, and until
\* a PUT fails that is what LIST knows.
UploadOK ==
  LET n == info[serving].filename IN
  /\ info[serving].method = "PUT" /\ request[serving].method = "PUT"
  /\ n \in Name /\ files[n] # NULL
  /\ files[n].by = serving /\ files[n].len <= sent[serving]
  /\ pc = "closed" => closed[serving] /\ files[n].len = sent[serving]
  /\ existed => n \in ToSet(filename_vec)
  /\ ~existed /\ ~spoiled => n \notin ToSet(filename_vec)

\* names are the first names of list.
Begins(names, list) == /\ Len(names) <= Len(list)
                       /\ \A i \in 1..Len(names) : names[i] = list[i]

\* What is told of the length of a file is wrong only where an unsigned int is
\* too small, or the bytes behind it are read as well.
Told(announced, length) == /\ length < Word => announced >= length
                           /\ announced < Word => announced <= length

ListSoFar(r) == /\ r \in ListAnswer
                /\ r.announced = ListLength /\ Begins(r.names, filename_vec)

GetSoFar(r, f) == /\ r \in GetAnswer
                  /\ r.content.by = f.by /\ r.content.len <= f.len
                  /\ r.content.len <= r.announced
                  /\ Told(r.announced, f.len)

\* An answer under way is about a file that stays as it is.
AnsweringOK ==
  /\ info[serving].state = 1 /\ info[serving].method \in {"GET", "LIST"}
  /\ info[serving].method = "GET" => /\ info[serving].filename \in Name
                                     /\ files[info[serving].filename] # NULL
  /\ pc = "size" => reply[serving] = OKOnly
  /\ pc = "data" /\ info[serving].method = "LIST" => ListSoFar(reply[serving])
  /\ pc = "data" /\ info[serving].method = "GET" =>
       GetSoFar(reply[serving], files[info[serving].filename])

\* The event that the server is in the middle of.
ServingOK ==
  /\ pc \notin {"epoll", "exit"} => serving \in Client /\ info[serving] \in InfoRecord
  /\ pc \in {"header", "body", "closed"} => info[serving].state = 0
  /\ pc \in {"body", "closed"} => UploadOK
  /\ pc \in {"size", "data"} => AnsweringOK

\* How far a client has come, and what it has sent until then.  A client that
\* has closed its side sends nothing more.
SendingOK ==
  \A c \in Client :
    /\ size[c] = NULL => sent[c] = 0
    /\ closed[c] => stage[c] \in {"response", "end"}
    /\ c \in gone => stage[c] = "end"
    /\ request[c].method = "PUT" /\ closed[c] => size[c] # NULL \/ c \in gone
    /\ line[c] # NULL => /\ line[c].method = request[c].method
                         /\ line[c].filename = request[c].filename

\* A PUT whose upload has been read to the end, and is whole.
PutWhole(c) == closed[c] /\ Whole([by |-> c, len |-> sent[c]])

\* A request that waits for its answer is the one its client has made.
RequestRight(c, r) ==
  r # NULL /\ r.state = 1 => /\ r.method \in Methods
                             /\ r.method = request[c].method
                             /\ r.method # "LIST" => r.filename \in Name
                             /\ r.method = "PUT" => PutWhole(c)

RequestsOK == \A c \in Client : RequestRight(c, info[c])

\* What GET may send.
StoredWhole == pc # "exit" => \A n \in Stored : Whole(files[n])

\* The answer to c is not complete, as the server is still at it or was ended.
Open(c) == serving = c /\ pc \in {"size", "data", "exit"}

\* What a GET has brought is the upload of a client if it is as long as
\* announced, and it is if the answer is complete.
GetRight(c, r) ==
  /\ r.content.len <= r.announced
  /\ r.content.len = r.announced => Whole(r.content) \/ Long(r.content)
  /\ r.content.len = r.announced \/ r.announced >= Word \/ c \in gone \/ Open(c)

\* AnswersWhole, of one answer.
AnswerRight(c, r) ==
  r.kind # "ERROR" =>
     /\ request[c].method \in Methods
     /\ request[c].method = "PUT" => PutWhole(c)
     /\ request[c].method = "LIST" => \/ r = OKOnly /\ Open(c)
                                      \/ r \in ListAnswer
     /\ request[c].method = "GET" => \/ r = OKOnly /\ Open(c)
                                     \/ r \in GetAnswer /\ GetRight(c, r)

AnswersRight == \A c \in Client : reply[c] # NULL => AnswerRight(c, reply[c])

\* What a client reports of its answer.
Reports == {"done", "too little data", "too much data"}

\* A client is answered after it was accepted and its header was read, and it
\* reports its answer when the server has done with it.
RepliesOK ==
  \A c \in Client :
    /\ c \in pending => stage[c] # "start"
    /\ stage[c] = "start" \/ c \in pending => info[c] = NULL /\ reply[c] = NULL
    /\ info[c] # NULL /\ info[c].state = 0 => reply[c] = NULL
    /\ outcome[c] \in Reports => info[c] = NULL /\ reply[c] # NULL /\ stage[c] = "end"

IInv == /\ ServerTypes /\ ClientTypes /\ ServingOK /\ SendingOK /\ RequestsOK
        /\ StoredWhole /\ AnswersRight /\ RepliesOK
        /\ StoredIsListed /\ ListExact /\ CleanExit

-----------------------------------------------------------------------------
\* The lengths of the names in a list.
Lengths(names) == [i \in 1..Len(names) |-> NameLength[names[i]]]

\* The newlines between the names of a list.
Newlines(names) == IF names = <<>> THEN 0 ELSE Len(names) - 1

\* The lengths that LIST adds up.
LEMMA LengthsAre ==
  ASSUME NEW names \in Seq(Name)
  PROVE  /\ IsFiniteSet(1..Len(names)) /\ Len(names) \in Nat /\ DOMAIN names = 1..Len(names)
         /\ \A i \in 1..Len(names) : /\ Lengths(names)[i] = NameLength[names[i]]
                                     /\ Lengths(names)[i] \in Int
<1>1. Len(names) \in Nat /\ DOMAIN names = 1..Len(names)
  OBVIOUS
<1>2. \A i \in 1..Len(names) : names[i] \in Name
  OBVIOUS
<1>3. \A i \in 1..Len(names) : NameLength[names[i]] \in Int
  BY <1>2, NameLengthAssumption
<1>. QED
  BY <1>1, <1>3, FS_Interval DEF Lengths

\* What LIST sends has as many bytes as its names, in any order, and newlines.
LEMMA ListBytesAdds ==
  ASSUME NEW names \in Seq(Name)
  PROVE  \E g : /\ Adds(g, Lengths(names), 1..Len(names))
                /\ ListBytes(names) = g[1..Len(names)] + Newlines(names)
<1>. DEFINE S    == 1..Len(names)
            E(g) == g = [s \in SUBSET DOMAIN names |-> IF s = {} THEN 0
                                       ELSE g[s \ {Max(s)}] + NameLength[names[Max(s)]]]
            g    == CHOOSE g : E(g)
<1>0. /\ IsFiniteSet(S) /\ Len(names) \in Nat /\ DOMAIN names = S
      /\ \A i \in S : Lengths(names)[i] = NameLength[names[i]] /\ Lengths(names)[i] \in Int
  BY LengthsAre
<1>1. PICK F \in [S -> [Int -> Int]] :
         \A x \in S : \A y \in Int : F[x][y] = y + Lengths(names)[x]
  <2>. DEFINE H == [x \in S |-> [y \in Int |-> y + Lengths(names)[x]]]
  <2>1. H \in [S -> [Int -> Int]] /\ \A x \in S : \A y \in Int : H[x][y] = y + Lengths(names)[x]
    BY <1>0
  <2>. QED
    BY <2>1
<1>2. PICK ch : \A s \in SUBSET S : ch[s] = Max(s)
  <2>1. \A s \in SUBSET S : [t \in SUBSET S |-> Max(t)][s] = Max(s)
    OBVIOUS
  <2>. QED
    BY <2>1
<1>3. \A s \in SUBSET S : s # {} => Max(s) \in s
  BY <1>0, MaxOfIndices
<1>4. Chooses(ch, S)
  BY <1>2, <1>3 DEF Chooses
<1>. HIDE DEF S
<1>5. PICK h \in [SUBSET S -> Int] : FoldsBy(h, F, ch, S)
  BY <1>0, <1>4, FoldExists
<1>6. \A s \in SUBSET S : s # {} =>
         F[ch[s]][h[s \ {ch[s]}]] = h[s \ {Max(s)}] + NameLength[names[Max(s)]]
  <2>. TAKE s \in SUBSET S
  <2>. HAVE s # {}
  <2>1. Max(s) \in S /\ ch[s] = Max(s) /\ h[s \ {Max(s)}] \in Int
    <3>1. Max(s) \in s /\ s \ {Max(s)} \in SUBSET S
      BY <1>3
    <3>. QED
      BY <1>2, <1>5, <3>1
  <2>2. F[ch[s]][h[s \ {ch[s]}]] = h[s \ {ch[s]}] + Lengths(names)[ch[s]]
    BY ONLY <1>1, <2>1
  <2>3. Lengths(names)[Max(s)] = NameLength[names[Max(s)]]
    BY <1>0, <2>1
  <2>. QED
    BY ONLY <2>1, <2>2, <2>3
<1>7. E(h)
  <2>1. DOMAIN names = S /\ h = [s \in SUBSET S |-> h[s]]
    BY <1>0, <1>5
  <2>2. ASSUME NEW s \in SUBSET S
        PROVE  h[s] = IF s = {} THEN 0 ELSE h[s \ {Max(s)}] + NameLength[names[Max(s)]]
    <3>1. h[s] = IF s = {} THEN 0 ELSE F[ch[s]][h[s \ {ch[s]}]]
      BY <1>5 DEF FoldsBy
    <3>. QED
      BY ONLY <1>6, <2>2, <3>1
  <2>. QED
    BY ONLY <2>1, <2>2
<1>. HIDE DEF E
<1>8. E(g)
  BY <1>7
<1>9. FoldLeft(LAMBDA n, name : n + NameLength[name], 0, names) = g[DOMAIN names]
  BY DEF FoldLeft, MapThenFoldSet, E
<1>10. Max({Len(names) - 1, 0}) = Newlines(names)
  <2>1. names # <<>> => Len(names) > 0
    BY <1>0
  <2>2. \E x \in {Len(names) - 1, 0} : \A y \in {Len(names) - 1, 0} : x >= y
    BY <1>0
  <2>3. Max({Len(names) - 1, 0}) \in {Len(names) - 1, 0} /\
        \A y \in {Len(names) - 1, 0} : Max({Len(names) - 1, 0}) >= y
    BY <2>2 DEF Max
  <2>4. names = <<>> => Len(names) = 0
    OBVIOUS
  <2>. QED
    BY <1>0, <2>1, <2>3, <2>4 DEF Newlines
<1>11. ListBytes(names) = g[S] + Newlines(names)
  BY <1>0, <1>9, <1>10 DEF ListBytes
<1>. HIDE DEF g
<1>12. \A s \in SUBSET S : g[s] = h[s]
  <2>. DEFINE T == { s \in SUBSET S : g[s] # h[s] }
  <2>2. SUFFICES ASSUME T # {}  PROVE FALSE
    OBVIOUS
  <2>3. PICK t \in T : \A u \in SUBSET t : u # t => u \notin T
    <3>1. T \in SUBSET SUBSET S
      OBVIOUS
    <3>. HIDE DEF T
    <3>. QED
      BY <1>0, <2>2, <3>1, MinimalSet
  <2>4. t \in SUBSET S /\ g[t] # h[t] /\ \A u \in SUBSET t : u # t => g[u] = h[u]
    BY <2>3
  <2>5. g[t] = IF t = {} THEN 0 ELSE g[t \ {Max(t)}] + NameLength[names[Max(t)]]
    BY <1>0, <1>8, <2>4 DEF E
  <2>6. h[t] = IF t = {} THEN 0 ELSE h[t \ {Max(t)}] + NameLength[names[Max(t)]]
    BY <1>0, <1>7, <2>4 DEF E
  <2>. QED
    BY <1>3, <2>4, <2>5, <2>6
<1>13. Adds(h, Lengths(names), S)
  <2>. SUFFICES ASSUME NEW s \in SUBSET S
       PROVE IF s = {} THEN h[s] = 0 ELSE \E x \in s : h[s] = Lengths(names)[x] + h[s \ {x}]
    BY DEF Adds
  <2>1. h[s] = IF s = {} THEN 0 ELSE F[ch[s]][h[s \ {ch[s]}]]
    BY <1>5 DEF FoldsBy
  <2>2. CASE s # {}
    <3>1. Max(s) \in s /\ Max(s) \in S /\ h[s \ {Max(s)}] \in Int /\ ch[s] = Max(s)
      BY <1>2, <1>3, <1>5, <2>2
    <3>2. h[s] = h[s \ {Max(s)}] + NameLength[names[Max(s)]]
      BY <1>6, <2>1, <2>2
    <3>3. /\ Lengths(names)[Max(s)] = NameLength[names[Max(s)]]
          /\ Lengths(names)[Max(s)] \in Int
      BY <1>0, <3>1
    <3>4. h[s] = Lengths(names)[Max(s)] + h[s \ {Max(s)}]
      <4>1. \A a, b \in Int : a + b = b + a
        OBVIOUS
      <4>. QED
        BY <3>1, <3>2, <3>3, <4>1, Zenon
    <3>. QED
      BY <2>2, <3>1, <3>4
  <2>. QED
    BY <2>1, <2>2
<1>. QED
  BY <1>11, <1>12, <1>13 DEF S

\* A list that has no name has no bytes; a name more at its end adds its length
\* and, behind others, a newline.
LEMMA ListBytesEmpty == ListBytes(<<>>) = 0
<1>1. <<>> \in Seq(Name)
  OBVIOUS
<1>2. PICK g : /\ Adds(g, Lengths(<<>>), 1..Len(<<>>))
               /\ ListBytes(<<>>) = g[1..Len(<<>>)] + Newlines(<<>>)
  BY <1>1, ListBytesAdds
<1>3. 1..Len(<<>>) = {}
  OBVIOUS
<1>. QED
  BY <1>2, <1>3 DEF Adds, Newlines

\* A name more, as process_method lists one.
LEMMA ListBytesAppend ==
  ASSUME NEW names \in Seq(Name), NEW n \in Name
  PROVE  ListBytes(Append(names, n)) - Newlines(Append(names, n))
            = ListBytes(names) - Newlines(names) + NameLength[n]
<1>. DEFINE more == Append(names, n)
            k    == Len(names)
<1>1. /\ more \in Seq(Name) /\ Len(more) = k + 1 /\ k \in Nat
      /\ more[k + 1] = n /\ \A i \in 1..k : more[i] = names[i]
  OBVIOUS
<1>. HIDE DEF more
<1>2. PICK g : /\ Adds(g, Lengths(names), 1..k)
               /\ ListBytes(names) = g[1..k] + Newlines(names)
  BY ListBytesAdds
<1>3. PICK h : /\ Adds(h, Lengths(more), 1..(k + 1))
               /\ ListBytes(more) = h[1..(k + 1)] + Newlines(more)
  BY <1>1, ListBytesAdds
<1>4. /\ IsFiniteSet(1..k) /\ \A i \in 1..k : Lengths(names)[i] \in Int
      /\ IsFiniteSet(1..(k + 1)) /\ \A i \in 1..(k + 1) : Lengths(more)[i] \in Int
      /\ \A i \in 1..k : Lengths(names)[i] = NameLength[names[i]]
      /\ \A i \in 1..(k + 1) : Lengths(more)[i] = NameLength[more[i]]
  BY <1>1, LengthsAre
<1>5. /\ 1..k \subseteq 1..(k + 1) /\ (1..(k + 1)) \ {k + 1} = 1..k /\ k + 1 \in 1..(k + 1)
  BY <1>1
<1>6. \A i \in 1..k : Lengths(names)[i] = Lengths(more)[i]
  BY <1>1, <1>4, <1>5
<1>7. g[1..k] = h[1..k]
  BY <1>2, <1>3, <1>4, <1>5, <1>6, AddsSame
<1>8. g[1..k] \in Int
  BY <1>2, <1>4, AddsAnyOrder
<1>9. h[1..(k + 1)] = NameLength[n] + h[1..k]
  <2>1. h[1..(k + 1)] = Lengths(more)[k + 1] + h[1..k]
    <3>1. (k + 1) - 1 = k /\ k + 1 \in Nat
      BY <1>1
    <3>. QED
      BY <1>3, <1>4, <1>5, <3>1, AddsUpTo
  <2>. QED
    BY <1>1, <1>4, <1>5, <2>1
<1>10. Newlines(names) \in Int /\ Newlines(more) \in Int /\ NameLength[n] \in Int
  BY <1>1, NameLengthAssumption DEF Newlines
<1>11. ListBytes(more) - Newlines(more) = ListBytes(names) - Newlines(names) + NameLength[n]
  BY <1>2, <1>3, <1>7, <1>8, <1>9, <1>10
<1>. QED
  BY <1>11 DEF more

\* A name less, wherever it is taken out.
LEMMA ListBytesRemove ==
  ASSUME NEW names \in Seq(Name), NEW n \in ToSet(names)
  PROVE  ListBytes(RemoveFirst(names, n)) - Newlines(RemoveFirst(names, n))
            = ListBytes(names) - Newlines(names) - NameLength[n]
<1>. DEFINE less == RemoveFirst(names, n)
            k    == Len(names)
<1>0. PICK i \in 1..k : names[i] = n /\ less \in Seq(Name) /\ ClosedAt(less, names, i)
  BY RemoveFirstIs
<1>1. /\ names[i] = n /\ less \in Seq(Name) /\ Len(less) = k - 1
      /\ \A m \in 1..(k - 1) : less[m] = IF m < i THEN names[m] ELSE names[m + 1]
  BY <1>0 DEF ClosedAt
<1>. HIDE DEF less
<1>2. PICK g : /\ Adds(g, Lengths(names), 1..k)
               /\ ListBytes(names) = g[1..k] + Newlines(names)
  BY ListBytesAdds
<1>3. PICK h : /\ Adds(h, Lengths(less), 1..(k - 1))
               /\ ListBytes(less) = h[1..(k - 1)] + Newlines(less)
  BY <1>1, ListBytesAdds
<1>4. /\ IsFiniteSet(1..k) /\ \A m \in 1..k : Lengths(names)[m] \in Int
      /\ IsFiniteSet(1..(k - 1)) /\ \A m \in 1..(k - 1) : Lengths(less)[m] \in Int
      /\ \A m \in 1..k : Lengths(names)[m] = NameLength[names[m]]
      /\ \A m \in 1..(k - 1) : Lengths(less)[m] = NameLength[less[m]]
      /\ k \in Nat
  BY <1>1, LengthsAre
<1>. DEFINE Good(m) == h[1..(m - 1)] = g[1..m] - NameLength[n]
            T       == { m \in i..k : ~Good(m) }
<1>5. ASSUME NEW m \in 1..k
      PROVE  /\ g[1..m] = NameLength[names[m]] + g[1..(m - 1)]
             /\ g[1..m] \in Int /\ g[1..(m - 1)] \in Int /\ NameLength[names[m]] \in Int
  <2>1. /\ g[1..m] = Lengths(names)[m] + g[1..(m - 1)]
        /\ g[1..m] \in Int /\ g[1..(m - 1)] \in Int
    BY <1>2, <1>4, AddsUpTo
  <2>. QED
    BY <1>4, <2>1
<1>6. ASSUME NEW m \in 1..(k - 1)
      PROVE  h[1..m] = NameLength[less[m]] + h[1..(m - 1)]
  <2>1. h[1..m] = Lengths(less)[m] + h[1..(m - 1)]
    <3>1. k - 1 \in Nat
      BY <1>4
    <3>. QED
      BY <1>3, <1>4, <3>1, AddsUpTo
  <2>. QED
    BY <1>4, <2>1
<1>8. NameLength[n] \in Int
  BY <1>1, <1>4
<1>9. Good(i)
  <2>1. g[1..i] = NameLength[n] + g[1..(i - 1)] /\ g[1..(i - 1)] \in Int
    BY <1>1, <1>5
  <2>2. \A m \in 1..(i - 1) : Lengths(less)[m] = Lengths(names)[m]
    <3>. TAKE m \in 1..(i - 1)
    <3>1. m \in 1..(k - 1) /\ m \in 1..k /\ m < i
      BY <1>4
    <3>2. less[m] = names[m]
      BY <1>1, <3>1
    <3>3. Lengths(names)[m] = NameLength[names[m]] /\ Lengths(less)[m] = NameLength[less[m]]
      BY <1>4, <3>1
    <3>. QED
      BY ONLY <3>2, <3>3
  <2>3. PICK l, j : l = i - 1 /\ j = k - 1
    BY Zenon
  <2>4. /\ Adds(g, Lengths(names), 1..k) /\ \A m \in 1..k : Lengths(names)[m] \in Int
        /\ k \in Nat /\ j \in Nat /\ l \in Nat /\ l <= k /\ l <= j
    BY <1>2, <1>4, <2>3
  <2>5. /\ Adds(h, Lengths(less), 1..j) /\ \A m \in 1..j : Lengths(less)[m] \in Int
        /\ \A m \in 1..l : Lengths(names)[m] = Lengths(less)[m]
    BY ONLY <1>3, <1>4, <2>2, <2>3
  <2>6. g[1..l] = h[1..l]
    BY ONLY <2>4, <2>5, AddsSameUpTo
  <2>7. g[1..(i - 1)] = h[1..(i - 1)]
    BY ONLY <2>3, <2>6
  <2>. QED
    BY <1>8, <2>1, <2>7
<1>10. ASSUME T # {}  PROVE FALSE
  <2>. DEFINE m == Min(T)
  <2>1. T \in SUBSET Nat
    BY <1>4
  <2>2. m \in T /\ \A x \in T : m <= x
    <3>. HIDE DEF T
    <3>. QED
      BY <1>10, <2>1, MinOfNat
  <2>. HIDE DEF m
  <2>3. m \in i..k /\ ~Good(m)
    BY <2>2
  <2>4. m # i
    BY <1>9, <2>3
  <2>5. m - 1 \in i..k /\ m \in 1..k /\ m - 1 \in 1..(k - 1) /\ m - 1 \in 1..k
        /\ ~(m - 1 < i) /\ (m - 1) + 1 = m /\ ~(m <= m - 1)
    BY <1>4, <2>3, <2>4
  <2>6. Good(m - 1)
    BY <2>2, <2>5
  <2>7. /\ g[1..m] = NameLength[names[m]] + g[1..(m - 1)]
        /\ g[1..m] \in Int /\ g[1..(m - 1)] \in Int /\ NameLength[names[m]] \in Int
    BY <1>5, <2>5
  <2>9. h[1..(m - 1)] = NameLength[less[m - 1]] + h[1..((m - 1) - 1)]
    BY <1>6, <2>5
  <2>10. less[m - 1] = names[m]
    BY <1>1, <2>5
  <2>12. h[1..((m - 1) - 1)] = g[1..(m - 1)] - NameLength[n]
    BY <2>6
  <2>13. h[1..(m - 1)] = g[1..m] - NameLength[n]
    BY <1>8, <2>7, <2>9, <2>10, <2>12
  <2>. QED
    BY <2>3, <2>13
<1>11. Good(k)
  <2>1. k \in i..k
    BY <1>1, <1>4
  <2>2. T = {}
    BY <1>10
  <2>. QED
    BY <2>1, <2>2
<1>12. Newlines(names) \in Int /\ Newlines(less) \in Int /\ g[1..k] \in Int
  BY <1>1, <1>4, <1>5 DEF Newlines
<1>13. ListBytes(less) - Newlines(less) = ListBytes(names) - Newlines(names) - NameLength[n]
  BY <1>2, <1>3, <1>8, <1>11, <1>12
<1>. QED
  BY <1>13 DEF less

-----------------------------------------------------------------------------
USE NullAssumption, WordAssumption

-----------------------------------------------------------------------------
\* Nothing a client sends is lost between two steps of the server.
LEMMA WholeStays ==
  ASSUME UNCHANGED <<fromClient, clientVars>>
  PROVE  /\ \A f : Whole(f)' <=> Whole(f)
         /\ \A f : Long(f)' <=> Long(f)
         /\ ClientTypes => ClientTypes'
         /\ SendingOK => SendingOK'
BY DEF fromClient, clientVars, Whole, Long, ClientTypes, SendingOK

\* What an answer says is right in the next state as well, except that it may
\* be complete there.
LEMMA RightStays ==
  ASSUME UNCHANGED <<fromClient, clientVars>>, NEW c, NEW r, AnswerRight(c, r),
         Open(c) => Open(c)'
  PROVE  AnswerRight(c, r)'
BY DEF AnswerRight, GetRight, PutWhole, Whole, Long, fromClient, clientVars

\* The client whose event is handled: every other one is left as it is.
Handled(c, r, q) ==
  /\ pc = "epoll" \/ (serving = c /\ pc # "exit")
  /\ pc' # "exit"
  /\ r \in InfoRecord \cup {NULL} /\ info' = [info EXCEPT ![c] = r]
  /\ DOMAIN reply' = Client
  /\ \A d \in Client : reply'[d] = IF d = c THEN q ELSE reply[d]
  /\ IF c \in pending THEN pending' = pending \ {c}
     ELSE pending' = pending /\ info[c] # NULL

\* What a step of the server says of requests and answers.
LEMMA EventStep ==
  ASSUME IInv, UNCHANGED <<fromClient, clientVars>>, NEW c \in Client, NEW r, NEW q,
         Handled(c, r, q), RequestRight(c, r), q # NULL => AnswerRight(c, q)',
         r # NULL /\ r.state = 0 => q = NULL
  PROVE  /\ info' \in [Client -> InfoRecord \cup {NULL}] /\ info'[c] = r
         /\ DOMAIN reply' = Client /\ reply'[c] = q
         /\ RequestsOK' /\ AnswersRight' /\ RepliesOK' /\ CleanExit'
<1>1. /\ info' \in [Client -> InfoRecord \cup {NULL}]
      /\ \A d \in Client : info'[d] = IF d = c THEN r ELSE info[d]
  BY DEF Handled, IInv, ServerTypes
<1>2. /\ DOMAIN reply' = Client
      /\ \A d \in Client : reply'[d] = IF d = c THEN q ELSE reply[d]
  BY DEF Handled, IInv, ServerTypes
<1>3. RequestsOK'
  <2>1. ASSUME NEW d \in Client  PROVE RequestRight(d, info[d])'
    <3>1. PICK t : t = (info[d])' /\ RequestRight(d, t)
      BY <1>1 DEF IInv, RequestsOK
    <3>. QED
      BY <3>1 DEF RequestRight, PutWhole, Whole, fromClient, clientVars
  <2>. QED
    BY <2>1 DEF RequestsOK
<1>4. AnswersRight'
  <2>1. ASSUME NEW d \in Client, (reply[d])' # NULL
        PROVE  AnswerRight(d, reply[d])'
    <3>1. PICK t : t = (reply[d])'
      OBVIOUS
    <3>2. AnswerRight(d, t)'
      <4>1. CASE d = c
        BY <1>2, <2>1, <3>1, <4>1
      <4>2. CASE d # c
        <5>1. AnswerRight(d, t)
          BY <1>2, <2>1, <3>1, <4>2 DEF IInv, AnswersRight
        <5>2. ~Open(d)
          BY <4>2 DEF Handled, Open
        <5>. QED
          BY <5>1, <5>2, RightStays
      <4>. QED
        BY <4>1, <4>2
    <3>. QED
      BY <3>1, <3>2 DEF AnswerRight, GetRight, PutWhole, Whole, Long, Open
  <2>. QED
    BY <2>1 DEF AnswersRight
<1>5. RepliesOK'
  <2>1. UNCHANGED <<stage, outcome>> /\ pending' \subseteq pending /\ c \notin pending'
    BY DEF clientVars, Handled
  <2>2. stage[c] # "start" /\ outcome[c] \notin Reports
    BY DEF Handled, IInv, RepliesOK
  <2>. QED
    BY <1>1, <1>2, <2>1, <2>2 DEF IInv, RepliesOK
<1>6. CleanExit'
  BY DEF Handled, CleanExit
<1>. QED
  BY <1>1, <1>2, <1>3, <1>4, <1>5, <1>6

\* An event that leaves the tables and the files alone.
LEMMA QuietEvent ==
  ASSUME IInv, UNCHANGED <<fromClient, clientVars>>, NEW c \in Client, NEW r, NEW q,
         Handled(c, r, q), RequestRight(c, r), q # NULL => AnswerRight(c, q)',
         r # NULL /\ r.state = 0 => q = NULL,
         UNCHANGED <<tables, storage>>, pc' \in PCs, serving' \in Client \cup {NULL},
         Uploading' = Uploading, ServingOK'
  PROVE  IInv'
<1>1. /\ info' \in [Client -> InfoRecord \cup {NULL}] /\ DOMAIN reply' = Client
      /\ RequestsOK' /\ AnswersRight' /\ RepliesOK' /\ CleanExit'
  BY EventStep
<1>2. ServerTypes'
  BY <1>1 DEF IInv, ServerTypes, tables, storage
<1>3. Stored' = Stored /\ pc # "exit"
  BY DEF Stored, storage, Handled
<1>4. StoredWhole' /\ StoredIsListed' /\ ListExact'
  BY <1>3, WholeStays
     DEF IInv, StoredWhole, StoredIsListed, ListExact, tables, storage
<1>. QED
  BY <1>1, <1>2, <1>4, WholeStays DEF IInv

\* The same, when it ends the event.
LEMMA QuietEnd ==
  ASSUME IInv, UNCHANGED <<fromClient, clientVars>>, NEW c \in Client, NEW r, NEW q,
         Handled(c, r, q), RequestRight(c, r), q # NULL => AnswerRight(c, q)',
         r # NULL /\ r.state = 0 => q = NULL,
         UNCHANGED <<tables, storage>>, pc' = "epoll", serving' \in Client \cup {NULL},
         pc \notin {"body", "closed"}
  PROVE  IInv'
<1>1. Uploading = {} /\ Uploading' = {}
  BY DEF Uploading
<1>2. ServingOK' /\ pc' \in PCs
  BY DEF ServingOK, PCs
<1>. QED
  BY <1>1, <1>2, QuietEvent

\* What leaves a client as it is, as far as it has come.
LEMMA SameRecord ==
  ASSUME IInv, NEW c \in Client
  PROVE  /\ info[c] \in InfoRecord \cup {NULL} /\ RequestRight(c, info[c])
         /\ info = [info EXCEPT ![c] = info[c]]
         /\ DOMAIN reply = Client
         /\ reply[c] # NULL => AnswerRight(c, reply[c])
         /\ info[c] # NULL => c \notin pending
         /\ info[c] # NULL /\ info[c].state = 0 => reply[c] = NULL
<1>1. DOMAIN reply = Client
  BY DEF IInv, ServerTypes
<1>2. /\ info[c] \in InfoRecord \cup {NULL} /\ RequestRight(c, info[c])
      /\ info = [info EXCEPT ![c] = info[c]]
  BY DEF IInv, ServerTypes, RequestsOK
<1>3. /\ reply[c] # NULL => AnswerRight(c, reply[c])
      /\ info[c] # NULL => c \notin pending
      /\ info[c] # NULL /\ info[c].state = 0 => reply[c] = NULL
  BY DEF IInv, AnswersRight, RepliesOK
<1>. QED
  BY <1>1, <1>2, <1>3

\* What SetState does to the record of a client that has one.
LEMMA SetStateIs ==
  ASSUME NEW c \in Client, info[c] \in InfoRecord, NEW s \in Int, SetState(c, s)
  PROVE  \E r \in InfoRecord : /\ info' = [info EXCEPT ![c] = r]
                               /\ r.state = s /\ r.method = info[c].method
                               /\ r.filename = info[c].filename
<1>. DEFINE r == [info[c] EXCEPT !.state = s]
<1>1. r \in InfoRecord /\ r.state = s /\ r.method = info[c].method
      /\ r.filename = info[c].filename
  BY DEF InfoRecord
<1>2. info' = [info EXCEPT ![c] = r]
  BY DEF SetState
<1>. QED
  BY <1>1, <1>2

-----------------------------------------------------------------------------
\* accept, and the beginning and the end of reading a header.
LEMMA HeaderSteps ==
  ASSUME IInv, UNCHANGED <<fromClient, clientVars>>, NEW c \in Client,
         \/ Accept(c)
         \/ UNCHANGED pending /\ (ProcessHeader(c) \/ BadRequest(c) \/ ParseRequest(c))
  PROVE  IInv'
<1>1. CASE Accept(c)
  <2>1. Fresh \in InfoRecord /\ RequestRight(c, Fresh)
    BY DEF Fresh, InfoRecord, RequestRight
  <2>2. reply[c] = NULL
    BY <1>1, SameRecord DEF Accept, IInv, RepliesOK
  <2>3. Handled(c, Fresh, NULL)
    BY <1>1, <2>1, <2>2, SameRecord DEF Accept, Handled, control
  <2>4. pc = "epoll" /\ pc' = "epoll" /\ serving' \in Client \cup {NULL}
    BY <1>1 DEF Accept, control, IInv, ServerTypes
  <2>. QED
    BY <1>1, <2>1, <2>3, <2>4, QuietEnd DEF Accept
<1>2. CASE ProcessHeader(c) /\ UNCHANGED pending
  <2>1. info[c] \in InfoRecord /\ info[c].state = 0 /\ RequestRight(c, info[c])
    BY <1>2, SameRecord DEF ProcessHeader
  <2>2. reply[c] = NULL
    BY <1>2, <2>1, SameRecord DEF ProcessHeader
  <2>3. Handled(c, info[c], NULL)
    BY <1>2, <2>1, <2>2, SameRecord DEF ProcessHeader, Handled
  <2>4. ServingOK' /\ pc' \in PCs /\ serving' \in Client \cup {NULL}
    BY <1>2, <2>1 DEF ProcessHeader, ServingOK, PCs
  <2>5. Uploading' = Uploading
    BY <1>2 DEF ProcessHeader, Uploading
  <2>. QED
    BY <1>2, <2>1, <2>3, <2>4, <2>5, QuietEvent DEF ProcessHeader
<1>3. CASE BadRequest(c) /\ UNCHANGED pending
  <2>1. info[c] \in InfoRecord /\ info[c].state = 0 /\ pc = "header"
    BY <1>3 DEF BadRequest, IInv, ServingOK
  <2>2. PICK r \in InfoRecord : info' = [info EXCEPT ![c] = r] /\ r.state = -1
    BY <1>3, <2>1, SetStateIs DEF BadRequest
  <2>3. RequestRight(c, r)
    BY <2>2 DEF RequestRight
  <2>4. reply[c] = NULL
    BY <1>3, <2>1, SameRecord DEF BadRequest
  <2>5. Handled(c, r, NULL)
    BY <1>3, <2>1, <2>2, <2>4, SameRecord DEF BadRequest, Handled
  <2>. QED
    BY <1>3, <2>1, <2>3, <2>5, QuietEnd DEF BadRequest
<1>4. CASE ParseRequest(c) /\ UNCHANGED pending
  <2>. DEFINE r == [state |-> 1, method |-> line[c].method, filename |-> line[c].filename]
  <2>1. line[c].method = request[c].method /\ line[c].filename = request[c].filename
    BY <1>4 DEF ParseRequest, IInv, SendingOK
  <2>2. r \in InfoRecord
    BY <1>4, <2>1, SessionsAssumption DEF ParseRequest, InfoRecord, IInv, ClientTypes
  <2>3. RequestRight(c, r)
    BY <1>4, <2>1, SessionsAssumption
       DEF ParseRequest, RequestRight, Methods, IInv, ClientTypes
  <2>4. info[c] \in InfoRecord /\ info[c].state = 0 /\ pc = "header"
    BY <1>4 DEF ParseRequest, IInv, ServingOK
  <2>5. reply[c] = NULL
    BY <1>4, <2>4, SameRecord DEF ParseRequest
  <2>6. Handled(c, r, NULL) /\ info' = [info EXCEPT ![c] = r]
    BY <1>4, <2>2, <2>4, <2>5, SameRecord DEF ParseRequest, Handled
  <2>. HIDE DEF r
  <2>. QED
    BY <1>4, <2>3, <2>4, <2>6, QuietEnd DEF ParseRequest
<1>. QED
  BY <1>1, <1>2, <1>3, <1>4

\* A request that is answered is the client's own, and names a name.
LEMMA ReadyIs ==
  ASSUME IInv, NEW c \in Client, NEW m, Ready(c, m)
  PROVE  /\ info[c] \in InfoRecord /\ info[c].state = 1 /\ m \in Methods
         /\ pc = "epoll" /\ c \notin pending
         /\ info[c].method = m /\ request[c].method = m
         /\ m # "LIST" => info[c].filename \in Name
         /\ m = "PUT" => PutWhole(c)
<1>1. info[c] \in InfoRecord /\ RequestRight(c, info[c]) /\ info[c].state = 1
  BY DEF Ready, IInv, ServerTypes, RequestsOK
<1>2. /\ m \in Methods /\ info[c].method = m /\ request[c].method = m
      /\ m # "LIST" => info[c].filename \in Name
      /\ m = "PUT" => PutWhole(c)
  BY <1>1 DEF Ready, RequestRight
<1>3. c \notin pending
  BY SameRecord DEF Ready
<1>. QED
  BY <1>1, <1>2, <1>3 DEF Ready

\* Answers of one step, and requests that cannot be answered.
LEMMA AnswerSteps ==
  ASSUME IInv, UNCHANGED <<fromClient, clientVars>>, UNCHANGED pending, NEW c \in Client,
         AnswerPut(c) \/ NoSuchFile(c) \/ ProcessError(c)
  PROVE  IInv'
<1>0. RequestRight(c, NULL)
  BY DEF RequestRight
<1>1. CASE AnswerPut(c)
  <2>1. /\ info[c] \in InfoRecord /\ pc = "epoll" /\ c \notin pending
        /\ request[c].method = "PUT" /\ PutWhole(c)
    BY <1>1, ReadyIs DEF AnswerPut
  <2>2. AnswerRight(c, OKOnly)
    BY <2>1 DEF AnswerRight, OKOnly, Methods
  <2>3. AnswerRight(c, OKOnly)'
    BY <2>1, <2>2, RightStays DEF Open, OKOnly
  <2>4. Handled(c, NULL, OKOnly)
    BY <1>1, <2>1, SameRecord DEF AnswerPut, Handled, Close, Answer, OKOnly, control
  <2>5. pc' = "epoll" /\ serving' \in Client \cup {NULL}
    BY <1>1, <2>1 DEF AnswerPut, control, IInv, ServerTypes
  <2>. QED
    BY <1>0, <1>1, <2>1, <2>3, <2>4, <2>5, QuietEnd DEF AnswerPut
<1>2. CASE NoSuchFile(c)
  <2>1. info[c] \in InfoRecord /\ info[c].state = 1 /\ pc = "epoll" /\ c \notin pending
    BY <1>2, ReadyIs DEF NoSuchFile
  <2>2. PICK r \in InfoRecord : info' = [info EXCEPT ![c] = r] /\ r.state = -3
    BY <1>2, <2>1, SetStateIs DEF NoSuchFile
  <2>3. RequestRight(c, r)
    BY <2>2 DEF RequestRight
  <2>. PICK q : q = reply[c] /\ (q # NULL => AnswerRight(c, q)')
    BY <1>2, <2>1, SameRecord, RightStays DEF Open
  <2>5. Handled(c, r, q)
    BY <1>2, <2>1, <2>2, SameRecord DEF NoSuchFile, Handled, control
  <2>6. pc' = "epoll" /\ serving' \in Client \cup {NULL}
    BY <1>2, <2>1 DEF NoSuchFile, control, IInv, ServerTypes
  <2>. QED
    BY <1>2, <2>1, <2>2, <2>3, <2>5, <2>6, QuietEnd DEF NoSuchFile
<1>3. CASE ProcessError(c)
  <2>. PICK q : q = [kind |-> "ERROR", code |-> info[c].state]
    OBVIOUS
  <2>1. info[c] # NULL /\ pc = "epoll" /\ c \notin pending
    BY <1>3, SameRecord DEF ProcessError
  <2>2. AnswerRight(c, q)'
    BY DEF AnswerRight
  <2>3. Handled(c, NULL, q)
    BY <1>3, <2>1, SameRecord DEF ProcessError, Handled, Close, Answer, control
  <2>5. pc' = "epoll" /\ serving' \in Client \cup {NULL}
    BY <1>3, <2>1 DEF ProcessError, control, IInv, ServerTypes
  <2>. QED
    BY <1>0, <1>3, <2>1, <2>2, <2>3, <2>5, QuietEnd DEF ProcessError
<1>. QED
  BY <1>1, <1>2, <1>3

-----------------------------------------------------------------------------
\* The length that GET announces: as far as an unsigned int holds it, that of
\* the file.
LEMMA ToldRight ==
  ASSUME NEW length \in Nat, NEW k \in Nat
  PROVE  Told((length % Word) + (k * Word), length) /\ (length % Word) + (k * Word) \in Nat
<1>1. /\ length % Word \in 0..(Word - 1) /\ length % Word <= length
      /\ length < Word => length % Word = length
  OBVIOUS
<1>2. k * Word \in Nat /\ (k = 0 \/ k * Word >= Word)
  <2>1. k # 0 => \E j \in Nat : k = j + 1
    <3>1. k # 0 => k - 1 \in Nat /\ k = (k - 1) + 1
      OBVIOUS
    <3>. QED
      BY <3>1
  <2>2. \A j \in Nat : (j + 1) * Word = j * Word + Word /\ j * Word \in Nat
    OBVIOUS
  <2>. QED
    BY <2>1, <2>2
<1>3. k = 0 => k * Word = 0
  OBVIOUS
<1>. QED
  BY <1>1, <1>2, <1>3 DEF Told

\* As long as announced, what a GET has brought is all of the file, or a part
\* of one whose length the table cannot hold.
LEMMA PartIsRight ==
  ASSUME ClientTypes, NEW f \in File, Whole(f), NEW r \in GetAnswer, GetSoFar(r, f),
         r.content.len = r.announced
  PROVE  Whole(r.content) \/ Long(r.content)
<1>1. /\ r.content \in File /\ r.content.by = f.by /\ r.content.len <= f.len
      /\ r.content.len \in Nat /\ f.len \in Nat /\ f.by \in Client
      /\ Told(r.content.len, f.len)
  BY DEF GetSoFar, GetAnswer, File
<1>2. CASE r.content.len = f.len
  BY <1>1, <1>2 DEF Whole
<1>3. CASE r.content.len # f.len
  <2>1. f.len >= Word /\ f.len # 0
    BY <1>1, <1>3 DEF Told
  <2>. QED
    BY <1>1, <2>1 DEF Whole, Long
<1>. QED
  BY <1>2, <1>3

\* The request that the server is answering.
LEMMA AnsweringIs ==
  ASSUME IInv, NEW c \in Client, serving = c, pc \in {"size", "data"}
  PROVE  /\ info[c] \in InfoRecord /\ info[c].state = 1 /\ c \notin pending
         /\ info[c].method \in {"GET", "LIST"} /\ request[c].method = info[c].method
         /\ RequestRight(c, info[c]) /\ AnsweringOK
         /\ Uploading = {}
         /\ info[c].method = "GET" => /\ info[c].filename \in Stored
                                      /\ info[c].filename \in Name
                                      /\ files[info[c].filename] \in File
                                      /\ Whole(files[info[c].filename])
<1>1. info[c] \in InfoRecord /\ AnsweringOK
  BY DEF IInv, ServingOK
<1>2. info[c].state = 1 /\ info[c].method \in {"GET", "LIST"}
  BY <1>1 DEF AnsweringOK
<1>3. RequestRight(c, info[c]) /\ c \notin pending
  BY <1>1, SameRecord
<1>4. request[c].method = info[c].method
  BY <1>1, <1>2, <1>3 DEF RequestRight
<1>5. Uploading = {}
  BY DEF Uploading
<1>6. ASSUME info[c].method = "GET"
      PROVE  /\ info[c].filename \in Stored
             /\ info[c].filename \in Name
             /\ files[info[c].filename] \in File
             /\ Whole(files[info[c].filename])
  BY <1>1, <1>5, <1>6 DEF AnsweringOK, Stored, IInv, ServerTypes, StoredWhole
<1>. QED
  BY <1>1, <1>2, <1>3, <1>4, <1>5, <1>6

\* An answer begins with its OK.
LEMMA WriteOKStep ==
  ASSUME IInv, UNCHANGED <<fromClient, clientVars>>, UNCHANGED pending,
         NEW c \in Client, WriteOK(c)
  PROVE  IInv'
<1>1. PICK m \in {"LIST", "GET"} : /\ Ready(c, m)
                                   /\ m = "GET" => files[info[c].filename] # NULL
  BY DEF WriteOK
<1>2. /\ info[c] \in InfoRecord /\ info[c].state = 1 /\ pc = "epoll" /\ c \notin pending
      /\ info[c].method = m /\ request[c].method = m
      /\ m = "GET" => info[c].filename \in Name
  BY <1>1, ReadyIs
<1>3. /\ pc' = "size" /\ serving' = c /\ UNCHANGED <<info, tables, storage>>
      /\ reply' = [reply EXCEPT ![c] = OKOnly]
  BY DEF WriteOK, Answer, OKOnly
<1>4. Handled(c, info[c], OKOnly) /\ RequestRight(c, info[c])
  BY <1>2, <1>3, SameRecord DEF Handled
<1>5. AnswerRight(c, OKOnly)'
  <2>1. Open(c)' /\ request'[c].method = m
    BY <1>2, <1>3 DEF Open, clientVars
  <2>. QED
    BY <2>1 DEF AnswerRight, Methods
<1>6. reply'[c] = OKOnly
  BY <1>3 DEF IInv, ServerTypes
<1>7. AnsweringOK'
  BY <1>1, <1>2, <1>3, <1>6 DEF AnsweringOK, storage
<1>8. ServingOK' /\ pc' \in PCs /\ Uploading' = Uploading
  BY <1>2, <1>3, <1>7 DEF ServingOK, PCs, Uploading
<1>. QED
  BY <1>2, <1>3, <1>4, <1>5, <1>8, QuietEvent

\* Then comes the length.
LEMMA WriteSizeSteps ==
  ASSUME IInv, UNCHANGED <<fromClient, clientVars>>, UNCHANGED pending,
         NEW c \in Client, WriteListSize(c) \/ WriteFileSize(c)
  PROVE  IInv'
<1>1. /\ serving = c /\ pc = "size" /\ pc' = "data"
      /\ UNCHANGED <<info, tables, storage, serving>>
  BY DEF WriteListSize, WriteFileSize, Answering
<1>2. /\ info[c] \in InfoRecord /\ info[c].state = 1 /\ c \notin pending
      /\ request[c].method = info[c].method /\ RequestRight(c, info[c]) /\ AnsweringOK
  BY <1>1, AnsweringIs
<1>3. ASSUME NEW q, Answer(c, q), AnswerRight(c, q)',
             info[c].method = "LIST" => ListSoFar(q)',
             info[c].method = "GET" => GetSoFar(q, files[info[c].filename])
      PROVE  IInv'
  <2>1. Handled(c, info[c], q) /\ reply'[c] = q
    BY <1>1, <1>2, <1>3, SameRecord DEF Handled, Answer
  <2>2. AnsweringOK'
    <3>1. info[c].method = "GET" => GetSoFar(q, files[info[c].filename])'
      BY <1>1, <1>3 DEF GetSoFar, Told, storage
    <3>. QED
      BY <1>1, <1>2, <1>3, <2>1, <3>1 DEF AnsweringOK, ListSoFar, GetSoFar, Told, storage
  <2>3. ServingOK' /\ pc' \in PCs /\ Uploading' = Uploading
    BY <1>1, <1>2, <2>2 DEF ServingOK, PCs, Uploading
  <2>. QED
    BY <1>1, <1>2, <1>3, <2>1, <2>3, QuietEvent DEF IInv, ServerTypes
<1>4. CASE WriteListSize(c)
  <2>. PICK q : q = [kind |-> "OK", announced |-> ListLength, names |-> <<>>]
    OBVIOUS
  <2>1. ListLength \in Int
    BY DEF ListLength, IInv, ServerTypes
  <2>2. /\ q \in ListAnswer /\ q.announced = ListLength /\ q.names = <<>>
    BY <2>1 DEF ListAnswer
  <2>3. ListSoFar(q)'
    BY <1>1, <2>2 DEF ListSoFar, Begins, ListLength, tables, IInv, ServerTypes
  <2>4. request'[c].method = "LIST"
    BY <1>2, <1>4 DEF WriteListSize, Answering, clientVars
  <2>5. AnswerRight(c, q)'
    BY <2>2, <2>4 DEF AnswerRight, Methods
  <2>. QED
    BY <1>3, <1>4, <2>3, <2>4, <2>5 DEF WriteListSize, Answering
<1>5. CASE WriteFileSize(c)
  <2>. DEFINE n == info[c].filename
  <2>1. /\ info[c].method = "GET" /\ n \in Name /\ n \in Stored
        /\ files[n] \in File /\ Whole(files[n])
    BY <1>1, <1>5, AnsweringIs DEF WriteFileSize, Answering
  <2>2. filesize[n] = files[n].len % Word
    BY <1>1, <2>1 DEF IInv, StoredIsListed
  <2>3. PICK k \in Upper : Answer(c, [kind |-> "OK", announced |-> filesize[n] + k * Word,
                                      content |-> [by |-> files[n].by, len |-> 0]])
    BY <1>5 DEF WriteFileSize
  <2>. PICK q : q = [kind |-> "OK", announced |-> filesize[n] + k * Word,
                     content |-> [by |-> files[n].by, len |-> 0]]
    OBVIOUS
  <2>4. /\ Told(filesize[n] + k * Word, files[n].len) /\ filesize[n] + k * Word \in Nat
        /\ files[n].by \in Client /\ files[n].len \in Nat
    BY <2>1, <2>2, ToldRight, GarbageAssumption DEF File
  <2>5. /\ q \in GetAnswer /\ q.content = [by |-> files[n].by, len |-> 0]
        /\ q.announced = filesize[n] + k * Word
    BY <2>4 DEF GetAnswer, File
  <2>6. GetSoFar(q, files[n])
    BY <2>4, <2>5 DEF GetSoFar
  <2>7. AnswerRight(c, q)
    <3>1. q.content.len = q.announced => Whole(q.content) \/ Long(q.content)
      BY <2>1, <2>5, <2>6, PartIsRight DEF IInv
    <3>2. Open(c) /\ q.content.len <= q.announced
      BY <1>1, <2>6 DEF Open, GetSoFar
    <3>. QED
      BY <1>2, <2>1, <2>5, <3>1, <3>2 DEF AnswerRight, GetRight, Methods
  <2>8. AnswerRight(c, q)'
    BY <1>1, <2>7, RightStays DEF Open
  <2>. QED
    BY <1>3, <2>1, <2>3, <2>6, <2>8
<1>. QED
  BY <1>4, <1>5

\* Then the data, as long as there is room for them.
LEMMA WriteDataSteps ==
  ASSUME IInv, UNCHANGED <<fromClient, clientVars>>, UNCHANGED pending,
         NEW c \in Client, WriteName(c) \/ WriteBlock(c)
  PROVE  IInv'
<1>1. /\ serving = c /\ pc = "data" /\ pc' = "data" /\ serving' = serving
      /\ UNCHANGED <<info, tables, storage>>
  BY DEF WriteName, WriteBlock, BlockLeft, Answering, control
<1>2. /\ info[c] \in InfoRecord /\ info[c].state = 1 /\ c \notin pending
      /\ request[c].method = info[c].method /\ RequestRight(c, info[c]) /\ AnsweringOK
  BY <1>1, AnsweringIs
<1>3. ASSUME NEW q, DOMAIN reply' = Client,
             \A d \in Client : reply'[d] = IF d = c THEN q ELSE reply[d],
             AnswerRight(c, q)',
             info[c].method = "LIST" => ListSoFar(q)',
             info[c].method = "GET" => GetSoFar(q, files[info[c].filename])
      PROVE  IInv'
  <2>1. Handled(c, info[c], q) /\ reply'[c] = q
    BY <1>1, <1>2, <1>3, SameRecord DEF Handled
  <2>2. AnsweringOK'
    <3>1. info[c].method = "GET" => GetSoFar(q, files[info[c].filename])'
      BY <1>1, <1>3 DEF GetSoFar, Told, storage
    <3>. QED
      BY <1>1, <1>2, <1>3, <2>1, <3>1 DEF AnsweringOK, ListSoFar, GetSoFar, Told, storage
  <2>3. ServingOK' /\ pc' \in PCs /\ Uploading' = Uploading
    BY <1>1, <1>2, <2>2 DEF ServingOK, PCs, Uploading
  <2>. QED
    BY <1>1, <1>2, <1>3, <2>1, <2>3, QuietEvent DEF IInv, ServerTypes
<1>4. CASE WriteName(c)
  <2>. DEFINE r == reply[c]
  <2>0. info[c].method = "LIST" /\ ListSoFar(r)
    BY <1>1, <1>2, <1>4 DEF WriteName, Answering, AnsweringOK
  <2>1. /\ r \in ListAnswer /\ r.announced = ListLength /\ Begins(r.names, filename_vec)
        /\ r.names \in Seq(Name) /\ filename_vec \in Seq(Name)
        /\ Len(r.names) < Len(filename_vec)
    BY <1>4, <2>0 DEF WriteName, ListSoFar, ListAnswer, IInv, ServerTypes
  <2>. PICK more : more = Append(r.names, filename_vec[Len(r.names) + 1])
    OBVIOUS
  <2>2. more \in Seq(Name) /\ Begins(more, filename_vec)
    <3>1. Len(r.names) + 1 \in 1..Len(filename_vec) /\ Len(more) = Len(r.names) + 1
      BY <2>1
    <3>2. \A i \in 1..Len(more) :
             more[i] = IF i <= Len(r.names) THEN r.names[i] ELSE filename_vec[i]
      BY <2>1, <3>1
    <3>. QED
      BY <2>1, <3>1, <3>2 DEF Begins
  <2>. PICK q : q = [r EXCEPT !.names = more]
    OBVIOUS
  <2>3. q \in ListAnswer /\ q.names = more /\ q.announced = r.announced
    BY <2>1, <2>2 DEF ListAnswer
  <2>4. DOMAIN reply' = Client /\ \A d \in Client : reply'[d] = IF d = c THEN q ELSE reply[d]
    BY <1>4 DEF WriteName, IInv, ServerTypes
  <2>5. ListSoFar(q)'
    BY <1>1, <2>1, <2>2, <2>3 DEF ListSoFar, ListLength, Begins, tables
  <2>6. AnswerRight(c, q)'
    BY <1>2, <2>0, <2>3 DEF AnswerRight, Methods, clientVars
  <2>. QED
    BY <1>3, <2>0, <2>4, <2>5, <2>6
<1>5. CASE WriteBlock(c)
  <2>. DEFINE r == reply[c]
              f == files[info[c].filename]
  <2>0. /\ info[c].method = "GET" /\ GetSoFar(r, f) /\ f \in File /\ Whole(f)
        /\ r.content.len < r.announced /\ r.content.len < f.len
    BY <1>1, <1>2, <1>5, AnsweringIs DEF WriteBlock, BlockLeft, Answering, AnsweringOK
  <2>1. /\ r \in GetAnswer /\ r.content \in File /\ r.content.len \in Nat
        /\ r.announced \in Int /\ f.len \in Nat
    BY <2>0 DEF GetSoFar, GetAnswer, File
  <2>. PICK q : q = [r EXCEPT !.content.len = @ + 1]
    OBVIOUS
  <2>2. /\ q \in GetAnswer /\ q.announced = r.announced
        /\ q.content.by = r.content.by /\ q.content.len = r.content.len + 1
    BY <2>1 DEF GetAnswer, File
  <2>3. DOMAIN reply' = Client /\ \A d \in Client : reply'[d] = IF d = c THEN q ELSE reply[d]
    BY <1>5 DEF WriteBlock, IInv, ServerTypes
  <2>4. GetSoFar(q, f)
    BY <2>0, <2>1, <2>2 DEF GetSoFar
  <2>5. AnswerRight(c, q)
    <3>1. q.content.len = q.announced => Whole(q.content) \/ Long(q.content)
      BY <2>0, <2>2, <2>4, PartIsRight DEF IInv
    <3>2. Open(c) /\ q.content.len <= q.announced
      BY <1>1, <2>4 DEF Open, GetSoFar
    <3>. QED
      BY <1>2, <2>0, <2>2, <3>1, <3>2 DEF AnswerRight, GetRight, Methods
  <2>6. AnswerRight(c, q)'
    BY <1>1, <2>5, RightStays DEF Open
  <2>. QED
    BY <1>3, <2>0, <2>3, <2>4, <2>6
<1>. QED
  BY <1>4, <1>5

\* The end of an answer: it is complete, or a write to a dead client has failed.
LEMMA AnswerEnds ==
  ASSUME IInv, UNCHANGED <<fromClient, clientVars>>, UNCHANGED pending,
         NEW c \in Client, WriteFails(c) \/ Answered(c)
  PROVE  IInv'
<1>1. /\ serving = c /\ pc = "data" /\ pc' = "epoll" /\ serving' = NULL
      /\ UNCHANGED <<tables, storage, reply>>
  BY DEF WriteFails, Answered, BlockLeft, Answering
<1>2. /\ info[c] \in InfoRecord /\ info[c].state = 1 /\ c \notin pending
      /\ request[c].method = info[c].method /\ AnsweringOK
  BY <1>1, AnsweringIs
<1>. PICK q : q = reply[c]
  OBVIOUS
<1>3. q # NULL => AnswerRight(c, q)
  BY SameRecord
<1>4. CASE WriteFails(c)
  <2>1. PICK r \in InfoRecord : info' = [info EXCEPT ![c] = r] /\ r.state = -3
    BY <1>2, <1>4, SetStateIs DEF WriteFails
  <2>2. RequestRight(c, r) /\ Handled(c, r, q)
    BY <1>1, <1>2, <2>1, SameRecord DEF RequestRight, Handled
  <2>3. request[c].method = "GET" /\ c \in gone /\ GetSoFar(q, files[info[c].filename])
    BY <1>1, <1>2, <1>4 DEF WriteFails, BlockLeft, Answering, AnsweringOK
  <2>4. q \in GetAnswer
    BY <2>3 DEF GetSoFar
  <2>5. q # NULL => AnswerRight(c, q)'
    <3>1. q # NULL => GetRight(c, q)
      <4>1. q.kind = "OK" /\ q # OKOnly
        <5>1. "announced" \in DOMAIN q /\ "announced" \notin DOMAIN OKOnly /\ q.kind = "OK"
          BY <2>4 DEF GetAnswer, OKOnly
        <5>. QED
          BY <5>1
      <4>. QED
        BY <1>3, <2>3, <4>1 DEF AnswerRight
    <3>2. q # NULL => GetRight(c, q)'
      BY <2>3, <3>1 DEF GetRight, Whole, Long, fromClient, clientVars
    <3>3. request'[c].method = "GET"
      BY <2>3 DEF clientVars
    <3>. QED
      BY <2>4, <3>2, <3>3 DEF AnswerRight, Methods
  <2>. QED
    BY <1>1, <2>1, <2>2, <2>5, QuietEnd
<1>5. CASE Answered(c)
  <2>1. Handled(c, NULL, q) /\ RequestRight(c, NULL)
    BY <1>1, <1>2, <1>5, SameRecord DEF Answered, Close, RequestRight, Handled
  <2>2. q # NULL => AnswerRight(c, q)'
    <3>1. CASE info[c].method = "LIST"
      <4>1. q \in ListAnswer /\ request'[c].method = "LIST"
        BY <1>1, <1>2, <3>1 DEF AnsweringOK, ListSoFar, clientVars
      <4>. QED
        BY <4>1 DEF AnswerRight, Methods
    <3>2. CASE info[c].method = "GET"
      <4>. DEFINE f == files[info[c].filename]
      <4>1. /\ GetSoFar(q, f) /\ f \in File /\ Whole(f)
            /\ ~(q.content.len < q.announced /\ q.content.len < f.len)
        BY <1>1, <1>2, <1>5, <3>2, AnsweringIs DEF Answered, BlockLeft, Answering, AnsweringOK
      <4>2. /\ q \in GetAnswer /\ q.content.len \in Nat /\ q.announced \in Int /\ f.len \in Nat
        BY <4>1 DEF GetSoFar, GetAnswer, File
      <4>3. q.content.len = q.announced \/ q.announced >= Word
        BY <4>1, <4>2 DEF GetSoFar, Told
      <4>4. q.content.len = q.announced => Whole(q.content) \/ Long(q.content)
        BY <4>1, <4>2, PartIsRight DEF IInv
      <4>5. GetRight(c, q)'
        BY <4>1, <4>3, <4>4 DEF GetRight, GetSoFar, Whole, Long, fromClient, clientVars
      <4>. QED
        BY <1>2, <3>2, <4>2, <4>5 DEF AnswerRight, Methods, clientVars
    <3>. QED
      BY <1>1, <1>2, <3>1, <3>2 DEF AnsweringOK
  <2>. QED
    BY <1>1, <2>1, <2>2, QuietEnd
<1>. QED
  BY <1>4, <1>5

-----------------------------------------------------------------------------
\* A PUT begins: its name is known to be listed if the file was there, and not
\* to be listed if LIST is exact and it was not.
LEMMA OpenUploadStep ==
  ASSUME IInv, UNCHANGED <<fromClient, clientVars>>, UNCHANGED pending,
         NEW c \in Client, OpenUpload(c)
  PROVE  IInv'
<1>. DEFINE n == line[c].filename
<1>1. /\ request[c].method = "PUT" /\ n \in Name /\ info[c] \in InfoRecord
      /\ info[c].state = 0 /\ pc = "header" /\ serving = c
      /\ reply[c] = NULL /\ c \notin pending
  BY SessionsAssumption, SameRecord
     DEF OpenUpload, IInv, SendingOK, ServingOK, ClientTypes
<1>. PICK r : r = [info[c] EXCEPT !.method = "PUT", !.filename = n]
  OBVIOUS
<1>2. /\ info' = [info EXCEPT ![c] = r] /\ r \in InfoRecord
      /\ r.method = "PUT" /\ r.filename = n /\ r.state = 0
  <2>1. info' = [info EXCEPT ![c] = r]
    BY DEF OpenUpload
  <2>2. r \in InfoRecord /\ r.method = "PUT" /\ r.filename = n /\ r.state = info[c].state
    BY <1>1 DEF InfoRecord, Methods
  <2>. QED
    BY <1>1, <2>1, <2>2
<1>3. Handled(c, r, NULL) /\ RequestRight(c, r)
  BY <1>1, <1>2, SameRecord DEF OpenUpload, Handled, RequestRight
<1>4. /\ info' \in [Client -> InfoRecord \cup {NULL}] /\ info'[c] = r
      /\ DOMAIN reply' = Client /\ reply'[c] = NULL
      /\ RequestsOK' /\ AnswersRight' /\ RepliesOK' /\ CleanExit'
  BY <1>2, <1>3, EventStep
<1>5. pc' = "body" /\ serving' = c /\ info'[c].filename = n
  BY <1>1, <1>2, <1>4 DEF OpenUpload
<1>6. /\ files' \in [Name -> File \cup {NULL}]
      /\ \A m \in Name : files'[m] = IF m = n THEN [by |-> c, len |-> 0] ELSE files[m]
  BY <1>1 DEF OpenUpload, IInv, ServerTypes, File
<1>7. /\ filename_vec' = filename_vec /\ filename_size' = filename_size
      /\ filesize' = filesize /\ spoiled' = spoiled
      /\ existed' = (files[n] # NULL)
  BY DEF OpenUpload, tables
<1>8. /\ Uploading = {} /\ Uploading' = {n} /\ Stored' = Stored \ {n}
      /\ \A m \in Stored' : files'[m] = files[m]
  BY <1>1, <1>5, <1>6 DEF Uploading, Stored
<1>9. files[n] # NULL <=> n \in Stored
  BY <1>1, <1>8 DEF Stored
<1>10. ServerTypes'
  BY <1>4, <1>5, <1>6, <1>7 DEF IInv, ServerTypes, PCs
<1>11. ServingOK'
  <2>1. existed' => n \in ToSet(filename_vec)
    BY <1>1, <1>7, <1>9 DEF IInv, StoredIsListed
  <2>2. ~existed' /\ ~spoiled => n \notin ToSet(filename_vec)
    BY <1>1, <1>7, <1>8, <1>9 DEF IInv, ListExact
  <2>3. files'[n] = [by |-> c, len |-> 0] /\ [by |-> c, len |-> 0] \in File
    BY <1>1, <1>6 DEF File
  <2>4. request'[c].method = "PUT" /\ sent'[c] \in Nat
    BY <1>1 DEF clientVars, fromClient, IInv, ClientTypes
  <2>5. UploadOK'
    BY <1>1, <1>2, <1>4, <1>5, <1>7, <2>1, <2>2, <2>3, <2>4 DEF UploadOK
  <2>. QED
    BY <1>2, <1>4, <1>5, <2>5 DEF ServingOK
<1>12. StoredWhole'
  BY <1>1, <1>8, WholeStays DEF IInv, StoredWhole
<1>13. StoredIsListed'
  BY <1>1, <1>7, <1>8 DEF IInv, StoredIsListed
<1>14. ListExact'
  BY <1>1, <1>7, <1>8 DEF IInv, ListExact
<1>. QED
  BY <1>4, <1>10, <1>11, <1>12, <1>13, <1>14, WholeStays DEF IInv

\* Where an upload stands.
LEMMA UploadIs ==
  ASSUME IInv, NEW c \in Client, serving = c, pc \in {"body", "closed"}
  PROVE  /\ info[c] \in InfoRecord /\ info[c].state = 0 /\ UploadOK
         /\ reply[c] = NULL /\ c \notin pending /\ RequestRight(c, info[c])
         /\ info[c].filename \in Name /\ Uploading = {info[c].filename}
         /\ files[info[c].filename] \in File
<1>1. /\ info[c] \in InfoRecord /\ info[c].state = 0 /\ UploadOK
      /\ Uploading = {info[c].filename}
  BY DEF IInv, ServingOK, Uploading
<1>2. info[c].filename \in Name /\ files[info[c].filename] \in File
  BY <1>1 DEF UploadOK, IInv, ServerTypes
<1>. QED
  BY <1>1, <1>2, SameRecord

\* The file grows by a block that the client has sent.
LEMMA ReadBlockStep ==
  ASSUME IInv, UNCHANGED <<fromClient, clientVars>>, UNCHANGED pending,
         NEW c \in Client, ReadBlock(c)
  PROVE  IInv'
<1>. DEFINE n == info[c].filename
<1>1. /\ serving = c /\ pc = "body" /\ pc' = pc /\ serving' = serving
      /\ UNCHANGED <<info, tables, existed, spoiled, reply>>
      /\ files[n].len < sent[c]
  BY DEF ReadBlock, control
<1>2. /\ info[c] \in InfoRecord /\ info[c].state = 0 /\ UploadOK /\ reply[c] = NULL
      /\ c \notin pending /\ n \in Name /\ Uploading = {n} /\ RequestRight(c, info[c])
      /\ files[n] \in File
  BY <1>1, UploadIs
<1>3. Handled(c, info[c], NULL)
  BY <1>1, <1>2, SameRecord DEF Handled
<1>4. /\ info' \in [Client -> InfoRecord \cup {NULL}]
      /\ DOMAIN reply' = Client
      /\ RequestsOK' /\ AnswersRight' /\ RepliesOK' /\ CleanExit'
  BY <1>2, <1>3, EventStep
<1>5. PICK f \in File : f.by = files[n].by /\ f.len = files[n].len + 1
                        /\ files' = [files EXCEPT ![n] = f]
  <2>. DEFINE f == [files[n] EXCEPT !.len = @ + 1]
  <2>1. f \in File /\ f.by = files[n].by /\ f.len = files[n].len + 1
    BY <1>2 DEF File
  <2>2. files' = [files EXCEPT ![n] = f]
    BY DEF ReadBlock
  <2>. QED
    BY <2>1, <2>2
<1>6. /\ files' \in [Name -> File \cup {NULL}]
      /\ \A m \in Name : files'[m] = IF m = n THEN f ELSE files[m]
  BY <1>2, <1>5 DEF IInv, ServerTypes
<1>7. Uploading' = Uploading /\ Stored' = Stored /\ \A m \in Stored : files'[m] = files[m]
  BY <1>1, <1>2, <1>6 DEF Uploading, Stored
<1>8. ServerTypes'
  BY <1>1, <1>4, <1>6 DEF IInv, ServerTypes, tables
<1>9. ServingOK'
  <2>1. f.len \in Nat /\ sent[c] \in Nat /\ f.len <= sent[c]
    BY <1>1, <1>2, <1>5 DEF File, IInv, ClientTypes
  <2>2. UploadOK'
    BY <1>1, <1>2, <1>5, <1>6, <2>1 DEF UploadOK, tables, fromClient, clientVars
  <2>. QED
    BY <1>1, <1>2, <2>2 DEF ServingOK
<1>10. StoredWhole'
  BY <1>1, <1>7, WholeStays DEF IInv, StoredWhole
<1>11. StoredIsListed'
  BY <1>1, <1>7 DEF IInv, StoredIsListed, tables
<1>12. ListExact'
  BY <1>1, <1>7 DEF IInv, ListExact, tables
<1>. QED
  BY <1>4, <1>8, <1>9, <1>10, <1>11, <1>12, WholeStays DEF IInv

\* The whole upload has been read, whether it is what was announced or not.
LEMMA CloseFileStep ==
  ASSUME IInv, UNCHANGED <<fromClient, clientVars>>, UNCHANGED pending,
         NEW c \in Client, CloseFile(c)
  PROVE  IInv'
<1>1. /\ serving = c /\ pc = "body" /\ pc' = "closed" /\ serving' = serving
      /\ UNCHANGED <<info, tables, storage, reply>>
      /\ closed[c] /\ files[info[c].filename].len = sent[c]
  BY DEF CloseFile
<1>2. /\ info[c] \in InfoRecord /\ info[c].state = 0 /\ UploadOK /\ reply[c] = NULL
      /\ c \notin pending /\ RequestRight(c, info[c])
  BY <1>1, UploadIs
<1>3. Handled(c, info[c], NULL)
  BY <1>1, <1>2, SameRecord DEF Handled
<1>4. UploadOK'
  BY <1>1, <1>2 DEF UploadOK, tables, storage, fromClient, clientVars
<1>5. ServingOK' /\ Uploading' = Uploading /\ pc' \in PCs
  BY <1>1, <1>2, <1>4 DEF ServingOK, Uploading, PCs
<1>. QED
  BY <1>1, <1>2, <1>3, <1>5, QuietEvent

\* What has come of a client is all of its upload if its length is the one that
\* the server has read, or the client has died before it had sent one.
LEMMA ReadIs ==
  ASSUME IInv, NEW c \in Client, Read(c)
  PROVE  /\ serving = c /\ pc = "closed" /\ pc' = "epoll" /\ serving' = NULL
         /\ info[c] \in InfoRecord /\ UploadOK /\ reply[c] = NULL /\ c \notin pending
         /\ info[c].filename \in Name /\ Uploading = {info[c].filename} /\ Uploading' = {}
         /\ files[info[c].filename] = [by |-> c, len |-> sent[c]]
         /\ files[info[c].filename] \in File
         /\ sent[c] \in FileSize(c) => PutWhole(c)
<1>1. serving = c /\ pc = "closed" /\ pc' = "epoll" /\ serving' = NULL /\ Uploading' = {}
  BY DEF Read, Uploading
<1>2. /\ info[c] \in InfoRecord /\ UploadOK /\ reply[c] = NULL /\ c \notin pending
      /\ info[c].filename \in Name /\ Uploading = {info[c].filename}
      /\ files[info[c].filename] \in File
  BY <1>1, UploadIs
<1>3. /\ files[info[c].filename].by = c /\ files[info[c].filename].len = sent[c]
      /\ closed[c] /\ request[c].method = "PUT"
  BY <1>1, <1>2 DEF UploadOK
<1>4. files[info[c].filename] = [by |-> c, len |-> sent[c]]
  BY <1>2, <1>3 DEF File
<1>5. CASE size[c] = NULL
  <2>1. sent[c] = 0 /\ c \in gone
    BY <1>3, <1>5 DEF IInv, SendingOK
  <2>. QED
    BY <1>1, <1>2, <1>3, <1>4, <1>5, <2>1 DEF Whole, PutWhole
<1>6. CASE size[c] # NULL
  BY <1>1, <1>2, <1>3, <1>4, <1>6 DEF Whole, PutWhole, FileSize
<1>. QED
  BY <1>5, <1>6

\* A PUT fails: its file goes, and if it was listed LIST is wrong from now on.
LEMMA RefuseUploadStep ==
  ASSUME IInv, UNCHANGED <<fromClient, clientVars>>, UNCHANGED pending,
         NEW c \in Client, RefuseUpload(c)
  PROVE  IInv'
<1>. DEFINE n == info[c].filename
<1>1. /\ info[c] \in InfoRecord /\ pc = "closed" /\ pc' = "epoll" /\ serving = c
      /\ serving' = NULL /\ UploadOK /\ reply[c] = NULL /\ c \notin pending
      /\ n \in Name /\ Uploading = {n} /\ Uploading' = {}
  BY ReadIs DEF RefuseUpload
<1>2. PICK r \in InfoRecord : info' = [info EXCEPT ![c] = r] /\ r.state = -2
  BY <1>1, SetStateIs DEF RefuseUpload
<1>3. RequestRight(c, r) /\ Handled(c, r, NULL)
  BY <1>1, <1>2, SameRecord DEF RequestRight, Handled, RefuseUpload
<1>4. /\ info' \in [Client -> InfoRecord \cup {NULL}] /\ DOMAIN reply' = Client
      /\ RequestsOK' /\ AnswersRight' /\ RepliesOK' /\ CleanExit'
  BY <1>2, <1>3, EventStep
<1>5. /\ files' \in [Name -> File \cup {NULL}]
      /\ \A m \in Name : files'[m] = IF m = n THEN NULL ELSE files[m]
  BY <1>1 DEF RefuseUpload, IInv, ServerTypes
<1>6. /\ filename_vec' = filename_vec /\ filename_size' = filename_size
      /\ filesize' = filesize /\ existed' = existed
      /\ spoiled' = (spoiled \/ existed)
  BY DEF RefuseUpload, tables
<1>7. Stored' = Stored /\ \A m \in Stored' : files'[m] = files[m]
  BY <1>1, <1>5 DEF Stored
<1>8. ServerTypes'
  BY <1>1, <1>4, <1>5, <1>6 DEF IInv, ServerTypes, PCs
<1>9. ServingOK'
  BY <1>1 DEF ServingOK
<1>10. StoredWhole'
  BY <1>1, <1>7, WholeStays DEF IInv, StoredWhole
<1>11. StoredIsListed'
  BY <1>1, <1>6, <1>7 DEF IInv, StoredIsListed
<1>12. ListExact'
  <2>. SUFFICES ASSUME ~spoiled, ~existed
                PROVE  ToSet(filename_vec) = Stored /\ IsInjective(filename_vec)
    BY <1>1, <1>6, <1>7 DEF ListExact
  <2>1. n \notin ToSet(filename_vec)
    BY <1>1 DEF UploadOK
  <2>2. ToSet(filename_vec) \ {n} = Stored /\ IsInjective(filename_vec)
    BY <1>1 DEF IInv, ListExact
  <2>. QED
    BY <2>1, <2>2
<1>. QED
  BY <1>4, <1>8, <1>9, <1>10, <1>11, <1>12, WholeStays DEF IInv

\* A PUT succeeds: a new name is listed, and the size is that of the upload.
LEMMA StoreUploadStep ==
  ASSUME IInv, UNCHANGED <<fromClient, clientVars>>, UNCHANGED pending,
         NEW c \in Client, StoreUpload(c)
  PROVE  IInv'
<1>. DEFINE n == info[c].filename
<1>1. /\ info[c] \in InfoRecord /\ pc = "closed" /\ pc' = "epoll" /\ serving = c
      /\ serving' = NULL /\ UploadOK /\ reply[c] = NULL /\ c \notin pending
      /\ n \in Name /\ Uploading = {n} /\ Uploading' = {}
      /\ files[n] = [by |-> c, len |-> sent[c]] /\ files[n] \in File
      /\ PutWhole(c) /\ sent[c] \in Nat
  BY ReadIs DEF StoreUpload, IInv, ClientTypes
<1>2. PICK r \in InfoRecord : /\ info' = [info EXCEPT ![c] = r] /\ r.state = 1
                              /\ r.method = "PUT" /\ r.filename = n
  BY <1>1, SetStateIs DEF StoreUpload, UploadOK
<1>3. RequestRight(c, r) /\ Handled(c, r, NULL)
  BY <1>1, <1>2, SameRecord DEF RequestRight, Handled, StoreUpload, Methods, UploadOK
<1>4. /\ info' \in [Client -> InfoRecord \cup {NULL}] /\ DOMAIN reply' = Client
      /\ RequestsOK' /\ AnswersRight' /\ RepliesOK' /\ CleanExit'
  BY <1>2, <1>3, EventStep
<1>5. files' = files /\ existed' = existed /\ spoiled' = spoiled
  BY DEF StoreUpload, storage
<1>6. /\ filename_vec' = IF existed THEN filename_vec ELSE Append(filename_vec, n)
      /\ filename_size' \in Int
      /\ filesize' = [filesize EXCEPT ![n] = sent[c] % Word]
      /\ filesize \in [Name -> Nat \cup {NULL}]
  BY <1>1, NameLengthAssumption DEF StoreUpload, Recorded, IInv, ServerTypes
<1>7. /\ filename_vec' \in Seq(Name)
      /\ ToSet(filename_vec') = ToSet(filename_vec) \cup {n}
      /\ ~spoiled /\ IsInjective(filename_vec) => IsInjective(filename_vec')
  <2>1. filename_vec \in Seq(Name)
    BY DEF IInv, ServerTypes
  <2>2. CASE existed
    BY <1>1, <1>6, <2>1, <2>2 DEF UploadOK
  <2>3. CASE ~existed
    <3>1. ~spoiled => n \notin ToSet(filename_vec)
      BY <1>1, <2>3 DEF UploadOK
    <3>. QED
      BY <1>1, <1>6, <2>1, <2>3, <3>1, AppendElements
  <2>. QED
    BY <2>2, <2>3
<1>8. Stored' = Stored \cup {n} /\ n \notin Stored
  BY <1>1, <1>5 DEF Stored
<1>9. ServerTypes'
  <2>1. filesize' \in [Name -> Nat \cup {NULL}]
    BY <1>1, <1>6
  <2>. QED
    BY <1>1, <1>4, <1>5, <1>6, <1>7, <2>1 DEF IInv, ServerTypes, PCs
<1>10. ServingOK'
  BY <1>1 DEF ServingOK
<1>11. StoredWhole'
  <2>1. ASSUME NEW m \in Stored'  PROVE Whole(files[m])
    BY <1>1, <1>8, <2>1 DEF IInv, StoredWhole, PutWhole
  <2>. QED
    BY <1>5, <2>1 DEF StoredWhole, Whole, fromClient, clientVars
<1>12. StoredIsListed'
  <2>1. ASSUME NEW m \in Stored'
        PROVE  m \in ToSet(filename_vec') /\ filesize'[m] = files'[m].len % Word
    <3>1. CASE m = n
      <4>1. m \in Name /\ m \in ToSet(filename_vec')
        BY <1>1, <1>7, <3>1
      <4>2. files'[m].len = sent[c]
        BY <1>1, <1>5, <3>1
      <4>3. filesize'[m] = sent[c] % Word
        BY <1>6, <3>1, <4>1
      <4>. QED
        BY <4>1, <4>2, <4>3
    <3>2. CASE m # n
      <4>1. m \in Name /\ m \in Stored
        BY <1>8, <2>1, <3>2 DEF Stored
      <4>2. m \in ToSet(filename_vec) /\ filesize[m] = files[m].len % Word
        BY <1>1, <4>1 DEF IInv, StoredIsListed
      <4>3. filesize'[m] = filesize[m] /\ files'[m] = files[m]
        BY <1>5, <1>6, <3>2, <4>1
      <4>. QED
        BY <1>7, <4>2, <4>3
    <3>. QED
      BY <3>1, <3>2
  <2>. QED
    BY <2>1 DEF StoredIsListed
<1>13. ListExact'
  <2>. SUFFICES ASSUME ~spoiled
                PROVE  /\ ToSet(filename_vec') = Stored \cup {n}
                       /\ IsInjective(filename_vec')
    BY <1>1, <1>5, <1>8 DEF ListExact
  <2>1. ToSet(filename_vec) \ {n} = Stored /\ IsInjective(filename_vec)
    BY <1>1 DEF IInv, ListExact
  <2>. QED
    BY <1>7, <2>1
<1>. QED
  BY <1>4, <1>9, <1>10, <1>11, <1>12, <1>13, WholeStays DEF IInv

\* DELETE takes out the one file, and with it its entry and its size.
LEMMA AnswerDeleteStep ==
  ASSUME IInv, UNCHANGED <<fromClient, clientVars>>, UNCHANGED pending,
         NEW c \in Client, AnswerDelete(c)
  PROVE  IInv'
<1>. DEFINE n == info[c].filename
<1>1. /\ n \in Name /\ request[c].method = "DELETE" /\ files[n] # NULL
      /\ info[c] \in InfoRecord /\ c \notin pending
      /\ pc = "epoll" /\ pc' = "epoll" /\ serving' = serving
      /\ Uploading = {} /\ Uploading' = {}
      /\ spoiled' = spoiled /\ existed' = existed
  BY ReadyIs DEF AnswerDelete, Ready, control, Uploading
<1>2. n \in Stored
  BY <1>1 DEF Stored
<1>3. n \in ToSet(filename_vec)
  BY <1>1, <1>2 DEF IInv, StoredIsListed
<1>4. /\ filesize' = [filesize EXCEPT ![n] = NULL]
      /\ filename_vec' = RemoveFirst(filename_vec, n) /\ filename_size' \in Int
      /\ files' = [files EXCEPT ![n] = NULL]
      /\ Answer(c, OKOnly) /\ Close(c)
  <2>1. /\ filesize' = [filesize EXCEPT ![n] = NULL]
        /\ filename_vec' = RemoveFirst(filename_vec, n)
        /\ filename_size' = filename_size - NameLength[n]
        /\ files' = [files EXCEPT ![n] = NULL]
        /\ Answer(c, OKOnly) /\ Close(c)
    BY <1>3 DEF AnswerDelete, OKOnly
  <2>2. NameLength[n] \in Int /\ filename_size \in Int
    BY <1>1, NameLengthAssumption DEF IInv, ServerTypes
  <2>. QED
    BY <2>1, <2>2
<1>5. /\ filename_vec' \in Seq(Name)
      /\ ToSet(filename_vec) \ {n} \subseteq ToSet(filename_vec')
      /\ ToSet(filename_vec') \subseteq ToSet(filename_vec)
      /\ IsInjective(filename_vec) =>
            IsInjective(filename_vec') /\ n \notin ToSet(filename_vec')
  BY <1>3, <1>4, RemoveFirstElements DEF IInv, ServerTypes
<1>6. RequestRight(c, NULL) /\ Handled(c, NULL, OKOnly) /\ AnswerRight(c, OKOnly)'
  BY <1>1, <1>4, SameRecord
     DEF RequestRight, Handled, Answer, Close, OKOnly, AnswerRight, Methods, clientVars
<1>7. /\ info' \in [Client -> InfoRecord \cup {NULL}] /\ DOMAIN reply' = Client
      /\ RequestsOK' /\ AnswersRight' /\ RepliesOK' /\ CleanExit'
  BY <1>6, EventStep
<1>8. /\ Stored' = Stored \ {n}
      /\ \A m \in Stored' : files'[m] = files[m] /\ filesize'[m] = filesize[m]
  BY <1>1, <1>4 DEF Stored, IInv, ServerTypes
<1>9. ServerTypes'
  BY <1>1, <1>4, <1>5, <1>7 DEF IInv, ServerTypes
<1>10. ServingOK'
  BY <1>1 DEF ServingOK
<1>11. StoredWhole'
  BY <1>1, <1>8, WholeStays DEF IInv, StoredWhole
<1>12. StoredIsListed'
  BY <1>1, <1>5, <1>8 DEF IInv, StoredIsListed
<1>13. ListExact'
  BY <1>1, <1>5, <1>8 DEF IInv, ListExact
<1>. QED
  BY <1>7, <1>9, <1>10, <1>11, <1>12, <1>13, WholeStays DEF IInv

\* SIGINT finds every stored file listed, so only what has come of the upload
\* under way can stay, and only if its name is new.
LEMMA ServerEndStep ==
  ASSUME IInv, UNCHANGED <<fromClient, clientVars>>, ServerEnd
  PROVE  IInv'
<1>1. /\ pc # "exit" /\ pc' = "exit" /\ info' = [c \in Client |-> NULL]
      /\ files' = [n \in Name |-> IF n \in ToSet(filename_vec) THEN NULL ELSE files[n]]
      /\ UNCHANGED <<filename_vec, filename_size, filesize, existed, spoiled>>
      /\ UNCHANGED <<serving, reply, pending>>
  BY DEF ServerEnd, tables
<1>2. ServerTypes'
  BY <1>1 DEF IInv, ServerTypes, PCs
<1>3. ServingOK' /\ StoredWhole' /\ StoredIsListed' /\ ListExact'
  BY <1>1 DEF ServingOK, StoredWhole, StoredIsListed, ListExact
<1>4. RequestsOK'
  BY <1>1 DEF RequestsOK, RequestRight
<1>5. AnswersRight'
  <2>1. ASSUME NEW d \in Client, (reply[d])' # NULL  PROVE AnswerRight(d, reply[d])'
    <3>1. PICK t : t = reply[d] /\ t = (reply[d])'
      BY <1>1
    <3>2. AnswerRight(d, t)'
      <4>1. AnswerRight(d, t)
        BY <2>1, <3>1 DEF IInv, AnswersRight
      <4>2. Open(d) => Open(d)'
        BY <1>1 DEF Open
      <4>. QED
        BY <4>1, <4>2, RightStays
    <3>. QED
      BY <3>1, <3>2 DEF AnswerRight, GetRight, PutWhole, Whole, Long, Open
  <2>. QED
    BY <2>1 DEF AnswersRight
<1>6. RepliesOK'
  BY <1>1 DEF IInv, RepliesOK, clientVars
<1>7. CleanExit'
  <2>1. ASSUME NEW n \in Name, files'[n] # NULL
        PROVE  /\ serving # NULL /\ ~existed
               /\ files'[n].by = serving /\ reply[serving] = NULL
    <3>1. n \notin ToSet(filename_vec) /\ files[n] # NULL /\ files'[n] = files[n]
      BY <1>1, <2>1
    <3>2. n \in Uploading
      BY <1>1, <3>1 DEF IInv, StoredIsListed, Stored
    <3>3. pc \in {"body", "closed"} /\ n = info[serving].filename
      BY <3>2 DEF Uploading
    <3>4. serving \in Client /\ UploadOK
      BY <3>3 DEF IInv, ServingOK
    <3>5. reply[serving] = NULL
      BY <3>3, <3>4, UploadIs
    <3>. QED
      BY <3>1, <3>3, <3>4, <3>5 DEF UploadOK
  <2>. QED
    BY <1>1, <2>1 DEF CleanExit
<1>. QED
  BY <1>2, <1>3, <1>4, <1>5, <1>6, <1>7, WholeStays DEF IInv

-----------------------------------------------------------------------------
\* What clients do undoes nothing that they have done: a length that was sent
\* stays, and so does all that was sent before the client closed its side.
Forward ==
  \A d \in Client : /\ d \in gone => d \in gone' /\ size'[d] = size[d]
                    /\ size[d] # NULL => size'[d] = size[d]
                    /\ sent'[d] >= sent[d]
                    /\ closed[d] => closed'[d] /\ sent'[d] = sent[d]

LEMMA WholeKept ==
  ASSUME Forward, NEW f \in File
  PROVE  (Whole(f) => Whole(f)') /\ (Long(f) => Long(f)')
BY DEF Forward, Whole, Long, File

\* Whether an upload was whole when it was closed.
LEMMA PutWholeKept ==
  ASSUME Forward, ClientTypes, NEW d \in Client, PutWhole(d)
  PROVE  PutWhole(d)'
<1>1. closed'[d] /\ sent'[d] = sent[d] /\ closed[d]
  BY DEF Forward, PutWhole
<1>. PICK f : f = [by |-> d, len |-> sent[d]]
  OBVIOUS
<1>2. f \in File /\ Whole(f)
  BY DEF File, ClientTypes, PutWhole
<1>3. Whole(f)'
  BY <1>2, WholeKept
<1>. QED
  BY <1>1, <1>3 DEF PutWhole, Whole

\* A step of the clients, which touches nothing of the server's.
LEMMA ClientStep ==
  ASSUME IInv, UNCHANGED <<info, tables, storage, control, reply, request>>,
         ClientTypes', SendingOK', RepliesOK', Forward
  PROVE  IInv'
<1>1. /\ UNCHANGED <<info, filename_vec, filename_size, filesize, files>>
      /\ UNCHANGED <<existed, spoiled, pc, serving, reply, request>>
  BY DEF tables, storage, control
<1>2. ServerTypes'
  BY <1>1 DEF IInv, ServerTypes
<1>3. ServingOK'
  <2>1. UploadOK /\ pc \in {"body", "closed"} => UploadOK'
    <3>. SUFFICES ASSUME UploadOK, pc \in {"body", "closed"}  PROVE UploadOK'
      OBVIOUS
    <3>1. serving \in Client /\ files[info[serving].filename] \in File
      BY DEF IInv, ServingOK, UploadOK, ServerTypes
    <3>2. /\ files[info[serving].filename].len \in Nat
          /\ sent[serving] \in Nat /\ sent'[serving] \in Nat
          /\ sent'[serving] >= sent[serving]
          /\ closed[serving] => closed'[serving] /\ sent'[serving] = sent[serving]
      BY <3>1 DEF File, IInv, ClientTypes, Forward
    <3>. QED
      BY <1>1, <3>2 DEF UploadOK
  <2>2. AnsweringOK => AnsweringOK'
    BY <1>1 DEF AnsweringOK, ListSoFar, ListLength, GetSoFar, Told
  <2>. QED
    BY <1>1, <2>1, <2>2 DEF IInv, ServingOK
<1>4. Stored' = Stored /\ Uploading' = Uploading
  BY <1>1 DEF Stored, Uploading
<1>5. StoredIsListed' /\ ListExact' /\ CleanExit'
  BY <1>1, <1>4 DEF IInv, StoredIsListed, ListExact, CleanExit
<1>6. \A d \in Client : PutWhole(d) => PutWhole(d)'
  BY PutWholeKept DEF IInv
<1>7. RequestsOK'
  BY <1>1, <1>6 DEF IInv, RequestsOK, RequestRight
<1>8. StoredWhole'
  <2>1. ASSUME NEW n \in Stored, pc # "exit"  PROVE Whole(files[n])'
    <3>1. PICK f \in File : f = files[n] /\ f = files'[n]
      BY <1>1, <2>1 DEF IInv, Stored, ServerTypes
    <3>2. Whole(f)'
      BY <2>1, <3>1, WholeKept DEF IInv, StoredWhole
    <3>. QED
      BY <3>1, <3>2 DEF Whole
  <2>. QED
    BY <1>1, <1>4, <2>1 DEF StoredWhole
<1>9. AnswersRight'
  <2>1. ASSUME NEW d \in Client, (reply[d])' # NULL  PROVE AnswerRight(d, reply[d])'
    <3>1. PICK t : t = reply[d] /\ t = (reply[d])'
      BY <1>1
    <3>2. AnswerRight(d, t) /\ (Open(d) => Open(d)') /\ (d \in gone => d \in gone')
      BY <1>1, <2>1, <3>1 DEF IInv, AnswersRight, Open, Forward
    <3>3. t \in GetAnswer => (GetRight(d, t) => GetRight(d, t)')
      <4>. SUFFICES ASSUME t \in GetAnswer, GetRight(d, t)  PROVE GetRight(d, t)'
        OBVIOUS
      <4>1. PICK f \in File : f = t.content
        BY DEF GetAnswer
      <4>2. (Whole(f) => Whole(f)') /\ (Long(f) => Long(f)')
        BY WholeKept
      <4>. QED
        BY <3>2, <4>1, <4>2 DEF GetRight, Whole, Long
    <3>4. AnswerRight(d, t)'
      BY <1>1, <1>6, <3>2, <3>3 DEF AnswerRight
    <3>. QED
      BY <3>1, <3>4 DEF AnswerRight, GetRight, PutWhole, Whole, Long, Open
  <2>. QED
    BY <2>1 DEF AnswersRight
<1>. QED
  BY <1>2, <1>3, <1>5, <1>7, <1>8, <1>9 DEF IInv

\* What a client does as long as it lives.
LEMMA MainSteps ==
  ASSUME IInv, NEW c \in Client, Main(c)
  PROVE  IInv' /\ Forward
<1>0. /\ request[c].size \in Nat /\ \A d \in Client : sent[d] \in Nat
  BY SessionsAssumption DEF IInv, ClientTypes
<1>1. CASE ConnectToServer(c)
  <2>1. stage' = [stage EXCEPT ![c] = "request"] /\ stage[c] = "start"
    BY <1>1 DEF ConnectToServer, Goto
  <2>2. ClientTypes' /\ SendingOK'
    BY <1>1, <2>1 DEF ConnectToServer, IInv, ClientTypes, SendingOK, Stages, fromClient
  <2>3. RepliesOK'
    BY <1>1, <2>1 DEF ConnectToServer, IInv, ClientTypes, RepliesOK, Reports
  <2>4. Forward
    BY <1>0, <1>1 DEF ConnectToServer, Forward, fromClient
  <2>. QED
    BY <1>1, <2>2, <2>3, <2>4, ClientStep DEF ConnectToServer
<1>2. CASE SendRequest(c)
  <2>1. /\ stage' = [stage EXCEPT ![c] = "response"] /\ stage[c] = "request"
        /\ closed' = [closed EXCEPT ![c] = TRUE] /\ request[c].method # "PUT"
    BY <1>2 DEF SendRequest, Goto
  <2>2. ClientTypes'
    BY <1>2, <2>1 DEF SendRequest, SendLine, IInv, ClientTypes, Stages
  <2>3. SendingOK'
    BY <1>2, <2>1 DEF SendRequest, SendLine, IInv, ClientTypes, SendingOK
  <2>4. RepliesOK'
    BY <1>2, <2>1 DEF SendRequest, serverVars, IInv, ClientTypes, RepliesOK
  <2>5. Forward
    BY <1>0, <1>2, <2>1 DEF SendRequest, Forward, IInv, ClientTypes
  <2>. QED
    BY <1>2, <2>2, <2>3, <2>4, <2>5, ClientStep DEF SendRequest, serverVars
<1>3. CASE SendPut(c)
  <2>1. stage' = [stage EXCEPT ![c] = "upload"] /\ stage[c] = "request"
    BY <1>3 DEF SendPut, Goto
  <2>2. ClientTypes'
    BY <1>3, <2>1 DEF SendPut, SendLine, IInv, ClientTypes, Stages
  <2>3. SendingOK'
    BY <1>3, <2>1 DEF SendPut, SendLine, IInv, ClientTypes, SendingOK
  <2>4. RepliesOK'
    BY <1>3, <2>1 DEF SendPut, serverVars, IInv, ClientTypes, RepliesOK
  <2>5. Forward
    BY <1>0, <1>3 DEF SendPut, Forward
  <2>. QED
    BY <1>3, <2>2, <2>3, <2>4, <2>5, ClientStep DEF SendPut, serverVars
<1>4. CASE SendSize(c)
  <2>1. /\ stage[c] = "upload" /\ size[c] = NULL /\ c \notin gone
        /\ size' = [size EXCEPT ![c] = request[c].size]
        /\ UNCHANGED <<line, sent, closed, gone, clientVars, serverVars>>
    BY <1>4 DEF SendSize, IInv, SendingOK
  <2>2. ClientTypes'
    BY <1>0, <2>1 DEF IInv, ClientTypes, clientVars
  <2>3. SendingOK'
    BY <1>0, <2>1 DEF IInv, ClientTypes, SendingOK, clientVars
  <2>4. RepliesOK'
    BY <2>1 DEF IInv, RepliesOK, serverVars, clientVars
  <2>5. Forward
    BY <1>0, <2>1 DEF Forward, IInv, ClientTypes
  <2>. QED
    BY <2>1, <2>2, <2>3, <2>4, <2>5, ClientStep DEF serverVars, clientVars
<1>5. CASE SendBlock(c)
  <2>1. /\ stage[c] = "upload" /\ size[c] # NULL /\ ~closed[c]
        /\ sent' = [sent EXCEPT ![c] = sent[c] + 1]
        /\ UNCHANGED <<line, size, closed, gone, clientVars, serverVars>>
    BY <1>5 DEF SendBlock, IInv, SendingOK
  <2>2. ClientTypes'
    BY <1>0, <2>1 DEF IInv, ClientTypes, clientVars
  <2>3. SendingOK'
    BY <1>0, <2>1 DEF IInv, ClientTypes, SendingOK, clientVars
  <2>4. RepliesOK'
    BY <2>1 DEF IInv, RepliesOK, serverVars, clientVars
  <2>5. Forward
    BY <1>0, <2>1 DEF Forward, IInv, ClientTypes
  <2>. QED
    BY <2>1, <2>2, <2>3, <2>4, <2>5, ClientStep DEF serverVars, clientVars
<1>6. CASE Uploaded(c)
  <2>1. /\ stage' = [stage EXCEPT ![c] = "response"] /\ stage[c] = "upload"
        /\ closed' = [closed EXCEPT ![c] = TRUE] /\ size[c] # NULL
        /\ UNCHANGED <<line, size, sent, gone, request, outcome, serverVars>>
    BY <1>6 DEF Uploaded, Goto
  <2>2. ClientTypes'
    BY <2>1 DEF IInv, ClientTypes, Stages
  <2>3. SendingOK'
    BY <2>1 DEF IInv, ClientTypes, SendingOK
  <2>4. RepliesOK'
    BY <2>1 DEF IInv, ClientTypes, RepliesOK, serverVars
  <2>5. Forward
    BY <1>0, <2>1 DEF Forward, IInv, ClientTypes
  <2>. QED
    BY <2>1, <2>2, <2>3, <2>4, <2>5, ClientStep DEF serverVars
<1>7. CASE HandleResponse(c) \/ ConnectionClosed(c)
  <2>1. /\ stage' = [stage EXCEPT ![c] = "end"] /\ stage[c] # "end"
        /\ UNCHANGED <<serverVars, fromClient, request>>
    BY <1>7 DEF HandleResponse, ConnectionClosed, Goto
  <2>2. PICK o : /\ outcome' = [outcome EXCEPT ![c] = o]
                 /\ o \in Reports => info[c] = NULL /\ reply[c] # NULL
    BY <1>7 DEF HandleResponse, ConnectionClosed, Report, Reports
  <2>3. ClientTypes'
    BY <2>1, <2>2 DEF IInv, ClientTypes, Stages, fromClient
  <2>4. SendingOK'
    BY <2>1, <2>2 DEF IInv, ClientTypes, SendingOK, fromClient
  <2>5. RepliesOK'
    BY <2>1, <2>2 DEF IInv, ClientTypes, RepliesOK, serverVars
  <2>6. Forward
    BY <1>0, <2>1 DEF Forward, fromClient
  <2>. QED
    BY <2>1, <2>3, <2>4, <2>5, <2>6, ClientStep DEF serverVars
<1>. QED
  BY <1>1, <1>2, <1>3, <1>4, <1>5, <1>6, <1>7 DEF Main

\* A client that dies in the middle of its upload has sent the length and some
\* of its bytes, or nothing at all.
LEMMA HangUpStep ==
  ASSUME IInv, NEW c \in Client, HangUp(c)
  PROVE  IInv' /\ Forward
<1>1. /\ stage[c] \notin {"start", "end"} /\ stage' = [stage EXCEPT ![c] = "end"]
      /\ closed' = [closed EXCEPT ![c] = TRUE] /\ gone' = gone \cup {c}
      /\ UNCHANGED <<serverVars, line, size, sent, request, outcome>>
  BY DEF HangUp
<1>2. ClientTypes'
  BY <1>1 DEF IInv, ClientTypes, Stages
<1>3. SendingOK'
  BY <1>1 DEF IInv, ClientTypes, SendingOK
<1>4. RepliesOK'
  BY <1>1 DEF IInv, ClientTypes, RepliesOK, serverVars
<1>5. Forward
  BY <1>1 DEF Forward, IInv, ClientTypes
<1>. QED
  BY <1>1, <1>2, <1>3, <1>4, <1>5, ClientStep DEF serverVars

-----------------------------------------------------------------------------
\* A server that has just started, and clients that have not.
LEMMA InitOK ==
  ASSUME Init
  PROVE  IInv
<1>1. /\ info = [c \in Client |-> NULL] /\ files = [n \in Name |-> NULL]
      /\ filename_vec = <<>> /\ filename_size = 0
      /\ reply = [c \in Client |-> NULL] /\ pc = "epoll" /\ serving = NULL
  BY DEF Init, ServerInit
<1>2. ServerTypes
  <2>1. info \in [Client -> InfoRecord \cup {NULL}] /\ filename_vec \in Seq(Name)
    BY <1>1
  <2>2. filesize \in [Name -> Nat \cup {NULL}] /\ existed \in BOOLEAN /\ spoiled \in BOOLEAN
    BY DEF Init, ServerInit
  <2>3. files \in [Name -> File \cup {NULL}] /\ DOMAIN reply = Client
    BY <1>1
  <2>. QED
    BY <1>1, <2>1, <2>2, <2>3 DEF ServerTypes, PCs
<1>3. ClientTypes
  BY DEF Init, ServerInit, ClientTypes, Stages
<1>4. ServingOK /\ CleanExit
  BY <1>1 DEF ServingOK, CleanExit
<1>5. SendingOK
  BY DEF Init, ServerInit, SendingOK
<1>6. RequestsOK /\ AnswersRight
  BY <1>1 DEF RequestsOK, RequestRight, AnswersRight
<1>7. RepliesOK
  BY NoReportAssumption DEF Init, ServerInit, RepliesOK, Reports
<1>8. Stored = {} /\ ToSet(filename_vec) = {} /\ IsInjective(filename_vec)
  BY <1>1 DEF Stored, ToSet, IsInjective
<1>9. StoredWhole /\ StoredIsListed /\ ListExact
  BY <1>8 DEF StoredWhole, StoredIsListed, ListExact
<1>. QED
  BY <1>2, <1>3, <1>4, <1>5, <1>6, <1>7, <1>9 DEF IInv

\* Every step of the server and of its clients.
LEMMA NextOK ==
  ASSUME IInv, [Next]_vars
  PROVE  IInv' /\ Forward
<1>0. UNCHANGED <<fromClient, clientVars>> => Forward
  BY DEF Forward, fromClient, clientVars, IInv, ClientTypes
<1>1. CASE Server
  <2>1. PICK c \in Client : RunEpoll(c)
    BY <1>1 DEF Server
  <2>2. UNCHANGED <<fromClient, clientVars>>
    BY <1>1 DEF Server
  <2>. QED
    BY <1>0, <2>1, <2>2, HeaderSteps, OpenUploadStep, ReadBlockStep, CloseFileStep,
       RefuseUploadStep, StoreUploadStep, AnswerSteps, AnswerDeleteStep,
       WriteOKStep, WriteSizeSteps, WriteDataSteps, AnswerEnds DEF RunEpoll, Handle
<1>2. CASE Interrupt
  BY <1>0, <1>2, ServerEndStep DEF Interrupt
<1>3. ASSUME NEW c \in Client, Main(c) \/ HangUp(c)  PROVE IInv' /\ Forward
  BY <1>3, MainSteps, HangUpStep
<1>4. CASE UNCHANGED vars
  <2>1. /\ UNCHANGED <<info, tables, storage, control, reply, request, pending>>
        /\ UNCHANGED <<fromClient, clientVars>>
    BY <1>4 DEF vars, serverVars, clientVars
  <2>2. RepliesOK'
    BY <2>1 DEF IInv, RepliesOK, clientVars
  <2>. QED
    BY <1>0, <2>1, <2>2, WholeStays, ClientStep DEF IInv
<1>. QED
  BY <1>1, <1>2, <1>3, <1>4 DEF Next

\* The inductive invariant holds throughout.
LEMMA FileServerCorrect == Spec => []IInv
BY InitOK, NextOK, PTL DEF Spec

\* GET finds the size it announces and DELETE the name it takes out: every
\* stored file is in the tables of the server, with its own length as far as an
\* unsigned int holds it.
THEOREM FileServerStoredIsListed == Spec => []StoredIsListed
BY FileServerCorrect, PTL DEF IInv

\* As long as no PUT over an old file has failed, LIST shows the stored files,
\* each once.
THEOREM FileServerListExact == Spec => []ListExact
BY FileServerCorrect, PTL DEF IInv

\* Wherever it falls, SIGINT leaves nothing but what has come of the upload it
\* interrupts, and that only if the name is new and the PUT was not answered.
THEOREM FileServerCleanExit == Spec => []CleanExit
BY FileServerCorrect, PTL DEF IInv

-----------------------------------------------------------------------------
\* A list of names takes a number of bytes.
LEMMA ListBytesType ==
  ASSUME NEW names \in Seq(Name)
  PROVE  ListBytes(names) \in Int /\ Newlines(names) \in Int
<1>1. PICK g : /\ Adds(g, Lengths(names), 1..Len(names))
               /\ ListBytes(names) = g[1..Len(names)] + Newlines(names)
  BY ListBytesAdds
<1>2. /\ IsFiniteSet(1..Len(names)) /\ Len(names) \in Nat
      /\ \A i \in 1..Len(names) : Lengths(names)[i] \in Int
  BY LengthsAre
<1>3. g[1..Len(names)] \in Int
  BY <1>1, <1>2, AddsAnyOrder
<1>. QED
  BY <1>1, <1>2, <1>3 DEF Newlines

\* The first names of a list take no more bytes than all of them.
LEMMA ListBytesPrefix ==
  ASSUME NEW names \in Seq(Name), NEW list \in Seq(Name), Begins(names, list)
  PROVE  /\ ListBytes(names) <= ListBytes(list)
         /\ Len(names) = Len(list) => names = list
<1>. DEFINE k == Len(names)
            n == Len(list)
<1>1. k \in Nat /\ n \in Nat /\ k <= n /\ \A i \in 1..k : names[i] = list[i]
  BY DEF Begins
<1>2. PICK g : /\ Adds(g, Lengths(names), 1..k)
               /\ ListBytes(names) = g[1..k] + Newlines(names)
  BY ListBytesAdds
<1>3. PICK h : /\ Adds(h, Lengths(list), 1..n)
               /\ ListBytes(list) = h[1..n] + Newlines(list)
  BY ListBytesAdds
<1>4. /\ \A i \in 1..k : Lengths(names)[i] \in Int /\ Lengths(names)[i] = NameLength[names[i]]
      /\ \A i \in 1..n : Lengths(list)[i] \in Int /\ Lengths(list)[i] = NameLength[list[i]]
  BY LengthsAre
<1>5. g[1..k] = h[1..k]
  <2>1. \A i \in 1..k : Lengths(names)[i] = Lengths(list)[i]
    <3>1. \A i \in 1..k : i \in 1..n
      BY <1>1
    <3>. QED
      BY <1>1, <1>4, <3>1
  <2>. PICK a, b : a = k /\ b = n
    BY Zenon
  <2>2. /\ a \in Nat /\ Adds(g, Lengths(names), 1..a) /\ \A i \in 1..a : Lengths(names)[i] \in Int
        /\ b \in Nat /\ Adds(h, Lengths(list), 1..b) /\ \A i \in 1..b : Lengths(list)[i] \in Int
        /\ a <= a /\ a <= b /\ \A i \in 1..a : Lengths(names)[i] = Lengths(list)[i]
    BY <1>1, <1>2, <1>3, <1>4, <2>1
  <2>3. g[1..a] = h[1..a]
    BY ONLY <2>2, AddsSameUpTo
  <2>. QED
    BY <2>3
<1>6. ASSUME NEW m \in 1..n
      PROVE  h[1..m] \in Int /\ h[1..(m - 1)] \in Int /\ h[1..(m - 1)] <= h[1..m]
  <2>1. h[1..m] = Lengths(list)[m] + h[1..(m - 1)] /\ h[1..m] \in Int /\ h[1..(m - 1)] \in Int
    BY <1>1, <1>3, <1>4, AddsUpTo
  <2>2. Lengths(list)[m] \in Nat
    <3>1. list[m] \in Name
      OBVIOUS
    <3>. QED
      BY <1>4, <3>1, NameLengthAssumption
  <2>. QED
    BY <2>1, <2>2
<1>7. h[1..k] \in Int
  <2>1. CASE k = 0
    <3>1. 1..k = {}
      BY <2>1
    <3>2. h[{}] = 0
      BY <1>3 DEF Adds
    <3>3. h[1..k] = h[{}]
      BY <3>1, Zenon
    <3>. QED
      BY <3>2, <3>3
  <2>2. CASE k # 0
    BY <1>1, <1>6, <2>2
  <2>. QED
    BY <2>1, <2>2
<1>. DEFINE Good(m) == h[1..m] \in Int /\ h[1..k] <= h[1..m]
            T       == { m \in k..n : ~Good(m) }
<1>8. ASSUME T # {}  PROVE FALSE
  <2>. DEFINE m == Min(T)
  <2>1. T \in SUBSET Nat
    BY <1>1
  <2>2. m \in T /\ \A x \in T : m <= x
    <3>. HIDE DEF T
    <3>. QED
      BY <1>8, <2>1, MinOfNat
  <2>. HIDE DEF m
  <2>3. m \in k..n /\ ~Good(m) /\ m # k
    BY <1>1, <1>7, <2>2
  <2>4. m - 1 \in k..n /\ m \in 1..n /\ ~(m <= m - 1)
    BY <1>1, <2>3
  <2>5. Good(m - 1)
    BY <2>2, <2>4
  <2>6. h[1..m] \in Int /\ h[1..(m - 1)] \in Int /\ h[1..(m - 1)] <= h[1..m]
    BY <1>6, <2>4
  <2>. QED
    BY <1>7, <2>3, <2>5, <2>6
<1>9. Good(n)
  BY <1>1, <1>8
<1>10. Newlines(names) \in Int /\ Newlines(list) \in Int /\ Newlines(names) <= Newlines(list)
  BY <1>1 DEF Newlines
<1>11. k = n => names = list
  BY <1>1
<1>. QED
  BY <1>2, <1>3, <1>5, <1>7, <1>9, <1>10, <1>11

\* The number that the server keeps for LIST is what the names take.
SizeKept == /\ filename_size \in Int
            /\ ListBytes(filename_vec) - Newlines(filename_vec) = filename_size

\* What LIST brings is never more than announced, and as much if it is complete.
ListRight(c, r) ==
  r \in ListAnswer => /\ ListBytes(r.names) <= r.announced
                      /\ ListBytes(r.names) = r.announced \/ Open(c)

BytesInv == SizeKept /\ \A c \in Client : reply[c] # NULL => ListRight(c, reply[c])

\* Only StoreUpload and AnswerDelete change what LIST shows.
LEMMA SizeStep ==
  ASSUME IInv, SizeKept, [Next]_vars
  PROVE  SizeKept'
<1>0. filename_vec \in Seq(Name) /\ NameLength \in [Name -> Nat \ {0}]
  BY NameLengthAssumption DEF IInv, ServerTypes
<1>1. CASE UNCHANGED tables
  BY <1>1 DEF SizeKept, tables
<1>2. ASSUME NEW c \in Client, StoreUpload(c)  PROVE SizeKept'
  <2>. DEFINE n == info[c].filename
  <2>1. n \in Name
    BY <1>2, ReadIs DEF StoreUpload
  <2>2. CASE existed
    BY <1>2, <2>2 DEF StoreUpload, SizeKept
  <2>3. CASE ~existed
    <3>1. filename_vec' = Append(filename_vec, n) /\ filename_size' = filename_size + NameLength[n]
      BY <1>2, <2>3 DEF StoreUpload
    <3>2. ListBytes(Append(filename_vec, n)) - Newlines(Append(filename_vec, n))
             = ListBytes(filename_vec) - Newlines(filename_vec) + NameLength[n]
      BY <1>0, <2>1, ListBytesAppend
    <3>3. NameLength[n] \in Int
      BY <1>0, <2>1
    <3>4. ListBytes(filename_vec') - Newlines(filename_vec') = filename_size'
      BY <3>1, <3>2 DEF SizeKept
    <3>5. filename_size' \in Int
      BY <3>1, <3>3 DEF SizeKept
    <3>6. ListBytes(filename_vec)' = ListBytes(filename_vec')
          /\ Newlines(filename_vec)' = Newlines(filename_vec')
      OBVIOUS
    <3>. QED
      BY <3>4, <3>5, <3>6 DEF SizeKept
  <2>. QED
    BY <2>2, <2>3
<1>3. ASSUME NEW c \in Client, AnswerDelete(c)  PROVE SizeKept'
  <2>. DEFINE n == info[c].filename
  <2>1. n \in Name
    BY <1>3, ReadyIs DEF AnswerDelete
  <2>2. CASE n \notin ToSet(filename_vec)
    BY <1>1, <1>3, <2>2 DEF AnswerDelete
  <2>3. CASE n \in ToSet(filename_vec)
    <3>1. filename_vec' = RemoveFirst(filename_vec, n) /\ filename_size' = filename_size - NameLength[n]
      BY <1>3, <2>3 DEF AnswerDelete
    <3>2. ListBytes(RemoveFirst(filename_vec, n)) - Newlines(RemoveFirst(filename_vec, n))
             = ListBytes(filename_vec) - Newlines(filename_vec) - NameLength[n]
      BY <1>0, <2>3, ListBytesRemove
    <3>3. NameLength[n] \in Int
      BY <1>0, <2>1
    <3>4. ListBytes(filename_vec') - Newlines(filename_vec') = filename_size'
      BY <3>1, <3>2 DEF SizeKept
    <3>5. filename_size' \in Int
      BY <3>1, <3>3 DEF SizeKept
    <3>6. ListBytes(filename_vec)' = ListBytes(filename_vec')
          /\ Newlines(filename_vec)' = Newlines(filename_vec')
      OBVIOUS
    <3>. QED
      BY <3>4, <3>5, <3>6 DEF SizeKept
  <2>. QED
    BY <2>2, <2>3
<1>4. CASE Server
  <2>1. PICK c \in Client : RunEpoll(c)
    BY <1>4 DEF Server
  <2>2. CASE StoreUpload(c) \/ AnswerDelete(c)
    BY <1>2, <1>3, <2>2
  <2>3. CASE ~(StoreUpload(c) \/ AnswerDelete(c))
    <3>1. UNCHANGED tables
      BY <2>1, <2>3 DEF RunEpoll, Handle, Accept, ProcessHeader, BadRequest, ParseRequest,
         OpenUpload, ReadBlock, CloseFile, RefuseUpload, AnswerPut, WriteOK, WriteListSize,
         WriteFileSize, WriteName, WriteBlock, WriteFails, Answered, NoSuchFile, ProcessError
    <3>. QED
      BY <1>1, <3>1
  <2>. QED
    BY <2>2, <2>3
<1>5. CASE Interrupt
  BY <1>1, <1>5 DEF Interrupt, ServerEnd
<1>6. ASSUME NEW c \in Client, Main(c) \/ HangUp(c)  PROVE SizeKept'
  BY <1>1, <1>6 DEF Main, HangUp, ConnectToServer, SendRequest, SendPut, SendSize, SendBlock,
     Uploaded, HandleResponse, ConnectionClosed, serverVars
<1>7. CASE UNCHANGED vars
  BY <1>1, <1>7 DEF vars, serverVars
<1>. QED
  BY <1>4, <1>5, <1>6, <1>7 DEF Next

\* What LIST announces is what its names take, so it never brings more.
LEMMA ListIsExact ==
  ASSUME IInv, SizeKept, NEW r, ListSoFar(r)
  PROVE  /\ r \in ListAnswer /\ ListBytes(r.names) <= r.announced
         /\ Len(r.names) = Len(filename_vec) => ListBytes(r.names) = r.announced
<1>1. filename_vec \in Seq(Name) /\ r \in ListAnswer /\ r.names \in Seq(Name)
      /\ r.announced = ListLength /\ Begins(r.names, filename_vec)
  BY DEF IInv, ServerTypes, ListSoFar, ListAnswer
<1>2. ListBytes(filename_vec) \in Int /\ Newlines(filename_vec) \in Int
  BY <1>1, ListBytesType
<1>3. ListLength = ListBytes(filename_vec)
  <2>1. CASE filename_vec = <<>>
    BY <2>1, ListBytesEmpty DEF ListLength
  <2>2. CASE filename_vec # <<>>
    <3>1. ListBytes(filename_vec) - (Len(filename_vec) - 1) = filename_size
      BY <2>2 DEF SizeKept, Newlines
    <3>2. Len(filename_vec) \in Int
      BY <1>1
    <3>. QED
      BY <1>2, <2>2, <3>1, <3>2 DEF ListLength, SizeKept
  <2>. QED
    BY <2>1, <2>2
<1>4. ListBytes(r.names) <= ListBytes(filename_vec)
      /\ (Len(r.names) = Len(filename_vec) => r.names = filename_vec)
  BY <1>1, ListBytesPrefix
<1>. QED
  BY <1>1, <1>3, <1>4

\* Only LIST brings names.
LEMMA NoList ==
  /\ \A r \in GetAnswer : r \notin ListAnswer
  /\ OKOnly \notin ListAnswer
  /\ \A x : [kind |-> "ERROR", code |-> x] \notin ListAnswer
<1>1. \A r \in ListAnswer : "names" \in DOMAIN r
  BY DEF ListAnswer
<1>2. \A r \in GetAnswer : "names" \notin DOMAIN r
  BY DEF GetAnswer
<1>3. "names" \notin DOMAIN OKOnly
  BY DEF OKOnly
<1>4. \A x : "names" \notin DOMAIN [kind |-> "ERROR", code |-> x]
  OBVIOUS
<1>. QED
  BY <1>1, <1>2, <1>3, <1>4

\* The answers to LIST, whoever takes the step.
LEMMA BytesStep ==
  ASSUME IInv, BytesInv, [Next]_vars
  PROVE  BytesInv'
<1>1. SizeKept' /\ IInv'
  BY SizeStep, NextOK DEF BytesInv
<1>2. ASSUME NEW d \in Client, (reply[d])' # NULL,
             reply'[d] = reply[d], Open(d) => Open(d)'
      PROVE  ListRight(d, reply[d])'
  BY <1>2 DEF BytesInv, ListRight
<1>3. ASSUME NEW d \in Client, (reply[d])' \notin ListAnswer
      PROVE  ListRight(d, reply[d])'
  BY <1>3 DEF ListRight
<1>4. ASSUME NEW c \in Client, RunEpoll(c)
      PROVE  \A d \in Client : (reply[d])' # NULL => ListRight(d, reply[d])'
  <2>1. \A d \in Client \ {c} : reply'[d] = reply[d] /\ (Open(d) => Open(d)')
    <3>1. pc # "epoll" => serving = c /\ pc # "exit"
      BY <1>4 DEF RunEpoll, Handle, Accept, ProcessHeader, BadRequest, ParseRequest,
         OpenUpload, ReadBlock, CloseFile, Read, RefuseUpload, StoreUpload, AnswerPut, WriteOK,
         WriteListSize, WriteFileSize, WriteName, WriteBlock, WriteFails, Answered,
         NoSuchFile, ProcessError, AnswerDelete, Ready, Answering, BlockLeft
    <3>2. \A d \in Client \ {c} : reply'[d] = reply[d]
      BY <1>4 DEF RunEpoll, Handle, Accept, ProcessHeader, BadRequest, ParseRequest,
         OpenUpload, ReadBlock, CloseFile, RefuseUpload, StoreUpload, AnswerPut, WriteOK,
         WriteListSize, WriteFileSize, WriteName, WriteBlock, WriteFails, Answered,
         NoSuchFile, ProcessError, AnswerDelete, Answer, IInv, ServerTypes
    <3>. QED
      BY <3>1, <3>2 DEF Open
  <2>2. SUFFICES ASSUME (reply[c])' # NULL  PROVE ListRight(c, reply[c])'
    BY <1>2, <2>1
  <2>3. DOMAIN reply = Client
    BY DEF IInv, ServerTypes
  <2>4. CASE AnswerPut(c) \/ AnswerDelete(c) \/ ProcessError(c) \/ WriteOK(c)
    <3>1. \/ UNCHANGED reply /\ ~Open(c)
          \/ reply'[c] = OKOnly
          \/ reply'[c] = [kind |-> "ERROR", code |-> info[c].state]
      BY <2>3, <2>4 DEF AnswerPut, AnswerDelete, ProcessError, WriteOK, Answer, OKOnly,
         Ready, Open
    <3>. QED
      BY <1>2, <1>3, <2>2, <3>1, NoList
  <2>5. CASE WriteListSize(c) \/ WriteFileSize(c) \/ WriteName(c) \/ WriteBlock(c)
    <3>1. /\ serving = c /\ serving' = c /\ pc' = "data" /\ UNCHANGED <<info, tables>>
          /\ pc \in {"size", "data"}
      BY <2>5 DEF WriteListSize, WriteFileSize, WriteName, WriteBlock, BlockLeft, Answering,
         control
    <3>2. AnsweringOK' /\ info[c].method \in {"GET", "LIST"}
      BY <1>1, <3>1, AnsweringIs DEF IInv, ServingOK
    <3>. PICK t : t = (reply[c])'
      OBVIOUS
    <3>3. CASE info[c].method = "GET"
      <4>1. t \in GetAnswer
        BY <3>1, <3>2, <3>3 DEF AnsweringOK, GetSoFar
      <4>. QED
        BY <1>3, <4>1, NoList
    <3>4. CASE info[c].method = "LIST"
      <4>1. ListSoFar(t)
        BY <3>1, <3>2, <3>4 DEF AnsweringOK, ListSoFar, ListLength, tables
      <4>2. ListBytes(t.names) <= t.announced
        BY <4>1, ListIsExact DEF BytesInv
      <4>. QED
        BY <3>1, <4>2 DEF ListRight, Open
    <3>. QED
      BY <3>2, <3>3, <3>4
  <2>6. CASE WriteFails(c) \/ Answered(c)
    <3>1. /\ serving = c /\ pc = "data" /\ reply'[c] = reply[c]
      BY <2>6 DEF WriteFails, Answered, BlockLeft, Answering
    <3>2. AnsweringOK /\ info[c].method \in {"GET", "LIST"}
      BY <3>1, AnsweringIs
    <3>. PICK t : t = reply[c] /\ t = (reply[c])'
      BY <3>1
    <3>3. CASE info[c].method = "GET"
      <4>1. t \in GetAnswer
        BY <3>1, <3>2, <3>3 DEF AnsweringOK, GetSoFar
      <4>. QED
        BY <1>3, <4>1, NoList
    <3>4. CASE info[c].method = "LIST"
      <4>1. ListSoFar(t) /\ Len(t.names) = Len(filename_vec)
        BY <2>6, <3>1, <3>2, <3>4
           DEF AnsweringOK, WriteFails, Answered, BlockLeft, Answering
      <4>2. ListBytes(t.names) <= t.announced /\ ListBytes(t.names) = t.announced
        BY <4>1, ListIsExact DEF BytesInv
      <4>. QED
        BY <4>2 DEF ListRight
    <3>. QED
      BY <3>2, <3>3, <3>4
  <2>7. CASE ~(AnswerPut(c) \/ AnswerDelete(c) \/ ProcessError(c) \/ WriteOK(c)
               \/ WriteListSize(c) \/ WriteFileSize(c) \/ WriteName(c) \/ WriteBlock(c)
               \/ WriteFails(c) \/ Answered(c))
    <3>1. UNCHANGED reply /\ pc \notin {"size", "data", "exit"}
      BY <1>4, <2>7 DEF RunEpoll, Handle, Accept, ProcessHeader, BadRequest, ParseRequest,
         OpenUpload, ReadBlock, CloseFile, Read, RefuseUpload, StoreUpload, NoSuchFile, Ready
    <3>. QED
      BY <1>2, <2>2, <3>1 DEF Open
  <2>. QED
    BY <2>4, <2>5, <2>6, <2>7
<1>5. CASE Server
  BY <1>1, <1>4, <1>5 DEF Server, BytesInv
<1>6. CASE ~Server
  <2>1. UNCHANGED <<reply, serving>> /\ (pc' = pc \/ pc' = "exit")
    BY <1>6 DEF Next, Interrupt, ServerEnd, Main, HangUp, ConnectToServer, SendRequest,
       SendPut, SendSize, SendBlock, Uploaded, HandleResponse, ConnectionClosed, vars,
       serverVars, control
  <2>2. \A d \in Client : reply'[d] = reply[d] /\ (Open(d) => Open(d)')
    BY <2>1 DEF Open
  <2>. QED
    BY <1>1, <1>2, <2>2 DEF BytesInv
<1>. QED
  BY <1>5, <1>6

-----------------------------------------------------------------------------
\* What a client has reported of its answer stays, and so does the answer.
LEMMA ReportStays ==
  ASSUME IInv, [Next]_vars, NEW d \in Client, outcome[d] \in Reports
  PROVE  /\ outcome'[d] = outcome[d] /\ reply'[d] = reply[d] /\ request' = request
         /\ Cut(d) => Cut(d)'
<1>0. /\ info[d] = NULL /\ reply[d] # NULL /\ stage[d] = "end"
      /\ d \notin pending /\ DOMAIN reply = Client /\ DOMAIN outcome = Client
  BY DEF IInv, RepliesOK, ServerTypes, ClientTypes
<1>1. ASSUME NEW c \in Client, RunEpoll(c)
      PROVE  reply'[d] = reply[d] /\ ~Cut(d)
  <2>1. pc # "exit" /\ c # d
    BY <1>0, <1>1 DEF RunEpoll, Handle, Accept, ProcessHeader, BadRequest, ParseRequest,
       OpenUpload, ReadBlock, CloseFile, Read, RefuseUpload, StoreUpload, AnswerPut, WriteOK,
       WriteListSize, WriteFileSize, WriteName, WriteBlock, WriteFails, Answered,
       NoSuchFile, ProcessError, AnswerDelete, Ready, Answering, BlockLeft, IInv, ServingOK
  <2>2. reply'[d] = reply[d]
    BY <1>0, <1>1, <2>1
       DEF RunEpoll, Handle, Accept, ProcessHeader, BadRequest, ParseRequest,
       OpenUpload, ReadBlock, CloseFile, RefuseUpload, StoreUpload, AnswerPut, WriteOK,
       WriteListSize, WriteFileSize, WriteName, WriteBlock, WriteFails, Answered,
       NoSuchFile, ProcessError, AnswerDelete, Answer
  <2>. QED
    BY <2>1, <2>2 DEF Cut
<1>2. CASE Server
  BY <1>1, <1>2 DEF Server, clientVars
<1>3. CASE Interrupt
  BY <1>3 DEF Interrupt, ServerEnd, clientVars, Cut
<1>4. ASSUME NEW c \in Client, Main(c) \/ HangUp(c)
      PROVE  /\ UNCHANGED <<reply, request, pc, serving>>
             /\ outcome'[d] = outcome[d]
  <2>1. UNCHANGED <<reply, request, pc, serving>>
    BY <1>4 DEF Main, HangUp, ConnectToServer, SendRequest, SendPut, SendSize, SendBlock,
       Uploaded, HandleResponse, ConnectionClosed, serverVars, clientVars, control
  <2>2. CASE HandleResponse(c) \/ ConnectionClosed(c)
    <3>1. c # d /\ \E o : outcome' = [outcome EXCEPT ![c] = o]
      BY <1>0, <2>2 DEF HandleResponse, ConnectionClosed, Goto, Report
    <3>. QED
      BY <1>0, <2>1, <3>1
  <2>3. CASE ~(HandleResponse(c) \/ ConnectionClosed(c))
    <3>1. UNCHANGED outcome
      BY <1>4, <2>3 DEF Main, HangUp, ConnectToServer, SendRequest, SendPut, SendSize,
         SendBlock, Uploaded, clientVars
    <3>. QED
      BY <2>1, <3>1
  <2>. QED
    BY <2>2, <2>3
<1>5. CASE UNCHANGED vars
  BY <1>5 DEF vars, serverVars, clientVars, control, Cut
<1>. QED
  BY <1>2, <1>3, <1>4, <1>5 DEF Next, Cut

\* What a client may report of its answer.
ReportRight(c) ==
  /\ outcome[c] # "too much data"
  /\ outcome[c] = "too little data" => Cut(c) \/ Misread(c)
  /\ outcome[c] = "done" /\ request[c].method = "GET" =>
        \/ Cut(c) /\ "announced" \notin DOMAIN reply[c]
        \/ reply[c] \in GetAnswer /\ (Whole(reply[c].content) \/ Long(reply[c].content))

ReportsRight == \A c \in Client : ReportRight(c)

\* What a client makes of each kind of answer.
LEMMA ReceivedIs ==
  ASSUME NEW r
  PROVE  /\ r = OKOnly =>
              "announced" \notin DOMAIN r /\ Received(r) = 0 /\ Announced(r) = Garbage
         /\ r \in ListAnswer => /\ Announced(r) = {r.announced} /\ r.announced \in Int
                               /\ r.names \in Seq(Name) /\ Received(r) = ListBytes(r.names)
         /\ r \in GetAnswer => /\ "announced" \in DOMAIN r
                              /\ Announced(r) = {r.announced} /\ r.announced \in Int
                              /\ Received(r) = r.content.len /\ r.content.len \in Int
BY DEF OKOnly, ListAnswer, GetAnswer, File, Received, Announced

\* And of the two numbers of bytes.
LEMMA VerdictIs ==
  ASSUME NEW x \in Int, NEW a \in Int
  PROVE  /\ x < a => Verdict(x, a) = "too little data"
         /\ x = a => Verdict(x, a) = "done"
BY DEF Verdict

\* Reading to the end of an answer, a client finds it right, or cut, or of a
\* length that was misread.
LEMMA ReportStep ==
  ASSUME IInv, BytesInv, NEW c \in Client, HandleResponse(c)
  PROVE  ReportRight(c)'
<1>. PICK r : r = reply[c] /\ r = (reply[c])'
  BY DEF HandleResponse, serverVars
<1>. DEFINE m == request[c].method
<1>1. /\ r # NULL /\ info[c] = NULL /\ stage[c] = "response" /\ AnswerRight(c, r)
      /\ c \notin gone /\ ListRight(c, r)
      /\ UNCHANGED <<pc, serving, request, size, gone>>
  BY DEF HandleResponse, Goto, IInv, AnswersRight, SendingOK, BytesInv, serverVars, control,
     fromClient
<1>2. Open(c) => Cut(c) /\ Cut(c)'
  BY <1>1 DEF Open, Cut, IInv, ServingOK
<1>3. PICK o : Report(c, o) /\
         IF r.kind = "ERROR" THEN o = "error"
         ELSE IF m \in {"PUT", "DELETE"} THEN o = "done"
         ELSE \E a \in Announced(r) : o = Verdict(Received(r), a)
  BY DEF HandleResponse
<1>4. outcome'[c] = o
  BY <1>3 DEF Report, IInv, ClientTypes
<1>5. CASE r.kind = "ERROR" \/ m \in {"PUT", "DELETE"}
  BY <1>1, <1>3, <1>4, <1>5 DEF ReportRight
<1>6. CASE r.kind # "ERROR" /\ m \notin {"PUT", "DELETE"}
  <2>0. m \in {"GET", "LIST"} /\ \E a \in Announced(r) : o = Verdict(Received(r), a)
    BY <1>1, <1>3, <1>6 DEF AnswerRight, Methods
  <2>1. PICK x, a : x = Received(r) /\ a \in Announced(r) /\ o = Verdict(x, a)
    BY <2>0
  <2>2. CASE r = OKOnly /\ Open(c)
    <3>1. "announced" \notin DOMAIN r /\ Received(r) = 0 /\ Announced(r) = Garbage
      BY <2>2, ReceivedIs
    <3>2. o \in {"too little data", "done"}
      <4>1. a \in Nat /\ x = 0
        BY <2>1, <3>1, GarbageAssumption
      <4>2. x \in Int /\ a \in Int /\ (x < a \/ x = a)
        BY <4>1
      <4>. QED
        BY <2>1, <4>2, VerdictIs, Zenon
    <3>. QED
      BY <1>1, <1>2, <1>4, <2>2, <3>1, <3>2 DEF ReportRight, Cut
  <2>3. CASE m = "LIST" /\ r \in ListAnswer
    <3>1. /\ Announced(r) = {r.announced} /\ Received(r) = ListBytes(r.names)
          /\ r.names \in Seq(Name) /\ r.announced \in Int
      BY <2>3, ReceivedIs
    <3>2. /\ ListBytes(r.names) \in Int /\ ListBytes(r.names) <= r.announced
          /\ ListBytes(r.names) = r.announced \/ Open(c)
      BY <1>1, <2>3, <3>1, ListBytesType DEF ListRight
    <3>3. o = "done" \/ (o = "too little data" /\ Open(c))
      <4>1. /\ x \in Int /\ a \in Int /\ x <= a
            /\ x = ListBytes(r.names) /\ a = r.announced
        BY <2>1, <3>1, <3>2
      <4>2. x = a \/ Open(c)
        BY <3>2, <4>1
      <4>3. x < a \/ x = a
        BY <4>1
      <4>. QED
        BY <2>1, <4>1, <4>2, <4>3, VerdictIs, Zenon
    <3>. QED
      BY <1>1, <1>2, <1>4, <2>3, <3>3 DEF ReportRight, Cut
  <2>4. CASE m = "GET" /\ r \in GetAnswer /\ GetRight(c, r)
    <3>1. /\ Announced(r) = {r.announced} /\ Received(r) = r.content.len
          /\ r.content.len \in Int /\ r.announced \in Int /\ "announced" \in DOMAIN r
      BY <2>4, ReceivedIs
    <3>2. /\ o = "done" => Whole(r.content) \/ Long(r.content)
          /\ o # "too much data"
          /\ o = "too little data" => r.announced >= Word \/ Open(c)
      <4>1. /\ x \in Int /\ a \in Int /\ x <= a
            /\ x = r.content.len /\ a = r.announced
        BY <2>1, <2>4, <3>1 DEF GetRight
      <4>2. /\ x = a => Whole(r.content) \/ Long(r.content)
            /\ x = a \/ r.announced >= Word \/ Open(c)
        BY <1>1, <2>4, <4>1 DEF GetRight
      <4>3. x < a \/ x = a
        BY <4>1
      <4>. QED
        BY <2>1, <4>1, <4>2, <4>3, VerdictIs, Zenon
    <3>3. Whole(r.content) \/ Long(r.content) => (Whole(r.content) \/ Long(r.content))'
      BY <1>1 DEF Whole, Long
    <3>. QED
      BY <1>1, <1>2, <1>4, <2>4, <3>1, <3>2, <3>3 DEF ReportRight, Misread, Cut, Whole, Long
  <2>. QED
    BY <1>1, <1>6, <2>0, <2>2, <2>3, <2>4 DEF AnswerRight
<1>. QED
  BY <1>5, <1>6

\* What clients have reported stays right.
LEMMA ReportsStay ==
  ASSUME IInv, BytesInv, ReportsRight, [Next]_vars
  PROVE  ReportsRight'
<1>. SUFFICES ASSUME NEW d \in Client  PROVE ReportRight(d)'
  BY DEF ReportsRight
<1>1. CASE HandleResponse(d)
  BY <1>1, ReportStep
<1>2. CASE outcome[d] \in Reports
  <2>1. /\ outcome'[d] = outcome[d] /\ reply'[d] = reply[d] /\ request' = request
        /\ Cut(d) => Cut(d)'
    BY <1>2, ReportStays
  <2>2. ReportRight(d) /\ Forward
    BY NextOK DEF ReportsRight
  <2>. PICK t : t = reply[d] /\ t = (reply[d])'
    BY <2>1
  <2>3. t \in GetAnswer /\ (Whole(t.content) \/ Long(t.content)) =>
           (Whole(t.content) \/ Long(t.content))'
    <3>. SUFFICES ASSUME t \in GetAnswer  PROVE (Whole(t.content) \/ Long(t.content)) =>
                                             (Whole(t.content) \/ Long(t.content))'
      OBVIOUS
    <3>1. PICK f \in File : f = t.content
      BY DEF GetAnswer
    <3>2. (Whole(f) => Whole(f)') /\ (Long(f) => Long(f)')
      BY <2>2, WholeKept
    <3>. QED
      BY <3>1, <3>2 DEF Whole, Long
  <2>. QED
    BY <2>1, <2>2, <2>3 DEF ReportRight, Misread, Whole, Long
<1>3. CASE ~HandleResponse(d) /\ outcome[d] \notin Reports
  <2>1. outcome'[d] \notin Reports
    <3>1. DOMAIN outcome = Client
      BY DEF IInv, ClientTypes
    <3>2. CASE UNCHANGED outcome
      BY <1>3, <3>2
    <3>3. ASSUME NEW c \in Client, ConnectionClosed(c) \/ (HandleResponse(c) /\ c # d)
          PROVE  outcome'[d] \notin Reports
      BY <1>3, <3>1, <3>3 DEF ConnectionClosed, HandleResponse, Report, Reports
    <3>4. CASE ~UNCHANGED outcome
      <4>1. \E c \in Client : ConnectionClosed(c) \/ HandleResponse(c)
        BY <3>4 DEF Next, Server, Interrupt, Main, HangUp, ConnectToServer, SendRequest,
           SendPut, SendSize, SendBlock, Uploaded, vars, clientVars
      <4>. QED
        BY <1>3, <3>3, <4>1
    <3>. QED
      BY <3>2, <3>4
  <2>. QED
    BY <2>1 DEF ReportRight, Reports
<1>. QED
  BY <1>1, <1>2, <1>3

\* No answer yet, and no name listed.
LEMMA BytesStart ==
  ASSUME Init
  PROVE  BytesInv /\ ReportsRight
<1>1. /\ filename_vec = <<>> /\ filename_size = 0
      /\ \A c \in Client : reply[c] = NULL /\ outcome[c] = NULL
  BY DEF Init, ServerInit
<1>2. SizeKept
  BY <1>1, ListBytesEmpty DEF SizeKept, Newlines
<1>. QED
  BY <1>1, <1>2, NoReportAssumption DEF BytesInv, ReportsRight, ReportRight

\* What clients report is right throughout.
LEMMA FileServerReports == Spec => [](IInv /\ ReportsRight)
<1>1. IInv /\ BytesInv /\ ReportsRight /\ [Next]_vars => BytesInv' /\ ReportsRight'
  BY BytesStep, ReportsStay
<1>2. Init => BytesInv /\ ReportsRight
  BY BytesStart
<1>. QED
  BY <1>1, <1>2, FileServerCorrect, PTL DEF Spec

\* LIST and GET bring as many bytes as they announce, after any sequence of
\* stored, failed and deleted uploads, unless SIGINT cuts the answer or the
\* recorded size is misread.
THEOREM FileServerNothingMissing == Spec => []NothingMissing
<1>1. ReportsRight => NothingMissing
  BY DEF ReportsRight, ReportRight, NothingMissing
<1>. QED
  BY <1>1, FileServerReports, PTL

\* A PUT that is answered OK was stored whole, and a GET that its client is
\* content with has brought the whole upload of one client, or of one too long
\* for the table.
THEOREM FileServerAnswersWhole == Spec => []AnswersWhole
<1>1. IInv /\ ReportsRight => AnswersWhole
  <2>. SUFFICES ASSUME IInv, ReportsRight, NEW c \in Client, reply[c] # NULL, reply[c].kind = "OK"
                PROVE  /\ request[c].method = "PUT" => Whole([by |-> c, len |-> sent[c]])
                       /\ request[c].method = "GET" /\ outcome[c] = "done" =>
                             \/ Cut(c) /\ "announced" \notin DOMAIN reply[c]
                             \/ Whole(reply[c].content)
                             \/ Long(reply[c].content)
    BY DEF AnswersWhole
  <2>1. AnswerRight(c, reply[c])
    BY DEF IInv, AnswersRight
  <2>2. request[c].method = "PUT" => PutWhole(c)
    BY <2>1 DEF AnswerRight
  <2>. QED
    BY <2>2 DEF PutWhole, ReportsRight, ReportRight
<1>. QED
  BY <1>1, FileServerReports, PTL
===============================================================================
