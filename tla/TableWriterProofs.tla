-------------------------- MODULE TableWriterProofs --------------------------
(***************************************************************************)
(* Theorems about the table writer that threads and processes share        *)
(* (TableWriter), for any number of threads, processes and rows.           *)
(***************************************************************************)
EXTENDS TableWriter, FiniteSetTheorems, TLAPS

-----------------------------------------------------------------------------
(* The inductive invariant                                                 *)

ClosingSteps == {"close", "ask_in_close", "list", "complete", "stop"}

\* Who the processes are, and which writers a client has.
Roles ==
  /\ kind[Main] = "main"
  /\ \A c \in Children :
       /\ kind[c] \in {"unborn", "gone"} => writers[c] = None
       /\ kind[c] = "client" => DOMAIN writers[c] \subseteq {MainThread}
  /\ \A a \in Actors : pc[a] = "ask" => Ident(a) \in DOMAIN writers[Process(a)]
  /\ \A c \in Children : pc[c] = "ask_in_close" => MainThread \in DOMAIN writers[c]

\* A process that closes its writer does nothing else, and has not raised.
Closing ==
  \A a \in Actors : pc[a] \in ClosingSteps =>
    /\ ended[Process(a)] = "no"
    /\ a \in Threads => a = MainThread /\ pc[a] # "ask_in_close"
    /\ \A b \in Actors \ {a} : Process(b) = Process(a) => pc[b] = "idle"

\* Blocks come from the counter.
Counted ==
  /\ \A p \in Processes : \A i \in DOMAIN writers[p] : writers[p][i].block < counter
  /\ \A b \in DOMAIN blocks : b < counter

\* No two writers have the same block, be their processes over or not.
Apart ==
  ~inherited =>
    \A p, q \in Processes : \A i \in DOMAIN writers[p], j \in DOMAIN writers[q] :
      writers[p][i].block # NoBlock /\ writers[p][i].block = writers[q][j].block
        => p = q /\ i = j

\* A writer of a process that has not raised has a block to itself.
NotUploaded ==
  ~inherited =>
    \A p \in Processes : \A i \in DOMAIN writers[p] :
      ended[p] # "raised" /\ writers[p][i].block # NoBlock
        => writers[p][i].block \notin DOMAIN blocks

IInv == TypeOK /\ Roles /\ Closing /\ Counted /\ Apart /\ NotUploaded

-----------------------------------------------------------------------------
LEMMA Sets ==
  /\ Main \in Processes /\ Children \subseteq Processes /\ Main \notin Children
  /\ MainThread \in Threads
  /\ \A a \in Actors : Process(a) \in Processes /\ Ident(a) \in Threads
  /\ \A c \in Children : c \in Actors /\ Process(c) = c /\ Ident(c) = MainThread
  /\ \A t \in Threads : t \in Actors /\ Process(t) = Main /\ Ident(t) = t
BY WriterAssumption DEF Processes, Actors, Process, Ident

LEMMA NoneIsEmpty == DOMAIN None = {}
BY DEF None

LEMMA InitInv == Init => IInv
<1> SUFFICES ASSUME Init PROVE IInv
  OBVIOUS
<1>. USE Sets, NoneIsEmpty, WriterAssumption DEF Init
<1>1. TypeOK
  <2>1. /\ willCommit \in [Processes -> BOOLEAN] /\ fixed \in [Processes -> BOOLEAN]
        /\ ownQueue \in [Processes -> BOOLEAN]
        /\ committed \in BOOLEAN /\ inherited \in BOOLEAN /\ adopted \in BOOLEAN /\ faulty \in BOOLEAN
    OBVIOUS
  <2>2. /\ kind \in [Processes -> {"main", "unborn", "forked", "client", "gone"}]
        /\ pc \in [Actors -> {"idle", "ask", "upload", "close", "ask_in_close", "list",
                              "complete", "stop"}]
        /\ ended \in [Processes -> {"no", "ok", "raised"}]
        /\ server \in [Processes -> {"none", "up", "down"}]
        /\ DOMAIN writers = Processes /\ \A p \in Processes : DOMAIN writers[p] = {}
    OBVIOUS
  <2>3. /\ known \in [Processes -> SUBSET Nat] /\ inQueue \in [Processes -> SUBSET Nat]
        /\ feeding \in [Processes -> SUBSET Nat] /\ wrote \in [Processes -> SUBSET (1..MaxRows)]
        /\ shared \subseteq Nat /\ counter \in Nat \ {0} /\ DOMAIN blocks = {} /\ rows \in 0..MaxRows
    OBVIOUS
  <2>. QED BY <2>1, <2>2, <2>3 DEF TypeOK
<1>2. Roles /\ Closing
  BY DEF Roles, Closing, ClosingSteps
<1>3. Counted /\ Apart /\ NotUploaded
  BY DEF Counted, Apart, NotUploaded
<1>. QED BY <1>1, <1>2, <1>3 DEF IInv

-----------------------------------------------------------------------------
(* Writers and blocks                                                      *)

LEMMA WriterSet ==
  ASSUME TypeOK, NEW p \in Processes, NEW i \in Threads, NEW w, SetWriter(p, i, w)
  PROVE  /\ DOMAIN writers' = Processes
         /\ \A q \in Processes \ {p} : writers'[q] = writers[q]
         /\ DOMAIN writers'[p] = DOMAIN writers[p] \cup {i}
         /\ writers'[p][i] = w
         /\ \A j \in DOMAIN writers[p] \ {i} : writers'[p][j] = writers[p][j]
<1>1. /\ DOMAIN writers' = Processes /\ writers'[p] = With(writers[p], i, w)
      /\ \A q \in Processes \ {p} : writers'[q] = writers[q]
  BY DEF SetWriter, TypeOK
<1>2. /\ DOMAIN With(writers[p], i, w) = DOMAIN writers[p] \cup {i}
      /\ With(writers[p], i, w)[i] = w
      /\ \A j \in DOMAIN writers[p] \ {i} : With(writers[p], i, w)[j] = writers[p][j]
  BY DEF With
<1>. QED BY <1>1, <1>2

LEMMA SetWriterTyped ==
  ASSUME TypeOK, NEW p \in Processes, NEW i \in Threads, NEW w \in BufferedWriter,
         SetWriter(p, i, w)
  PROVE  /\ DOMAIN writers' = Processes
         /\ \A q \in Processes :
              /\ DOMAIN writers'[q] \subseteq Threads
              /\ \A j \in DOMAIN writers'[q] : writers'[q][j] \in BufferedWriter
BY WriterSet DEF TypeOK

LEMMA RowsOfSeq ==
  ASSUME NEW S, NEW s \in Seq(S)
  PROVE  ToSet(s) \subseteq S
<1>1. \A k \in DOMAIN s : s[k] \in S
  OBVIOUS
<1>. QED BY <1>1 DEF ToSet

LEMMA BlockSet ==
  ASSUME NEW p \in Processes, NEW i, Uploaded(p, i)
  PROVE  /\ DOMAIN blocks' = DOMAIN blocks \cup {writers[p][i].block}
         /\ blocks'[writers[p][i].block] = ToSet(writers[p][i].rows)
         /\ \A b \in DOMAIN blocks \ {writers[p][i].block} : blocks'[b] = blocks[b]
BY DEF Uploaded, With

LEMMA UploadTyped ==
  ASSUME TypeOK, NEW p \in Processes, NEW i \in DOMAIN writers[p], Uploaded(p, i)
  PROVE  DOMAIN blocks' \subseteq Nat /\ \A b \in DOMAIN blocks' : blocks'[b] \subseteq 1..MaxRows
<1>0. DOMAIN blocks \subseteq Nat /\ \A b \in DOMAIN blocks : blocks[b] \subseteq 1..MaxRows
  BY DEF TypeOK
<1>1. writers[p][i].block \in Nat /\ writers[p][i].rows \in Seq(1..MaxRows)
  BY DEF TypeOK, BufferedWriter
<1>2. ToSet(writers[p][i].rows) \subseteq 1..MaxRows
  BY <1>1, RowsOfSeq
<1>3. /\ DOMAIN blocks' = DOMAIN blocks \cup {writers[p][i].block}
      /\ blocks'[writers[p][i].block] = ToSet(writers[p][i].rows)
      /\ \A b \in DOMAIN blocks \ {writers[p][i].block} : blocks'[b] = blocks[b]
  BY BlockSet
<1>4. DOMAIN blocks' \subseteq Nat
  BY <1>0, <1>1, <1>3
<1>5. ASSUME NEW b \in DOMAIN blocks' PROVE blocks'[b] \subseteq 1..MaxRows
  <2>1. CASE b = writers[p][i].block
    BY <1>2, <1>3, <2>1
  <2>2. CASE b # writers[p][i].block
    <3>1. b \in DOMAIN blocks /\ blocks'[b] = blocks[b]
      BY <1>3, <2>2
    <3>. QED BY <1>0, <3>1
  <2>. QED BY <2>1, <2>2
<1>. QED BY <1>4, <1>5

-----------------------------------------------------------------------------
(* Types                                                                   *)

WritersTyped ==
  /\ DOMAIN writers = Processes
  /\ \A p \in Processes :
       /\ DOMAIN writers[p] \subseteq Threads
       /\ \A i \in DOMAIN writers[p] : writers[p][i] \in BufferedWriter

FlagsTyped ==
  /\ willCommit \in [Processes -> BOOLEAN] /\ fixed \in [Processes -> BOOLEAN]
  /\ ownQueue \in [Processes -> BOOLEAN]
  /\ committed \in BOOLEAN /\ inherited \in BOOLEAN /\ adopted \in BOOLEAN /\ faulty \in BOOLEAN

StepsTyped ==
  /\ kind \in [Processes -> {"main", "unborn", "forked", "client", "gone"}]
  /\ pc \in [Actors -> {"idle", "ask", "upload", "close", "ask_in_close", "list",
                        "complete", "stop"}]
  /\ ended \in [Processes -> {"no", "ok", "raised"}]
  /\ server \in [Processes -> {"none", "up", "down"}]

BlocksTyped ==
  /\ known \in [Processes -> SUBSET Nat] /\ inQueue \in [Processes -> SUBSET Nat]
  /\ feeding \in [Processes -> SUBSET Nat] /\ shared \subseteq Nat
  /\ counter \in Nat \ {0}
  /\ DOMAIN blocks \subseteq Nat /\ \A b \in DOMAIN blocks : blocks[b] \subseteq 1..MaxRows

RowsTyped == rows \in 0..MaxRows /\ wrote \in [Processes -> SUBSET (1..MaxRows)]

LEMMA TypeParts ==
  TypeOK <=> WritersTyped /\ FlagsTyped /\ StepsTyped /\ BlocksTyped /\ RowsTyped
BY DEF TypeOK, WritersTyped, FlagsTyped, StepsTyped, BlocksTyped, RowsTyped

LEMMA FlagsStep ==
  ASSUME FlagsTyped, Next
  PROVE  FlagsTyped'
<1>. USE Sets DEF FlagsTyped
<1>1. ASSUME NEW c \in Children, Fork(c) PROVE FlagsTyped'
  <2>1. (inherited \/ writers[Main] # None) \in BOOLEAN
    OBVIOUS
  <2>. QED BY <1>1, <2>1 DEF Fork, service
<1>2. ASSUME NEW c \in Children, Pickle(c) PROVE FlagsTyped'
  <2>1. (adopted \/ blocks # None) \in BOOLEAN
    OBVIOUS
  <2>. QED BY <1>2, <2>1 DEF Pickle, service
<1>3. ASSUME NEW c \in Children, Exit(c) \/ Crash(c) PROVE FlagsTyped'
  BY <1>3 DEF Exit, Crash, Leaves, service
<1>4. ASSUME NEW a \in Actors, Write(a) PROVE FlagsTyped'
  <2>1. CommitsFixed(Process(a)) \in BOOLEAN
    BY DEF CommitsFixed
  <2>. QED BY <1>4, <2>1 DEF Write, queues, service
<1>5. ASSUME NEW c \in Children, BlockGiven(c) \/ Reported(c) PROVE FlagsTyped'
  BY <1>5 DEF BlockGiven, Reported, queues, service, history, object
<1>6. ASSUME NEW a \in Actors, Close(a) \/ Register(a) \/ List(a) \/ ListRaises(a) \/ Stop(a)
      PROVE  FlagsTyped'
  BY <1>6 DEF Close, Register, List, ListRaises, Stop, queues, service, history, object
<1>7. ASSUME NEW a \in Actors, Complete(a) \/ CompleteRaises(a) PROVE FlagsTyped'
  <2>1. (faulty \/ ~committed) \in BOOLEAN
    OBVIOUS
  <2>. QED BY <1>7, <2>1 DEF Complete, CompleteRaises, queues, history, object
<1>8. ASSUME NEW a \in Actors, NEW i \in DOMAIN writers[Process(a)], Upload(a, i) \/ UploadRaises(a, i)
      PROVE  FlagsTyped'
  <2>1. (faulty \/ ~committed) \in BOOLEAN
    OBVIOUS
  <2>. QED BY <1>8, <2>1 DEF Upload, UploadRaises, queues, history, object
<1>. QED
  BY <1>1, <1>2, <1>3, <1>4, <1>5, <1>6, <1>7, <1>8 DEF Next, Continue, ClientContinues

LEMMA StepsStep ==
  ASSUME StepsTyped, Next
  PROVE  StepsTyped'
<1>. USE Sets DEF StepsTyped
<1>1. ASSUME NEW c \in Children, Fork(c) \/ Pickle(c) \/ Exit(c) \/ Crash(c) PROVE StepsTyped'
  BY <1>1 DEF Fork, Pickle, Exit, Crash, Leaves, StartedServer
<1>2. ASSUME NEW a \in Actors, Write(a) PROVE StepsTyped'
  BY <1>2 DEF Write, Goto, AfterRow
<1>3. ASSUME NEW c \in Children, BlockGiven(c) \/ Reported(c) PROVE StepsTyped'
  BY <1>3 DEF BlockGiven, Reported, Goto, AfterRow
<1>4. ASSUME NEW a \in Actors,
             Close(a) \/ Register(a) \/ List(a) \/ ListRaises(a) \/ Complete(a) \/ CompleteRaises(a)
      PROVE  StepsTyped'
  <2>1. \E l \in {"idle", "close", "list", "complete", "stop"} : Goto(a, l)
    BY <1>4 DEF Close, Register, List, ListRaises, Complete, CompleteRaises, Finish
  <2>2. UNCHANGED ended \/ ended' = [ended EXCEPT ![Process(a)] = "raised"]
    BY <1>4 DEF Close, Register, List, ListRaises, Complete, CompleteRaises, Finish
  <2>3. UNCHANGED <<kind, server>>
    BY <1>4 DEF Close, Register, List, ListRaises, Complete, CompleteRaises
  <2>. QED BY <2>1, <2>2, <2>3 DEF Goto
<1>5. ASSUME NEW a \in Actors, Stop(a) PROVE StepsTyped'
  BY <1>5 DEF Stop, Goto, Finish
<1>6. ASSUME NEW a \in Actors, NEW i \in DOMAIN writers[Process(a)], Upload(a, i) \/ UploadRaises(a, i)
      PROVE  StepsTyped'
  BY <1>6 DEF Upload, UploadRaises, Goto, Finish
<1>. QED
  BY <1>1, <1>2, <1>3, <1>4, <1>5, <1>6 DEF Next, Continue, ClientContinues

LEMMA RowsStep ==
  ASSUME RowsTyped, Next
  PROVE  RowsTyped'
<1>. USE Sets, WriterAssumption DEF RowsTyped
<1>1. ASSUME NEW a \in Actors, Write(a) PROVE RowsTyped'
  <2>1. rows' = rows + 1 /\ rows < MaxRows
        /\ wrote' = [wrote EXCEPT ![Process(a)] = @ \cup {rows + 1}]
    BY <1>1 DEF Write
  <2>. QED BY <2>1
<1>2. CASE UNCHANGED <<rows, wrote>>
  BY <1>2
<1>3. UNCHANGED <<rows, wrote>> \/ \E a \in Actors : Write(a)
  BY DEF Next, Continue, ClientContinues, Fork, Pickle, Exit, Crash, Leaves, BlockGiven, Reported, Close,
     Register, List, ListRaises, Complete, CompleteRaises, Stop, Upload, UploadRaises, history
<1>. QED BY <1>1, <1>2, <1>3

LEMMA RowAppended ==
  ASSUME NEW w \in BufferedWriter, NEW r \in 1..MaxRows
  PROVE  [w EXCEPT !.rows = Append(@, r)] \in BufferedWriter
<1>1. w.rows \in Seq(1..MaxRows)
  BY DEF BufferedWriter
<1>2. Append(w.rows, r) \in Seq(1..MaxRows)
  BY <1>1
<1>. QED BY <1>2 DEF BufferedWriter

LEMMA WritersStep ==
  ASSUME TypeOK, Roles, Next
  PROVE  WritersTyped'
<1>. USE Sets, TypeParts DEF WritersTyped
<1>0. counter \in Nat \ {0} /\ rows + 1 \in Nat
  BY DEF BlocksTyped, RowsTyped
<1>1. ASSUME NEW c \in Children, Fork(c) PROVE WritersTyped'
  BY <1>1 DEF Fork
<1>2. ASSUME NEW c \in Children, Exit(c) \/ Crash(c) PROVE WritersTyped'
  BY <1>2, NoneIsEmpty DEF Exit, Crash, Leaves
<1>3. ASSUME NEW a \in Actors, Write(a) PROVE WritersTyped'
  <2>. DEFINE p == Process(a)
              i == Ident(a)
              w == IF i \in DOMAIN writers[p]
                   THEN [writers[p][i] EXCEPT !.rows = Append(@, rows + 1)]
                   ELSE [block |-> NextBlock(p), rows |-> <<rows + 1>>, done |-> {}]
  <2>1. rows + 1 \in 1..MaxRows
    BY <1>3, WriterAssumption DEF Write, RowsTyped
  <2>2. w \in BufferedWriter
    <3>1. CASE i \in DOMAIN writers[p]
      BY <2>1, <3>1, RowAppended
    <3>2. CASE i \notin DOMAIN writers[p]
      BY <1>0, <2>1, <3>2 DEF BufferedWriter, NextBlock, NoBlock
    <3>. QED BY <3>1, <3>2
  <2>3. SetWriter(p, i, w)
    BY <1>3 DEF Write
  <2>. HIDE DEF w
  <2>. QED BY <2>2, <2>3, SetWriterTyped
<1>4. ASSUME NEW c \in Children, BlockGiven(c) PROVE WritersTyped'
  <2>1. MainThread \in DOMAIN writers[c]
    BY <1>4 DEF BlockGiven, Roles
  <2>2. [writers[c][MainThread] EXCEPT !.block = counter] \in BufferedWriter
    BY <1>0, <2>1 DEF BufferedWriter
  <2>3. SetWriter(c, MainThread, [writers[c][MainThread] EXCEPT !.block = counter])
    BY <1>4 DEF BlockGiven
  <2>. QED BY <2>2, <2>3, SetWriterTyped
<1>5. ASSUME NEW a \in Actors, NEW i \in DOMAIN writers[Process(a)], Upload(a, i) PROVE WritersTyped'
  <2>. DEFINE p == Process(a)
              w == [block |-> Following(p, writers[p][i]), rows |-> <<>>,
                    done |-> writers[p][i].done \cup {writers[p][i].block}]
  <2>1. writers[p][i] \in BufferedWriter /\ Following(p, writers[p][i]) \in Nat
    BY <1>0 DEF Following, NextBlock, NoBlock
  <2>2. w \in BufferedWriter
    BY <2>1 DEF BufferedWriter
  <2>3. SetWriter(p, i, w)
    BY <1>5 DEF Upload
  <2>. HIDE DEF w
  <2>. QED BY <2>2, <2>3, SetWriterTyped
<1>6. CASE UNCHANGED writers
  BY <1>6
<1>7. \/ UNCHANGED writers
      \/ \E c \in Children : Fork(c) \/ Exit(c) \/ Crash(c) \/ BlockGiven(c)
      \/ \E a \in Actors : Write(a) \/ \E i \in DOMAIN writers[Process(a)] : Upload(a, i)
  BY DEF Next, Continue, ClientContinues, Pickle, Reported, Close, Register, List, ListRaises, Complete,
     CompleteRaises, Stop, UploadRaises, object
<1>. QED BY <1>1, <1>2, <1>3, <1>4, <1>5, <1>6, <1>7

LEMMA BlocksStep ==
  ASSUME TypeOK, Next
  PROVE  BlocksTyped'
<1>. USE Sets, TypeParts DEF BlocksTyped
<1>0. \A p \in Processes : Written(p) \subseteq Nat
  BY DEF Written, WritersTyped, BufferedWriter
<1>1. /\ known' \in [Processes -> SUBSET Nat] /\ feeding' \in [Processes -> SUBSET Nat]
      /\ inQueue' \in [Processes -> SUBSET Nat] /\ shared' \subseteq Nat
  <2>1. ASSUME NEW c \in Children, Fork(c) \/ Pickle(c) \/ Exit(c) \/ Crash(c)
        PROVE  /\ known' \in [Processes -> SUBSET Nat] /\ feeding' \in [Processes -> SUBSET Nat]
               /\ inQueue' \in [Processes -> SUBSET Nat] /\ shared' \subseteq Nat
    BY <2>1 DEF Fork, Pickle, Exit, Crash, Leaves
  <2>2. ASSUME NEW c \in Children, Reported(c)
        PROVE  /\ known' \in [Processes -> SUBSET Nat] /\ feeding' \in [Processes -> SUBSET Nat]
               /\ inQueue' \in [Processes -> SUBSET Nat] /\ shared' \subseteq Nat
    BY <1>0, <2>2 DEF Reported, object
  <2>3. ASSUME NEW a \in Actors, Register(a)
        PROVE  /\ known' \in [Processes -> SUBSET Nat] /\ feeding' \in [Processes -> SUBSET Nat]
               /\ inQueue' \in [Processes -> SUBSET Nat] /\ shared' \subseteq Nat
    BY <1>0, <2>3 DEF Register, object
  <2>4. ASSUME NEW a \in Actors, List(a) \/ ListRaises(a)
        PROVE  /\ known' \in [Processes -> SUBSET Nat] /\ feeding' \in [Processes -> SUBSET Nat]
               /\ inQueue' \in [Processes -> SUBSET Nat] /\ shared' \subseteq Nat
    BY <2>4 DEF List, ListRaises, object
  <2>5. CASE UNCHANGED <<known, feeding, inQueue, shared>>
    BY <2>5
  <2>6. \/ UNCHANGED <<known, feeding, inQueue, shared>>
        \/ \E c \in Children : Fork(c) \/ Pickle(c) \/ Exit(c) \/ Crash(c) \/ Reported(c)
        \/ \E a \in Actors : Register(a) \/ List(a) \/ ListRaises(a)
    BY DEF Next, Continue, ClientContinues, BlockGiven, Write, Close, Complete, CompleteRaises, Stop,
       Upload, UploadRaises, object, queues
  <2>. QED BY <2>1, <2>2, <2>3, <2>4, <2>5, <2>6
<1>2. counter' \in Nat \ {0}
  <2>1. counter' \in {counter, counter + 1}
    BY DEF Next, Continue, ClientContinues, Fork, Pickle, Exit, Crash, Leaves, Write, CounterMoves,
       BlockGiven, Reported, Close, Register, List, ListRaises, Complete, CompleteRaises, Stop,
       Upload, UploadRaises
  <2>. QED BY <2>1
<1>3. DOMAIN blocks' \subseteq Nat /\ \A b \in DOMAIN blocks' : blocks'[b] \subseteq 1..MaxRows
  <2>1. \/ UNCHANGED blocks
        \/ \E a \in Actors : \E i \in DOMAIN writers[Process(a)] : Uploaded(Process(a), i)
    BY DEF Next, Continue, ClientContinues, Fork, Pickle, Exit, Crash, Leaves, Write,
       BlockGiven, Reported, Close, Register, List, ListRaises, Complete, CompleteRaises, Stop,
       Upload, UploadRaises, service
  <2>2. CASE UNCHANGED blocks
    BY <2>2
  <2>3. ASSUME NEW a \in Actors, NEW i \in DOMAIN writers[Process(a)], Uploaded(Process(a), i)
        PROVE  DOMAIN blocks' \subseteq Nat /\ \A b \in DOMAIN blocks' : blocks'[b] \subseteq 1..MaxRows
    BY <2>3, UploadTyped
  <2>. QED BY <2>1, <2>2, <2>3
<1>. QED BY <1>1, <1>2, <1>3

LEMMA TypeStep ==
  ASSUME TypeOK, Roles, Next
  PROVE  TypeOK'
BY TypeParts, WritersStep, FlagsStep, StepsStep, BlocksStep, RowsStep
DEF TypeOK, WritersTyped, FlagsTyped, StepsTyped, BlocksTyped, RowsTyped

-----------------------------------------------------------------------------
(* Roles                                                                   *)

LEMMA OneActor ==
  ASSUME NEW c \in Children, NEW a \in Actors, Process(a) = c
  PROVE  a = c
BY Sets DEF Process

\* Who changes the writers of a process has it run, or is in a call of it.
LEMMA WritersMove ==
  ASSUME TypeOK, Next, NEW p \in Processes, writers'[p] # writers[p]
  PROVE  \/ p \in Children /\ Fork(p)
         \/ p \in Children /\ (Exit(p) \/ Crash(p))
         \/ p \in Children /\ BlockGiven(p)
         \/ \E a \in Actors : p = Process(a) /\ Write(a)
         \/ \E a \in Actors, i \in DOMAIN writers[p] : p = Process(a) /\ Upload(a, i)
<1>. USE Sets
<1>1. DOMAIN writers = Processes
  BY DEF TypeOK
<1>2. ASSUME NEW c \in Children, Fork(c) PROVE p = c
  BY <1>1, <1>2 DEF Fork
<1>3. ASSUME NEW c \in Children, Exit(c) \/ Crash(c) PROVE p = c
  BY <1>1, <1>3 DEF Exit, Crash, Leaves
<1>4. ASSUME NEW c \in Children, BlockGiven(c) PROVE p = c
  BY <1>1, <1>4 DEF BlockGiven, SetWriter
<1>5. ASSUME NEW a \in Actors, Write(a) PROVE p = Process(a)
  BY <1>1, <1>5 DEF Write, SetWriter
<1>6. ASSUME NEW a \in Actors, NEW i \in DOMAIN writers[Process(a)], Upload(a, i) PROVE p = Process(a)
  BY <1>1, <1>6 DEF Upload, SetWriter
<1>7. \/ UNCHANGED writers
      \/ \E c \in Children : Fork(c) \/ Exit(c) \/ Crash(c) \/ BlockGiven(c)
      \/ \E a \in Actors : Write(a) \/ \E i \in DOMAIN writers[Process(a)] : Upload(a, i)
  BY DEF Next, Continue, ClientContinues, Pickle, Reported, Close, Register, List, ListRaises, Complete,
     CompleteRaises, Stop, UploadRaises, object
<1>. QED BY <1>2, <1>3, <1>4, <1>5, <1>6, <1>7

\* Unless it is made or left, a process keeps its writers' places.
LEMMA PlacesStay ==
  ASSUME TypeOK, Roles, Next, NEW p \in Processes, NEW i \in DOMAIN writers[p], i \notin DOMAIN writers'[p]
  PROVE  p \in Children /\ (kind[p] = "unborn" \/ pc'[p] = "idle")
<1>. USE Sets
<1>1. CASE p \in Children /\ Fork(p)
  BY <1>1 DEF Fork
<1>2. CASE p \in Children /\ (Exit(p) \/ Crash(p))
  BY <1>2 DEF Exit, Crash, Leaves, TypeOK
<1>3. ASSUME p \in Children, BlockGiven(p) PROVE FALSE
  BY <1>3, WriterSet DEF BlockGiven
<1>4. ASSUME NEW a \in Actors, p = Process(a), Write(a) PROVE FALSE
  BY <1>4, WriterSet DEF Write
<1>5. ASSUME NEW a \in Actors, NEW j \in DOMAIN writers[p], p = Process(a), Upload(a, j) PROVE FALSE
  <2>1. j \in Threads
    BY DEF TypeOK
  <2>. QED BY <1>5, <2>1, WriterSet DEF Upload
<1>. QED BY <1>1, <1>2, <1>3, <1>4, <1>5, WritersMove

\* Which steps make an actor wait for a block.
LEMMA AskedBy ==
  ASSUME TypeOK, Next, NEW a \in Actors, pc'[a] # pc[a]
  PROVE  /\ pc'[a] = "ask" =>
              \/ Write(a)
              \/ \E i \in DOMAIN writers[Process(a)] : Upload(a, i) /\ i = Ident(a)
         /\ pc'[a] = "ask_in_close" =>
              \E i \in DOMAIN writers[Process(a)] : Upload(a, i) /\ ~Local(Process(a))
<1>. USE Sets
<1>0. DOMAIN pc = Actors
  BY DEF TypeOK
<1>1. ASSUME NEW c \in Children, Fork(c) \/ Pickle(c) PROVE FALSE
  BY <1>1 DEF Fork, Pickle
<1>2. ASSUME NEW c \in Children, Exit(c) \/ Crash(c) PROVE pc'[a] = "idle"
  BY <1>0, <1>2 DEF Exit, Crash, Leaves
<1>3. ASSUME NEW b \in Actors, Write(b) PROVE a = b /\ pc'[a] # "ask_in_close"
  BY <1>0, <1>3 DEF Write, Goto, AfterRow
<1>4. ASSUME NEW c \in Children, BlockGiven(c) \/ Reported(c)
      PROVE  pc'[a] \notin {"ask", "ask_in_close"}
  BY <1>0, <1>4 DEF BlockGiven, Reported, Goto, AfterRow
<1>5. ASSUME NEW b \in Actors,
             \/ Close(b) \/ Register(b) \/ List(b) \/ ListRaises(b)
             \/ Complete(b) \/ CompleteRaises(b) \/ Stop(b)
      PROVE  pc'[a] \notin {"ask", "ask_in_close"}
  BY <1>0, <1>5 DEF Close, Register, List, ListRaises, Complete, CompleteRaises, Stop, Goto, Finish
<1>6. ASSUME NEW b \in Actors, NEW i \in DOMAIN writers[Process(b)], UploadRaises(b, i)
      PROVE  pc'[a] = "idle"
  BY <1>0, <1>6 DEF UploadRaises, Goto, Finish
<1>7. ASSUME NEW b \in Actors, NEW i \in DOMAIN writers[Process(b)], Upload(b, i)
      PROVE  /\ a = b
             /\ pc'[a] = "ask" => i = Ident(a)
             /\ pc'[a] = "ask_in_close" => ~Local(Process(a))
  BY <1>0, <1>7 DEF Upload, Sends, Goto
<1>. QED
  BY <1>1, <1>2, <1>3, <1>4, <1>5, <1>6, <1>7 DEF Next, Continue, ClientContinues

LEMMA RolesStep ==
  ASSUME TypeOK, Roles, Next
  PROVE  Roles'
<1>. USE Sets
<1>0. TypeOK' /\ DOMAIN kind = Processes /\ DOMAIN pc = Actors
  BY TypeStep DEF TypeOK
<1>1. kind'[Main] = "main"
  BY <1>0 DEF Roles, Next, Continue, ClientContinues, Fork, Pickle, Exit, Crash, Leaves, Write,
     BlockGiven, Reported, Close, Register, List, ListRaises, Complete, CompleteRaises, Stop,
     Upload, UploadRaises
<1>2. ASSUME NEW c \in Children
      PROVE  \/ kind'[c] = kind[c]
             \/ kind[c] = "unborn" /\ Fork(c) /\ kind'[c] = "forked"
             \/ kind[c] = "unborn" /\ Pickle(c) /\ kind'[c] = "client"
             \/ (Exit(c) \/ Crash(c)) /\ kind'[c] = "gone"
  <2>1. \/ UNCHANGED kind
        \/ \E d \in Children : Fork(d) \/ Pickle(d) \/ Exit(d) \/ Crash(d)
    BY DEF Next, Continue, ClientContinues, Write, BlockGiven, Reported, Close, Register, List,
       ListRaises, Complete, CompleteRaises, Stop, Upload, UploadRaises
  <2>2. ASSUME NEW d \in Children, Fork(d)
        PROVE  kind'[c] = kind[c] \/ (d = c /\ kind[c] = "unborn" /\ kind'[c] = "forked")
    BY <1>0, <2>2 DEF Fork
  <2>3. ASSUME NEW d \in Children, Pickle(d)
        PROVE  kind'[c] = kind[c] \/ (d = c /\ kind[c] = "unborn" /\ kind'[c] = "client")
    BY <1>0, <2>3 DEF Pickle
  <2>4. ASSUME NEW d \in Children, Exit(d) \/ Crash(d)
        PROVE  kind'[c] = kind[c] \/ (d = c /\ kind'[c] = "gone")
    BY <1>0, <2>4 DEF Exit, Crash, Leaves
  <2>. QED BY <2>1, <2>2, <2>3, <2>4
<1>3. ASSUME NEW c \in Children, kind[c] \in {"unborn", "gone"}, writers'[c] # writers[c]
      PROVE  Fork(c)
  <2>1. DOMAIN writers[c] = {}
    BY <1>3, NoneIsEmpty DEF Roles
  <2>2. ~(Exit(c) \/ Crash(c))
    BY <1>3 DEF Exit, Crash
  <2>3. ~BlockGiven(c)
    BY <2>1 DEF BlockGiven, Roles
  <2>4. ASSUME NEW a \in Actors, c = Process(a), Write(a) PROVE FALSE
    BY <1>3, <2>4 DEF Write, CanCall
  <2>. QED BY <1>3, <2>1, <2>2, <2>3, <2>4, WritersMove
<1>4. ASSUME NEW c \in Children, kind'[c] \in {"unborn", "gone"}
      PROVE  writers'[c] = None
  <2>1. CASE Exit(c) \/ Crash(c)
    BY <2>1 DEF Exit, Crash, Leaves, TypeOK
  <2>2. CASE kind'[c] = kind[c] /\ ~Fork(c)
    BY <1>3, <1>4, <2>2 DEF Roles
  <2>3. Fork(c) => kind'[c] = "forked"
    BY <1>0 DEF Fork
  <2>. QED BY <1>2, <1>4, <2>1, <2>2, <2>3
<1>5. ASSUME NEW c \in Children, kind'[c] = "client"
      PROVE  DOMAIN writers'[c] \subseteq {MainThread}
  <2>1. CASE Pickle(c)
    BY <2>1, NoneIsEmpty DEF Pickle, Roles
  <2>2. ASSUME kind[c] = "client", writers'[c] # writers[c]
        PROVE  DOMAIN writers'[c] \subseteq DOMAIN writers[c] \cup {MainThread}
    <3>1. ~Fork(c)
      BY <2>2 DEF Fork
    <3>2. ~(Exit(c) \/ Crash(c))
      BY <1>0, <1>5 DEF Exit, Crash, Leaves
    <3>3. CASE BlockGiven(c)
      BY <3>3, WriterSet DEF BlockGiven
    <3>4. ASSUME NEW a \in Actors, c = Process(a), Write(a)
          PROVE  DOMAIN writers'[c] \subseteq DOMAIN writers[c] \cup {MainThread}
      <4>1. a = c
        BY <3>4, OneActor
      <4>. QED BY <3>4, <4>1, WriterSet DEF Write
    <3>5. ASSUME NEW a \in Actors, NEW j \in DOMAIN writers[c], c = Process(a), Upload(a, j)
          PROVE  DOMAIN writers'[c] \subseteq DOMAIN writers[c] \cup {MainThread}
      <4>1. j \in Threads
        BY DEF TypeOK
      <4>. QED BY <3>5, <4>1, WriterSet DEF Upload
    <3>. QED BY <2>2, <3>1, <3>2, <3>3, <3>4, <3>5, WritersMove
  <2>3. CASE kind[c] = "client"
    BY <2>2, <2>3 DEF Roles
  <2>. QED BY <1>2, <1>5, <2>1, <2>3
<1>6. ASSUME NEW a \in Actors, pc'[a] = "ask"
      PROVE  Ident(a) \in DOMAIN writers'[Process(a)]
  <2>1. CASE pc[a] = "ask"
    <3>1. Ident(a) \in DOMAIN writers[Process(a)]
      BY <2>1 DEF Roles
    <3>2. CASE Process(a) \in Children
      <4>1. kind[Process(a)] # "unborn"
        BY <3>1, <3>2, NoneIsEmpty DEF Roles
      <4>2. pc'[Process(a)] # "idle"
        BY <1>6, <3>2, OneActor
      <4>. QED BY <3>1, <4>1, <4>2, PlacesStay
    <3>3. CASE Process(a) \notin Children
      BY <3>1, <3>3, PlacesStay
    <3>. QED BY <3>2, <3>3
  <2>2. CASE pc[a] # "ask"
    <3>1. \/ Write(a)
          \/ \E i \in DOMAIN writers[Process(a)] : Upload(a, i) /\ i = Ident(a)
      BY <1>6, <2>2, AskedBy
    <3>2. CASE Write(a)
      BY <3>2, WriterSet DEF Write
    <3>3. ASSUME NEW i \in DOMAIN writers[Process(a)], Upload(a, i), i = Ident(a)
          PROVE  Ident(a) \in DOMAIN writers'[Process(a)]
      BY <3>3, WriterSet DEF Upload
    <3>. QED BY <3>1, <3>2, <3>3
  <2>. QED BY <2>1, <2>2
<1>7. ASSUME NEW c \in Children, pc'[c] = "ask_in_close"
      PROVE  MainThread \in DOMAIN writers'[c]
  <2>1. CASE pc[c] = "ask_in_close"
    <3>1. MainThread \in DOMAIN writers[c] /\ kind[c] # "unborn"
      BY <2>1, NoneIsEmpty DEF Roles
    <3>. QED BY <1>7, <3>1, PlacesStay
  <2>2. CASE pc[c] # "ask_in_close"
    <3>1. \E i \in DOMAIN writers[c] : Upload(c, i) /\ ~Local(c)
      BY <1>7, <2>2, AskedBy
    <3>2. PICK i \in DOMAIN writers[c] : Upload(c, i) /\ ~Local(c)
      BY <3>1
    <3>3. kind[c] = "client"
      BY <3>2, NoneIsEmpty DEF Local, Roles, TypeOK
    <3>4. i = MainThread
      BY <3>2, <3>3 DEF Roles
    <3>. QED BY <3>2, <3>4, WriterSet DEF Upload
  <2>. QED BY <2>1, <2>2
<1>. QED BY <1>1, <1>4, <1>5, <1>6, <1>7 DEF Roles

-----------------------------------------------------------------------------
(* Closing                                                                 *)

\* An actor goes on with its call, or ends it.
LEMMA GoesOn ==
  ASSUME TypeOK, Closing, NEW x \in Actors, NEW l,
         pc[x] # "idle", Goto(x, l),
         l \in ClosingSteps => pc[x] \in ClosingSteps,
         l = "ask_in_close" => x \notin Threads,
         \/ UNCHANGED ended
         \/ l = "idle" /\ \E how \in {"ok", "raised"} : ended' = [ended EXCEPT ![Process(x)] = how]
  PROVE  Closing'
<1>. USE Sets
<1>0. /\ DOMAIN pc = Actors /\ DOMAIN ended = Processes
      /\ pc'[x] = l /\ \A b \in Actors \ {x} : pc'[b] = pc[b]
  BY DEF TypeOK, Goto
<1>. SUFFICES ASSUME NEW a \in Actors, pc'[a] \in ClosingSteps
              PROVE  /\ ended'[Process(a)] = "no"
                     /\ a \in Threads => a = MainThread /\ pc'[a] # "ask_in_close"
                     /\ \A b \in Actors \ {a} : Process(b) = Process(a) => pc'[b] = "idle"
  BY DEF Closing
<1>1. CASE a = x
  <2>1. l \in ClosingSteps /\ pc[x] \in ClosingSteps /\ UNCHANGED ended
    BY <1>0, <1>1 DEF ClosingSteps
  <2>. QED BY <1>0, <1>1, <2>1 DEF Closing
<1>2. CASE a # x
  <2>1. pc[a] = pc'[a] /\ pc[a] \in ClosingSteps
    BY <1>0, <1>2
  <2>2. Process(x) # Process(a)
    BY <1>2, <2>1 DEF Closing
  <2>3. ended'[Process(a)] = ended[Process(a)]
    BY <1>0, <2>2
  <2>. QED BY <1>0, <2>1, <2>2, <2>3 DEF Closing
<1>. QED BY <1>1, <1>2

LEMMA ClosingStep ==
  ASSUME TypeOK, Roles, Closing, Next
  PROVE  Closing'
<1>. USE Sets
<1>0. DOMAIN pc = Actors /\ kind[Main] = "main"
  BY DEF TypeOK, Roles
<1>1. ASSUME NEW c \in Children, Fork(c) \/ Pickle(c) PROVE Closing'
  BY <1>1 DEF Fork, Pickle, Closing
<1>2. ASSUME NEW c \in Children, Exit(c) \/ Crash(c) PROVE Closing'
  <2>1. UNCHANGED ended /\ pc'[c] = "idle" /\ \A a \in Actors \ {c} : pc'[a] = pc[a]
    BY <1>0, <1>2 DEF Exit, Crash, Leaves
  <2>. QED BY <2>1 DEF Closing, ClosingSteps
<1>3. ASSUME NEW x \in Actors, Write(x) PROVE Closing'
  <2>1. /\ UNCHANGED ended /\ pc'[x] \notin ClosingSteps /\ pc[x] = "idle"
        /\ \A a \in Actors \ {x} : pc'[a] = pc[a]
    BY <1>0, <1>3 DEF Write, Goto, AfterRow, ClosingSteps, CanCall
  <2>2. x \in Threads => pc[MainThread] \notin {"close", "list", "complete", "stop"}
    BY <1>3 DEF Write, MainCloses
  <2>3. ASSUME NEW a \in Actors, pc'[a] \in ClosingSteps PROVE Process(a) # Process(x)
    <3>1. a # x /\ pc[a] \in ClosingSteps
      BY <2>1, <2>3
    <3>2. CASE a \in Threads
      <4>1. a = MainThread /\ pc[a] \in {"close", "list", "complete", "stop"}
        BY <3>1, <3>2 DEF Closing, ClosingSteps
      <4>. QED BY <2>2, <3>2, <4>1 DEF Process, Actors
    <3>3. CASE a \in Children
      BY <3>1, <3>3, OneActor
    <3>. QED BY <3>2, <3>3 DEF Actors
  <2>. QED BY <2>1, <2>3 DEF Closing
<1>4. ASSUME NEW x \in Actors, Close(x) PROVE Closing'
  <2>1. /\ UNCHANGED ended /\ pc'[x] = "close" /\ ended[Process(x)] = "no"
        /\ \A a \in Actors \ {x} : pc'[a] = pc[a]
    BY <1>0, <1>4 DEF Close, Goto, CanCall
  <2>2. x \in Threads => x = MainThread
    BY <1>4, WriterAssumption DEF Close
  <2>3. ASSUME NEW b \in Actors \ {x}, Process(b) = Process(x) PROVE pc[b] = "idle" /\ pc'[b] = "idle"
    <3>1. x \in Threads
      BY <2>3, OneActor DEF Actors
    <3>2. b \in Threads
      BY <2>3, <3>1 DEF Actors
    <3>. QED BY <1>4, <2>1, <2>2, <3>1, <3>2 DEF Close
  <2>. QED BY <2>1, <2>2, <2>3 DEF Closing, ClosingSteps
<1>5. ASSUME NEW c \in Children, BlockGiven(c) PROVE Closing'
  <2>1. /\ pc[c] # "idle" /\ UNCHANGED ended
        /\ \E l \in {"idle", "upload"} \cup (IF pc[c] = "ask_in_close" THEN {"close"} ELSE {}) : Goto(c, l)
    BY <1>5 DEF BlockGiven, AfterRow
  <2>. QED BY <2>1, GoesOn DEF ClosingSteps
<1>6. ASSUME NEW c \in Children, Reported(c) PROVE Closing'
  BY <1>6, GoesOn DEF Reported, ClosingSteps
<1>7. ASSUME NEW x \in Actors, Register(x) \/ Complete(x) PROVE Closing'
  BY <1>7, GoesOn DEF Register, Complete, ClosingSteps
<1>8. ASSUME NEW x \in Actors, List(x) PROVE Closing'
  BY <1>8, GoesOn DEF List, Finish, ClosingSteps
<1>9. ASSUME NEW x \in Actors, ListRaises(x) \/ CompleteRaises(x) \/ Stop(x) PROVE Closing'
  BY <1>9, GoesOn DEF ListRaises, CompleteRaises, Stop, Finish, ClosingSteps
<1>10. ASSUME NEW x \in Actors, NEW i \in DOMAIN writers[Process(x)], UploadRaises(x, i) PROVE Closing'
  BY <1>10, GoesOn DEF UploadRaises, Sends, Finish, ClosingSteps
<1>11. ASSUME NEW x \in Actors, NEW i \in DOMAIN writers[Process(x)], Upload(x, i) PROVE Closing'
  <2>1. /\ pc[x] \in {"upload", "close"} /\ UNCHANGED ended
        /\ pc[x] = "upload" => \E l \in {"idle", "ask"} : Goto(x, l)
        /\ pc[x] = "close" => Goto(x, "close") \/ (~Local(Process(x)) /\ Goto(x, "ask_in_close"))
    BY <1>11 DEF Upload, Sends
  <2>2. x \in Threads => Local(Process(x))
    BY <1>0 DEF Local
  <2>. QED BY <2>1, <2>2, GoesOn DEF ClosingSteps
<1>. QED
  BY <1>1, <1>2, <1>3, <1>4, <1>5, <1>6, <1>7, <1>8, <1>9, <1>10, <1>11 DEF Next, Continue, ClientContinues

-----------------------------------------------------------------------------
(* Blocks                                                                  *)

Same(p, i) == i \in DOMAIN writers[p] /\ writers'[p][i].block = writers[p][i].block

\* The only writer that gets a block in this step.
OnlyNew(p, i) ==
  /\ counter' = counter + 1 /\ writers'[p][i].block = counter
  /\ \A q \in Processes : \A j \in DOMAIN writers'[q] : q # p \/ j # i => Same(q, j)

\* Where the block of a writer comes from.
LEMMA BlockFrom ==
  ASSUME TypeOK, Roles, Next, NEW p \in Processes, NEW i \in DOMAIN writers'[p]
  PROVE  \/ Same(p, i)
         \/ (inherited' /\ i \in DOMAIN writers[Main] /\ writers'[p][i].block = writers[Main][i].block)
         \/ writers'[p][i].block = NoBlock
         \/ OnlyNew(p, i)
<1>. USE Sets
<1>0. /\ DOMAIN writers = Processes /\ \A q \in Processes : DOMAIN writers[q] \subseteq Threads
      /\ \A q \in Processes : \A j \in DOMAIN writers[q] : writers[q][j] \in BufferedWriter
  BY DEF TypeOK
<1>1. ASSUME p \in Children, Fork(p)
      PROVE  inherited' /\ i \in DOMAIN writers[Main] /\ writers'[p][i].block = writers[Main][i].block
  <2>1. writers'[p] = writers[Main]
    BY <1>0, <1>1 DEF Fork
  <2>2. writers[Main] # None
    BY <2>1, NoneIsEmpty
  <2>. QED BY <1>1, <2>1, <2>2 DEF Fork
<1>2. ASSUME p \in Children, Exit(p) \/ Crash(p) PROVE FALSE
  BY <1>0, <1>2, NoneIsEmpty DEF Exit, Crash, Leaves
<1>3. ASSUME p \in Children, BlockGiven(p) PROVE Same(p, i) \/ OnlyNew(p, i)
  <2>. DEFINE w == [writers[p][MainThread] EXCEPT !.block = counter]
  <2>1. SetWriter(p, MainThread, w) /\ counter' = counter + 1
    BY <1>3 DEF BlockGiven
  <2>2. MainThread \in DOMAIN writers[p]
    BY <1>3 DEF BlockGiven, Roles
  <2>3. w.block = counter
    BY <1>0, <2>2 DEF BufferedWriter
  <2>. HIDE DEF w
  <2>4. /\ DOMAIN writers'[p] = DOMAIN writers[p] \cup {MainThread}
        /\ writers'[p][MainThread] = w
        /\ \A q \in Processes \ {p} : writers'[q] = writers[q]
        /\ \A j \in DOMAIN writers[p] \ {MainThread} : writers'[p][j] = writers[p][j]
    BY <2>1, WriterSet
  <2>. QED BY <2>1, <2>3, <2>4 DEF Same, OnlyNew
<1>4. ASSUME NEW a \in Actors, p = Process(a), Write(a)
      PROVE  Same(p, i) \/ writers'[p][i].block = NoBlock \/ OnlyNew(p, i)
  <2>. DEFINE k == Ident(a)
              w == IF k \in DOMAIN writers[p]
                   THEN [writers[p][k] EXCEPT !.rows = Append(@, rows + 1)]
                   ELSE [block |-> NextBlock(p), rows |-> <<rows + 1>>, done |-> {}]
  <2>1. SetWriter(p, k, w)
    BY <1>4 DEF Write
  <2>2. \/ k \in DOMAIN writers[p] /\ w.block = writers[p][k].block
        \/ w.block = NoBlock
        \/ w.block = counter /\ counter' = counter + 1
    <3>1. CASE k \in DOMAIN writers[p]
      BY <1>0, <3>1 DEF BufferedWriter
    <3>2. CASE k \notin DOMAIN writers[p]
      <4>1. w.block = NextBlock(p)
        BY <3>2
      <4>2. CounterMoves(p)
        BY <1>4, <3>2 DEF Write
      <4>. QED BY <4>1, <4>2 DEF NextBlock, CounterMoves
    <3>. QED BY <3>1, <3>2
  <2>. HIDE DEF w
  <2>3. /\ DOMAIN writers'[p] = DOMAIN writers[p] \cup {k}
        /\ writers'[p][k] = w
        /\ \A q \in Processes \ {p} : writers'[q] = writers[q]
        /\ \A j \in DOMAIN writers[p] \ {k} : writers'[p][j] = writers[p][j]
    BY <2>1, WriterSet
  <2>. QED BY <2>2, <2>3 DEF Same, OnlyNew
<1>5. ASSUME NEW a \in Actors, NEW k \in DOMAIN writers[p], p = Process(a), Upload(a, k)
      PROVE  Same(p, i) \/ writers'[p][i].block = NoBlock \/ OnlyNew(p, i)
  <2>. DEFINE w == [block |-> Following(p, writers[p][k]), rows |-> <<>>,
                    done |-> writers[p][k].done \cup {writers[p][k].block}]
  <2>1. SetWriter(p, k, w) /\ CounterMoves(p)
    BY <1>5 DEF Upload
  <2>2. w.block = NoBlock \/ (w.block = counter /\ counter' = counter + 1)
    BY <2>1 DEF NextBlock, CounterMoves, Following
  <2>. HIDE DEF w
  <2>3. /\ DOMAIN writers'[p] = DOMAIN writers[p] \cup {k}
        /\ writers'[p][k] = w
        /\ \A q \in Processes \ {p} : writers'[q] = writers[q]
        /\ \A j \in DOMAIN writers[p] \ {k} : writers'[p][j] = writers[p][j]
    BY <1>0, <2>1, WriterSet
  <2>. QED BY <2>2, <2>3 DEF Same, OnlyNew
<1>6. CASE writers'[p] = writers[p]
  BY <1>6 DEF Same
<1>. QED BY <1>1, <1>2, <1>3, <1>4, <1>5, <1>6, WritersMove

LEMMA CounterGrows ==
  ASSUME Next
  PROVE  counter' \in {counter, counter + 1}
BY DEF Next, Continue, ClientContinues, Fork, Pickle, Exit, Crash, Leaves, Write, CounterMoves,
   BlockGiven, Reported, Close, Register, List, ListRaises, Complete, CompleteRaises, Stop,
   Upload, UploadRaises

\* Only an upload changes the blocks of the service; its writer is then given
\* another block, or its process has raised.
LEMMA BlocksGrow ==
  ASSUME TypeOK, Next
  PROVE  \/ UNCHANGED blocks
         \/ \E a \in Actors : \E i \in DOMAIN writers[Process(a)] :
              /\ DOMAIN blocks' = DOMAIN blocks \cup {writers[Process(a)][i].block}
              /\ \/ ended'[Process(a)] = "raised"
                 \/ writers'[Process(a)][i].block \in {NoBlock, counter}
<1>. USE Sets
<1>1. \/ UNCHANGED blocks
      \/ \E a \in Actors : \E i \in DOMAIN writers[Process(a)] : Upload(a, i) \/ UploadRaises(a, i)
  BY DEF Next, Continue, ClientContinues, Fork, Pickle, Exit, Crash, Leaves, Write,
     BlockGiven, Reported, Close, Register, List, ListRaises, Complete, CompleteRaises, Stop, service
<1>2. ASSUME NEW a \in Actors, NEW i \in DOMAIN writers[Process(a)], Upload(a, i)
      PROVE  /\ DOMAIN blocks' = DOMAIN blocks \cup {writers[Process(a)][i].block}
             /\ writers'[Process(a)][i].block \in {NoBlock, counter}
  <2>1. i \in Threads
    BY DEF TypeOK
  <2>2. writers'[Process(a)][i].block = Following(Process(a), writers[Process(a)][i])
    BY <1>2, <2>1, WriterSet DEF Upload
  <2>. QED BY <1>2, <2>2, BlockSet DEF Upload, Following, NextBlock
<1>3. ASSUME NEW a \in Actors, NEW i \in DOMAIN writers[Process(a)], UploadRaises(a, i)
      PROVE  /\ UNCHANGED blocks \/ DOMAIN blocks' = DOMAIN blocks \cup {writers[Process(a)][i].block}
             /\ ended'[Process(a)] = "raised"
  BY <1>3, BlockSet DEF UploadRaises, Finish, TypeOK
<1>. QED BY <1>1, <1>2, <1>3

LEMMA RaisedForGood ==
  ASSUME TypeOK, Closing, Next, NEW p \in Processes, ended[p] = "raised"
  PROVE  ended'[p] = "raised"
<1>. USE Sets
<1>0. DOMAIN ended = Processes
  BY DEF TypeOK
<1>1. ASSUME NEW a \in Actors, Stop(a) PROVE ended'[p] = "raised"
  <2>1. ended[Process(a)] = "no"
    BY <1>1 DEF Stop, Closing, ClosingSteps
  <2>. QED BY <1>0, <1>1, <2>1 DEF Stop, Finish
<1>2. \/ UNCHANGED ended \/ (\E a \in Actors : Stop(a))
      \/ \E a \in Actors : ended' = [ended EXCEPT ![Process(a)] = "raised"]
  BY DEF Next, Continue, ClientContinues, Fork, Pickle, Exit, Crash, Leaves, Write,
     BlockGiven, Reported, Close, Register, List, ListRaises, Complete, CompleteRaises,
     Upload, UploadRaises, Finish
<1>. QED BY <1>0, <1>1, <1>2

LEMMA InheritedForGood ==
  ASSUME Next, inherited
  PROVE  inherited'
BY DEF Next, Continue, ClientContinues, Fork, Pickle, Exit, Crash, Leaves, Write,
   BlockGiven, Reported, Close, Register, List, ListRaises, Complete, CompleteRaises, Stop,
   Upload, UploadRaises, history

LEMMA CountedStep ==
  ASSUME TypeOK, Roles, Counted, Next
  PROVE  Counted'
<1>. USE Sets
<1>0. counter \in Nat \ {0} /\ counter' \in {counter, counter + 1}
  BY CounterGrows DEF TypeOK
<1>1. ASSUME NEW p \in Processes, NEW i \in DOMAIN writers'[p] PROVE writers'[p][i].block < counter'
  <2>1. CASE Same(p, i)
    <3>1. i \in DOMAIN writers[p] /\ writers[p][i] \in BufferedWriter
      BY <2>1 DEF Same, TypeOK
    <3>2. writers[p][i].block < counter /\ writers[p][i].block \in Nat
      BY <3>1 DEF Counted, BufferedWriter
    <3>. QED BY <1>0, <2>1, <3>2 DEF Same
  <2>2. ASSUME i \in DOMAIN writers[Main], writers'[p][i].block = writers[Main][i].block
        PROVE  writers'[p][i].block < counter'
    <3>1. writers[Main][i] \in BufferedWriter
      BY <2>2 DEF TypeOK
    <3>2. writers[Main][i].block < counter /\ writers[Main][i].block \in Nat
      BY <2>2, <3>1 DEF Counted, BufferedWriter
    <3>. QED BY <1>0, <2>2, <3>2
  <2>3. CASE writers'[p][i].block = NoBlock
    BY <1>0, <2>3 DEF NoBlock
  <2>4. CASE OnlyNew(p, i)
    BY <1>0, <2>4 DEF OnlyNew
  <2>. QED BY <2>1, <2>2, <2>3, <2>4, BlockFrom
<1>2. ASSUME NEW b \in DOMAIN blocks' PROVE b < counter'
  <2>1. b \in DOMAIN blocks
        \/ \E a \in Actors : \E i \in DOMAIN writers[Process(a)] : b = writers[Process(a)][i].block
    BY BlocksGrow
  <2>2. CASE b \in DOMAIN blocks
    <3>1. b \in Nat /\ b < counter
      BY <2>2 DEF TypeOK, Counted
    <3>. QED BY <1>0, <3>1
  <2>3. ASSUME NEW a \in Actors, NEW i \in DOMAIN writers[Process(a)], b = writers[Process(a)][i].block
        PROVE  b < counter'
    <3>1. writers[Process(a)][i] \in BufferedWriter
      BY DEF TypeOK
    <3>2. b \in Nat /\ b < counter
      BY <2>3, <3>1 DEF Counted, BufferedWriter
    <3>. QED BY <1>0, <3>2
  <2>. QED BY <2>1, <2>2, <2>3
<1>. QED BY <1>1, <1>2 DEF Counted

\* A block below the counter is not the one that is given now.
LEMMA OldBlock ==
  ASSUME TypeOK, Counted, NEW p \in Processes, NEW i \in DOMAIN writers[p]
  PROVE  writers[p][i].block # counter
<1>1. writers[p][i].block \in Nat /\ writers[p][i].block < counter /\ counter \in Nat
  BY DEF TypeOK, BufferedWriter, Counted
<1>. QED BY <1>1

LEMMA ApartStep ==
  ASSUME TypeOK, Roles, Counted, Apart, Next
  PROVE  Apart'
<1>. SUFFICES ASSUME ~inherited',
                     NEW p \in Processes, NEW q \in Processes,
                     NEW i \in DOMAIN writers'[p], NEW j \in DOMAIN writers'[q],
                     writers'[p][i].block # NoBlock, writers'[p][i].block = writers'[q][j].block
              PROVE  p = q /\ i = j
  BY DEF Apart, NoBlock
<1>0. ~inherited
  BY InheritedForGood
<1>1. Same(p, i) \/ OnlyNew(p, i)
  BY BlockFrom
<1>2. Same(q, j) \/ OnlyNew(q, j)
  BY BlockFrom
<1>3. CASE Same(p, i) /\ Same(q, j)
  BY <1>0, <1>3 DEF Same, Apart
<1>4. ASSUME OnlyNew(p, i), q # p \/ j # i PROVE FALSE
  <2>1. Same(q, j) /\ writers'[p][i].block = counter
    BY <1>4 DEF OnlyNew
  <2>. QED BY <2>1, OldBlock DEF Same
<1>5. ASSUME OnlyNew(q, j), q # p \/ j # i PROVE FALSE
  <2>1. Same(p, i) /\ writers'[q][j].block = counter
    BY <1>5 DEF OnlyNew
  <2>. QED BY <2>1, OldBlock DEF Same
<1>. QED BY <1>1, <1>2, <1>3, <1>4, <1>5

LEMMA NotUploadedStep ==
  ASSUME TypeOK, Roles, Closing, Counted, Apart, NotUploaded, Next
  PROVE  NotUploaded'
<1>. USE Sets
<1>. SUFFICES ASSUME ~inherited', NEW p \in Processes, NEW i \in DOMAIN writers'[p],
                     ended'[p] # "raised", writers'[p][i].block # NoBlock,
                     writers'[p][i].block \in DOMAIN blocks'
              PROVE  FALSE
  BY DEF NotUploaded, NoBlock
<1>0. ~inherited /\ ended[p] # "raised"
  BY InheritedForGood, RaisedForGood
<1>1. counter \notin DOMAIN blocks
  BY DEF Counted, TypeOK
<1>2. CASE Same(p, i)
  <2>1. i \in DOMAIN writers[p] /\ writers[p][i].block = writers'[p][i].block
    BY <1>2 DEF Same
  <2>2. writers[p][i].block \notin DOMAIN blocks
    BY <1>0, <2>1 DEF NotUploaded
  <2>3. PICK a \in Actors : \E k \in DOMAIN writers[Process(a)] :
          /\ writers[p][i].block = writers[Process(a)][k].block
          /\ \/ ended'[Process(a)] = "raised"
             \/ writers'[Process(a)][k].block \in {NoBlock, counter}
    BY <2>1, <2>2, BlocksGrow
  <2>4. PICK k \in DOMAIN writers[Process(a)] :
          /\ writers[p][i].block = writers[Process(a)][k].block
          /\ \/ ended'[Process(a)] = "raised"
             \/ writers'[Process(a)][k].block \in {NoBlock, counter}
    BY <2>3
  <2>5. p = Process(a) /\ i = k
    BY <1>0, <2>1, <2>4 DEF Apart
  <2>6. writers[p][i].block = counter
    BY <2>1, <2>4, <2>5
  <2>. QED BY <2>1, <2>6, OldBlock
<1>3. CASE OnlyNew(p, i)
  <2>1. counter \in DOMAIN blocks'
    BY <1>3 DEF OnlyNew
  <2>2. \E a \in Actors : \E k \in DOMAIN writers[Process(a)] : counter = writers[Process(a)][k].block
    BY <1>1, <2>1, BlocksGrow
  <2>. QED BY <2>2, OldBlock
<1>. QED BY <1>2, <1>3, BlockFrom

-----------------------------------------------------------------------------
(* The theorems                                                            *)

LEMMA IInvStep ==
  ASSUME IInv, [Next]_vars
  PROVE  IInv'
<1>1. CASE Next
  BY <1>1, TypeStep, RolesStep, ClosingStep, CountedStep, ApartStep, NotUploadedStep DEF IInv
<1>2. CASE UNCHANGED vars
  <2>. USE <1>2 DEF vars, object, queues, service, history
  <2>1. TypeOK => TypeOK'
    BY DEF TypeOK
  <2>2. (Roles => Roles') /\ (Closing => Closing')
    BY DEF Roles, Closing
  <2>3. (Counted => Counted') /\ (Apart => Apart') /\ (NotUploaded => NotUploaded')
    BY DEF Counted, Apart, NotUploaded
  <2>. QED BY <2>1, <2>2, <2>3 DEF IInv
<1>. QED BY <1>1, <1>2

(* The invariant the theorems below rest on.                                *)
THEOREM Invariant == Spec => []IInv
BY InitInv, IInvStep, PTL DEF Spec

(* The state of the writers has the declared types.                        *)
THEOREM TypeCorrect == Spec => []TypeOK
<1>1. IInv => TypeOK
  BY DEF IInv
<1>. QED BY <1>1, Invariant, PTL

(* Two writers that are in use never fill the same block, and none fills a  *)
(* block that has been uploaded, for any number of threads and processes:   *)
(* their blocks are different (Apart) and are below the counter (Counted),  *)
(* and an upload gives its writer another block or ends its process         *)
(* (NotUploaded).                                                           *)
THEOREM BlocksTheorem == Spec => []BlocksOfOneWriter
<1>1. IInv => BlocksOfOneWriter
  <2>. SUFFICES ASSUME IInv, ~inherited,
                       NEW o \in Processes \X Threads, NEW q \in Processes \X Threads,
                       ended[o[1]] # "raised", o[2] \in DOMAIN writers[o[1]],
                       writers[o[1]][o[2]].block # NoBlock,
                       q[2] \in DOMAIN writers[q[1]]
                PROVE  /\ writers[o[1]][o[2]].block = writers[q[1]][q[2]].block => o = q
                       /\ writers[o[1]][o[2]].block \notin DOMAIN blocks
    BY DEF BlocksOfOneWriter
  <2>1. writers[o[1]][o[2]].block = writers[q[1]][q[2]].block => o[1] = q[1] /\ o[2] = q[2]
    BY DEF IInv, Apart
  <2>2. writers[o[1]][o[2]].block \notin DOMAIN blocks
    BY DEF IInv, NotUploaded
  <2>. QED BY <2>1, <2>2
<1>. QED BY <1>1, Invariant, PTL

-----------------------------------------------------------------------------
(* What the close() of the main process commits: the invariant             *)

\* What is proved is about runs in which nobody inherits a writer and no call of
\* the main process has raised: then its close() can still return.
Alive == ~inherited /\ ended[Main] # "raised"

Stored(r) == \E b \in DOMAIN blocks : r \in blocks[b]
AllStored(p) == \A r \in wrote[p] : Stored(r)
RowsOf(p, i) == ToSet(writers[p][i].rows)

\* A row is written by one process and is in one block.
RowsOnce ==
  /\ \A p \in Processes : \A r \in wrote[p] : r <= rows
  /\ \A p, q \in Processes : p # q => wrote[p] \cap wrote[q] = {}
  /\ \A c \in Children : kind[c] = "unborn" => wrote[c] = {}
  /\ \A b \in DOMAIN blocks : \A r \in blocks[b] : r <= rows
  /\ \A b, d \in DOMAIN blocks : b # d => blocks[b] \cap blocks[d] = {}

\* What a buffered writer has of its process's rows, and what it has uploaded.
Buffers ==
  \A p \in Processes : \A i \in DOMAIN writers[p] :
    /\ RowsOf(p, i) \subseteq wrote[p]
    /\ ended[p] # "raised" => \A r \in RowsOf(p, i) : ~Stored(r)
    /\ \A j \in DOMAIN writers[p] \ {i} : RowsOf(p, i) \cap RowsOf(p, j) = {}
    /\ \A b \in writers[p][i].done : b \in DOMAIN blocks /\ blocks[b] \subseteq wrote[p]

\* A process at work has each of its rows in a buffer or at the service.
NothingLost ==
  \A p \in Processes : ended[p] # "raised" /\ kind[p] # "gone" =>
    \A r \in wrote[p] : Stored(r) \/ \E i \in DOMAIN writers[p] : r \in RowsOf(p, i)

\* A process that has told what it has written is through with writing.
Told(p) == \E a \in Actors : Process(a) = p /\ pc[a] \in {"list", "complete", "stop"}

Sent == \A p \in Processes : Told(p) \/ ended[p] = "ok" => AllStored(p)

InQueues(b) == b \in shared \/ \E p \in Processes : b \in feeding[p] \/ b \in inQueue[p]

\* A block is in a queue only if all rows of its process are at the service.
QueuesWhole ==
  ~adopted => \A b : InQueues(b) =>
    /\ b \in DOMAIN blocks
    /\ \A p \in Processes : blocks[b] \cap wrote[p] # {} =>
         AllStored(p) /\ (kind[p] = "gone" \/ ended[p] # "no" \/ Told(p))

KnownLate ==
  ~adopted => \A p \in Processes : known[p] # {} =>
    ended[p] # "no" \/ \E a \in Actors : Process(a) = p /\ pc[a] \in {"complete", "stop"}

\* A child in a call is there, and has a block before it uploads.
ChildrenAtWork ==
  \A c \in Children : pc[c] # "idle" => ended[c] = "no" /\ kind[c] \notin {"unborn", "gone"}

HasBlock ==
  \A p \in Processes : \A i \in DOMAIN writers[p] :
    writers[p][i].block = NoBlock => p \in Children /\ kind[p] = "client" /\ pc[p] \in {"ask", "ask_in_close"}

MainIsClosing == pc[MainThread] \in ClosingSteps \/ ended[Main] = "ok"

\* Nobody else writes while the main process closes, and after.
Alone ==
  /\ MainIsClosing =>
       /\ \A c \in Children : kind[c] \in {"unborn", "gone"} \/ ended[c] # "no"
       /\ \A t \in Threads \ {MainThread} : pc[t] = "idle"
  /\ ended[Main] = "ok" => pc[MainThread] = "idle"

Commits ==
  /\ willCommit[Main]
  /\ pc[MainThread] = "stop" \/ ended[Main] = "ok" => committed

\* The main process has compared the blocks.
Compared ==
  pc[MainThread] \in {"complete", "stop"} \/ ended[Main] = "ok" =>
    \A p \in Processes :
      AllStored(p) \/ (ended[p] # "ok" /\ (adopted \/ \A r \in wrote[p] : ~Stored(r)))

Whole ==
  /\ RowsOnce /\ Buffers /\ NothingLost /\ Sent /\ QueuesWhole /\ KnownLate
  /\ ChildrenAtWork /\ HasBlock /\ Alone /\ Commits /\ Compared

RInv == Alive => Whole

-----------------------------------------------------------------------------
(* Rows                                                                    *)

LEMMA AliveBefore ==
  ASSUME TypeOK, Closing, Next, Alive'
  PROVE  Alive
BY InheritedForGood, RaisedForGood, Sets DEF Alive

\* Children come and go once.
LEMMA KindMoves ==
  ASSUME TypeOK, Next, NEW p \in Processes
  PROVE  /\ kind[p] = "gone" => kind'[p] = "gone"
         /\ kind'[p] = "unborn" => kind[p] = "unborn"
         /\ kind'[p] # kind[p] => p \in Children /\ (Fork(p) \/ Pickle(p) \/ Exit(p) \/ Crash(p))
<1>. USE Sets
<1>0. DOMAIN kind = Processes
  BY DEF TypeOK
<1>1. \/ UNCHANGED kind
      \/ \E d \in Children : Fork(d) \/ Pickle(d) \/ Exit(d) \/ Crash(d)
  BY DEF Next, Continue, ClientContinues, Write, BlockGiven, Reported, Close, Register, List,
     ListRaises, Complete, CompleteRaises, Stop, Upload, UploadRaises
<1>2. ASSUME NEW d \in Children, Fork(d) \/ Pickle(d)
      PROVE  kind'[p] = kind[p] \/ (d = p /\ kind[p] = "unborn" /\ kind'[p] \in {"forked", "client"})
  BY <1>0, <1>2 DEF Fork, Pickle
<1>3. ASSUME NEW d \in Children, Exit(d) \/ Crash(d)
      PROVE  kind'[p] = kind[p] \/ (d = p /\ kind'[p] = "gone")
  BY <1>0, <1>3 DEF Exit, Crash, Leaves
<1>. QED BY <1>1, <1>2, <1>3

\* Steps that leave every row where it is, but for the buffers of a child that
\* has left.
Keeps ==
  /\ UNCHANGED <<blocks, rows, wrote>>
  /\ \A p \in Processes : \A i \in DOMAIN writers'[p] :
       /\ i \in DOMAIN writers[p] /\ writers'[p][i].rows = writers[p][i].rows
       /\ writers'[p][i].done = writers[p][i].done
  /\ \A p \in Processes : kind'[p] # "gone" => DOMAIN writers[p] \subseteq DOMAIN writers'[p]

LEMMA RowMoves ==
  ASSUME TypeOK, Roles, Closing, Next, Alive'
  PROVE  \/ Keeps
         \/ \E a \in Actors : Write(a)
         \/ \E a \in Actors : \E i \in DOMAIN writers[Process(a)] : Upload(a, i)
         \/ \E c \in Children : \E i \in DOMAIN writers[c] : UploadRaises(c, i) /\ Uploaded(c, i)
<1>. USE Sets
<1>0. DOMAIN writers = Processes /\ DOMAIN ended = Processes /\ DOMAIN kind = Processes
  BY DEF TypeOK
<1>1. CASE UNCHANGED <<blocks, rows, wrote, writers>>
  BY <1>1 DEF Keeps
<1>2. ASSUME NEW c \in Children, Fork(c) PROVE Keeps
  <2>1. writers[Main] = None
    BY <1>2 DEF Fork, Alive
  <2>2. writers[c] = None
    BY <1>2 DEF Fork, Roles
  <2>3. \A p \in Processes : writers'[p] = writers[p]
    BY <1>0, <1>2, <2>1, <2>2 DEF Fork
  <2>4. UNCHANGED <<blocks, rows, wrote>>
    BY <1>2 DEF Fork, service
  <2>. QED BY <2>3, <2>4 DEF Keeps
<1>3. ASSUME NEW c \in Children, Exit(c) \/ Crash(c) PROVE Keeps
  <2>1. writers'[c] = None /\ kind'[c] = "gone" /\ \A p \in Processes \ {c} : writers'[p] = writers[p]
    BY <1>0, <1>3 DEF Exit, Crash, Leaves
  <2>2. UNCHANGED <<blocks, rows, wrote>>
    BY <1>3 DEF Exit, Crash, Leaves, service
  <2>. QED BY <2>1, <2>2, NoneIsEmpty DEF Keeps
<1>4. ASSUME NEW c \in Children, BlockGiven(c) PROVE Keeps
  <2>. DEFINE w == [writers[c][MainThread] EXCEPT !.block = counter]
  <2>1. SetWriter(c, MainThread, w) /\ UNCHANGED <<blocks, rows, wrote>>
    BY <1>4 DEF BlockGiven, service, history
  <2>2. MainThread \in DOMAIN writers[c] /\ writers[c][MainThread] \in BufferedWriter
    BY <1>4 DEF BlockGiven, Roles, TypeOK
  <2>3. w.rows = writers[c][MainThread].rows /\ w.done = writers[c][MainThread].done
    BY <2>2 DEF BufferedWriter
  <2>. HIDE DEF w
  <2>4. /\ DOMAIN writers'[c] = DOMAIN writers[c] \cup {MainThread}
        /\ writers'[c][MainThread] = w
        /\ \A q \in Processes \ {c} : writers'[q] = writers[q]
        /\ \A j \in DOMAIN writers[c] \ {MainThread} : writers'[c][j] = writers[c][j]
    BY <2>1, WriterSet
  <2>. QED BY <2>1, <2>2, <2>3, <2>4 DEF Keeps
<1>5. ASSUME NEW a \in Actors, NEW i \in DOMAIN writers[Process(a)], UploadRaises(a, i)
      PROVE  Keeps \/ \E c \in Children : \E j \in DOMAIN writers[c] : UploadRaises(c, j) /\ Uploaded(c, j)
  <2>1. UNCHANGED <<writers, rows, wrote>>
    BY <1>5 DEF UploadRaises, object
  <2>2. Process(a) # Main
    BY <1>0, <1>5 DEF UploadRaises, Finish, Alive
  <2>3. a \in Children /\ Process(a) = a
    BY <2>2 DEF Actors
  <2>4. Uploaded(a, i) \/ UNCHANGED blocks
    BY <1>5, <2>3 DEF UploadRaises
  <2>. QED BY <1>5, <2>1, <2>3, <2>4 DEF Keeps
<1>6. \/ UNCHANGED <<blocks, rows, wrote, writers>>
      \/ \E c \in Children : Fork(c) \/ Exit(c) \/ Crash(c) \/ BlockGiven(c)
      \/ \E a \in Actors : Write(a)
      \/ \E a \in Actors : \E i \in DOMAIN writers[Process(a)] : Upload(a, i) \/ UploadRaises(a, i)
  BY DEF Next, Continue, ClientContinues, Pickle, Reported, Close, Register, List, ListRaises, Complete,
     CompleteRaises, Stop, object, service, history
<1>. QED BY <1>1, <1>2, <1>3, <1>4, <1>5, <1>6

\* The block of an upload is a new one.
LEMMA NewBlock ==
  ASSUME TypeOK, NotUploaded, Whole, Alive, NEW a \in Actors, NEW p, p = Process(a),
         NEW i \in DOMAIN writers[p], Sends(a, i), Uploaded(p, i)
  PROVE  LET b == writers[p][i].block
         IN /\ b \notin DOMAIN blocks /\ DOMAIN blocks' = DOMAIN blocks \cup {b}
            /\ blocks'[b] = RowsOf(p, i)
            /\ \A d \in DOMAIN blocks : blocks'[d] = blocks[d]
            /\ \A r : Stored(r)' <=> Stored(r) \/ r \in RowsOf(p, i)
            /\ ended[p] # "raised"
<1>. USE Sets
<1>. DEFINE b == writers[p][i].block
<1>1. pc[a] \in {"upload", "close"}
  BY DEF Sends
<1>2. b # NoBlock
  <2>1. ASSUME Process(a) \in Children PROVE pc[p] \in {"upload", "close"}
    BY <1>1, <2>1, OneActor
  <2>. QED BY <2>1 DEF Whole, HasBlock
<1>3. ended[p] # "raised"
  <2>1. CASE a \in Threads
    BY <2>1 DEF Alive
  <2>2. CASE a \in Children
    BY <1>1, <2>2 DEF Whole, ChildrenAtWork
  <2>. QED BY <2>1, <2>2 DEF Actors
<1>4. b \notin DOMAIN blocks
  BY <1>2, <1>3 DEF NotUploaded, Alive
<1>5. /\ DOMAIN blocks' = DOMAIN blocks \cup {b}
      /\ blocks'[b] = RowsOf(p, i)
      /\ \A d \in DOMAIN blocks \ {b} : blocks'[d] = blocks[d]
  BY BlockSet DEF RowsOf
<1>6. \A r : Stored(r)' <=> Stored(r) \/ r \in RowsOf(p, i)
  BY <1>4, <1>5 DEF Stored
<1>. QED BY <1>3, <1>4, <1>5, <1>6

Data == RowsOnce /\ Buffers /\ NothingLost

LEMMA DataKept ==
  ASSUME TypeOK, Closing, Next, Data, Keeps
  PROVE  Data'
<1>. USE Sets
<1>1. /\ UNCHANGED <<blocks, rows, wrote>>
      /\ \A p \in Processes : \A i \in DOMAIN writers'[p] :
           /\ i \in DOMAIN writers[p] /\ writers'[p][i].rows = writers[p][i].rows
           /\ writers'[p][i].done = writers[p][i].done
      /\ \A p \in Processes : kind'[p] # "gone" => DOMAIN writers[p] \subseteq DOMAIN writers'[p]
  BY DEF Keeps
<1>2. \A p \in Processes :
        /\ ended[p] = "raised" => ended'[p] = "raised"
        /\ kind[p] = "gone" => kind'[p] = "gone"
        /\ kind'[p] = "unborn" => kind[p] = "unborn"
  BY RaisedForGood, KindMoves
<1>3. \A r : Stored(r)' <=> Stored(r)
  BY <1>1 DEF Stored
<1>4. \A p \in Processes : \A i \in DOMAIN writers'[p] : RowsOf(p, i)' = RowsOf(p, i)
  BY <1>1 DEF RowsOf
<1>. UNCHANGED <<blocks, rows, wrote>>
  BY <1>1
<1>5. RowsOnce'
  <2>1. \A c \in Children : kind'[c] = "unborn" => wrote[c] = {}
    BY <1>2 DEF Data, RowsOnce
  <2>. QED BY <2>1 DEF Data, RowsOnce
<1>6. Buffers'
  <2>. SUFFICES ASSUME NEW p \in Processes, NEW i \in DOMAIN writers'[p]
                PROVE  /\ RowsOf(p, i)' \subseteq wrote[p]
                       /\ ended'[p] # "raised" => \A r \in RowsOf(p, i)' : ~Stored(r)'
                       /\ \A j \in DOMAIN writers'[p] \ {i} : RowsOf(p, i)' \cap RowsOf(p, j)' = {}
                       /\ \A b \in writers'[p][i].done : b \in DOMAIN blocks /\ blocks[b] \subseteq wrote[p]
    BY DEF Buffers
  <2>1. i \in DOMAIN writers[p] /\ writers'[p][i].done = writers[p][i].done /\ RowsOf(p, i)' = RowsOf(p, i)
    BY <1>1, <1>4
  <2>2. \A j \in DOMAIN writers'[p] : j \in DOMAIN writers[p] /\ RowsOf(p, j)' = RowsOf(p, j)
    BY <1>1, <1>4
  <2>3. ended'[p] # "raised" => ended[p] # "raised"
    BY <1>2
  <2>4. /\ RowsOf(p, i) \subseteq wrote[p]
        /\ ended[p] # "raised" => \A r \in RowsOf(p, i) : ~Stored(r)
        /\ \A j \in DOMAIN writers[p] \ {i} : RowsOf(p, i) \cap RowsOf(p, j) = {}
        /\ \A b \in writers[p][i].done : b \in DOMAIN blocks /\ blocks[b] \subseteq wrote[p]
    BY <2>1 DEF Data, Buffers
  <2>. QED BY <1>3, <2>1, <2>2, <2>3, <2>4
<1>7. NothingLost'
  <2>. SUFFICES ASSUME NEW p \in Processes, ended'[p] # "raised", kind'[p] # "gone", NEW r \in wrote[p]
                PROVE  Stored(r)' \/ \E i \in DOMAIN writers'[p] : r \in RowsOf(p, i)'
    BY DEF NothingLost
  <2>1. ended[p] # "raised" /\ kind[p] # "gone"
    BY <1>2
  <2>2. Stored(r) \/ \E i \in DOMAIN writers[p] : r \in RowsOf(p, i)
    BY <2>1 DEF Data, NothingLost
  <2>3. DOMAIN writers[p] \subseteq DOMAIN writers'[p]
    BY <1>1
  <2>. QED BY <1>3, <1>4, <2>2, <2>3
<1>. QED BY <1>5, <1>6, <1>7 DEF Data

LEMMA RowsAppended ==
  ASSUME NEW s \in Seq(1..MaxRows), NEW r
  PROVE  ToSet(Append(s, r)) = ToSet(s) \cup {r}
<1>1. /\ DOMAIN Append(s, r) = DOMAIN s \cup {Len(s) + 1}
      /\ Append(s, r)[Len(s) + 1] = r
      /\ \A k \in DOMAIN s : Append(s, r)[k] = s[k]
  OBVIOUS
<1>. QED BY <1>1 DEF ToSet

LEMMA DataWritten ==
  ASSUME TypeOK, Roles, Closing, Next, Data, NEW a \in Actors, Write(a)
  PROVE  Data'
<1>. USE Sets
<1>. DEFINE p == Process(a)
            k == Ident(a)
            w == IF k \in DOMAIN writers[p]
                 THEN [writers[p][k] EXCEPT !.rows = Append(@, rows + 1)]
                 ELSE [block |-> NextBlock(p), rows |-> <<rows + 1>>, done |-> {}]
            old == IF k \in DOMAIN writers[p] THEN RowsOf(p, k) ELSE {}
            new == rows + 1
<1>1. /\ SetWriter(p, k, w) /\ rows' = rows + 1 /\ rows \in Nat /\ MaxRows \in Nat
      /\ wrote' = [wrote EXCEPT ![p] = @ \cup {rows + 1}]
      /\ UNCHANGED <<kind, ended, blocks>>
      /\ kind[p] \notin {"unborn", "gone"} /\ ended[p] = "no"
  BY WriterAssumption DEF Write, service, CanCall, TypeOK
<1>2. /\ ToSet(w.rows) = old \cup {new}
      /\ w.done = IF k \in DOMAIN writers[p] THEN writers[p][k].done ELSE {}
  <2>1. CASE k \in DOMAIN writers[p]
    <3>1. writers[p][k] \in BufferedWriter
      BY <2>1 DEF TypeOK
    <3>2. w.rows = Append(writers[p][k].rows, rows + 1) /\ w.done = writers[p][k].done
      BY <2>1, <3>1 DEF BufferedWriter
    <3>3. writers[p][k].rows \in Seq(1..MaxRows)
      BY <3>1 DEF BufferedWriter
    <3>. QED BY <2>1, <3>2, <3>3, RowsAppended DEF RowsOf
  <2>2. CASE k \notin DOMAIN writers[p]
    BY <2>2 DEF ToSet
  <2>. QED BY <2>1, <2>2
<1>3. /\ DOMAIN writers'[p] = DOMAIN writers[p] \cup {k}
      /\ writers'[p][k] = w
      /\ \A q \in Processes \ {p} : writers'[q] = writers[q]
      /\ \A j \in DOMAIN writers[p] \ {k} : writers'[p][j] = writers[p][j]
  <2>. HIDE DEF w
  <2>. QED BY <1>1, WriterSet
<1>. HIDE DEF w
<1>4. wrote'[p] = wrote[p] \cup {new} /\ \A q \in Processes \ {p} : wrote'[q] = wrote[q]
  BY <1>1 DEF TypeOK
<1>5. /\ RowsOf(p, k)' = old \cup {new}
      /\ \A q \in Processes : \A j \in DOMAIN writers'[q] :
           q # p \/ j # k => j \in DOMAIN writers[q] /\ writers'[q][j] = writers[q][j] /\ RowsOf(q, j)' = RowsOf(q, j)
  BY <1>2, <1>3 DEF RowsOf
<1>6. /\ ~Stored(new) /\ \A q \in Processes : new \notin wrote[q]
      /\ \A r : Stored(r)' <=> Stored(r)
  <2>1. \A q \in Processes : new \notin wrote[q]
    BY <1>1 DEF Data, RowsOnce
  <2>2. ~Stored(new)
    BY <1>1 DEF Data, RowsOnce, Stored
  <2>3. \A r : Stored(r)' <=> Stored(r)
    BY <1>1 DEF Stored
  <2>. QED BY <2>1, <2>2, <2>3
<1>7. \A q \in Processes : wrote[q] \subseteq wrote'[q]
  BY <1>4
<1>. HIDE DEF p, k
<1>8. p \in Processes
  BY DEF p
<1>9. RowsOnce'
  <2>1. ASSUME NEW q \in Processes, NEW r \in wrote'[q] PROVE r <= rows'
    <3>1. CASE r = new
      BY <1>1, <3>1
    <3>2. CASE r \in wrote[q]
      <4>1. r \in Nat /\ r <= rows
        BY <3>2 DEF Data, RowsOnce, TypeOK
      <4>. QED BY <1>1, <4>1
    <3>. QED BY <1>4, <2>1, <3>1, <3>2
  <2>2. ASSUME NEW q \in Processes, NEW s \in Processes, q # s PROVE wrote'[q] \cap wrote'[s] = {}
    <3>1. wrote[q] \cap wrote[s] = {}
      BY <2>2 DEF Data, RowsOnce
    <3>. QED BY <1>4, <1>6, <2>2, <3>1
  <2>3. \A c \in Children : kind'[c] = "unborn" => wrote'[c] = {}
    BY <1>1, <1>4, Sets DEF Data, RowsOnce
  <2>4. ASSUME NEW b \in DOMAIN blocks, NEW r \in blocks[b] PROVE r <= rows'
    <3>1. r \in Nat /\ r <= rows
      BY DEF Data, RowsOnce, TypeOK
    <3>. QED BY <1>1, <3>1
  <2>5. \A b, d \in DOMAIN blocks : b # d => blocks[b] \cap blocks[d] = {}
    BY DEF Data, RowsOnce
  <2>. QED BY <1>1, <2>1, <2>2, <2>3, <2>4, <2>5 DEF RowsOnce
<1>10. /\ old \subseteq wrote[p] /\ \A r \in old : ~Stored(r)
       /\ \A j \in DOMAIN writers[p] \ {k} : old \cap RowsOf(p, j) = {} /\ RowsOf(p, j) \subseteq wrote[p]
       /\ \A b \in w.done : b \in DOMAIN blocks /\ blocks[b] \subseteq wrote[p]
  BY <1>1, <1>2, <1>8 DEF Data, Buffers
<1>11. Buffers'
  <2>. SUFFICES ASSUME NEW q \in Processes, NEW i \in DOMAIN writers'[q]
                PROVE  /\ RowsOf(q, i)' \subseteq wrote'[q]
                       /\ ended'[q] # "raised" => \A r \in RowsOf(q, i)' : ~Stored(r)'
                       /\ \A j \in DOMAIN writers'[q] \ {i} : RowsOf(q, i)' \cap RowsOf(q, j)' = {}
                       /\ \A b \in writers'[q][i].done : b \in DOMAIN blocks' /\ blocks'[b] \subseteq wrote'[q]
    BY DEF Buffers
  <2>1. CASE q = p /\ i = k
    <3>1. RowsOf(q, i)' = old \cup {new} /\ writers'[q][i].done = w.done
      BY <1>3, <1>5, <2>1
    <3>2. \A j \in DOMAIN writers'[q] \ {i} : RowsOf(q, j)' = RowsOf(p, j) /\ j \in DOMAIN writers[p]
      BY <1>5, <2>1
    <3>. QED BY <1>1, <1>4, <1>6, <1>10, <2>1, <3>1, <3>2
  <2>2. CASE q # p \/ i # k
    <3>1. i \in DOMAIN writers[q] /\ writers'[q][i] = writers[q][i] /\ RowsOf(q, i)' = RowsOf(q, i)
      BY <1>5, <2>2
    <3>2. /\ RowsOf(q, i) \subseteq wrote[q]
          /\ ended[q] # "raised" => \A r \in RowsOf(q, i) : ~Stored(r)
          /\ \A j \in DOMAIN writers[q] \ {i} : RowsOf(q, i) \cap RowsOf(q, j) = {}
          /\ \A b \in writers[q][i].done : b \in DOMAIN blocks /\ blocks[b] \subseteq wrote[q]
      BY <3>1 DEF Data, Buffers
    <3>3. ASSUME NEW j \in DOMAIN writers'[q] \ {i} PROVE RowsOf(q, i)' \cap RowsOf(q, j)' = {}
      <4>1. CASE q = p /\ j = k
        <5>1. RowsOf(q, j)' = old \cup {new}
          BY <1>5, <4>1
        <5>2. new \notin RowsOf(q, i)
          BY <1>6, <3>2
        <5>3. old \cap RowsOf(q, i) = {}
          BY <1>10, <2>2, <3>1, <3>3, <4>1
        <5>. QED BY <3>1, <5>1, <5>2, <5>3
      <4>2. CASE q # p \/ j # k
        BY <1>5, <3>1, <3>2, <3>3, <4>2
      <4>. QED BY <4>1, <4>2
    <3>. QED BY <1>1, <1>6, <1>7, <3>1, <3>2, <3>3
  <2>. QED BY <2>1, <2>2
<1>12. NothingLost'
  <2>. SUFFICES ASSUME NEW q \in Processes, ended[q] # "raised", kind[q] # "gone", NEW r \in wrote'[q]
                PROVE  Stored(r)' \/ \E i \in DOMAIN writers'[q] : r \in RowsOf(q, i)'
    BY <1>1 DEF NothingLost
  <2>1. CASE r = new /\ q = p
    BY <1>3, <1>5, <2>1
  <2>2. CASE r \in wrote[q]
    <3>1. Stored(r) \/ \E i \in DOMAIN writers[q] : r \in RowsOf(q, i)
      BY <2>2 DEF Data, NothingLost
    <3>2. ASSUME NEW i \in DOMAIN writers[q], r \in RowsOf(q, i)
          PROVE  i \in DOMAIN writers'[q] /\ r \in RowsOf(q, i)'
      <4>1. CASE q = p /\ i = k
        BY <1>3, <1>5, <3>2, <4>1
      <4>2. CASE q # p \/ i # k
        <5>1. i \in DOMAIN writers'[q]
          BY <1>3, <4>2
        <5>. QED BY <1>5, <3>2, <4>2, <5>1
      <4>. QED BY <4>1, <4>2
    <3>. QED BY <1>6, <3>1, <3>2
  <2>. QED BY <1>4, <2>1, <2>2
<1>. QED BY <1>9, <1>11, <1>12 DEF Data

\* A block is uploaded: its writer has emptied its buffer, or its process has raised.
LEMMA DataStored ==
  ASSUME TypeOK, Data, NEW p \in Processes, NEW i \in DOMAIN writers[p], NEW b,
         b \notin DOMAIN blocks, DOMAIN blocks' = DOMAIN blocks \cup {b},
         blocks'[b] = RowsOf(p, i),
         \A d \in DOMAIN blocks : blocks'[d] = blocks[d],
         \A r : Stored(r)' <=> Stored(r) \/ r \in RowsOf(p, i),
         ended[p] # "raised",
         UNCHANGED <<rows, wrote, kind>>,
         \A q \in Processes : ended[q] = "raised" => ended'[q] = "raised",
         \A q \in Processes : DOMAIN writers'[q] = DOMAIN writers[q],
         \A q \in Processes : \A j \in DOMAIN writers[q] : q # p \/ j # i => writers'[q][j] = writers[q][j],
         \/ RowsOf(p, i)' = {} /\ writers'[p][i].done = writers[p][i].done \cup {b}
         \/ ended'[p] = "raised" /\ writers'[p][i] = writers[p][i]
  PROVE  Data'
<1>. USE Sets
<1>1. /\ RowsOf(p, i) \subseteq wrote[p] /\ \A r \in RowsOf(p, i) : ~Stored(r)
      /\ \A j \in DOMAIN writers[p] \ {i} : RowsOf(p, i) \cap RowsOf(p, j) = {}
      /\ \A q \in Processes : q # p => wrote[p] \cap wrote[q] = {}
      /\ \A d \in writers[p][i].done : d \in DOMAIN blocks /\ blocks[d] \subseteq wrote[p]
  BY DEF Data, Buffers, RowsOnce
<1>2. RowsOnce'
  <2>1. \A r \in RowsOf(p, i) : r <= rows
    BY <1>1 DEF Data, RowsOnce
  <2>2. \A d \in DOMAIN blocks : RowsOf(p, i) \cap blocks[d] = {}
    BY <1>1 DEF Stored
  <2>3. \A d \in DOMAIN blocks' : \A r \in blocks'[d] : r <= rows
    BY <2>1 DEF Data, RowsOnce
  <2>4. \A d, e \in DOMAIN blocks' : d # e => blocks'[d] \cap blocks'[e] = {}
    <3>. SUFFICES ASSUME NEW d \in DOMAIN blocks', NEW e \in DOMAIN blocks', d # e
                  PROVE  blocks'[d] \cap blocks'[e] = {}
      OBVIOUS
    <3>1. CASE d = b \/ e = b
      BY <2>2, <3>1
    <3>2. CASE d # b /\ e # b
      BY <3>2 DEF Data, RowsOnce
    <3>. QED BY <3>1, <3>2
  <2>. QED BY <2>3, <2>4 DEF Data, RowsOnce
<1>3. \A q \in Processes : \A j \in DOMAIN writers[q] :
        RowsOf(q, j)' = RowsOf(q, j) \/ (q = p /\ j = i /\ RowsOf(q, j)' = {})
  BY DEF RowsOf
<1>4. Buffers'
  <2>. SUFFICES ASSUME NEW q \in Processes, NEW j \in DOMAIN writers[q]
                PROVE  /\ RowsOf(q, j)' \subseteq wrote[q]
                       /\ ended'[q] # "raised" => \A r \in RowsOf(q, j)' : ~Stored(r)'
                       /\ \A k \in DOMAIN writers[q] \ {j} : RowsOf(q, j)' \cap RowsOf(q, k)' = {}
                       /\ \A d \in writers'[q][j].done : d \in DOMAIN blocks' /\ blocks'[d] \subseteq wrote[q]
    BY DEF Buffers
  <2>1. /\ RowsOf(q, j) \subseteq wrote[q]
        /\ ended[q] # "raised" => \A r \in RowsOf(q, j) : ~Stored(r)
        /\ \A k \in DOMAIN writers[q] \ {j} : RowsOf(q, j) \cap RowsOf(q, k) = {}
        /\ \A d \in writers[q][j].done : d \in DOMAIN blocks /\ blocks[d] \subseteq wrote[q]
    BY DEF Data, Buffers
  <2>2. RowsOf(q, j)' \subseteq RowsOf(q, j) /\ \A k \in DOMAIN writers[q] : RowsOf(q, k)' \subseteq RowsOf(q, k)
    BY <1>3
  <2>3. ASSUME ended'[q] # "raised", NEW r \in RowsOf(q, j)' PROVE ~Stored(r)'
    <3>1. ~Stored(r) /\ r \in RowsOf(q, j)
      BY <2>1, <2>2, <2>3
    <3>2. CASE q = p /\ j = i
      BY <2>3, <3>2
    <3>3. CASE q = p /\ j # i
      BY <1>1, <3>1, <3>3
    <3>4. CASE q # p
      BY <1>1, <2>1, <3>1, <3>4
    <3>. QED BY <3>2, <3>3, <3>4
  <2>4. ASSUME NEW d \in writers'[q][j].done PROVE d \in DOMAIN blocks' /\ blocks'[d] \subseteq wrote[q]
    <3>1. d \in writers[q][j].done \/ (q = p /\ d = b)
      BY <2>4
    <3>. QED BY <1>1, <2>1, <3>1
  <2>. QED BY <2>1, <2>2, <2>3, <2>4
<1>5. NothingLost'
  <2>. SUFFICES ASSUME NEW q \in Processes, ended'[q] # "raised", kind[q] # "gone", NEW r \in wrote[q]
                PROVE  Stored(r)' \/ \E j \in DOMAIN writers[q] : r \in RowsOf(q, j)'
    BY DEF NothingLost
  <2>1. Stored(r) \/ \E j \in DOMAIN writers[q] : r \in RowsOf(q, j)
    BY DEF Data, NothingLost
  <2>. QED BY <1>3, <2>1
<1>. QED BY <1>2, <1>4, <1>5 DEF Data

LEMMA DataUploaded ==
  ASSUME TypeOK, Closing, NotUploaded, Whole, Alive, Next,
         NEW a \in Actors, NEW i \in DOMAIN writers[Process(a)], Upload(a, i)
  PROVE  Data'
<1>. USE Sets
<1>. DEFINE p == Process(a)
            b == writers[p][i].block
            w == [block |-> Following(p, writers[p][i]), rows |-> <<>>, done |-> writers[p][i].done \cup {b}]
<1>1. /\ Sends(a, i) /\ Uploaded(p, i) /\ SetWriter(p, i, w) /\ i \in Threads
      /\ UNCHANGED <<rows, wrote, kind, ended>>
  BY DEF Upload, history, TypeOK
<1>2. /\ b \notin DOMAIN blocks /\ DOMAIN blocks' = DOMAIN blocks \cup {b}
      /\ blocks'[b] = RowsOf(p, i)
      /\ \A d \in DOMAIN blocks : blocks'[d] = blocks[d]
      /\ \A r : Stored(r)' <=> Stored(r) \/ r \in RowsOf(p, i)
      /\ ended[p] # "raised"
  BY <1>1, NewBlock
<1>3. w.rows = <<>> /\ w.done = writers[p][i].done \cup {b}
  OBVIOUS
<1>. HIDE DEF w
<1>4. /\ DOMAIN writers'[p] = DOMAIN writers[p] \cup {i}
      /\ writers'[p][i] = w
      /\ \A q \in Processes \ {p} : writers'[q] = writers[q]
      /\ \A j \in DOMAIN writers[p] \ {i} : writers'[p][j] = writers[p][j]
  BY <1>1, WriterSet
<1>5. RowsOf(p, i)' = {}
  BY <1>3, <1>4 DEF RowsOf, ToSet
<1>6. Data /\ p \in Processes
  BY DEF Whole, Data
<1>. HIDE DEF p, b
<1>7. /\ \A q \in Processes : DOMAIN writers'[q] = DOMAIN writers[q]
      /\ \A q \in Processes : \A j \in DOMAIN writers[q] : q # p \/ j # i => writers'[q][j] = writers[q][j]
  BY <1>4 DEF p
<1>8. writers'[p][i].done = writers[p][i].done \cup {b} /\ i \in DOMAIN writers[p]
  BY <1>3, <1>4 DEF p
<1>. QED BY <1>1, <1>2, <1>5, <1>6, <1>7, <1>8, DataStored

LEMMA DataRaised ==
  ASSUME TypeOK, Closing, NotUploaded, Whole, Alive, Next,
         NEW c \in Children, NEW i \in DOMAIN writers[c], UploadRaises(c, i), Uploaded(c, i)
  PROVE  Data'
<1>. USE Sets
<1>. DEFINE b == writers[c][i].block
<1>1. Sends(c, i) /\ UNCHANGED <<rows, wrote, kind, writers>> /\ ended' = [ended EXCEPT ![c] = "raised"]
  BY DEF UploadRaises, object, Finish
<1>2. /\ b \notin DOMAIN blocks /\ DOMAIN blocks' = DOMAIN blocks \cup {b}
      /\ blocks'[b] = RowsOf(c, i)
      /\ \A d \in DOMAIN blocks : blocks'[d] = blocks[d]
      /\ \A r : Stored(r)' <=> Stored(r) \/ r \in RowsOf(c, i)
      /\ ended[c] # "raised"
  BY <1>1, NewBlock
<1>3. /\ ended'[c] = "raised" /\ \A q \in Processes : ended[q] = "raised" => ended'[q] = "raised"
      /\ writers'[c][i] = writers[c][i] /\ c \in Processes
      /\ \A q \in Processes : DOMAIN writers'[q] = DOMAIN writers[q]
      /\ \A q \in Processes : \A j \in DOMAIN writers[q] : q # c \/ j # i => writers'[q][j] = writers[q][j]
  BY <1>1 DEF TypeOK
<1>4. Data
  BY DEF Whole, Data
<1>. HIDE DEF b
<1>. QED BY <1>1, <1>2, <1>3, <1>4, DataStored

\* What is at the service stays there.
LEMMA BlocksStay ==
  ASSUME TypeOK, Roles, Closing, NotUploaded, Whole, Next, Alive'
  PROVE  /\ \A b \in DOMAIN blocks : b \in DOMAIN blocks' /\ blocks'[b] = blocks[b]
         /\ \A r : Stored(r) => Stored(r)'
<1>. USE Sets
<1>1. \A b \in DOMAIN blocks : b \in DOMAIN blocks' /\ blocks'[b] = blocks[b]
  <2>1. CASE Keeps \/ \E a \in Actors : Write(a)
    BY <2>1 DEF Keeps, Write, service
  <2>2. ASSUME NEW a \in Actors, NEW i \in DOMAIN writers[Process(a)], Sends(a, i), Uploaded(Process(a), i)
        PROVE  \A b \in DOMAIN blocks : b \in DOMAIN blocks' /\ blocks'[b] = blocks[b]
    BY <2>2, AliveBefore, NewBlock
  <2>3. ASSUME NEW a \in Actors, NEW i \in DOMAIN writers[Process(a)], Upload(a, i)
        PROVE  Sends(a, i) /\ Uploaded(Process(a), i)
    BY <2>3 DEF Upload
  <2>4. ASSUME NEW c \in Children, NEW i \in DOMAIN writers[c], UploadRaises(c, i), Uploaded(c, i)
        PROVE  Sends(c, i) /\ Uploaded(Process(c), i)
    BY <2>4 DEF UploadRaises
  <2>. QED BY <2>1, <2>2, <2>3, <2>4, RowMoves
<1>2. \A r : Stored(r) => Stored(r)'
  BY <1>1 DEF Stored
<1>. QED BY <1>1, <1>2

LEMMA DataStep ==
  ASSUME TypeOK, Roles, Closing, NotUploaded, Whole, Next, Alive'
  PROVE  Data'
<1>1. Data /\ Alive
  BY AliveBefore DEF Whole, Data
<1>. QED BY <1>1, RowMoves, DataKept, DataWritten, DataUploaded, DataRaised

-----------------------------------------------------------------------------
(* Calls                                                                   *)

\* An actor is moved by its own actions.
LEMMA ActorMoves ==
  ASSUME TypeOK, Next, NEW a \in Actors, pc'[a] # pc[a]
  PROVE  \/ Write(a) \/ Close(a)
         \/ \E i \in DOMAIN writers[Process(a)] : Upload(a, i) \/ UploadRaises(a, i)
         \/ Register(a) \/ List(a) \/ ListRaises(a) \/ Complete(a) \/ CompleteRaises(a) \/ Stop(a)
         \/ a \in Children /\ (BlockGiven(a) \/ Reported(a) \/ Exit(a) \/ Crash(a))
<1>. USE Sets
<1>0. DOMAIN pc = Actors
  BY DEF TypeOK
<1>1. ASSUME NEW c \in Children, Fork(c) \/ Pickle(c) PROVE FALSE
  BY <1>1 DEF Fork, Pickle
<1>2. ASSUME NEW c \in Children, BlockGiven(c) \/ Reported(c) \/ Exit(c) \/ Crash(c) PROVE a = c
  BY <1>0, <1>2 DEF BlockGiven, Reported, Exit, Crash, Leaves, Goto
<1>3. ASSUME NEW b \in Actors, Write(b) PROVE a = b
  BY <1>0, <1>3 DEF Write, Goto, AfterRow
<1>4. ASSUME NEW b \in Actors, NEW i \in DOMAIN writers[Process(b)], Upload(b, i) \/ UploadRaises(b, i)
      PROVE  a = b
  BY <1>0, <1>4 DEF Upload, UploadRaises, Goto, Finish
<1>5. ASSUME NEW b \in Actors,
             \/ Close(b) \/ Register(b) \/ List(b) \/ ListRaises(b)
             \/ Complete(b) \/ CompleteRaises(b) \/ Stop(b)
      PROVE  a = b
  BY <1>0, <1>5 DEF Close, Register, List, ListRaises, Complete, CompleteRaises, Stop, Goto, Finish
<1>. QED
  BY <1>1, <1>2, <1>3, <1>4, <1>5 DEF Next, Continue, ClientContinues

LEMMA EndedMoves ==
  ASSUME TypeOK, Next, NEW p \in Processes, ended'[p] # ended[p]
  PROVE  \E a \in Actors :
           /\ Process(a) = p /\ pc[a] # "idle" /\ pc'[a] = "idle" /\ ended'[p] \in {"ok", "raised"}
           /\ ended'[p] = "ok" => Stop(a)
<1>. USE Sets
<1>0. DOMAIN pc = Actors /\ DOMAIN ended = Processes
  BY DEF TypeOK
<1>1. ASSUME NEW a \in Actors, NEW how \in {"ok", "raised"}, Finish(a, how)
      PROVE  Process(a) = p /\ pc'[a] = "idle" /\ ended'[p] = how
  BY <1>0, <1>1 DEF Finish, Goto
<1>2. ASSUME NEW a \in Actors, Stop(a)
      PROVE  Process(a) = p /\ pc[a] # "idle" /\ pc'[a] = "idle" /\ ended'[p] \in {"ok", "raised"}
  BY <1>1, <1>2 DEF Stop
<1>3. ASSUME NEW a \in Actors,
             \/ List(a) \/ ListRaises(a) \/ CompleteRaises(a)
             \/ \E i \in DOMAIN writers[Process(a)] : UploadRaises(a, i)
      PROVE  Process(a) = p /\ pc[a] # "idle" /\ pc'[a] = "idle" /\ ended'[p] = "raised"
  <2>1. pc[a] # "idle"
    BY <1>3 DEF List, ListRaises, CompleteRaises, UploadRaises, Sends
  <2>2. Finish(a, "raised")
    BY <1>3 DEF List, ListRaises, CompleteRaises, UploadRaises
  <2>. QED BY <1>1, <2>1, <2>2
<1>4. \E a \in Actors : Stop(a) \/ List(a) \/ ListRaises(a) \/ CompleteRaises(a)
        \/ \E i \in DOMAIN writers[Process(a)] : UploadRaises(a, i)
  BY DEF Next, Continue, ClientContinues, Fork, Pickle, Exit, Crash, Leaves, Write,
     BlockGiven, Reported, Close, Register, Complete, Upload
<1>. QED BY <1>2, <1>3, <1>4

LEMMA ChildrenAtWorkStep ==
  ASSUME TypeOK, ChildrenAtWork, Next
  PROVE  ChildrenAtWork'
<1>. USE Sets
<1>. SUFFICES ASSUME NEW c \in Children, pc'[c] # "idle"
              PROVE  ended'[c] = "no" /\ kind'[c] \notin {"unborn", "gone"}
  BY DEF ChildrenAtWork
<1>1. pc[c] # "idle" \/ Write(c) \/ Close(c)
  <2>1. CASE pc'[c] = pc[c]
    BY <2>1
  <2>2. CASE \/ \E i \in DOMAIN writers[c] : Upload(c, i) \/ UploadRaises(c, i)
             \/ Register(c) \/ List(c) \/ ListRaises(c) \/ Complete(c) \/ CompleteRaises(c) \/ Stop(c)
             \/ BlockGiven(c) \/ Reported(c)
    BY <2>2 DEF Upload, UploadRaises, Sends, Register, List, ListRaises, Complete, CompleteRaises, Stop,
       BlockGiven, Reported
  <2>3. CASE Exit(c) \/ Crash(c)
    BY <2>3 DEF Exit, Crash, Leaves, TypeOK
  <2>. QED BY <2>1, <2>2, <2>3, ActorMoves
<1>2. ended[c] = "no" /\ kind[c] \notin {"unborn", "gone"}
  <2>1. CASE Write(c) \/ Close(c)
    BY <2>1 DEF Write, Close, CanCall
  <2>. QED BY <1>1, <2>1 DEF ChildrenAtWork
<1>3. ended'[c] = ended[c]
  BY EndedMoves, OneActor
<1>4. kind'[c] \notin {"unborn", "gone"}
  <2>1. CASE Exit(c) \/ Crash(c)
    BY <2>1 DEF Exit, Crash, Leaves, TypeOK
  <2>2. ~Fork(c) /\ ~Pickle(c)
    BY <1>2 DEF Fork, Pickle
  <2>. QED BY <1>2, <2>1, <2>2, KindMoves
<1>. QED BY <1>2, <1>3, <1>4

LEMMA HasBlockStep ==
  ASSUME TypeOK, Roles, HasBlock, Next
  PROVE  HasBlock'
<1>. USE Sets
<1>0. /\ counter \in Nat \ {0} /\ DOMAIN pc = Actors
      /\ \A p \in Processes : \A i \in DOMAIN writers[p] : i \in Threads /\ writers[p][i] \in BufferedWriter
  BY DEF TypeOK
<1>. SUFFICES ASSUME NEW p \in Processes, NEW i \in DOMAIN writers'[p], writers'[p][i].block = NoBlock
              PROVE  p \in Children /\ kind'[p] = "client" /\ pc'[p] \in {"ask", "ask_in_close"}
  BY DEF HasBlock, NoBlock
<1>1. CASE p \in Children /\ Fork(p)
  <2>1. writers'[p] = writers[Main]
    BY <1>1 DEF Fork, TypeOK
  <2>2. i \in DOMAIN writers[Main] /\ writers[Main][i].block = NoBlock
    BY <2>1
  <2>. QED BY <2>2 DEF HasBlock
<1>2. CASE p \in Children /\ (Exit(p) \/ Crash(p))
  BY <1>2, NoneIsEmpty DEF Exit, Crash, Leaves, TypeOK
<1>3. CASE p \in Children /\ BlockGiven(p)
  <2>. DEFINE w == [writers[p][MainThread] EXCEPT !.block = counter]
  <2>1. SetWriter(p, MainThread, w) /\ pc[p] \in {"ask", "ask_in_close"}
    BY <1>3 DEF BlockGiven
  <2>2. MainThread \in DOMAIN writers[p]
    BY <1>3, <2>1 DEF Roles
  <2>3. w.block = counter
    BY <1>0, <2>2 DEF BufferedWriter
  <2>. HIDE DEF w
  <2>4. /\ DOMAIN writers'[p] = DOMAIN writers[p] \cup {MainThread}
        /\ writers'[p][MainThread] = w
        /\ \A j \in DOMAIN writers[p] \ {MainThread} : writers'[p][j] = writers[p][j]
    BY <1>3, <2>1, WriterSet
  <2>5. i # MainThread /\ i \in DOMAIN writers[p] /\ writers[p][i].block = NoBlock
    BY <1>0, <2>3, <2>4 DEF NoBlock
  <2>6. kind[p] = "client"
    BY <2>5 DEF HasBlock
  <2>. QED BY <1>3, <2>5, <2>6 DEF Roles
<1>4. ASSUME NEW a \in Actors, p = Process(a), Write(a)
      PROVE  p \in Children /\ kind'[p] = "client" /\ pc'[p] \in {"ask", "ask_in_close"}
  <2>. DEFINE k == Ident(a)
              w == IF k \in DOMAIN writers[p]
                   THEN [writers[p][k] EXCEPT !.rows = Append(@, rows + 1)]
                   ELSE [block |-> NextBlock(p), rows |-> <<rows + 1>>, done |-> {}]
  <2>1. SetWriter(p, k, w) /\ pc[a] = "idle" /\ UNCHANGED kind /\ kind[p] \notin {"unborn", "gone"}
    BY <1>4 DEF Write, CanCall
  <2>2. w.block = NoBlock => Goto(a, "ask")
    BY <1>4 DEF Write
  <2>3. k \in DOMAIN writers[p] => w.block = writers[p][k].block
    BY <1>0 DEF BufferedWriter
  <2>4. k \notin DOMAIN writers[p] => w.block = NextBlock(p)
    OBVIOUS
  <2>. HIDE DEF w
  <2>5. /\ DOMAIN writers'[p] = DOMAIN writers[p] \cup {k}
        /\ writers'[p][k] = w
        /\ \A j \in DOMAIN writers[p] \ {k} : writers'[p][j] = writers[p][j]
    BY <1>4, <2>1, WriterSet
  <2>6. \A j \in DOMAIN writers[p] : writers[p][j].block # NoBlock
    <3>1. p \in Children => pc[p] = "idle"
      BY <1>4, <2>1, OneActor
    <3>. QED BY <3>1 DEF HasBlock
  <2>7. i = k /\ w.block = NoBlock /\ k \notin DOMAIN writers[p]
    BY <2>3, <2>5, <2>6
  <2>8. ~Local(p)
    BY <1>0, <2>4, <2>7 DEF NextBlock, NoBlock
  <2>9. p \in Children /\ kind[p] = "client"
    BY <2>1, <2>8 DEF Local, Roles, Processes, TypeOK
  <2>10. a = p
    BY <1>4, <2>9, OneActor
  <2>. QED BY <1>0, <2>1, <2>2, <2>7, <2>9, <2>10 DEF Goto
<1>5. ASSUME NEW a \in Actors, NEW k \in DOMAIN writers[p], p = Process(a), Upload(a, k)
      PROVE  p \in Children /\ kind'[p] = "client" /\ pc'[p] \in {"ask", "ask_in_close"}
  <2>. DEFINE w == [block |-> Following(p, writers[p][k]), rows |-> <<>>,
                    done |-> writers[p][k].done \cup {writers[p][k].block}]
  <2>1. SetWriter(p, k, w) /\ pc[a] \in {"upload", "close"} /\ UNCHANGED kind
    BY <1>5 DEF Upload, Sends
  <2>2. ~Local(p) => Goto(a, "ask") \/ Goto(a, "ask_in_close")
    BY <1>5 DEF Upload
  <2>3. w.block = NextBlock(p)
    BY DEF Following
  <2>. HIDE DEF w
  <2>4. /\ DOMAIN writers'[p] = DOMAIN writers[p] \cup {k}
        /\ writers'[p][k] = w
        /\ \A j \in DOMAIN writers[p] \ {k} : writers'[p][j] = writers[p][j]
    BY <1>0, <1>5, <2>1, WriterSet
  <2>5. \A j \in DOMAIN writers[p] : writers[p][j].block # NoBlock
    <3>1. p \in Children => pc[p] \in {"upload", "close"}
      BY <1>5, <2>1, OneActor
    <3>. QED BY <3>1 DEF HasBlock
  <2>6. ~Local(p)
    BY <1>0, <2>3, <2>4, <2>5 DEF NextBlock, NoBlock
  <2>7. p \in Children /\ kind[p] = "client"
    <3>1. p \in Children
      BY <2>6 DEF Local, Roles, Processes
    <3>2. kind[p] \notin {"unborn", "gone"}
      BY <3>1, NoneIsEmpty DEF Roles
    <3>. QED BY <2>6, <3>1, <3>2 DEF Local, TypeOK
  <2>8. a = p
    BY <1>5, <2>7, OneActor
  <2>. QED BY <1>0, <2>1, <2>2, <2>6, <2>7, <2>8 DEF Goto
<1>6. CASE writers'[p] = writers[p] /\ ~(p \in Children /\ (Fork(p) \/ Exit(p) \/ Crash(p) \/ BlockGiven(p)))
           /\ ~(\E a \in Actors : p = Process(a) /\ (Write(a) \/ \E k \in DOMAIN writers[p] : Upload(a, k)))
  <2>1. p \in Children /\ kind[p] = "client" /\ pc[p] \in {"ask", "ask_in_close"}
    BY <1>6 DEF HasBlock
  <2>2. ~Pickle(p)
    BY <2>1 DEF Pickle
  <2>3. kind'[p] = kind[p]
    BY <1>6, <2>2, KindMoves
  <2>4. ~(\/ Close(p) \/ Register(p) \/ List(p) \/ ListRaises(p) \/ Complete(p) \/ CompleteRaises(p) \/ Stop(p)
          \/ Reported(p) \/ \E k \in DOMAIN writers[p] : UploadRaises(p, k))
    BY <2>1 DEF Close, CanCall, Register, List, ListRaises, Complete, CompleteRaises, Stop, Reported,
       UploadRaises, Sends
  <2>5. pc'[p] = pc[p]
    BY <1>6, <2>1, <2>4, ActorMoves
  <2>. QED BY <2>1, <2>3, <2>5
<1>. QED BY <1>1, <1>2, <1>3, <1>4, <1>5, <1>6, WritersMove

LEMMA EndedStays ==
  ASSUME TypeOK, Next, NEW p \in Processes, ended[p] # "no"
  PROVE  ended'[p] # "no"
BY EndedMoves

\* The first step of a close() of the main process.
LEMMA MainBeginsToClose ==
  ASSUME TypeOK, Roles, Closing, Next, MainIsClosing', ~MainIsClosing
  PROVE  Close(MainThread) /\ ended'[Main] # "ok"
<1>. USE Sets
<1>0. DOMAIN pc = Actors /\ MainThread \notin Children
  BY WriterAssumption DEF TypeOK
<1>1. ended'[Main] # "ok"
  <2>. SUFFICES ASSUME ended'[Main] = "ok" PROVE FALSE
    OBVIOUS
  <2>1. ended[Main] # "ok"
    BY DEF MainIsClosing
  <2>2. PICK a \in Actors : Process(a) = Main /\ Stop(a)
    BY <2>1, EndedMoves
  <2>3. a \in Threads /\ pc[a] = "stop"
    BY <2>2, WriterAssumption DEF Actors, Process, Stop
  <2>4. a = MainThread
    BY <2>3 DEF Closing, ClosingSteps
  <2>. QED BY <2>3, <2>4 DEF MainIsClosing, ClosingSteps
<1>2. pc'[MainThread] \in ClosingSteps /\ pc[MainThread] \notin ClosingSteps
  BY <1>1 DEF MainIsClosing
<1>3. ~Write(MainThread)
  BY <1>0, <1>2 DEF Write, Goto, AfterRow, ClosingSteps
<1>4. ASSUME NEW i \in DOMAIN writers[Main], Upload(MainThread, i) \/ UploadRaises(MainThread, i) PROVE FALSE
  BY <1>0, <1>2, <1>4 DEF Upload, UploadRaises, Sends, Goto, Finish, ClosingSteps
<1>5. ~(\/ Register(MainThread) \/ List(MainThread) \/ ListRaises(MainThread) \/ Complete(MainThread)
        \/ CompleteRaises(MainThread) \/ Stop(MainThread))
  BY <1>2 DEF Register, List, ListRaises, Complete, CompleteRaises, Stop, ClosingSteps
<1>. QED BY <1>0, <1>1, <1>2, <1>3, <1>4, <1>5, ActorMoves

LEMMA AloneStep ==
  ASSUME TypeOK, Roles, Closing, Alone, Next
  PROVE  Alone'
<1>. USE Sets
<1>0. Threads \cap Children = {} /\ DOMAIN pc = Actors
  BY WriterAssumption DEF TypeOK
<1>1. ASSUME MainIsClosing'
      PROVE  /\ \A c \in Children : kind'[c] \in {"unborn", "gone"} \/ ended'[c] # "no"
             /\ \A t \in Threads \ {MainThread} : pc'[t] = "idle"
  <2>1. CASE MainIsClosing
    <3>1. ended[Main] # "no" \/ MainCloses
      BY <2>1 DEF MainIsClosing, MainCloses, Closing, ClosingSteps
    <3>2. ASSUME NEW c \in Children PROVE kind'[c] \in {"unborn", "gone"} \/ ended'[c] # "no"
      <4>1. CASE ended[c] # "no"
        BY <4>1, EndedStays
      <4>2. CASE kind[c] \in {"unborn", "gone"}
        <5>1. ~Fork(c) /\ ~Pickle(c)
          BY <3>1 DEF Fork, Pickle, MainIsOpen, MainCloses
        <5>2. (Exit(c) \/ Crash(c)) => kind'[c] = "gone"
          BY DEF Exit, Crash, Leaves, TypeOK
        <5>. QED BY <4>2, <5>1, <5>2, KindMoves
      <4>. QED BY <2>1, <4>1, <4>2 DEF Alone
    <3>3. ASSUME NEW t \in Threads \ {MainThread}, pc'[t] # "idle" PROVE FALSE
      <4>1. pc[t] = "idle"
        BY <2>1 DEF Alone
      <4>2. ~Write(t) /\ ~Close(t)
        BY <1>0, <3>1 DEF Write, Close, CanCall
      <4>3. ~(\/ Register(t) \/ List(t) \/ ListRaises(t) \/ Complete(t) \/ CompleteRaises(t) \/ Stop(t)
              \/ \E i \in DOMAIN writers[Process(t)] : Upload(t, i) \/ UploadRaises(t, i))
        BY <4>1 DEF Register, List, ListRaises, Complete, CompleteRaises, Stop, Upload, UploadRaises, Sends
      <4>. QED BY <1>0, <3>3, <4>1, <4>2, <4>3, ActorMoves
    <3>. QED BY <3>2, <3>3
  <2>2. CASE ~MainIsClosing
    <3>1. Close(MainThread)
      BY <1>1, <2>2, MainBeginsToClose
    <3>2. /\ UNCHANGED <<kind, ended>> /\ \A t \in Threads : pc[t] = "idle"
          /\ pc' = [pc EXCEPT ![MainThread] = "close"]
          /\ \A c \in Children : kind[c] \in {"unborn", "gone"} \/ (kind[c] = "client" /\ ended[c] # "no")
      BY <3>1 DEF Close, Goto
    <3>. QED BY <1>0, <3>2
  <2>. QED BY <2>1, <2>2
<1>2. ASSUME ended'[Main] = "ok" PROVE pc'[MainThread] = "idle"
  <2>1. CASE ended[Main] = "ok"
    <3>1. pc[MainThread] = "idle"
      BY <2>1 DEF Alone
    <3>2. ~Write(MainThread) /\ ~Close(MainThread)
      BY <2>1 DEF Write, Close, CanCall
    <3>3. ~(\/ Register(MainThread) \/ List(MainThread) \/ ListRaises(MainThread) \/ Complete(MainThread)
            \/ CompleteRaises(MainThread) \/ Stop(MainThread)
            \/ \E i \in DOMAIN writers[Process(MainThread)] : Upload(MainThread, i) \/ UploadRaises(MainThread, i))
      BY <3>1 DEF Register, List, ListRaises, Complete, CompleteRaises, Stop, Upload, UploadRaises, Sends
    <3>. QED BY <1>0, <3>1, <3>2, <3>3, ActorMoves
  <2>2. CASE ended[Main] # "ok"
    <3>1. PICK a \in Actors : Process(a) = Main /\ Stop(a) /\ pc'[a] = "idle"
      BY <1>2, <2>2, EndedMoves
    <3>2. a \in Threads /\ pc[a] = "stop"
      BY <3>1 DEF Actors, Process, Stop
    <3>. QED BY <3>1, <3>2 DEF Closing, ClosingSteps
  <2>. QED BY <2>1, <2>2
<1>. QED BY <1>1, <1>2 DEF Alone

LEMMA CommitsStep ==
  ASSUME TypeOK, Roles, Closing, Commits, Next
  PROVE  Commits'
<1>. USE Sets
<1>0. /\ DOMAIN pc = Actors /\ DOMAIN willCommit = Processes /\ MainThread \notin Children
      /\ willCommit[Main] /\ willCommit \in [Processes -> BOOLEAN] /\ committed \in BOOLEAN
  BY WriterAssumption DEF TypeOK, Commits
<1>1. willCommit'[Main]
  <2>1. ASSUME NEW c \in Children, Fork(c) \/ Exit(c) \/ Crash(c) PROVE willCommit'[Main]
    BY <1>0, <2>1 DEF Fork, Exit, Crash, Leaves
  <2>2. ASSUME NEW a \in Actors, Write(a) PROVE willCommit'[Main]
    BY <1>0, <2>2 DEF Write, CommitsFixed
  <2>3. \/ UNCHANGED willCommit \/ \E a \in Actors : Write(a)
        \/ \E c \in Children : Fork(c) \/ Exit(c) \/ Crash(c)
    BY DEF Next, Continue, ClientContinues, Pickle, BlockGiven, Reported, Close, Register, List, ListRaises,
       Complete, CompleteRaises, Stop, Upload, UploadRaises, object
  <2>. QED BY <1>0, <2>1, <2>2, <2>3
<1>2. committed => committed'
  <2>1. \/ UNCHANGED committed \/ committed' = TRUE
        \/ \E a \in Actors : CompleteRaises(a)
    BY DEF Next, Continue, ClientContinues, Fork, Pickle, Exit, Crash, Leaves, Write, BlockGiven, Reported,
       Close, Register, List, ListRaises, Complete, Stop, Upload, UploadRaises, service
  <2>2. ASSUME NEW a \in Actors, CompleteRaises(a), committed PROVE committed'
    BY <2>2, Zenon DEF CompleteRaises
  <2>. QED BY <2>1, <2>2
<1>3. ASSUME pc'[MainThread] = "stop" PROVE committed'
  <2>1. CASE pc[MainThread] = "stop"
    BY <1>2, <2>1 DEF Commits
  <2>2. CASE pc[MainThread] # "stop"
    <3>1. ~Write(MainThread) /\ ~Close(MainThread)
      BY <1>0, <1>3 DEF Write, Close, Goto, AfterRow
    <3>2. ~(\/ List(MainThread) \/ ListRaises(MainThread) \/ CompleteRaises(MainThread) \/ Stop(MainThread)
            \/ \E i \in DOMAIN writers[Process(MainThread)] : Upload(MainThread, i) \/ UploadRaises(MainThread, i))
      BY <1>0, <1>3 DEF List, ListRaises, CompleteRaises, Stop, Upload, UploadRaises, Goto, Finish
    <3>3. ~Register(MainThread)
      BY <1>0, <1>3 DEF Register, Goto
    <3>4. Complete(MainThread)
      BY <1>0, <1>3, <2>2, <3>1, <3>2, <3>3, ActorMoves
    <3>. QED BY <3>4 DEF Complete
  <2>. QED BY <2>1, <2>2
<1>4. ASSUME ended'[Main] = "ok" PROVE committed'
  <2>1. CASE ended[Main] = "ok"
    BY <1>2, <2>1 DEF Commits
  <2>2. CASE ended[Main] # "ok"
    <3>1. PICK a \in Actors : Process(a) = Main /\ Stop(a)
      BY <1>4, <2>2, EndedMoves
    <3>2. a \in Threads /\ pc[a] = "stop"
      BY <3>1 DEF Actors, Process, Stop
    <3>3. a = MainThread
      BY <3>2 DEF Closing, ClosingSteps
    <3>. QED BY <1>2, <3>2, <3>3 DEF Commits
  <2>. QED BY <2>1, <2>2
<1>. QED BY <1>1, <1>3, <1>4 DEF Commits

-----------------------------------------------------------------------------
(* What is told, and what the main process compares                        *)

\* A process that tells what it has written has all of it at the service.
LEMMA TellsAll ==
  ASSUME TypeOK, Roles, Closing, Whole, Alive, NEW a \in Actors,
         Register(a) \/ (a \in Children /\ Reported(a))
  PROVE  /\ AllStored(Process(a)) /\ Told(Process(a))'
         /\ UNCHANGED <<blocks, wrote, ended, kind, adopted, known>>
         /\ pc[a] = "close" /\ ended[Process(a)] = "no" /\ kind[Process(a)] # "gone"
<1>. USE Sets
<1>. DEFINE p == Process(a)
<1>0. DOMAIN pc = Actors
  BY DEF TypeOK
<1>1. pc[a] = "close" /\ AllSent(p) /\ UNCHANGED <<blocks, wrote, ended, kind, adopted, known>>
  BY DEF Register, Reported, object, service, history
<1>2. ended[p] = "no"
  BY <1>1 DEF Closing, ClosingSteps
<1>3. kind[p] # "gone"
  <2>1. CASE a \in Threads
    BY <2>1 DEF Roles
  <2>2. CASE a \in Children
    BY <1>1, <2>2 DEF Whole, ChildrenAtWork
  <2>. QED BY <2>1, <2>2 DEF Actors
<1>4. \A i \in DOMAIN writers[p] : RowsOf(p, i) = {}
  BY <1>1 DEF AllSent, RowsOf, ToSet
<1>5. AllStored(p)
  BY <1>2, <1>3, <1>4 DEF Whole, NothingLost, AllStored
<1>6. pc'[a] \in {"list", "stop"}
  BY <1>0 DEF Register, Reported, Goto
<1>. QED BY <1>1, <1>2, <1>3, <1>5, <1>6 DEF Told

LEMMA ToldMoves ==
  ASSUME TypeOK, Next, NEW p \in Processes, Told(p)', ~Told(p)
  PROVE  \E a \in Actors : Process(a) = p /\ (Register(a) \/ (a \in Children /\ Reported(a)))
<1>. USE Sets
<1>0. DOMAIN pc = Actors
  BY DEF TypeOK
<1>1. PICK a \in Actors : Process(a) = p /\ pc'[a] \in {"list", "complete", "stop"}
  BY DEF Told
<1>2. pc[a] \notin {"list", "complete", "stop"}
  BY <1>1 DEF Told
<1>3. ~Write(a) /\ ~Close(a)
  BY <1>0, <1>1 DEF Write, Close, Goto, AfterRow
<1>4. ~(\E i \in DOMAIN writers[Process(a)] : Upload(a, i) \/ UploadRaises(a, i))
  BY <1>0, <1>1 DEF Upload, UploadRaises, Goto, Finish
<1>5. ~(List(a) \/ ListRaises(a) \/ Complete(a) \/ CompleteRaises(a) \/ Stop(a))
  BY <1>2 DEF List, ListRaises, Complete, CompleteRaises, Stop
<1>6. a \in Children => ~(BlockGiven(a) \/ Exit(a) \/ Crash(a))
  BY <1>0, <1>1 DEF BlockGiven, Exit, Crash, Leaves, Goto, AfterRow
<1>. QED BY <1>1, <1>2, <1>3, <1>4, <1>5, <1>6, ActorMoves

\* An actor that is through with telling goes on to the end of the call.
LEMMA ToldStays ==
  ASSUME TypeOK, Next, NEW p \in Processes, NEW a \in Actors, Process(a) = p,
         pc[a] \in {"list", "complete", "stop"}
  PROVE  \/ pc'[a] = pc[a] \/ pc'[a] \in {"complete", "stop"} \/ ended'[p] # "no"
         \/ p \in Children /\ kind'[p] = "gone" /\ known'[p] = {}
<1>. USE Sets
<1>0. DOMAIN pc = Actors /\ DOMAIN ended = Processes /\ DOMAIN kind = Processes /\ DOMAIN known = Processes
  BY DEF TypeOK
<1>1. ~Write(a) /\ ~Close(a) /\ ~Register(a)
  BY DEF Write, Close, CanCall, Register
<1>2. ~(\E i \in DOMAIN writers[Process(a)] : Upload(a, i) \/ UploadRaises(a, i))
  BY DEF Upload, UploadRaises, Sends
<1>3. a \in Children => ~(BlockGiven(a) \/ Reported(a))
  BY DEF BlockGiven, Reported
<1>4. CASE List(a) \/ ListRaises(a) \/ Complete(a) \/ CompleteRaises(a) \/ Stop(a)
  BY <1>0, <1>4 DEF List, ListRaises, Complete, CompleteRaises, Stop, Goto, Finish
<1>5. CASE a \in Children /\ (Exit(a) \/ Crash(a))
  BY <1>0, <1>5 DEF Exit, Crash, Leaves
<1>. QED BY <1>1, <1>2, <1>3, <1>4, <1>5, ActorMoves

\* A process that is through with writing.
Over(p) == kind[p] = "gone" \/ ended[p] # "no" \/ Told(p)

LEMMA OverStays ==
  ASSUME TypeOK, Next, NEW p \in Processes, Over(p)
  PROVE  Over(p)'
<1>1. CASE kind[p] = "gone"
  BY <1>1, KindMoves DEF Over
<1>2. CASE ended[p] # "no"
  BY <1>2, EndedStays DEF Over
<1>3. CASE Told(p)
  BY <1>3, ToldStays DEF Over, Told
<1>. QED BY <1>1, <1>2, <1>3 DEF Over

LEMMA OverWritesNothing ==
  ASSUME TypeOK, Closing, Next, NEW p \in Processes, Over(p)
  PROVE  wrote'[p] = wrote[p]
<1>. USE Sets
<1>1. ASSUME NEW a \in Actors, Write(a), Process(a) = p PROVE FALSE
  <2>1. kind[p] # "gone" /\ ended[p] = "no" /\ pc[a] = "idle" /\ (a \in Threads => ~MainCloses)
    BY <1>1 DEF Write, CanCall
  <2>2. PICK b \in Actors : Process(b) = p /\ pc[b] \in {"list", "complete", "stop"}
    BY <2>1 DEF Over, Told
  <2>3. CASE p \in Children
    BY <1>1, <2>1, <2>2, <2>3, OneActor
  <2>4. CASE p \notin Children
    BY <1>1, <2>1, <2>2, <2>4 DEF Actors, Closing, ClosingSteps, MainCloses
  <2>. QED BY <2>3, <2>4
<1>2. ASSUME NEW a \in Actors, Write(a), Process(a) # p PROVE wrote'[p] = wrote[p]
  BY <1>2 DEF Write, TypeOK
<1>3. UNCHANGED wrote \/ \E a \in Actors : Write(a)
  BY DEF Next, Continue, ClientContinues, Fork, Pickle, Exit, Crash, Leaves, BlockGiven, Reported, Close,
     Register, List, ListRaises, Complete, CompleteRaises, Stop, Upload, UploadRaises, history
<1>. QED BY <1>1, <1>2, <1>3

LEMMA SentStep ==
  ASSUME TypeOK, Roles, Closing, NotUploaded, Whole, Next, Alive'
  PROVE  Sent'
<1>. USE Sets
<1>. SUFFICES ASSUME NEW p \in Processes, Told(p)' \/ ended'[p] = "ok"
              PROVE  AllStored(p)'
  BY DEF Sent
<1>1. CASE Told(p) \/ ended[p] = "ok"
  <2>1. AllStored(p) /\ Over(p)
    BY <1>1 DEF Whole, Sent, Over
  <2>. QED BY <2>1, OverWritesNothing, BlocksStay DEF AllStored
<1>2. CASE ~Told(p) /\ Told(p)'
  <2>1. PICK a \in Actors : Process(a) = p /\ (Register(a) \/ (a \in Children /\ Reported(a)))
    BY <1>2, ToldMoves
  <2>2. AllStored(p) /\ UNCHANGED <<blocks, wrote>>
    BY <2>1, AliveBefore, TellsAll
  <2>. QED BY <2>2 DEF AllStored, Stored
<1>3. CASE ended[p] # "ok" /\ ended'[p] = "ok"
  <2>1. PICK a \in Actors : Process(a) = p /\ Stop(a)
    BY <1>3, EndedMoves
  <2>2. Told(p)
    BY <2>1 DEF Told, Stop
  <2>. QED BY <1>1, <2>2
<1>. QED BY <1>1, <1>2, <1>3

LEMMA AdoptedStays ==
  ASSUME Next, adopted
  PROVE  adopted'
BY DEF Next, Continue, ClientContinues, Fork, Pickle, Exit, Crash, Leaves, Write,
   BlockGiven, Reported, Close, Register, List, ListRaises, Complete, CompleteRaises, Stop,
   Upload, UploadRaises, history

LEMMA KnownLateStep ==
  ASSUME TypeOK, Roles, Closing, KnownLate, Next
  PROVE  KnownLate'
<1>. USE Sets
<1>0. DOMAIN known = Processes /\ DOMAIN pc = Actors /\ DOMAIN ended = Processes
  BY DEF TypeOK
<1>. SUFFICES ASSUME ~adopted', NEW p \in Processes, known'[p] # {}
              PROVE  ended'[p] # "no" \/ \E a \in Actors : Process(a) = p /\ pc'[a] \in {"complete", "stop"}
  BY DEF KnownLate
<1>1. ~adopted
  BY AdoptedStays
<1>2. CASE known[p] # {}
  <2>1. CASE ended[p] # "no"
    BY <2>1, EndedStays
  <2>2. CASE ended[p] = "no"
    <3>1. PICK a \in Actors : Process(a) = p /\ pc[a] \in {"complete", "stop"}
      BY <1>1, <1>2, <2>2 DEF KnownLate
    <3>. QED BY <3>1, ToldStays
  <2>. QED BY <2>1, <2>2
<1>3. CASE known[p] = {}
  <2>1. ASSUME NEW c \in Children, Fork(c) PROVE FALSE
    <3>1. ended[Main] = "no" /\ \A t \in Threads : pc[t] = "idle"
      BY <2>1 DEF Fork, MainIsOpen
    <3>2. known[Main] = {}
      <4>1. \A a \in Actors : Process(a) = Main => pc[a] = "idle"
        BY <3>1, WriterAssumption DEF Process, Actors
      <4>. QED BY <1>1, <3>1, <4>1 DEF KnownLate
    <3>. QED BY <1>0, <1>3, <2>1, <3>2 DEF Fork
  <2>2. ASSUME NEW c \in Children, Pickle(c) PROVE FALSE
    <3>1. DOMAIN blocks = {}
      BY <2>2, NoneIsEmpty DEF Pickle
    <3>. QED BY <1>0, <1>3, <2>2, <3>1 DEF Pickle
  <2>3. ASSUME NEW c \in Children, Exit(c) \/ Crash(c) PROVE FALSE
    BY <1>0, <1>3, <2>3 DEF Exit, Crash, Leaves
  <2>4. ASSUME NEW a \in Actors, List(a)
        PROVE  Process(a) = p /\ (pc'[a] = "complete" \/ ended'[p] = "raised")
    BY <1>0, <1>3, <2>4 DEF List, Goto, Finish
  <2>5. \/ UNCHANGED known \/ \E a \in Actors : List(a)
        \/ \E c \in Children : Fork(c) \/ Pickle(c) \/ Exit(c) \/ Crash(c)
    BY DEF Next, Continue, ClientContinues, Write, BlockGiven, Reported, Close, Register, ListRaises,
       Complete, CompleteRaises, Stop, Upload, UploadRaises, object
  <2>. QED BY <1>3, <2>1, <2>2, <2>3, <2>4, <2>5
<1>. QED BY <1>2, <1>3

\* What is in a queue was there before, or is told in this step.
LEMMA QueuesMove ==
  ASSUME TypeOK, Next, NEW b, InQueues(b)', ~InQueues(b)
  PROVE  \E a \in Actors : b \in Written(Process(a)) /\ (Register(a) \/ (a \in Children /\ Reported(a)))
<1>. USE Sets
<1>0. DOMAIN feeding = Processes /\ DOMAIN inQueue = Processes
  BY DEF TypeOK
<1>1. ASSUME NEW c \in Children, Fork(c) \/ Pickle(c) PROVE FALSE
  BY <1>0, <1>1 DEF Fork, Pickle, InQueues
<1>2. ASSUME NEW c \in Children, Exit(c) \/ Crash(c) PROVE FALSE
  <2>1. shared' \subseteq shared \cup feeding[c]
    BY <1>2 DEF Exit, Crash
  <2>2. \A p \in Processes : feeding'[p] \subseteq feeding[p] /\ inQueue'[p] \subseteq inQueue[p]
    BY <1>0, <1>2 DEF Exit, Crash, Leaves
  <2>. QED BY <2>1, <2>2 DEF InQueues
<1>3. ASSUME NEW a \in Actors, List(a) \/ ListRaises(a) PROVE FALSE
  <2>1. shared' \subseteq shared /\ UNCHANGED feeding /\ \A p \in Processes : inQueue'[p] \subseteq inQueue[p]
    BY <1>0, <1>3 DEF List, ListRaises
  <2>. QED BY <2>1 DEF InQueues
<1>4. ASSUME NEW a \in Actors, Register(a) PROVE b \in Written(Process(a))
  BY <1>0, <1>4 DEF Register, InQueues
<1>5. ASSUME NEW a \in Children, Reported(a) PROVE b \in Written(Process(a))
  BY <1>0, <1>5 DEF Reported, InQueues
<1>6. CASE UNCHANGED <<shared, feeding, inQueue>>
  BY <1>6 DEF InQueues
<1>7. \/ UNCHANGED <<shared, feeding, inQueue>>
      \/ \E a \in Actors : Register(a) \/ List(a) \/ ListRaises(a)
      \/ \E c \in Children : Fork(c) \/ Pickle(c) \/ Exit(c) \/ Crash(c) \/ Reported(c)
  BY DEF Next, Continue, ClientContinues, Write, BlockGiven, Close, Complete, CompleteRaises, Stop,
     Upload, UploadRaises, queues
<1>. QED BY <1>1, <1>2, <1>3, <1>4, <1>5, <1>6, <1>7

LEMMA WroteMoves ==
  ASSUME TypeOK, Next, NEW p \in Processes
  PROVE  wrote'[p] = wrote[p] \/ wrote'[p] = wrote[p] \cup {rows + 1}
<1>1. UNCHANGED wrote \/ \E a \in Actors : Write(a)
  BY DEF Next, Continue, ClientContinues, Fork, Pickle, Exit, Crash, Leaves, BlockGiven, Reported, Close,
     Register, List, ListRaises, Complete, CompleteRaises, Stop, Upload, UploadRaises, history
<1>2. ASSUME NEW a \in Actors, Write(a)
      PROVE  wrote'[p] = wrote[p] \/ wrote'[p] = wrote[p] \cup {rows + 1}
  BY <1>2, Sets DEF Write, TypeOK
<1>. QED BY <1>1, <1>2

\* What a process tells are blocks of its own.
LEMMA TellsOwn ==
  ASSUME TypeOK, Closing, Whole, ~adopted, NEW a \in Actors, pc[a] \in {"close", "list"},
         NEW b \in Written(Process(a))
  PROVE  b \in DOMAIN blocks /\ blocks[b] \subseteq wrote[Process(a)]
<1>. USE Sets
<1>. DEFINE p == Process(a)
<1>1. known[p] = {}
  <2>1. ended[p] = "no" /\ \A x \in Actors \ {a} : Process(x) = p => pc[x] = "idle"
    BY DEF Closing, ClosingSteps
  <2>. QED BY <2>1 DEF Whole, KnownLate
<1>2. PICK i \in DOMAIN writers[p] : b \in writers[p][i].done
  BY <1>1 DEF Written
<1>. QED BY <1>2 DEF Whole, Buffers

LEMMA QueuesStep ==
  ASSUME TypeOK, Roles, Closing, NotUploaded, Whole, Next, Alive'
  PROVE  QueuesWhole'
<1>. USE Sets
<1>. SUFFICES ASSUME ~adopted', NEW b, InQueues(b)'
              PROVE  /\ b \in DOMAIN blocks'
                     /\ \A p \in Processes : blocks'[b] \cap wrote'[p] # {} => AllStored(p)' /\ Over(p)'
  BY DEF QueuesWhole, Over
<1>1. ~adopted
  BY AdoptedStays
<1>2. CASE InQueues(b)
  <2>1. b \in DOMAIN blocks /\ b \in DOMAIN blocks' /\ blocks'[b] = blocks[b]
    BY <1>1, <1>2, BlocksStay DEF Whole, QueuesWhole
  <2>2. ASSUME NEW p \in Processes, blocks'[b] \cap wrote'[p] # {}
        PROVE  AllStored(p)' /\ Over(p)'
    <3>1. rows + 1 \notin blocks[b]
      BY <2>1, WriterAssumption DEF Whole, RowsOnce, TypeOK
    <3>2. blocks[b] \cap wrote[p] # {}
      BY <2>1, <2>2, <3>1, WroteMoves
    <3>3. AllStored(p) /\ Over(p)
      BY <1>1, <1>2, <3>2 DEF Whole, QueuesWhole, Over
    <3>4. wrote'[p] = wrote[p] /\ Over(p)'
      BY <3>3, OverStays, OverWritesNothing
    <3>. QED BY <3>3, <3>4, BlocksStay DEF AllStored
  <2>. QED BY <2>1, <2>2
<1>3. CASE ~InQueues(b)
  <2>1. PICK a \in Actors : b \in Written(Process(a)) /\ (Register(a) \/ (a \in Children /\ Reported(a)))
    BY <1>3, QueuesMove
  <2>2. /\ AllStored(Process(a)) /\ Told(Process(a))' /\ UNCHANGED <<blocks, wrote>> /\ pc[a] = "close"
    BY <2>1, AliveBefore, TellsAll
  <2>3. b \in DOMAIN blocks /\ blocks[b] \subseteq wrote[Process(a)]
    BY <1>1, <2>1, <2>2, TellsOwn
  <2>4. \A p \in Processes : blocks[b] \cap wrote[p] # {} => p = Process(a)
    BY <2>3 DEF Whole, RowsOnce
  <2>5. AllStored(Process(a))'
    BY <2>2 DEF AllStored, Stored
  <2>. QED BY <2>2, <2>3, <2>4, <2>5 DEF Over
<1>. QED BY <1>2, <1>3

HasCompared == pc[MainThread] \in {"complete", "stop"} \/ ended[Main] = "ok"

\* Once the main process has compared, nobody writes, uploads or returns.
LEMMA NothingMoves ==
  ASSUME TypeOK, Roles, Closing, Whole, Next, Alive', HasCompared
  PROVE  /\ UNCHANGED <<blocks, wrote>>
         /\ \A p \in Processes : ended'[p] = "ok" => ended[p] = "ok" \/ Told(p)
<1>. USE Sets
<1>0. /\ MainIsClosing /\ Alone /\ ChildrenAtWork
      /\ ended[Main] # "no" \/ MainCloses
      /\ pc[MainThread] \notin {"close", "upload"}
      /\ pc[MainThread] # "idle" \/ ended[Main] # "no"
  BY DEF Whole, Alone, HasCompared, MainIsClosing, MainCloses, ClosingSteps
<1>1. \A c \in Children : pc[c] = "idle" /\ (kind[c] \in {"unborn", "gone"} \/ ended[c] # "no")
  BY <1>0 DEF Alone, ChildrenAtWork
<1>2. \A t \in Threads \ {MainThread} : pc[t] = "idle"
  BY <1>0 DEF Alone
<1>3. ASSUME NEW a \in Actors, Write(a) PROVE FALSE
  <2>1. CASE a \in Children
    BY <1>1, <1>3, <2>1 DEF Write, CanCall
  <2>2. CASE a \in Threads
    BY <1>0, <1>3, <2>2 DEF Write, CanCall
  <2>. QED BY <2>1, <2>2 DEF Actors
<1>4. \A a \in Actors : pc[a] \notin {"close", "upload"}
  BY <1>0, <1>1, <1>2 DEF Actors
<1>5. \A a \in Actors : \A i : ~Sends(a, i)
  BY <1>4 DEF Sends
<1>6. Keeps
  BY <1>3, <1>5, RowMoves DEF Upload, UploadRaises
<1>7. \A p \in Processes : ended'[p] = "ok" => ended[p] = "ok" \/ Told(p)
  BY EndedMoves DEF Told, Stop
<1>. QED BY <1>6, <1>7 DEF Keeps

LEMMA ComparedStep ==
  ASSUME TypeOK, Roles, Closing, NotUploaded, Whole, Next, Alive'
  PROVE  Compared'
<1>. USE Sets
<1>0. DOMAIN pc = Actors
  BY DEF TypeOK
<1>. SUFFICES ASSUME HasCompared', NEW p \in Processes
              PROVE  \/ AllStored(p)'
                     \/ ended'[p] # "ok" /\ (adopted' \/ \A r \in wrote'[p] : ~Stored(r)')
  BY DEF Compared, HasCompared
<1>1. CASE HasCompared
  <2>1. UNCHANGED <<blocks, wrote>> /\ (ended'[p] = "ok" => ended[p] = "ok" \/ Told(p))
    BY <1>1, NothingMoves
  <2>2. AllStored(p) \/ (ended[p] # "ok" /\ (adopted \/ \A r \in wrote[p] : ~Stored(r)))
    BY <1>1 DEF Whole, Compared, HasCompared
  <2>3. ended'[p] = "ok" => AllStored(p)
    BY <2>1 DEF Whole, Sent
  <2>4. AllStored(p)' <=> AllStored(p)
    BY <2>1 DEF AllStored, Stored
  <2>5. \A r : Stored(r)' <=> Stored(r)
    BY <2>1 DEF Stored
  <2>. QED BY <2>1, <2>2, <2>3, <2>4, <2>5, AdoptedStays
<1>2. CASE ~HasCompared
  <2>1. pc'[MainThread] \in {"complete", "stop"} /\ pc[MainThread] \notin {"complete", "stop"}
    <3>1. ASSUME ended'[Main] = "ok" PROVE FALSE
      <4>1. PICK a \in Actors : Process(a) = Main /\ Stop(a)
        BY <1>2, <3>1, EndedMoves DEF HasCompared
      <4>2. a \in Threads /\ pc[a] = "stop"
        BY <4>1 DEF Actors, Process, Stop
      <4>. QED BY <1>2, <4>2 DEF Closing, ClosingSteps, HasCompared
    <3>. QED BY <1>2, <3>1 DEF HasCompared
  <2>2. List(MainThread)
    <3>1. ~Write(MainThread) /\ ~Close(MainThread)
      BY <1>0, <2>1 DEF Write, Close, Goto, AfterRow
    <3>2. ~(\E i \in DOMAIN writers[Main] : Upload(MainThread, i) \/ UploadRaises(MainThread, i))
      BY <1>0, <2>1 DEF Upload, UploadRaises, Goto, Finish
    <3>3. ~(ListRaises(MainThread) \/ CompleteRaises(MainThread) \/ Stop(MainThread) \/ Complete(MainThread))
      BY <1>0, <2>1 DEF ListRaises, Complete, CompleteRaises, Stop, Finish, Goto
    <3>4. ~Register(MainThread)
      BY <1>0, <2>1 DEF Register, Goto, Whole, Commits
    <3>. QED BY <2>1, <3>1, <3>2, <3>3, <3>4, ActorMoves, WriterAssumption
  <2>3. /\ BlocksMatch(Main) /\ UNCHANGED <<blocks, wrote, ended, adopted>> /\ pc[MainThread] = "list"
    BY <1>0, <2>1, <2>2 DEF List, Goto, Finish, service, history
  <2>4. ended[p] = "ok" => AllStored(p)
    BY DEF Whole, Sent
  <2>5. ASSUME ~adopted, NEW r \in wrote[p], Stored(r) PROVE AllStored(p)
    <3>1. PICK b \in DOMAIN blocks : r \in blocks[b]
      BY <2>5 DEF Stored
    <3>2. known[Main] = {}
      <4>1. ended[Main] = "no" /\ \A x \in Actors \ {MainThread} : Process(x) = Main => pc[x] = "idle"
        BY <2>3 DEF Closing, ClosingSteps
      <4>. QED BY <2>3, <2>5, <4>1 DEF Whole, KnownLate
    <3>3. b \in Written(Main) \/ InQueues(b)
      BY <2>3, <3>2 DEF BlocksMatch, Collected, InQueues
    <3>4. CASE InQueues(b)
      BY <2>5, <3>1, <3>4 DEF Whole, QueuesWhole
    <3>5. CASE b \in Written(Main)
      <4>1. blocks[b] \subseteq wrote[Main]
        BY <2>3, <2>5, <3>5, TellsOwn
      <4>2. p = Main
        BY <2>5, <3>1, <4>1 DEF Whole, RowsOnce
      <4>. QED BY <2>3, <4>2 DEF Whole, Sent, Told
    <3>. QED BY <3>3, <3>4, <3>5
  <2>6. AllStored(p)' <=> AllStored(p)
    BY <2>3 DEF AllStored, Stored
  <2>7. \A r : Stored(r)' <=> Stored(r)
    BY <2>3 DEF Stored
  <2>. QED BY <2>3, <2>4, <2>5, <2>6, <2>7
<1>. QED BY <1>1, <1>2

-----------------------------------------------------------------------------
(* What the close() of the main process commits: the theorem               *)

LEMMA InitWhole == Init => RInv
<1>. SUFFICES ASSUME Init PROVE Whole
  BY DEF RInv
<1>. USE Sets, NoneIsEmpty, WriterAssumption DEF Init
<1>1. \A p \in Processes : wrote[p] = {} /\ DOMAIN writers[p] = {} /\ known[p] = {} /\ ended[p] = "no"
  OBVIOUS
<1>2. DOMAIN blocks = {} /\ \A a \in Actors : pc[a] = "idle"
  OBVIOUS
<1>3. \A b : ~InQueues(b)
  BY DEF InQueues
<1>. QED
  BY <1>1, <1>2, <1>3 DEF Whole, RowsOnce, Buffers, NothingLost, Sent, QueuesWhole, KnownLate, ChildrenAtWork,
     HasBlock, Alone, Commits, Compared, Told, AllStored, MainIsClosing, ClosingSteps

LEMMA WholeStep ==
  ASSUME TypeOK, Roles, Closing, NotUploaded, RInv, [Next]_vars
  PROVE  RInv'
<1>1. CASE Next
  <2>. SUFFICES ASSUME Alive' PROVE Whole'
    BY DEF RInv
  <2>1. Whole
    BY <1>1, AliveBefore DEF RInv
  <2>2. RowsOnce' /\ Buffers' /\ NothingLost'
    BY <1>1, <2>1, DataStep DEF Data
  <2>3. Sent' /\ QueuesWhole' /\ KnownLate'
    BY <1>1, <2>1, SentStep, QueuesStep, KnownLateStep DEF Whole
  <2>4. ChildrenAtWork' /\ HasBlock' /\ Alone' /\ Commits'
    BY <1>1, <2>1, ChildrenAtWorkStep, HasBlockStep, AloneStep, CommitsStep DEF Whole
  <2>5. Compared'
    BY <1>1, <2>1, ComparedStep
  <2>. QED BY <2>2, <2>3, <2>4, <2>5 DEF Whole
<1>2. CASE UNCHANGED vars
  BY <1>2 DEF RInv, Alive, Whole, RowsOnce, Buffers, NothingLost, Sent, QueuesWhole, KnownLate, ChildrenAtWork,
     HasBlock, Alone, Commits, Compared, Told, AllStored, Stored, RowsOf, InQueues, MainIsClosing, ClosingSteps,
     vars, object, queues, service, history
<1>. QED BY <1>1, <1>2

LEMMA WholeIsCommitted ==
  ASSUME RInv
  PROVE  ClosedMeansCommitted
<1>. DEFINE There(r) == \E b \in DOMAIN blocks : \A d \in DOMAIN blocks : r \in blocks[d] <=> d = b
<1>. SUFFICES ASSUME ended[Main] = "ok", ~inherited
              PROVE  /\ committed
                     /\ \A p \in Processes :
                          \/ \A r \in wrote[p] : There(r)
                          \/ ended[p] # "ok" /\ (adopted \/ \A r \in wrote[p] : ~There(r))
  BY DEF ClosedMeansCommitted
<1>1. Whole
  BY DEF RInv, Alive
<1>2. \A r : Stored(r) <=> There(r)
  BY <1>1 DEF Whole, RowsOnce, Stored
<1>. QED BY <1>1, <1>2 DEF Whole, Commits, Compared, AllStored

(* When close() of the main process returns, the session is committed, with *)
(* every row of each process whose close() has returned, and of another     *)
(* child all rows or none: rows of a process at work are in a buffer or at  *)
(* the service (NothingLost), a block in a queue is one whose process has   *)
(* uploaded everything (QueuesWhole), nobody writes while the main process  *)
(* closes (Alone), and so the comparison it makes is final (Compared).      *)
THEOREM CommitTheorem == Spec => []ClosedMeansCommitted
<1>1. Spec => []RInv
  <2>1. Init => RInv
    BY InitWhole
  <2>2. IInv /\ RInv /\ [Next]_vars => RInv'
    BY WholeStep DEF IInv
  <2>. QED BY <2>1, <2>2, Invariant, PTL DEF Spec
<1>2. RInv => ClosedMeansCommitted
  BY WholeIsCommitted
<1>. QED BY <1>1, <1>2, PTL
-----------------------------------------------------------------------------
(* Progress: what those in a call have, whether or not the writer is alive  *)
(* and whatever was inherited.                                              *)

\* Only clients ask, and who uploads has a writer.
Asking ==
  \A a \in Actors :
    /\ pc[a] \in {"ask", "ask_in_close"} => a \in Children /\ kind[a] = "client"
    /\ pc[a] = "upload" => Ident(a) \in DOMAIN writers[Process(a)]

\* The server a client may call is up, or was stopped under its owner.
ServerKept ==
  \A c \in Children : kind[c] = "client" /\ ended[c] = "no" => server[Main] # "none"

AtWork == ChildrenAtWork /\ HasBlock /\ Alone /\ Asking /\ ServerKept

LEMMA AskingStep ==
  ASSUME TypeOK, Roles, ChildrenAtWork, HasBlock, Asking, Next
  PROVE  Asking'
<1>. USE Sets
<1>0. /\ DOMAIN pc = Actors /\ DOMAIN kind = Processes /\ counter \in Nat \ {0}
      /\ \A p \in Processes : \A i \in DOMAIN writers[p] : i \in Threads /\ writers[p][i] \in BufferedWriter
  BY DEF TypeOK
<1>1. ASSUME NEW a \in Actors, ~Local(Process(a)), pc[a] # "idle" \/ CanCall(a)
      PROVE  a \in Children /\ kind[a] = "client"
  <2>1. a \in Children
    BY <1>1 DEF Local, Roles, Actors
  <2>2. kind[a] \notin {"unborn", "gone"}
    BY <1>1, <2>1 DEF ChildrenAtWork, CanCall
  <2>. QED BY <1>1, <2>1, <2>2 DEF Local, Roles, TypeOK, Processes
<1>2. ASSUME NEW a \in Actors, Write(a)
      PROVE  /\ pc'[a] = "ask" => ~Local(Process(a))
             /\ Ident(a) \in DOMAIN writers'[Process(a)] /\ CanCall(a) /\ UNCHANGED kind
             /\ pc'[a] \in {"idle", "upload", "ask"}
  <2>. DEFINE p == Process(a)
              k == Ident(a)
              w == IF k \in DOMAIN writers[p]
                   THEN [writers[p][k] EXCEPT !.rows = Append(@, rows + 1)]
                   ELSE [block |-> NextBlock(p), rows |-> <<rows + 1>>, done |-> {}]
  <2>1. /\ SetWriter(p, k, w) /\ CanCall(a) /\ UNCHANGED kind
        /\ IF w.block = NoBlock THEN Goto(a, "ask") ELSE \E l \in AfterRow : Goto(a, l)
    BY <1>2 DEF Write
  <2>2. k \in DOMAIN writers[p] => w.block = writers[p][k].block
    BY <1>0 DEF BufferedWriter
  <2>3. k \notin DOMAIN writers[p] => w.block = NextBlock(p)
    OBVIOUS
  <2>. HIDE DEF w
  <2>4. k \in DOMAIN writers'[p]
    BY <2>1, WriterSet
  <2>5. w.block = NoBlock => ~Local(p)
    BY <1>0, <2>2, <2>3 DEF HasBlock, Local, NextBlock, NoBlock
  <2>. QED BY <1>0, <2>1, <2>4, <2>5 DEF Goto, AfterRow
<1>3. ASSUME NEW c \in Children, BlockGiven(c)
      PROVE  MainThread \in DOMAIN writers'[c] /\ pc'[c] \in {"close", "idle", "upload"}
  <2>1. MainThread \in DOMAIN writers'[c]
    BY <1>3, WriterSet DEF BlockGiven
  <2>. QED BY <1>0, <1>3, <2>1 DEF BlockGiven, Goto, AfterRow
<1>. SUFFICES ASSUME NEW a \in Actors
              PROVE  /\ pc'[a] \in {"ask", "ask_in_close"} => a \in Children /\ kind'[a] = "client"
                     /\ pc'[a] = "upload" => Ident(a) \in DOMAIN writers'[Process(a)]
  BY DEF Asking
<1>4. ASSUME pc'[a] \in {"ask", "ask_in_close"} PROVE a \in Children /\ kind'[a] = "client"
  <2>1. CASE Write(a)
    BY <1>1, <1>2, <1>4, <2>1
  <2>2. CASE \E i \in DOMAIN writers[Process(a)] : Upload(a, i)
    <3>1. pc[a] # "idle" /\ UNCHANGED kind
      BY <2>2 DEF Upload, Sends
    <3>2. pc'[a] \in {"ask", "ask_in_close"} => ~Local(Process(a))
      BY <1>0, <2>2 DEF Upload, Goto
    <3>. QED BY <1>1, <1>4, <3>1, <3>2
  <2>3. CASE pc'[a] = pc[a]
    <3>1. a \in Children /\ kind[a] = "client"
      BY <1>4, <2>3 DEF Asking
    <3>2. ~Fork(a) /\ ~Pickle(a)
      BY <3>1 DEF Fork, Pickle
    <3>3. ~Exit(a) /\ ~Crash(a)
      BY <1>0, <1>4, <3>1 DEF Exit, Crash, Leaves
    <3>. QED BY <3>1, <3>2, <3>3, KindMoves
  <2>4. CASE pc'[a] # pc[a]
    BY <1>4, <2>1, <2>2, <2>4, AskedBy
  <2>. QED BY <2>3, <2>4
<1>5. ASSUME pc'[a] = "upload" PROVE Ident(a) \in DOMAIN writers'[Process(a)]
  <2>1. CASE pc'[a] = pc[a]
    <3>1. Ident(a) \in DOMAIN writers[Process(a)]
      BY <1>5, <2>1 DEF Asking
    <3>2. ASSUME Process(a) \in Children PROVE a = Process(a) /\ kind[a] # "unborn"
      BY <1>5, <2>1, <3>2, OneActor DEF ChildrenAtWork
    <3>. QED BY <1>5, <3>1, <3>2, PlacesStay
  <2>2. CASE Write(a)
    BY <1>2, <2>2
  <2>3. CASE a \in Children /\ BlockGiven(a)
    BY <1>3, <2>3
  <2>4. ~(\/ Close(a) \/ Register(a) \/ List(a) \/ ListRaises(a) \/ Complete(a) \/ CompleteRaises(a) \/ Stop(a)
          \/ \E i \in DOMAIN writers[Process(a)] : Upload(a, i) \/ UploadRaises(a, i))
    BY <1>0, <1>5 DEF Close, Register, List, ListRaises, Complete, CompleteRaises, Stop, Upload, UploadRaises,
       Goto, Finish
  <2>5. a \in Children => ~(Reported(a) \/ Exit(a) \/ Crash(a))
    BY <1>0, <1>5 DEF Reported, Exit, Crash, Leaves, Goto
  <2>. QED BY <2>1, <2>2, <2>3, <2>4, <2>5, ActorMoves
<1>. QED BY <1>4, <1>5

LEMMA ServerKeptStep ==
  ASSUME TypeOK, Roles, Closing, Alone, ServerKept, Next
  PROVE  ServerKept'
<1>. USE Sets
<1>0. /\ DOMAIN server = Processes /\ DOMAIN kind = Processes
      /\ \A c \in Children : c # Main
  BY DEF TypeOK
<1>. SUFFICES ASSUME NEW c \in Children, kind'[c] = "client", ended'[c] = "no"
              PROVE  server'[Main] # "none"
  BY DEF ServerKept
<1>1. CASE Pickle(c)
  BY <1>0, <1>1 DEF Pickle, StartedServer
<1>2. CASE ~Pickle(c)
  <2>1. kind[c] = "client" /\ ended[c] = "no"
    <3>1. ~Fork(c) /\ ~Exit(c) /\ ~Crash(c)
      BY <1>0 DEF Fork, Exit, Crash, Leaves
    <3>. QED BY <1>2, <3>1, KindMoves, EndedStays
  <2>2. server[Main] # "none"
    BY <2>1 DEF ServerKept
  <2>3. ASSUME NEW d \in Children, Fork(d) \/ Exit(d) \/ Crash(d) PROVE server'[Main] = server[Main]
    BY <1>0, <2>3 DEF Fork, Exit, Crash, Leaves
  <2>4. ASSUME NEW d \in Children, Pickle(d) PROVE server'[Main] # "none"
    BY <1>0, <2>4 DEF Pickle, StartedServer
  <2>5. ASSUME NEW a \in Actors, Stop(a) PROVE server'[Main] # "none"
    <3>1. CASE a \in Children
      BY <1>0, <2>2, <2>5, <3>1 DEF Stop
    <3>2. CASE a \in Threads
      <4>1. a = MainThread /\ pc[MainThread] = "stop"
        BY <2>5, <3>2 DEF Stop, Closing, ClosingSteps
      <4>. QED BY <2>1, <4>1 DEF Alone, MainIsClosing, ClosingSteps
    <3>. QED BY <3>1, <3>2 DEF Actors
  <2>6. \/ UNCHANGED server
        \/ \E d \in Children : Fork(d) \/ Pickle(d) \/ Exit(d) \/ Crash(d)
        \/ \E a \in Actors : Stop(a)
    BY DEF Next, Continue, ClientContinues, Write, Close, BlockGiven, Reported, Upload, UploadRaises, Register,
       List, ListRaises, Complete, CompleteRaises
  <2>. QED BY <2>2, <2>3, <2>4, <2>5, <2>6
<1>. QED BY <1>1, <1>2

LEMMA AtWorkStep ==
  ASSUME IInv, AtWork, [Next]_vars
  PROVE  AtWork'
<1>1. CASE Next
  BY <1>1, ChildrenAtWorkStep, HasBlockStep, AloneStep, AskingStep, ServerKeptStep DEF AtWork, IInv
<1>2. CASE UNCHANGED vars
  BY <1>2 DEF AtWork, ChildrenAtWork, HasBlock, Alone, MainIsClosing, Asking, ServerKept, ClosingSteps,
     vars, object, queues, service, history
<1>. QED BY <1>1, <1>2

LEMMA InitAtWork == Init => AtWork
<1>. SUFFICES ASSUME Init PROVE AtWork
  OBVIOUS
<1>. USE Sets, NoneIsEmpty DEF Init
<1>1. /\ \A a \in Actors : pc[a] = "idle" /\ \A p \in Processes : DOMAIN writers[p] = {} /\ ended[p] = "no"
      /\ \A c \in Children : kind[c] = "unborn"
  BY WriterAssumption
<1>. QED
  BY <1>1 DEF AtWork, ChildrenAtWork, HasBlock, Alone, MainIsClosing, Asking, ServerKept, ClosingSteps

(* Only a client asks, and the server it asks is up, or was stopped under   *)
(* its owner by the close() of a forked child; of ENABLED, which the        *)
(* provers do not compute, the theorem is given that the caller and the     *)
(* thread of the server can step where their guards hold.                   *)
THEOREM NobodyIsStuck == Spec /\ []GuardsSuffice => []CallNotStuck
<1>1. ASSUME IInv, AtWork, GuardsSuffice PROVE CallNotStuck
  <2>. SUFFICES ASSUME NEW a \in Actors, AsksServer(a) PROVE a \in Children /\ server[Main] # "none"
    BY <1>1 DEF CallNotStuck
  <2>1. pc[a] # "idle"
    BY DEF AsksServer
  <2>2. a \in Children /\ kind[a] = "client"
    <3>1. CASE pc[a] \in {"ask", "ask_in_close"}
      BY <1>1, <3>1 DEF AtWork, Asking
    <3>2. CASE ~Local(Process(a))
      <4>1. a \in Children
        BY <1>1, <3>2, Sets DEF Local, IInv, Roles, Actors
      <4>. QED BY <1>1, <2>1, <3>2, <4>1, Sets DEF Local, AtWork, ChildrenAtWork, IInv, TypeOK, Roles, Processes
    <3>. QED BY <3>1, <3>2 DEF AsksServer
  <2>3. ended[a] = "no"
    BY <1>1, <2>1, <2>2 DEF AtWork, ChildrenAtWork
  <2>. QED BY <1>1, <2>2, <2>3 DEF AtWork, ServerKept
<1>2. IInv /\ AtWork /\ GuardsSuffice => CallNotStuck
  BY <1>1
<1>. QED BY <1>2, InitInv, IInvStep, InitAtWork, AtWorkStep, PTL DEF Spec
-----------------------------------------------------------------------------
(* Progress: every step of a caller, or of the server for it, takes its     *)
(* call nearer to its end.                                                  *)

\* The writers close() has still to send.
Unsent(p) == {i \in DOMAIN writers[p] : writers[p][i].rows # <<>>}

NothingToSend(a) == writers[Process(a)][Ident(a)].rows = <<>>

\* How far a call is from its end.
Work(a) ==
  CASE pc[a] = "stop"     -> 1
    [] pc[a] = "complete" -> 2
    [] pc[a] \in {"list", "upload"} -> 3
    [] pc[a] = "ask"      -> IF NothingToSend(a) THEN 2 ELSE 4
    [] pc[a] = "close"    -> 4 + 2 * Cardinality(Unsent(Process(a)))
    [] pc[a] = "ask_in_close" -> 5 + 2 * Cardinality(Unsent(Process(a)))
    [] OTHER -> 0

LEMMA WorkAt ==
  ASSUME NEW a
  PROVE  /\ pc[a] = "idle" => Work(a) = 0
         /\ pc[a] = "stop" => Work(a) = 1
         /\ pc[a] = "complete" => Work(a) = 2
         /\ pc[a] \in {"list", "upload"} => Work(a) = 3
         /\ pc[a] = "ask" => Work(a) = (IF NothingToSend(a) THEN 2 ELSE 4)
         /\ pc[a] = "close" => Work(a) = 4 + 2 * Cardinality(Unsent(Process(a)))
         /\ pc[a] = "ask_in_close" => Work(a) = 5 + 2 * Cardinality(Unsent(Process(a)))
BY DEF Work

LEMMA UnsentCount ==
  ASSUME TypeOK, NEW p \in Processes
  PROVE  IsFiniteSet(Unsent(p)) /\ Cardinality(Unsent(p)) \in Nat
<1>1. Unsent(p) \subseteq Threads
  BY DEF TypeOK, Unsent
<1>2. IsFiniteSet(Unsent(p))
  BY <1>1, FS_Subset, WriterAssumption
<1>. QED BY <1>2, FS_CardinalityType

LEMMA WorkIsNat ==
  ASSUME TypeOK, NEW a \in Actors
  PROVE  Work(a) \in Nat
<1>1. PICK u \in Nat : u = Cardinality(Unsent(Process(a)))
  BY UnsentCount, Sets
<1>. HIDE DEF Unsent
<1>2. pc[a] \in {"idle", "ask", "upload", "close", "ask_in_close", "list", "complete", "stop"}
  BY DEF TypeOK
<1>. QED BY <1>1, <1>2, WorkAt

\* What a caller does, and the server for it.
Own(a) == Continue(a) \/ (a \in Children /\ ClientContinues(a))

LEMMA OneSent ==
  ASSUME TypeOK, NEW p \in Processes, NEW i \in DOMAIN writers[p], NEW w,
         SetWriter(p, i, w), w.rows = <<>>, writers[p][i].rows # <<>>
  PROVE  Cardinality(Unsent(p)) = Cardinality(Unsent(p)') + 1
<1>1. i \in Threads
  BY DEF TypeOK
<1>2. Unsent(p)' = Unsent(p) \ {i}
  BY <1>1, WriterSet DEF Unsent
<1>3. i \in Unsent(p)
  BY DEF Unsent
<1>4. Cardinality(Unsent(p) \ {i}) = Cardinality(Unsent(p)) - 1
  BY <1>3, UnsentCount, FS_RemoveElement
<1>. QED BY <1>2, <1>4, UnsentCount

LEMMA OwnStepWorks ==
  ASSUME IInv, AtWork, NEW a \in Actors, Own(a)
  PROVE  Work(a)' < Work(a)
<1>. USE Sets
<1>. DEFINE p == Process(a)
<1>t. TypeOK
  BY DEF IInv
<1>0. /\ DOMAIN pc = Actors /\ p \in Processes
      /\ \A i \in DOMAIN writers[p] : i \in Threads /\ writers[p][i] \in BufferedWriter
  BY <1>t DEF TypeOK
<1>u. PICK u \in Nat : u = Cardinality(Unsent(p))
  BY <1>t, UnsentCount
<1>p. /\ pc'[a] = "idle" => Work(a)' = 0
      /\ pc'[a] = "stop" => Work(a)' = 1
      /\ pc'[a] = "complete" => Work(a)' = 2
      /\ pc'[a] \in {"list", "upload"} => Work(a)' = 3
      /\ pc'[a] = "ask" => Work(a)' = (IF NothingToSend(a)' THEN 2 ELSE 4)
      /\ pc'[a] = "close" => Work(a)' = 4 + 2 * Cardinality(Unsent(p)')
      /\ pc'[a] = "ask_in_close" => Work(a)' = 5 + 2 * Cardinality(Unsent(p)')
  BY DEF Work
<1>. HIDE DEF p
<1>1. ASSUME NEW i \in DOMAIN writers[p], Upload(a, i) PROVE Work(a)' < Work(a)
  <2>. DEFINE w == [block |-> Following(p, writers[p][i]), rows |-> <<>>,
                    done |-> writers[p][i].done \cup {writers[p][i].block}]
  <2>1. /\ SetWriter(p, i, w)
        /\ Goto(a, IF pc[a] = "close" THEN IF Local(p) THEN "close" ELSE "ask_in_close"
                   ELSE IF Local(p) THEN "idle" ELSE "ask")
        /\ \/ pc[a] = "upload" /\ i = Ident(a)
           \/ pc[a] = "close" /\ writers[p][i].rows # <<>>
    BY <1>1 DEF Upload, Sends, p
  <2>2. w.rows = <<>>
    OBVIOUS
  <2>. HIDE DEF w
  <2>3. CASE pc[a] = "upload" /\ i = Ident(a)
    <3>1. writers'[p][i].rows = <<>>
      BY <1>0, <1>t, <2>1, <2>2, WriterSet
    <3>2. pc'[a] = "ask" => Work(a)' = 2
      BY <1>p, <2>3, <3>1 DEF NothingToSend, p
    <3>3. pc'[a] \in {"idle", "ask"} /\ Work(a) = 3
      BY <1>0, <2>1, <2>3, WorkAt DEF Goto
    <3>. QED BY <1>p, <3>2, <3>3
  <2>4. CASE pc[a] = "close" /\ writers[p][i].rows # <<>>
    <3>1. Cardinality(Unsent(p)) = Cardinality(Unsent(p)') + 1
      BY <1>0, <1>t, <2>1, <2>2, <2>4, OneSent
    <3>2. \E v : v = Cardinality(Unsent(p)')
      OBVIOUS
    <3>3. PICK v : v = Cardinality(Unsent(p)')
      BY <3>2
    <3>4. v \in Nat
      <4>1. Unsent(p)' \subseteq Unsent(p)
        BY <1>0, <1>t, <2>1, <2>2, WriterSet DEF Unsent
      <4>. QED BY <1>t, <1>0, <3>3, <4>1, UnsentCount, FS_Subset, FS_CardinalityType
    <3>5. pc'[a] \in {"close", "ask_in_close"} /\ Work(a) = 4 + 2 * u
      BY <1>0, <1>u, <2>1, <2>4, WorkAt DEF Goto, p
    <3>6. pc'[a] = "close" => Work(a)' = 4 + 2 * v
      BY <1>p, <3>3
    <3>7. pc'[a] = "ask_in_close" => Work(a)' = 5 + 2 * v
      BY <1>p, <3>3
    <3>8. u = v + 1
      BY <1>u, <3>1, <3>3
    <3>. QED BY <3>4, <3>5, <3>6, <3>7, <3>8
  <2>. QED BY <2>1, <2>3, <2>4
<1>2. ASSUME NEW i \in DOMAIN writers[p], UploadRaises(a, i) PROVE Work(a)' < Work(a)
  <2>1. pc'[a] = "idle" /\ pc[a] \in {"upload", "close"}
    BY <1>0, <1>2 DEF UploadRaises, Sends, Finish, Goto
  <2>2. Work(a) = 3 \/ Work(a) = 4 + 2 * u
    BY <1>u, <2>1, WorkAt DEF p
  <2>. QED BY <1>p, <2>1, <2>2
<1>3. ASSUME Register(a) PROVE Work(a)' < Work(a)
  <2>1. pc'[a] \in {"list", "stop"} /\ pc[a] = "close"
    BY <1>0, <1>3 DEF Register, Goto
  <2>2. Work(a) = 4 + 2 * u
    BY <1>u, <2>1, WorkAt DEF p
  <2>. QED BY <1>p, <2>1, <2>2
<1>4. ASSUME List(a) \/ ListRaises(a) PROVE Work(a)' < Work(a)
  <2>1. pc'[a] \in {"complete", "idle"} /\ pc[a] = "list"
    BY <1>0, <1>4 DEF List, ListRaises, Finish, Goto
  <2>. QED BY <1>p, <2>1, WorkAt
<1>5. ASSUME Complete(a) \/ CompleteRaises(a) PROVE Work(a)' < Work(a)
  <2>1. pc'[a] \in {"stop", "idle"} /\ pc[a] = "complete"
    BY <1>0, <1>5 DEF Complete, CompleteRaises, Finish, Goto
  <2>. QED BY <1>p, <2>1, WorkAt
<1>6. ASSUME Stop(a) PROVE Work(a)' < Work(a)
  <2>1. pc'[a] = "idle" /\ pc[a] = "stop"
    BY <1>0, <1>6 DEF Stop, Finish, Goto
  <2>. QED BY <1>p, <2>1, WorkAt
<1>7. ASSUME a \in Children, BlockGiven(a) PROVE Work(a)' < Work(a)
  <2>. DEFINE w == [writers[a][MainThread] EXCEPT !.block = counter]
  <2>1. /\ p = a /\ Ident(a) = MainThread /\ pc[a] \in {"ask", "ask_in_close"}
        /\ SetWriter(a, MainThread, w)
        /\ IF pc[a] = "ask_in_close" THEN Goto(a, "close")
           ELSE IF w.rows = <<>> THEN Goto(a, "idle") ELSE \E l \in AfterRow : Goto(a, l)
    BY <1>7 DEF BlockGiven, p
  <2>2. MainThread \in DOMAIN writers[a]
    BY <1>7, <2>1 DEF IInv, Roles
  <2>3. w.rows = writers[a][MainThread].rows
    BY <1>0, <2>1, <2>2 DEF BufferedWriter
  <2>. HIDE DEF w
  <2>4. CASE pc[a] = "ask"
    <3>1. CASE NothingToSend(a)
      BY <1>0, <1>p, <2>1, <2>3, <2>4, <3>1, WorkAt DEF NothingToSend, Goto, p
    <3>2. CASE ~NothingToSend(a)
      BY <1>0, <1>p, <2>1, <2>3, <2>4, <3>2, WorkAt DEF NothingToSend, Goto, AfterRow, p
    <3>. QED BY <3>1, <3>2
  <2>5. CASE pc[a] = "ask_in_close"
    <3>1. Unsent(a)' = Unsent(a)
      BY <1>0, <1>t, <1>7, <2>1, <2>2, <2>3, WriterSet DEF Unsent
    <3>2. Work(a) = 5 + 2 * u
      BY <1>u, <2>5, WorkAt DEF p
    <3>3. pc'[a] = "close" /\ Work(a)' = 4 + 2 * u
      BY <1>0, <1>u, <1>p, <2>1, <2>5, <3>1 DEF Goto
    <3>. QED BY <3>2, <3>3
  <2>. QED BY <2>1, <2>4, <2>5
<1>8. ASSUME a \in Children, Reported(a) PROVE Work(a)' < Work(a)
  <2>1. pc'[a] = "stop" /\ pc[a] = "close"
    BY <1>0, <1>8 DEF Reported, Goto
  <2>2. Work(a) = 4 + 2 * u
    BY <1>u, <2>1, WorkAt DEF p
  <2>. QED BY <1>p, <2>1, <2>2
<1>. QED
  BY <1>1, <1>2, <1>3, <1>4, <1>5, <1>6, <1>7, <1>8 DEF Own, Continue, ClientContinues, p

\* The steps of others do not set a call back.
LEMMA OthersStay ==
  ASSUME IInv, AtWork, Next, NEW a \in Actors, pc[a] # "idle", ~Own(a)
  PROVE  \/ pc'[a] = "idle"
         \/ /\ pc'[a] = pc[a] /\ kind'[Process(a)] = kind[Process(a)]
            /\ pc[a] \in {"close", "ask", "ask_in_close"} => writers'[Process(a)] = writers[Process(a)]
<1>. USE Sets
<1>. DEFINE p == Process(a)
<1>0. TypeOK /\ Roles /\ Closing /\ DOMAIN pc = Actors /\ Threads \cap Children = {}
  BY WriterAssumption DEF IInv, TypeOK
<1>. SUFFICES ASSUME pc'[a] # "idle"
              PROVE  /\ pc'[a] = pc[a] /\ kind'[p] = kind[p]
                     /\ pc[a] \in {"close", "ask", "ask_in_close"} => writers'[p] = writers[p]
  OBVIOUS
<1>1. a \in Children => ~Exit(a) /\ ~Crash(a)
  BY <1>0 DEF Exit, Crash, Leaves
<1>2. pc'[a] = pc[a]
  <2>1. ~Write(a) /\ ~Close(a)
    BY DEF Write, Close, CanCall
  <2>. QED BY <1>0, <1>1, <2>1, ActorMoves DEF Own, Continue, ClientContinues
<1>3. p \in Children => p = a /\ kind[a] # "unborn"
  BY OneActor DEF AtWork, ChildrenAtWork
<1>4. p \in Children => ~Fork(p) /\ ~Pickle(p) /\ ~Exit(p) /\ ~Crash(p)
  BY <1>1, <1>3 DEF Fork, Pickle
<1>5. kind'[p] = kind[p]
  BY <1>0, <1>4, KindMoves
<1>6. ASSUME pc[a] \in {"close", "ask", "ask_in_close"}, writers'[p] # writers[p] PROVE FALSE
  <2>1. p \in Children => ~BlockGiven(p)
    BY <1>3 DEF Own, ClientContinues
  <2>2. a \in Threads => a = MainThread /\ pc[a] = "close"
    BY <1>0, <1>6 DEF AtWork, Asking, Closing, ClosingSteps
  <2>3. ASSUME NEW b \in Actors, p = Process(b), b # a PROVE pc[b] = "idle" /\ a \in Threads /\ b \in Threads
    <3>1. a \in Threads /\ b \in Threads
      BY <2>3, OneActor DEF Actors
    <3>. QED BY <1>0, <2>2, <2>3, <3>1 DEF Closing, ClosingSteps
  <2>4. ASSUME NEW b \in Actors, p = Process(b), Write(b) PROVE FALSE
    <3>1. b # a /\ (b \in Threads => ~MainCloses)
      BY <2>4 DEF Write, CanCall
    <3>. QED BY <2>2, <2>3, <2>4, <3>1 DEF MainCloses
  <2>5. ASSUME NEW b \in Actors, NEW i \in DOMAIN writers[p], p = Process(b), Upload(b, i) PROVE FALSE
    <3>1. pc[b] # "idle"
      BY <2>5 DEF Upload, Sends
    <3>2. b = a
      BY <2>3, <2>5, <3>1
    <3>. QED BY <2>5, <3>2 DEF Own, Continue
  <2>. QED BY <1>0, <1>4, <1>6, <2>1, <2>4, <2>5, WritersMove
<1>. QED BY <1>2, <1>5, <1>6

LEMMA OthersWork ==
  ASSUME IInv, AtWork, Next, NEW a \in Actors, pc[a] # "idle", ~Own(a)
  PROVE  Work(a)' = 0 \/ Work(a)' = Work(a)
<1>1. CASE pc'[a] = "idle"
  BY <1>1 DEF Work
<1>2. CASE /\ pc'[a] = pc[a]
           /\ pc[a] \in {"close", "ask", "ask_in_close"} => writers'[Process(a)] = writers[Process(a)]
  <2>1. CASE pc[a] \in {"close", "ask", "ask_in_close"}
    <3>1. (NothingToSend(a)' <=> NothingToSend(a)) /\ Unsent(Process(a))' = Unsent(Process(a))
      BY <1>2, <2>1 DEF NothingToSend, Unsent
    <3>. QED BY <1>2, <2>1, <3>1 DEF Work
  <2>2. CASE pc[a] \notin {"close", "ask", "ask_in_close"}
    BY <1>2, <2>2 DEF Work
  <2>. QED BY <2>1, <2>2
<1>. QED BY <1>1, <1>2, OthersStay
-----------------------------------------------------------------------------
(* Progress: every call returns                                            *)

\* A caller that can go on, or wait for the server, does so until it has.
LEMMA GuardsStay ==
  ASSUME IInv, AtWork, Next, NEW a \in Actors, pc[a] # "idle", ~Own(a), pc'[a] # "idle"
  PROVE  /\ AsksServer(a)' <=> AsksServer(a)
         /\ CallGuard(a)' <=> CallGuard(a)
<1>1. /\ pc'[a] = pc[a] /\ kind'[Process(a)] = kind[Process(a)]
      /\ pc[a] \in {"close", "ask", "ask_in_close"} => writers'[Process(a)] = writers[Process(a)]
  BY OthersStay
<1>2. Local(Process(a))' <=> Local(Process(a))
  BY <1>1 DEF Local
<1>3. pc[a] = "close" => (AllSent(Process(a))' <=> AllSent(Process(a)))
  BY <1>1 DEF AllSent
<1>. QED BY <1>1, <1>2, <1>3 DEF AsksServer, CallGuard

\* No natural number that nothing raises falls again and again.  This holds of
\* every behaviour and of any state function in the place of Work(a); that it
\* does is induction over the steps of a behaviour, which is out of the provers'
\* reach.
NoEndlessDescent(a) ==
  [](Work(a) \in Nat) => ~(<>[][Work(a)' <= Work(a)]_vars /\ []<><<Work(a)' < Work(a)>>_vars)

LengthIsNat == \A a \in Actors : Work(a) \in Nat

LEMMA NatLength == TypeOK => LengthIsNat
BY WorkIsNat DEF LengthIsNat

\* A step during a call does not lengthen it, and a step of the call shortens it.
LEMMA CallShortens ==
  ASSUME IInv, AtWork, Next, NEW a \in Actors, pc[a] # "idle"
  PROVE  /\ Work(a)' <= Work(a)
         /\ Own(a) => Work(a)' < Work(a)
<1>0. TypeOK
  BY DEF IInv
<1>1. PICK k \in Nat : k = Work(a)
  BY <1>0, WorkIsNat
<1>2. CASE Own(a)
  <2>1. Work(a)' < Work(a)
    BY <1>2, OwnStepWorks
  <2>2. Work(a)' \in Nat
    <3>1. TypeOK'
      BY IInvStep DEF IInv
    <3>2. TypeOK' => LengthIsNat'
      BY NatLength, PTL
    <3>. QED BY <3>1, <3>2 DEF LengthIsNat
  <2>. QED BY <1>1, <2>1, <2>2
<1>3. CASE ~Own(a)
  <2>1. Work(a)' = 0 \/ Work(a)' = Work(a)
    BY <1>3, OthersWork
  <2>. QED BY <1>1, <1>3, <2>1
<1>. QED BY <1>2, <1>3

(* No step during a call sets it back, and every step of the call itself,   *)
(* or of the server for it, brings it nearer to its end: uploads, answers   *)
(* of the server, comparisons and failures of other threads and processes   *)
(* in any order never make a close() or a write() start again.              *)
THEOREM CallsRunDown ==
  Spec => [][\A a \in Actors : pc[a] # "idle" =>
                Work(a)' <= Work(a) /\ (Own(a) => Work(a)' < Work(a))]_vars
<1>. DEFINE Down == \A a \in Actors : pc[a] # "idle" =>
                      Work(a)' <= Work(a) /\ (Own(a) => Work(a)' < Work(a))
<1>1. IInv /\ AtWork /\ [Next]_vars => [Down]_vars
  BY CallShortens
<1>. HIDE DEF Down
<1>2. Spec => [][Down]_vars
  BY <1>1, Invariant, InitAtWork, AtWorkStep, PTL DEF Spec
<1>. QED BY <1>2 DEF Down

\* Who is in a call can go on with it, or be answered.
LEMMA CallGoesOn ==
  ASSUME NEW a \in Actors, IInv, AtWork, GuardsSuffice
  PROVE  /\ pc[a] # "idle" => CallGuard(a) \/ AsksServer(a)
         /\ AsksServer(a) => a \in Children
         /\ AsksServer(a) /\ server[Main] # "down" => ServerGuard(a)
         /\ CallerCan(a)
         /\ a \in Children => ServerCan(a)
<1>1. kind[Main] = "main" /\ TypeOK
  BY DEF IInv, Roles
<1>2. ASSUME AsksServer(a) PROVE a \in Children /\ kind[a] = "client" /\ pc[a] # "idle"
  <2>1. pc[a] # "idle"
    BY <1>2 DEF AsksServer
  <2>2. CASE pc[a] \in {"ask", "ask_in_close"}
    BY <2>1, <2>2 DEF AtWork, Asking
  <2>3. CASE ~Local(Process(a))
    <3>1. a \in Children
      BY <1>1, <2>3, Sets DEF Local, Actors
    <3>. QED BY <1>1, <2>1, <2>3, <3>1, Sets DEF Local, AtWork, ChildrenAtWork, TypeOK, IInv, Roles, Processes
  <2>. QED BY <1>2, <2>1, <2>2, <2>3 DEF AsksServer
<1>3. AsksServer(a) => server[Main] \in {"up", "down"}
  <2>. SUFFICES ASSUME AsksServer(a) PROVE server[Main] \in {"up", "down"}
    OBVIOUS
  <2>1. ended[a] = "no"
    BY <1>2 DEF AtWork, ChildrenAtWork
  <2>2. server[Main] \in {"none", "up", "down"}
    BY <1>1, Sets DEF TypeOK
  <2>. QED BY <1>2, <2>1, <2>2 DEF AtWork, ServerKept
<1>. QED BY <1>2, <1>3 DEF CallGuard, ServerGuard, GuardsSuffice

(* The call of a child returns.                                             *)
LEMMA ChildReturns ==
  ASSUME NEW c \in Children
  PROVE  /\ []IInv /\ []AtWork /\ []GuardsSuffice /\ [][Next]_vars
         /\ FairCall(c) /\ FairServer(c) /\ NoEndlessDescent(c)
         => CallReturns(c)
<1>. DEFINE Busy == pc[c] # "idle"
            Idle == pc[c] = "idle"
            Down == server[Main] = "down"
            Natural == Work(c) \in Nat
            Shorter == Work(c)' < Work(c)
            NotLonger == Work(c)' <= Work(c)
            Stays == (CallGuard(c) => CallGuard(c)') /\ (AsksServer(c) => AsksServer(c)')
<1>0. c \in Actors
  BY Sets
<1>1. ASSUME IInv, AtWork, GuardsSuffice
      PROVE  /\ Busy => CallGuard(c) \/ AsksServer(c)
             /\ AsksServer(c) /\ ~Down => ServerGuard(c)
             /\ CallerCan(c) /\ ServerCan(c)
  BY <1>0, <1>1, CallGoesOn
<1>2. ASSUME IInv, AtWork, Busy, Next
      PROVE  /\ NotLonger
             /\ Continue(c) \/ ClientContinues(c) => Shorter
             /\ Continue(c) \/ ClientContinues(c) \/ Idle' \/ Stays
  BY <1>0, <1>2, CallShortens, GuardsStay DEF Own
<1>3. UNCHANGED vars => (Idle' <=> Idle) /\ Stays
  BY DEF vars, object, AsksServer, CallGuard, Local, AllSent
<1>4. Continue(c) \/ ClientContinues(c) => Next
  BY <1>0 DEF Next
<1>5. IInv => Natural
  BY <1>0, WorkIsNat DEF IInv
<1>6. NoEndlessDescent(c) <=>
        ([]Natural => ~(<>[][NotLonger]_vars /\ []<><<Shorter>>_vars))
  BY DEF NoEndlessDescent
<1>7. (CallReturns(c) <=> (Busy ~> (Idle \/ Down))) /\ (Busy <=> ~Idle)
  BY DEF CallReturns
<1>. HIDE DEF Busy, Idle, Down, Natural, Shorter, NotLonger
<1>. QED BY <1>1, <1>2, <1>3, <1>4, <1>5, <1>6, <1>7, PTL
         DEF CallerCan, ServerCan, FairCall, FairServer

(* The call of a thread returns.                                            *)
LEMMA ThreadReturns ==
  ASSUME NEW t \in Threads
  PROVE  /\ []IInv /\ []AtWork /\ []GuardsSuffice /\ [][Next]_vars
         /\ FairCall(t) /\ NoEndlessDescent(t)
         => CallReturns(t)
<1>. DEFINE Busy == pc[t] # "idle"
            Idle == pc[t] = "idle"
            Down == server[Main] = "down"
            Natural == Work(t) \in Nat
            Shorter == Work(t)' < Work(t)
            NotLonger == Work(t)' <= Work(t)
            Stays == (CallGuard(t) => CallGuard(t)')
<1>0. t \in Actors /\ t \notin Children
  BY Sets, WriterAssumption
<1>1. ASSUME IInv, AtWork, GuardsSuffice
      PROVE  /\ Busy => CallGuard(t)
             /\ CallerCan(t)
  BY <1>0, <1>1, CallGoesOn
<1>2. ASSUME IInv, AtWork, Busy, Next
      PROVE  /\ NotLonger
             /\ Continue(t) => Shorter
             /\ Continue(t) \/ Idle' \/ Stays
  BY <1>0, <1>2, CallShortens, GuardsStay DEF Own
<1>3. UNCHANGED vars => (Idle' <=> Idle) /\ Stays
  BY DEF vars, object, AsksServer, CallGuard, Local, AllSent
<1>4. Continue(t) => Next
  BY <1>0 DEF Next
<1>5. IInv => Natural
  BY <1>0, WorkIsNat DEF IInv
<1>6. NoEndlessDescent(t) <=>
        ([]Natural => ~(<>[][NotLonger]_vars /\ []<><<Shorter>>_vars))
  BY DEF NoEndlessDescent
<1>7. (CallReturns(t) <=> (Busy ~> (Idle \/ Down))) /\ (Busy <=> ~Idle)
  BY DEF CallReturns
<1>. HIDE DEF Busy, Idle, Down, Natural, Shorter, NotLonger
<1>. QED BY <1>1, <1>2, <1>3, <1>4, <1>5, <1>6, <1>7, PTL
         DEF CallerCan, FairCall

(* Every call returns, or its server has been stopped under its owner: for  *)
(* any number of threads, processes, blocks and rows, given that who may    *)
(* step can, and that no natural number falls for ever.                     *)
THEOREM CallsDoReturn ==
  Spec /\ []GuardsSuffice /\ (\A a \in Actors : NoEndlessDescent(a)) => CallsReturn
<1>. DEFINE Ready == []IInv /\ []AtWork /\ []GuardsSuffice /\ [][Next]_vars
<1>1. Spec /\ []GuardsSuffice => Ready /\ Fairness
  BY Invariant, InitAtWork, AtWorkStep, PTL DEF Spec
<1>2. \A c \in Children : Ready /\ FairCall(c) /\ FairServer(c) /\ NoEndlessDescent(c) => CallReturns(c)
  BY ChildReturns
<1>3. \A t \in Threads : Ready /\ FairCall(t) /\ NoEndlessDescent(t) => CallReturns(t)
  BY ThreadReturns
<1>. HIDE DEF Ready
<1>4. Ready /\ Fairness /\ (\A a \in Actors : NoEndlessDescent(a)) => \A a \in Actors : CallReturns(a)
  BY <1>2, <1>3 DEF Actors, Fairness
<1>. QED BY <1>1, <1>4, PTL DEF CallsReturn
=============================================================================
