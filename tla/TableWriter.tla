----------------------------- MODULE TableWriter -----------------------------
(***************************************************************************)
(* The table writer of odps/models/tableio.py, AbstractTableWriter, with   *)
(* its BufferedRecordWriters and their TableUploadSession: one writer      *)
(* object is shared by the threads of the main process and by child        *)
(* processes, every thread fills blocks of its own, and the main process   *)
(* commits what all of them have written.                                  *)
(*                                                                         *)
(* A child is forked, and works on a copy of the object, with the counter  *)
(* of blocks and the queue of written blocks shared; or the writer is      *)
(* pickled for it, and it asks the MPBlockServer of the main process for   *)
(* blocks and tells it what it has written.                                *)
(*                                                                         *)
(* The callers follow the documentation: a child closes its writer when it *)
(* has written, and the main process closes it when its threads are done   *)
(* and every child has exited, or has closed a pickled writer.  A child    *)
(* may crash at any time, and a process one of whose calls has raised      *)
(* calls nothing more.                                                     *)
(*                                                                         *)
(* Not modelled: blocks chosen by the caller, a child that hands its       *)
(* writer on, a fork while another thread is in a call, and a writer       *)
(* pickled after its server has been stopped.                              *)
(***************************************************************************)
EXTENDS Naturals, SequencesExt

CONSTANTS
  Main,         \* the main process
  Children,     \* the processes it may start
  Threads,      \* the threads of the main process
  MainThread,   \* the one that starts processes and closes the writer
  MaxRows       \* bound: rows written by all processes

ASSUME WriterAssumption ==
  /\ Main \notin Children /\ Threads \cap Children = {} /\ MainThread \in Threads
  /\ MaxRows \in Nat /\ IsFiniteSet(Threads)

Processes == {Main} \cup Children
Actors == Threads \cup Children          \* who may be in a call
Process(a) == IF a \in Threads THEN Main ELSE a
Ident(a) == IF a \in Threads THEN a ELSE MainThread  \* a child runs one thread

VARIABLES
  kind,       \* main, or how a child was started: unborn, forked, client, gone
  pc,         \* where each actor is in a call
  ended,      \* how the last call of a process ended: close(), or one that raised
  writers,    \* _thread_to_buffered_writers of each process
  willCommit, \* _commit
  fixed,      \* _mp_fixed
  known,      \* `blocks` of the process's session object
  server,     \* _mp_server: none, up, or down when it was stopped under its owner
  ownQueue,   \* _used_block_id_queue is an ordinary queue of the process
  inQueue,    \* what is in that queue
  shared,     \* what is in the multiprocessing queue
  feeding,    \* what a process has put there and its feeder not yet passed on
  counter,    \* _block_id_counter
  blocks,     \* the service: the rows of every uploaded block
  committed,  \* the service: the session is closed
  rows,       \* history: number of rows written
  wrote,      \* history: which process wrote them
  inherited,  \* history: a process was forked with rows or blocks of its parent
  adopted,    \* history: a pickled writer found blocks of others in its session
  faulty      \* history: a request has failed, or a child crashed

object == <<writers, willCommit, fixed, known>>
queues == <<ownQueue, inQueue, shared, feeding>>
service == <<blocks, committed>>
history == <<rows, wrote, inherited, adopted, faulty>>
vars == <<kind, pc, ended, object, server, queues, counter, service, history>>

NoBlock == 0      \* a writer that waits for its block
None == [i \in {} |-> 0]
With(f, i, v) == [j \in DOMAIN f \cup {i} |-> IF j = i THEN v ELSE f[j]]

Init ==
  /\ kind = [p \in Processes |-> IF p = Main THEN "main" ELSE "unborn"]
  /\ pc = [a \in Actors |-> "idle"]
  /\ ended = [p \in Processes |-> "no"]
  /\ writers = [p \in Processes |-> None]
  /\ willCommit = [p \in Processes |-> p = Main]
  /\ fixed = [p \in Processes |-> FALSE]
  /\ known = [p \in Processes |-> {}]
  /\ server = [p \in Processes |-> "none"]
  /\ ownQueue = [p \in Processes |-> FALSE]
  /\ inQueue = [p \in Processes |-> {}] /\ shared = {} /\ feeding = inQueue
  /\ counter = 1
  /\ blocks = None /\ committed = FALSE
  /\ rows = 0 /\ wrote = inQueue /\ inherited = FALSE /\ adopted = FALSE
  /\ faulty = FALSE

-----------------------------------------------------------------------------
(* Processes                                                               *)

MainIsOpen == ended[Main] = "no" /\ pc[MainThread] = "idle"
MainCloses == pc[MainThread] \in {"close", "list", "complete", "stop"}
CanCall(a) ==
  /\ kind[Process(a)] \notin {"unborn", "gone"}
  /\ ended[Process(a)] = "no" /\ pc[a] = "idle"

Fork(c) ==
  /\ kind[c] = "unborn" /\ MainIsOpen /\ \A t \in Threads : pc[t] = "idle"
  /\ kind' = [kind EXCEPT ![c] = "forked"]
  /\ writers' = [writers EXCEPT ![c] = writers[Main]]
  /\ willCommit' = [willCommit EXCEPT ![c] = willCommit[Main]]
  /\ fixed' = [fixed EXCEPT ![c] = fixed[Main]]
  /\ known' = [known EXCEPT ![c] = known[Main]]
  /\ server' = [server EXCEPT ![c] = server[Main]]
  /\ ownQueue' = [ownQueue EXCEPT ![c] = ownQueue[Main]]
  /\ inQueue' = [inQueue EXCEPT ![c] = inQueue[Main]]
  /\ inherited' = (inherited \/ writers[Main] # None)
  /\ UNCHANGED <<pc, ended, shared, feeding, counter, service, rows, wrote, adopted, faulty>>

NewServer == "none"               \* mutant: made and not started
StartedServer == "up"

\* __reduce__ in the main process and _restore_subprocess_writer in the child:
\* the first one starts the server and replaces the queue.
Pickle(c) ==
  /\ kind[c] = "unborn" /\ MainIsOpen /\ server[Main] # "down"
  /\ kind' = [kind EXCEPT ![c] = "client"]
  /\ fixed' = [fixed EXCEPT ![c] = TRUE]
  /\ known' = [known EXCEPT ![c] = DOMAIN blocks]
  /\ server' = [server EXCEPT ![Main] = StartedServer]
  /\ ownQueue' = [ownQueue EXCEPT ![Main] = TRUE]
  /\ inQueue' = [inQueue EXCEPT ![Main] = IF server[Main] = "none" THEN {} ELSE @]
  /\ adopted' = (adopted \/ blocks # None)
  /\ UNCHANGED <<pc, ended, writers, willCommit, shared, feeding, counter, service,
                 rows, wrote, inherited, faulty>>

\* A child that exits passes on what is still in the feeder of its queue; one
\* that crashes may not.
Leaves(c) ==
  /\ kind' = [kind EXCEPT ![c] = "gone"]
  /\ pc' = [pc EXCEPT ![c] = "idle"]
  /\ writers' = [writers EXCEPT ![c] = None]
  /\ willCommit' = [willCommit EXCEPT ![c] = FALSE]
  /\ fixed' = [fixed EXCEPT ![c] = FALSE]
  /\ server' = [server EXCEPT ![c] = "none"]
  /\ ownQueue' = [ownQueue EXCEPT ![c] = FALSE]
  /\ known' = [known EXCEPT ![c] = {}]
  /\ inQueue' = [inQueue EXCEPT ![c] = {}]
  /\ feeding' = [feeding EXCEPT ![c] = {}]
  /\ UNCHANGED <<ended, counter, service, rows, wrote, inherited, adopted>>

Exit(c) ==
  /\ kind[c] \in {"forked", "client"} /\ ended[c] # "no"
  /\ shared' = shared \cup feeding[c]
  /\ Leaves(c) /\ UNCHANGED faulty

Crash(c) ==
  /\ kind[c] \in {"forked", "client"}
  /\ shared' \in {shared, shared \cup feeding[c]}
  /\ Leaves(c) /\ faulty' = TRUE

-----------------------------------------------------------------------------
(* write()                                                                 *)

Local(p) == kind[p] \in {"main", "forked"}
Goto(a, l) == pc' = [pc EXCEPT ![a] = l]
Finish(a, how) ==
  Goto(a, "idle") /\ ended' = [ended EXCEPT ![Process(a)] = how]
SetWriter(p, i, w) == writers' = [writers EXCEPT ![p] = With(@, i, w)]

\* _gen_next_block_id: a client has to ask for it.
NextBlock(p) == IF Local(p) THEN counter ELSE NoBlock
CounterMoves(p) == counter' = IF Local(p) THEN counter + 1 ELSE counter

\* Rows are of any size: after each the buffer may be full or not.
AfterRow == {"idle", "upload"}

\* _fix_mp_attributes
CommitsFixed(p) == IF fixed[p] THEN willCommit[p] ELSE p = Main

Write(a) ==
  LET p == Process(a)
      i == Ident(a)
      w == IF i \in DOMAIN writers[p]
           THEN [writers[p][i] EXCEPT !.rows = Append(@, rows + 1)]
           ELSE [block |-> NextBlock(p), rows |-> <<rows + 1>>, done |-> {}]
  IN /\ CanCall(a) /\ (a \in Threads => ~MainCloses)
     /\ rows < MaxRows /\ rows' = rows + 1
     /\ wrote' = [wrote EXCEPT ![p] = @ \cup {rows + 1}]
     /\ willCommit' = [willCommit EXCEPT ![p] = CommitsFixed(p)]
     /\ fixed' = [fixed EXCEPT ![p] = TRUE]
     /\ SetWriter(p, i, w)
     /\ IF i \in DOMAIN writers[p] THEN UNCHANGED counter ELSE CounterMoves(p)
     /\ IF w.block = NoBlock THEN Goto(a, "ask") ELSE \E l \in AfterRow : Goto(a, l)
     /\ UNCHANGED <<kind, ended, known, server, queues, service, inherited, adopted, faulty>>

\* get_next_block_id of a client, answered by the server.
BlockGiven(c) ==
  LET w == [writers[c][MainThread] EXCEPT !.block = counter]
  IN /\ pc[c] \in {"ask", "ask_in_close"} /\ server[Main] = "up"
     /\ counter' = counter + 1
     /\ SetWriter(c, MainThread, w)
     /\ IF pc[c] = "ask_in_close" THEN Goto(c, "close")
        ELSE IF w.rows = <<>> THEN Goto(c, "idle") ELSE \E l \in AfterRow : Goto(c, l)
     /\ UNCHANGED <<kind, ended, willCommit, fixed, known, server, queues, service, history>>

\* _get_next_block_id of a buffered writer
Successor(p, w) == w.block + 1            \* mutant: block_id_gen is not used
Following(p, w) == NextBlock(p)

Sends(a, i) ==
  \/ pc[a] = "upload" /\ i = Ident(a)
  \/ pc[a] = "close" /\ writers[Process(a)][i].rows # <<>>

\* _flush of a buffered writer: the block as it was uploaded before, by
\* whomever, is replaced.
Uploaded(p, i) ==
  /\ ~committed
  /\ blocks' = With(blocks, writers[p][i].block, ToSet(writers[p][i].rows))

Upload(a, i) ==
  LET p == Process(a)
      w == writers[p][i]
  IN /\ Sends(a, i)
     /\ Uploaded(p, i)
     /\ SetWriter(p, i, [block |-> Following(p, w), rows |-> <<>>, done |-> w.done \cup {w.block}])
     /\ CounterMoves(p)
     /\ Goto(a, IF pc[a] = "close" THEN IF Local(p) THEN "close" ELSE "ask_in_close"
                ELSE IF Local(p) THEN "idle" ELSE "ask")
     /\ UNCHANGED <<kind, ended, willCommit, fixed, known, server, queues, committed, history>>

\* The request fails although the session is open, and may have been executed;
\* or it is refused.
UploadRaises(a, i) ==
  /\ Sends(a, i)
  /\ faulty' = (faulty \/ ~committed)
  /\ Uploaded(Process(a), i) \/ UNCHANGED blocks
  /\ Finish(a, "raised")
  /\ UNCHANGED <<kind, object, server, queues, counter, committed, rows, wrote, inherited, adopted>>

-----------------------------------------------------------------------------
(* close()                                                                 *)

Close(a) ==
  /\ a \in Children \cup {MainThread} /\ CanCall(a)
  /\ a = MainThread =>
       /\ \A t \in Threads : pc[t] = "idle"
       /\ \A c \in Children : kind[c] \in {"unborn", "gone"} \/ (kind[c] = "client" /\ ended[c] # "no")
  /\ Goto(a, "close")
  /\ UNCHANGED <<kind, ended, object, server, queues, counter, service, history>>

\* A writer nothing was written to takes the blocks of its session for written.
Written(p) ==
  IF writers[p] = None THEN known[p]
  ELSE UNION {writers[p][i].done : i \in DOMAIN writers[p]}

AllSent(p) == \A i \in DOMAIN writers[p] : writers[p][i].rows = <<>>

\* The blocks are put into the queue of the process.
Register(a) ==
  LET p == Process(a)
  IN /\ pc[a] = "close" /\ AllSent(p) /\ Local(p)
     /\ IF ownQueue[p]
        THEN inQueue' = [inQueue EXCEPT ![p] = @ \cup Written(p)] /\ UNCHANGED feeding
        ELSE feeding' = [feeding EXCEPT ![p] = Written(p)] /\ UNCHANGED inQueue
     /\ Goto(a, IF willCommit[p] THEN "list" ELSE "stop")
     /\ UNCHANGED <<kind, ended, object, server, ownQueue, shared, counter, service, history>>

\* put_written_blocks of a client, answered by the server.
Reported(c) ==
  /\ c \in Children /\ kind[c] = "client" /\ pc[c] = "close" /\ AllSent(c)
  /\ Written(c) # {} => server[Main] = "up"
  /\ inQueue' = [inQueue EXCEPT ![Main] = @ \cup Written(c)]
  /\ Goto(c, "stop")
  /\ UNCHANGED <<kind, ended, object, server, ownQueue, shared, feeding, counter, service, history>>

\* What close() collects: what it has written itself, what is in the queue, and
\* what its session knew.
Collected(p) ==
  Written(p) \cup known[p] \cup (IF ownQueue[p] THEN inQueue[p] ELSE shared)

AnyBlocks(p) == TRUE              \* mutant: commit() does not compare
BlocksMatch(p) == Collected(p) = DOMAIN blocks

\* get_block_list in commit(): the queue has been emptied by then.
List(a) ==
  LET p == Process(a)
  IN /\ pc[a] = "list"
     /\ inQueue' = [inQueue EXCEPT ![p] = {}]
     /\ shared' = IF ownQueue[p] THEN shared ELSE {}
     /\ known' = [known EXCEPT ![p] = DOMAIN blocks]
     /\ IF BlocksMatch(p) THEN Goto(a, "complete") /\ UNCHANGED ended ELSE Finish(a, "raised")
     /\ UNCHANGED <<kind, writers, willCommit, fixed, server, ownQueue, feeding, counter,
                    service, history>>

ListRaises(a) ==
  /\ pc[a] = "list"
  /\ inQueue' = [inQueue EXCEPT ![Process(a)] = {}]
  /\ shared' = IF ownQueue[Process(a)] THEN shared ELSE {}
  /\ Finish(a, "raised") /\ faulty' = TRUE
  /\ UNCHANGED <<kind, object, server, ownQueue, feeding, counter, service, rows, wrote, inherited, adopted>>

\* _complete_upload names no blocks.
Complete(a) ==
  /\ pc[a] = "complete"
  /\ ~committed /\ committed' = TRUE
  /\ Goto(a, "stop")
  /\ UNCHANGED <<kind, ended, object, server, queues, counter, blocks, history>>

CompleteRaises(a) ==
  /\ pc[a] = "complete"
  /\ committed' \in {committed, TRUE}
  /\ faulty' = (faulty \/ ~committed)
  /\ Finish(a, "raised")
  /\ UNCHANGED <<kind, object, server, queues, counter, blocks, rows, wrote, inherited, adopted>>

\* The server is stopped by whoever has its object; a forked child has a copy.
\* An object whose server has ended without it has no socket: stop() raises.
Stop(a) ==
  LET p == Process(a)
  IN /\ pc[a] = "stop"
     /\ IF server[p] = "down" THEN Finish(a, "raised") ELSE Finish(a, "ok")
     /\ server' = [[server EXCEPT ![Main] = IF server[p] = "up" /\ @ = "up" THEN "down" ELSE @]
                   EXCEPT ![p] = "none"]
     /\ UNCHANGED <<kind, object, queues, counter, service, history>>

-----------------------------------------------------------------------------
Continue(a) ==
  \/ \E i \in DOMAIN writers[Process(a)] : Upload(a, i) \/ UploadRaises(a, i)
  \/ Register(a) \/ List(a) \/ ListRaises(a)
  \/ Complete(a) \/ CompleteRaises(a) \/ Stop(a)

ClientContinues(c) == BlockGiven(c) \/ Reported(c)

Next ==
  \/ \E a \in Actors : Write(a) \/ Close(a) \/ Continue(a)
  \/ \E c \in Children :
       Fork(c) \/ Pickle(c) \/ ClientContinues(c) \/ Exit(c) \/ Crash(c)

\* A call goes on, and so does the thread of the server.
FairCall(a) == WF_vars(Continue(a))
FairServer(c) == WF_vars(ClientContinues(c))
Fairness == (\A a \in Actors : FairCall(a)) /\ (\A c \in Children : FairServer(c))

Spec == Init /\ [][Next]_vars /\ Fairness

-----------------------------------------------------------------------------
(* Properties                                                              *)

BufferedWriter == [block : Nat, rows : Seq(1..MaxRows), done : SUBSET Nat]

(* Types.                                                                   *)
TypeOK ==
  /\ kind \in [Processes -> {"main", "unborn", "forked", "client", "gone"}]
  /\ pc \in [Actors -> {"idle", "ask", "upload", "close", "ask_in_close", "list",
                        "complete", "stop"}]
  /\ ended \in [Processes -> {"no", "ok", "raised"}]
  /\ DOMAIN writers = Processes
  /\ \A p \in Processes :
       /\ DOMAIN writers[p] \subseteq Threads
       /\ \A i \in DOMAIN writers[p] : writers[p][i] \in BufferedWriter
  /\ willCommit \in [Processes -> BOOLEAN] /\ fixed \in [Processes -> BOOLEAN]
  /\ ownQueue \in [Processes -> BOOLEAN]
  /\ server \in [Processes -> {"none", "up", "down"}]
  /\ known \in [Processes -> SUBSET Nat] /\ inQueue \in [Processes -> SUBSET Nat]
  /\ feeding \in [Processes -> SUBSET Nat] /\ shared \subseteq Nat
  /\ counter \in Nat \ {0}
  /\ DOMAIN blocks \subseteq Nat /\ \A b \in DOMAIN blocks : blocks[b] \subseteq 1..MaxRows
  /\ rows \in 0..MaxRows /\ wrote \in [Processes -> SUBSET (1..MaxRows)]
  /\ committed \in BOOLEAN /\ inherited \in BOOLEAN
  /\ adopted \in BOOLEAN /\ faulty \in BOOLEAN

(* Two buffered writers never fill the same block, in whichever threads and *)
(* processes they are and whoever gives them their blocks, nor does one     *)
(* fill a block that was uploaded: the later upload would replace the       *)
(* other.  A process forked with writers of its parent is the exception:    *)
(* both go on with the same block; and one that has raised is over.         *)
BlocksOfOneWriter ==
  LET Open == {o \in Processes \X Threads :
                 /\ ended[o[1]] # "raised" /\ o[2] \in DOMAIN writers[o[1]]
                 /\ writers[o[1]][o[2]].block # NoBlock}
      Block(o) == writers[o[1]][o[2]].block
  IN ~inherited =>
       /\ \A o, q \in Open : Block(o) = Block(q) => o = q
       /\ \A o \in Open : Block(o) \notin DOMAIN blocks

(* When close() of the main process returns, the session is committed, with *)
(* every row written by the main process and by each child whose close()    *)
(* has returned, in one block; and of another child, one that crashed or    *)
(* whose close() raised, it has all rows or none: where a child could not   *)
(* tell what it has uploaded, the main process's close() raises.            *)
(* Exceptions: forks that inherit writers, and, for half a child's rows, a  *)
(* pickled writer that closes without a row and reports what it found.      *)
ClosedMeansCommitted ==
  LET There(r) == \E b \in DOMAIN blocks : \A d \in DOMAIN blocks : r \in blocks[d] <=> d = b
  IN ended[Main] = "ok" /\ ~inherited =>
       /\ committed
       /\ \A p \in Processes :
            \/ \A r \in wrote[p] : There(r)
            \/ ended[p] # "ok" /\ (adopted \/ \A r \in wrote[p] : ~There(r))

\* A client in a call that asks the server, or tells it what it has written.
AsksServer(a) ==
  \/ pc[a] \in {"ask", "ask_in_close"}
  \/ pc[a] = "close" /\ ~Local(Process(a)) /\ AllSent(Process(a))

\* The guards that fairness holds the caller and the server's thread to.
CallGuard(a) == pc[a] # "idle" /\ ~AsksServer(a)
ServerGuard(c) == AsksServer(c) /\ server[Main] = "up"

CallerCan(a) == CallGuard(a) => ENABLED <<Continue(a)>>_vars
ServerCan(c) == ServerGuard(c) => ENABLED <<ClientContinues(c)>>_vars
GuardsSuffice == (\A a \in Actors : CallerCan(a)) /\ (\A c \in Children : ServerCan(c))

(* Only a client asks, and while it does the server is up, or is down       *)
(* because the close() of a forked child has stopped it: a main process     *)
(* that has a client in a call does not stop it.                            *)
CallNotStuck ==
  /\ GuardsSuffice
  /\ \A a \in Actors : AsksServer(a) => a \in Children /\ server[Main] # "none"

CallReturns(a) == pc[a] # "idle" ~> (pc[a] = "idle" \/ server[Main] = "down")

(* Nobody who has a step to make is kept from it, and every call returns:   *)
(* a client's question is answered while the main process is open, unless   *)
(* the close() of a forked child has stopped the server under it.           *)
CallsReturn == []GuardsSuffice /\ \A a \in Actors : CallReturns(a)
=============================================================================
