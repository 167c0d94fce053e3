------------------------------ MODULE JsonLoad ------------------------------
(***************************************************************************)
(* The ways into a JsonParser (json-glib/json-parser.c): a load from data, *)
(* from a file, from a stream, and the asynchronous load, which reads its  *)
(* stream in a thread of the GTask pool and parses when its callback calls *)
(* finish.  Several may be under way on one parser.                        *)
(*                                                                         *)
(* A document is the sequence of the blocks a stream gives; the tree made  *)
(* of a text is known by that text.  JsonParser models the parsing itself. *)
(***************************************************************************)
EXTENDS Integers, FiniteSets, SequencesExt

CONSTANTS
  NULL,
  MaxTasks,        \* bound on the asynchronous loads
  Cancellables,
  Documents,       \* their blocks are pairs <<document, n>>
  Length,          \* how many blocks a document has
  Malformed,       \* the documents that are not JSON
  MaxThreads,      \* bound on the threads of the pool
  MaxLoads         \* bound on the loads that are not asynchronous

Tasks == 1 .. MaxTasks    \* in the order they are started

(* What there is to say of a load that reached the parser.                 *)
Record ==
  [text : Seq(Documents \X Nat), document : Documents, kind : {"data", "file", "stream"},
   task : Tasks \cup {NULL}, ok : BOOLEAN, label : Documents \cup {"<data>"}]

ASSUME LoadAssumption ==
  /\ Length \in [Documents -> Nat] /\ Malformed \subseteq Documents
  /\ MaxTasks \in Nat /\ MaxThreads \in Nat \ {0} /\ MaxLoads \in Nat
  /\ NULL \notin Tasks /\ NULL \notin Documents /\ NULL \notin Record

VARIABLES
  strict,          \* priv->is_strict
  root,            \* priv->root: the text it was made of, or NULL
  filename,        \* priv->filename, or NULL when is_filename is not set
  parsing,         \* the load that json_parser_load is at, or NULL
  phase,           \* of each task
  source,          \* the document of its stream
  cancellable,     \* its cancellable, or NULL
  content,         \* LoadData: what was read
  taken,           \* how many blocks of its stream
  answer,          \* what the task, and then its finish, gave
  pool,            \* the tasks that wait for a thread, in order
  threads,         \* how many threads it has
  cancelled,       \* the cancellables that are cancelled
  last,            \* history: the last load that reached the parser
  doomed,          \* history: the tasks whose cancellable was cancelled from the start
  loads            \* how many there were

parser == <<root, filename, parsing, last>>
task == <<phase, source, cancellable, content, taken, answer, pool, threads, doomed>>
vars == <<strict, parser, task, cancelled, loads>>

Text(d) == [i \in 1 .. Length[d] |-> <<d, i>>]
IsJson(d) == d \notin Malformed /\ (strict => Length[d] > 0)

Init ==
  /\ strict \in BOOLEAN
  /\ root = NULL /\ filename = NULL /\ parsing = NULL /\ last = NULL
  /\ phase = [k \in Tasks |-> "new"]
  /\ source = [k \in Tasks |-> NULL] /\ cancellable = [k \in Tasks |-> NULL]
  /\ content = [k \in Tasks |-> <<>>] /\ taken = [k \in Tasks |-> 0] /\ answer = [k \in Tasks |-> "NONE"]
  /\ pool = <<>> /\ threads \in 1 .. MaxThreads /\ cancelled = {} /\ doomed = {} /\ loads = 0

-----------------------------------------------------------------------------
(* json_parser_load, of a text that is of document d.  It runs in one      *)
(* thread, but its signal handlers are calls of the client.                *)

Label == IF filename' # NULL THEN filename' ELSE "<data>"
NoTask == answer' = answer
Told(k, a) == IF k = NULL THEN NoTask ELSE answer' = [answer EXCEPT ![k] = a]

Load(t, d, kind, k) ==
  LET this == [text |-> t, document |-> d, kind |-> kind, task |-> k, ok |-> FALSE, label |-> Label]
  IN  IF strict /\ t = <<>>
      THEN /\ last' = this /\ Told(k, "FALSE")
           /\ UNCHANGED <<root, parsing>>
      ELSE /\ root' = NULL /\ parsing' = this    \* json_parser_clear
           /\ NoTask /\ UNCHANGED last

(* The end of it.  Of a text that is not JSON, the part before the error   *)
(* may have become the root.                                               *)
Loaded ==
  LET d == parsing.document
      ok == IsJson(d) /\ parsing.text = Text(d)
  IN  /\ parsing # NULL
      /\ parsing' = NULL /\ last' = [parsing EXCEPT !.ok = ok]
      /\ root' \in IF ok THEN {IF parsing.text = <<>> THEN NULL ELSE parsing.text}
                   ELSE {NULL} \cup {SubSeq(parsing.text, 1, n) : n \in DOMAIN parsing.text}
      /\ Told(parsing.task, IF ok THEN "TRUE" ELSE "FALSE")
      /\ UNCHANGED <<strict, filename, phase, source, cancellable, content, taken, pool, threads, doomed, cancelled, loads>>

Free == parsing = NULL
Outright ==    \* a load of the client's own
  /\ Free /\ loads < MaxLoads /\ loads' = loads + 1
  /\ UNCHANGED <<strict, cancelled, phase, source, cancellable, content, taken, pool, threads, doomed>>

(* json_parser_load_from_data *)
LoadFromData(d) ==
  /\ Outright /\ filename' = NULL
  /\ Load(Text(d), d, "data", NULL)

(* json_parser_load_from_file and load_from_mapped_file: a document names  *)
(* its file.  A file that cannot be read changes nothing.                  *)
LoadFromFile(d) ==
  /\ Outright
  /\ \/ filename' = d /\ Load(Text(d), d, "file", NULL)
     \/ UNCHANGED <<parser, answer>>

(* json_parser_load_from_stream, which leaves the name of the file of an   *)
(* earlier load.  Nothing changes when the stream fails.                   *)
LoadFromStream(d) ==
  /\ Outright
  /\ \/ UNCHANGED filename /\ Load(Text(d), d, "stream", NULL)
     \/ UNCHANGED <<parser, answer>>

(* json_parser_steal_root *)
StealRoot ==
  /\ Free /\ root # NULL
  /\ root' = NULL /\ last' = NULL
  /\ UNCHANGED <<strict, filename, parsing, task, cancelled, loads>>

-----------------------------------------------------------------------------
(* json_parser_load_from_stream_async: from anywhere in the client, the    *)
(* handlers of a load under way included.                                  *)
LoadAsync(k, d, c) ==
  /\ phase[k] = "new" /\ \A j \in 1 .. k - 1 : phase[j] # "new"
  /\ phase' = [phase EXCEPT ![k] = "queued"]
  /\ source' = [source EXCEPT ![k] = d]
  /\ cancellable' = [cancellable EXCEPT ![k] = c]
  /\ pool' = Append(pool, k)
  /\ doomed' = (IF c \in cancelled THEN doomed \cup {k} ELSE doomed)
  /\ UNCHANGED <<strict, parser, content, taken, answer, threads, cancelled, loads>>

Cancel(c) ==
  /\ c \notin cancelled /\ cancelled' = cancelled \cup {c}
  /\ UNCHANGED <<strict, parser, task, loads>>

(* A thread of the pool takes the next task: read_from_stream.             *)
Run ==
  /\ pool # <<>> /\ Cardinality({k \in Tasks : phase[k] = "reading"}) < threads
  /\ phase' = [phase EXCEPT ![Head(pool)] = "reading"]
  /\ pool' = Tail(pool)
  /\ UNCHANGED <<strict, parser, source, cancellable, content, taken, answer, threads, doomed, cancelled, loads>>

IsCancelled(k) == cancellable[k] \in cancelled
Return(k, a) ==
  /\ phase' = [phase EXCEPT ![k] = "returned"]
  /\ answer' = [answer EXCEPT ![k] = a]
  /\ UNCHANGED <<content, taken>>

StoredAtStart(s, block) == <<block>>    \* mutant: pos is not moved
Stored(s, block) == Append(s, block)

NeverAtEnd(k) == FALSE    \* mutant: the loop goes on at the end of the stream
AtEnd(k) == taken[k] = Length[source[k]]

(* One g_input_stream_read of its loop, which asks the cancellable first.  *)
Reading(k, A) ==
  /\ phase[k] = "reading" /\ A
  /\ UNCHANGED <<strict, parser, source, cancellable, pool, threads, doomed, cancelled, loads>>
Read(k) ==
  Reading(k,
    \/ IsCancelled(k) /\ Return(k, "CANCELLED")
    \/ ~ IsCancelled(k) /\ AtEnd(k) /\ Return(k, "TRUE")
    \/ /\ ~ IsCancelled(k) /\ taken[k] < Length[source[k]]
       /\ taken' = [taken EXCEPT ![k] = @ + 1]
       /\ content' = [content EXCEPT ![k] = Stored(@, <<source[k], taken'[k]>>)]
       /\ UNCHANGED <<phase, answer>>)
ReadFails(k) == Reading(k, ~ IsCancelled(k) /\ Return(k, "IO"))

LastData(k) == content[Max({j \in Tasks : phase[j] # "new"})]    \* mutant: LoadData kept in the parser
Data(k) == content[k]

PropagatedLate(k) == answer[k]    \* mutant: a cancellation after the read is not asked for
(* g_task_propagate_boolean: the error of the cancellable comes first.     *)
Propagated(k) == IF IsCancelled(k) THEN "CANCELLED" ELSE answer[k]

(* The main loop calls the callback, and that                              *)
(* json_parser_load_from_stream_finish.                                    *)
Dispatch(k) ==
  /\ phase[k] = "returned" /\ Free
  /\ phase' = [phase EXCEPT ![k] = "finished"]
  /\ UNCHANGED filename
  /\ IF Propagated(k) = "TRUE" THEN Load(Data(k), source[k], "stream", k)
     ELSE Told(k, Propagated(k)) /\ UNCHANGED <<root, parsing, last>>
  /\ UNCHANGED <<strict, source, cancellable, content, taken, pool, threads, doomed, cancelled, loads>>

(* Nothing is left to do. *)
Idle == Free /\ loads = MaxLoads /\ (\A k \in Tasks : phase[k] = "finished") /\ UNCHANGED vars

Next ==
  \/ Loaded
  \/ \E d \in Documents : LoadFromData(d) \/ LoadFromFile(d) \/ LoadFromStream(d)
  \/ StealRoot
  \/ \E k \in Tasks, d \in Documents, c \in Cancellables \cup {NULL} : LoadAsync(k, d, c)
  \/ \E c \in Cancellables : Cancel(c)
  \/ Run
  \/ \E k \in Tasks : Read(k) \/ ReadFails(k) \/ Dispatch(k)
  \/ Idle

(* The pool runs its threads, a stream does not block for ever, the main   *)
(* loop is run, and a handler returns.  Nobody has to start or to cancel   *)
(* anything.                                                               *)
Fairness ==
  /\ WF_vars(Run) /\ WF_vars(Loaded)
  /\ \A k \in Tasks : WF_vars(Read(k)) /\ WF_vars(Dispatch(k))

Spec == Init /\ [][Next]_vars /\ Fairness

-----------------------------------------------------------------------------

(* The load that reached the parser last decides: it succeeds when its own *)
(* document is JSON, and then the tree is of that document, all of its     *)
(* blocks in order, however many loads read at the same time and in        *)
(* whatever order they end.  And an error is reported with the name of the *)
(* file that was loaded, or as data, except that a stream keeps the name   *)
(* of the file loaded before it.                                           *)
OwnText ==
  /\ (Free /\ last # NULL) =>
       /\ last.ok = IsJson(last.document)
       /\ last.ok => root = (IF Length[last.document] = 0 THEN NULL ELSE Text(last.document))
  /\ (Free /\ last = NULL) => root = NULL
  /\ last # NULL /\ last.kind # "stream" =>
       last.label = (IF last.kind = "file" THEN last.document ELSE "<data>")

(* Each load is told the truth about itself, whatever happened to the      *)
(* others: TRUE only for JSON that was read to its end, FALSE only for     *)
(* what is not JSON, CANCELLED only when its cancellable was cancelled,    *)
(* and TRUE never when that was so before it began to wait.                *)
Verdict ==
  \A k \in Tasks :
    phase[k] = "finished" =>
      CASE answer[k] = "TRUE" ->
             /\ content[k] = Text(source[k]) /\ k \notin doomed
             /\ IsJson(source[k]) \/ (parsing # NULL /\ parsing.task = k)
        [] answer[k] = "FALSE" -> ~ IsJson(source[k])
        [] answer[k] = "CANCELLED" -> IsCancelled(k)
        [] answer[k] = "IO" -> k \notin doomed
        [] OTHER -> FALSE

(* A load cancelled before its callback never reaches the parser.          *)
CancelledQuiet ==
  [][\A k \in Tasks :
       (IsCancelled(k) /\ phase[k] # "finished" /\ phase'[k] = "finished")
         => answer'[k] = "CANCELLED" /\ UNCHANGED parser]_vars

(* Every load that was started is answered, also when there are more of    *)
(* them than threads, and when others fail or are cancelled.               *)
Answered ==
  \A k \in Tasks : phase[k] = "queued" ~> (phase[k] = "finished" /\ Free)
=============================================================================
