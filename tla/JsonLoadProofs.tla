--------------------------- MODULE JsonLoadProofs ---------------------------
(***************************************************************************)
(* Loads on one JsonParser do not disturb each other, for every number of  *)
(* them, of threads and of cancellables, and documents of every length.    *)
(*                                                                         *)
(* OwnText and Verdict speak of loads that have ended.  The invariant adds *)
(* how far the others are: what a task has read is the first blocks of its *)
(* own stream, what it will answer goes with that, and the text that is    *)
(* being parsed is all of the document of its load.                        *)
(***************************************************************************)
EXTENDS JsonLoad, TLAPS

Types ==
  /\ phase \in [Tasks -> {"new", "queued", "reading", "returned", "finished"}]
  /\ source \in [Tasks -> Documents \cup {NULL}]
  /\ cancellable \in [Tasks -> Cancellables \cup {NULL}]
  /\ content \in [Tasks -> Seq(Documents \X Nat)]
  /\ taken \in [Tasks -> Nat]
  /\ answer \in [Tasks -> {"NONE", "TRUE", "FALSE", "IO", "CANCELLED"}]
  /\ pool \in Seq(Tasks)
  /\ doomed \subseteq Tasks
  /\ filename \in Documents \cup {NULL}
  /\ parsing \in Record \cup {NULL} /\ last \in Record \cup {NULL}

InPhase(k) ==
  /\ phase[k] = "new" => k \notin doomed
  /\ phase[k] # "new" => source[k] \in Documents
  /\ phase[k] \in {"new", "queued"} => taken[k] = 0
  /\ phase[k] \in {"new", "queued", "reading"} => answer[k] = "NONE"
  /\ phase[k] = "returned" => answer[k] \in {"TRUE", "IO", "CANCELLED"}
  /\ phase[k] = "finished" => answer[k] # "NONE"

SoFar(k) == content[k] = [i \in 1 .. taken[k] |-> <<source[k], i>>]

Truth(k) ==
  /\ answer[k] = "TRUE" => taken[k] = Length[source[k]]
  /\ answer[k] = "FALSE" => ~ IsJson(source[k])
  /\ answer[k] = "CANCELLED" => IsCancelled(k)
  /\ k \in doomed => IsCancelled(k) /\ answer[k] \in {"NONE", "CANCELLED"}
  /\ (phase[k] = "finished" /\ answer[k] = "TRUE") =>
       IsJson(source[k]) \/ (parsing # NULL /\ parsing.task = k)

Task(k) == InPhase(k) /\ SoFar(k) /\ Truth(k)

Labelled(r) ==
  r.kind # "stream" => r.label = (IF r.kind = "file" THEN r.document ELSE "<data>")

Parsing ==
  parsing # NULL =>
    /\ parsing.text = Text(parsing.document)
    /\ Labelled(parsing)
    /\ parsing.task # NULL =>
         /\ phase[parsing.task] = "finished" /\ answer[parsing.task] = "TRUE"
         /\ source[parsing.task] = parsing.document

Waiting ==
  /\ \A i \in DOMAIN pool : phase[pool[i]] = "queued"
  /\ \A i, j \in DOMAIN pool : pool[i] = pool[j] => i = j

Inv == Types /\ Waiting /\ (\A k \in Tasks : Task(k)) /\ Parsing /\ OwnText

-----------------------------------------------------------------------------

LEMMA TextFacts ==
  ASSUME NEW d \in Documents
  PROVE  /\ Length[d] \in Nat
         /\ Text(d) \in Seq(Documents \X Nat)
         /\ Text(d) = <<>> <=> Length[d] = 0
<1>1. Length[d] \in Nat
  BY LoadAssumption
<1>2. \A i \in 1 .. Length[d] : <<d, i>> \in Documents \X Nat
  BY <1>1
<1>3. Text(d) \in Seq(Documents \X Nat)
  BY <1>1, <1>2 DEF Text
<1>4. Len(Text(d)) = Length[d]
  BY <1>1 DEF Text
<1> QED BY <1>1, <1>3, <1>4

(* One block more. *)
LEMMA BlockFacts ==
  ASSUME NEW d, NEW n \in Nat
  PROVE  Append([i \in 1 .. n |-> <<d, i>>], <<d, n + 1>>) = [i \in 1 .. n + 1 |-> <<d, i>>]
OBVIOUS

(* A load that begins while none is under way. *)
LEMMA Begun ==
  ASSUME Inv, Free, strict' = strict, filename' \in Documents \cup {NULL},
         NEW d \in Documents, NEW kind \in {"data", "file", "stream"}, NEW k \in Tasks \cup {NULL},
         kind # "stream" => Label = (IF kind = "file" THEN d ELSE "<data>"),
         Load(Text(d), d, kind, k)
  PROVE  /\ parsing' \in Record \cup {NULL} /\ last' \in Record \cup {NULL}
         /\ OwnText'
         /\ \/ parsing' = NULL /\ ~ IsJson(d) /\ Told(k, "FALSE")
            \/ /\ parsing' # NULL /\ answer' = answer
               /\ parsing'.text = Text(d) /\ parsing'.document = d /\ parsing'.task = k
               /\ Labelled(parsing')
<1> DEFINE this == [text |-> Text(d), document |-> d, kind |-> kind, task |-> k, ok |-> FALSE, label |-> Label]
<1>1. Label \in Documents \cup {"<data>"}
  BY DEF Label
<1>2. this \in Record
  BY <1>1, TextFacts DEF Record
<1>3. this # NULL
  BY <1>2, LoadAssumption
<1>4. Labelled(this)
  BY DEF Labelled
<1>5. CASE strict /\ Text(d) = <<>>
  <2>1. last' = this /\ Told(k, "FALSE") /\ root' = root /\ parsing' = parsing
    BY <1>5 DEF Load
  <2>2. parsing' = NULL
    BY <2>1 DEF Free
  <2>3. ~ IsJson(d)
    BY <1>5, TextFacts DEF IsJson
  <2>4. ~ IsJson(d)'
    BY <2>3 DEF IsJson
  <2>5. last' # NULL /\ last'.ok = FALSE /\ last'.document = d
    BY <2>1, <1>3
  <2>6. last'.kind # "stream" => last'.label = (IF last'.kind = "file" THEN last'.document ELSE "<data>")
    BY <2>1, <1>4 DEF Labelled
  <2>7. OwnText'
    BY <2>4, <2>5, <2>6 DEF OwnText, IsJson
  <2> QED BY <2>1, <2>2, <2>3, <2>7, <1>2
<1>6. CASE ~ (strict /\ Text(d) = <<>>)
  <2>1. root' = NULL /\ parsing' = this /\ answer' = answer /\ last' = last
    BY <1>6 DEF Load, NoTask
  <2>2. OwnText'
    BY <2>1, <1>3 DEF OwnText, Free, Inv
  <2> QED BY <2>1, <2>2, <1>2, <1>3, <1>4 DEF Inv, Types
<1> QED BY <1>5, <1>6

-----------------------------------------------------------------------------

LEMMA InitInv == Init => Inv
<1> SUFFICES ASSUME Init PROVE Inv
  OBVIOUS
<1>1. Types
  BY DEF Init, Types
<1>2. ASSUME NEW k \in Tasks PROVE Task(k)
  <2>1. SoFar(k)
    BY DEF Init, SoFar
  <2> QED BY <2>1 DEF Init, Task, InPhase, Truth
<1>3. Parsing /\ OwnText
  BY DEF Init, Parsing, OwnText
<1>4. Waiting
  BY DEF Init, Waiting
<1> QED BY <1>1, <1>2, <1>3, <1>4 DEF Inv

(* Nobody comes to wait, and none of those who do goes on. *)
LEMMA WaitingStays ==
  ASSUME Inv, pool' = pool, \A k \in Tasks : phase[k] = "queued" => phase'[k] = "queued"
  PROVE  Waiting'
<1>1. \A i \in DOMAIN pool : pool[i] \in Tasks
  BY DEF Inv, Types
<1> QED BY <1>1 DEF Inv, Waiting

(* The tasks do not change, and no load is under way. *)
LEMMA TasksStay ==
  ASSUME Inv, Free, UNCHANGED <<strict, task, cancelled>>
  PROVE  \A k \in Tasks : Task(k)'
<1> SUFFICES ASSUME NEW k \in Tasks PROVE Task(k)'
  OBVIOUS
<1>1. Task(k)
  BY DEF Inv
<1>2. InPhase(k)' /\ SoFar(k)'
  BY <1>1 DEF Task, InPhase, SoFar, task
<1>3. Truth(k)'
  BY <1>1 DEF Task, Truth, IsJson, IsCancelled, task, Free
<1> QED BY <1>2, <1>3 DEF Task

LEMMA OutrightInv ==
  ASSUME Inv, Outright, filename' \in Documents \cup {NULL}, NEW d \in Documents,
         NEW kind \in {"data", "file", "stream"},
         kind # "stream" => Label = (IF kind = "file" THEN d ELSE "<data>"),
         Load(Text(d), d, kind, NULL)
  PROVE  Inv'
<1>1. Free /\ strict' = strict /\ UNCHANGED <<cancelled, phase, source, cancellable, content, taken, pool, threads, doomed>>
  BY DEF Outright
<1>2. /\ parsing' \in Record \cup {NULL} /\ last' \in Record \cup {NULL} /\ OwnText'
      /\ \/ parsing' = NULL /\ Told(NULL, "FALSE")
         \/ /\ parsing' # NULL /\ answer' = answer
            /\ parsing'.text = Text(d) /\ parsing'.document = d /\ parsing'.task = NULL
            /\ Labelled(parsing')
  BY <1>1, Begun
<1>3. answer' = answer
  BY <1>2 DEF Told, NoTask
<1>4. Types'
  BY <1>1, <1>2, <1>3 DEF Inv, Types
<1>5. Parsing'
  BY <1>2 DEF Parsing, Labelled
<1>6. \A k \in Tasks : Task(k)'
  BY <1>1, <1>3, TasksStay DEF task
<1>7. Waiting'
  BY <1>1, WaitingStays
<1> QED BY <1>2, <1>4, <1>5, <1>6, <1>7 DEF Inv

(* A load of the client's own, or one that fails before the parser. *)
LEMMA ParserStays ==
  ASSUME Inv, Outright, UNCHANGED <<parser, answer>>
  PROVE  Inv'
<1>1. Free /\ UNCHANGED <<strict, task, cancelled, parser>>
  BY DEF Outright, task
<1>2. Types'
  BY <1>1 DEF Inv, Types, task, parser
<1>3. Parsing' /\ OwnText'
  BY <1>1 DEF Inv, Parsing, OwnText, Free, parser, IsJson
<1>4. Waiting'
  BY <1>1, WaitingStays DEF task
<1> QED BY <1>1, <1>2, <1>3, <1>4, TasksStay DEF Inv

LEMMA LoadFromInv ==
  ASSUME Inv, NEW d \in Documents, LoadFromData(d) \/ LoadFromFile(d) \/ LoadFromStream(d)
  PROVE  Inv'
<1>1. CASE LoadFromData(d)
  <2>1. Outright /\ filename' = NULL /\ Load(Text(d), d, "data", NULL)
    BY <1>1 DEF LoadFromData
  <2>2. Label = "<data>"
    BY <2>1 DEF Label
  <2> QED BY <2>1, <2>2, OutrightInv
<1>2. CASE LoadFromFile(d)
  <2>1. CASE Outright /\ UNCHANGED <<parser, answer>>
    BY <2>1, ParserStays
  <2>2. CASE Outright /\ filename' = d /\ Load(Text(d), d, "file", NULL)
    <3>1. Label = d
      BY <2>2, LoadAssumption DEF Label
    <3> QED BY <2>2, <3>1, OutrightInv
  <2> QED BY <1>2, <2>1, <2>2 DEF LoadFromFile
<1>3. CASE LoadFromStream(d)
  <2>1. CASE Outright /\ UNCHANGED <<parser, answer>>
    BY <2>1, ParserStays
  <2>2. CASE Outright /\ UNCHANGED filename /\ Load(Text(d), d, "stream", NULL)
    <3>1. filename' \in Documents \cup {NULL}
      BY <2>2 DEF Inv, Types
    <3> QED BY <2>2, <3>1, OutrightInv
  <2> QED BY <1>3, <2>1, <2>2 DEF LoadFromStream
<1> QED BY <1>1, <1>2, <1>3

LEMMA StealRootInv ==
  ASSUME Inv, StealRoot
  PROVE  Inv'
<1>1. Types'
  BY DEF Inv, Types, StealRoot, task
<1>2. \A k \in Tasks : Task(k)'
  BY TasksStay DEF StealRoot
<1>3. Parsing' /\ OwnText'
  BY DEF StealRoot, Parsing, OwnText, Free
<1>4. Waiting'
  BY WaitingStays DEF StealRoot, task
<1> QED BY <1>1, <1>2, <1>3, <1>4 DEF Inv

(* The one load that is at the parser ends. *)
LEMMA LoadedInv ==
  ASSUME Inv, Loaded
  PROVE  Inv'
<1>1. /\ parsing \in Record /\ parsing # NULL /\ parsing' = NULL
      /\ parsing.document \in Documents /\ parsing.task \in Tasks \cup {NULL}
  BY DEF Loaded, Inv, Types, Record
<1> PICK d \in Documents, k \in Tasks \cup {NULL} : d = parsing.document /\ k = parsing.task
  BY <1>1
<1>2. UNCHANGED <<strict, filename, phase, source, cancellable, content, taken, pool, threads, doomed, cancelled, loads>>
  BY DEF Loaded
<1>3. parsing.text = Text(d)
  BY <1>1 DEF Inv, Parsing
<1>4. \E ok \in BOOLEAN :
        /\ ok <=> IsJson(d)
        /\ last' = [parsing EXCEPT !.ok = ok]
        /\ ok => root' = (IF Text(d) = <<>> THEN NULL ELSE Text(d))
        /\ Told(k, IF ok THEN "TRUE" ELSE "FALSE")
  <2>1. CASE IsJson(d)
    <3>1. (IsJson(parsing.document) /\ parsing.text = Text(parsing.document)) = TRUE
      BY <1>3, <2>1
    <3> QED BY <1>3, <2>1, <3>1 DEF Loaded
  <2>2. CASE ~ IsJson(d)
    <3>1. (IsJson(parsing.document) /\ parsing.text = Text(parsing.document)) = FALSE
      BY <2>2
    <3> QED BY <2>2, <3>1 DEF Loaded
  <2> QED BY <2>1, <2>2
<1> PICK ok \in BOOLEAN :
      /\ ok <=> IsJson(d)
      /\ last' = [parsing EXCEPT !.ok = ok]
      /\ ok => root' = (IF Text(d) = <<>> THEN NULL ELSE Text(d))
      /\ Told(k, IF ok THEN "TRUE" ELSE "FALSE")
  BY <1>4
<1>5. /\ last' \in Record /\ last' # NULL
      /\ last'.ok = ok /\ last'.document = d /\ last'.kind = parsing.kind /\ last'.label = parsing.label
  BY <1>1, LoadAssumption DEF Record
<1>6. Types'
  BY <1>1, <1>2, <1>5 DEF Inv, Types, Told, NoTask
<1>7. Parsing'
  BY <1>1 DEF Parsing
<1>8. OwnText'
  <2>1. Labelled(parsing)
    BY <1>1 DEF Inv, Parsing
  <2>2. ok => root' = (IF Length[d] = 0 THEN NULL ELSE Text(d))
    BY TextFacts
  <2>3. IsJson(last.document)' = IsJson(d)
    BY <1>2, <1>5 DEF IsJson
  <2>5. IsJson(d) \in BOOLEAN
    BY DEF IsJson
  <2>6. last'.ok = IsJson(last.document)'
    BY <1>5, <2>3, <2>5
  <2>4. last'.kind # "stream" => last'.label = (IF last'.kind = "file" THEN last'.document ELSE "<data>")
    BY <1>5, <2>1 DEF Labelled
  <2> QED BY <1>5, <2>2, <2>6, <2>4 DEF OwnText
<1>9. ASSUME NEW j \in Tasks PROVE Task(j)'
  <2>1. Task(j)
    BY DEF Inv
  <2>2. CASE j = k
    <3>1. phase[j] = "finished" /\ answer[j] = "TRUE" /\ source[j] = d
      BY <1>1, <2>2, LoadAssumption DEF Inv, Parsing
    <3>2. answer'[j] = (IF ok THEN "TRUE" ELSE "FALSE")
      BY <2>2, LoadAssumption DEF Told, Inv, Types
    <3>3. InPhase(j)' /\ SoFar(j)'
      BY <1>2, <2>1, <3>1, <3>2 DEF Task, InPhase, SoFar
    <3>4. IsJson(source[j])' <=> ok
      BY <1>2, <3>1 DEF IsJson
    <3>5. Truth(j)'
      BY <1>2, <2>1, <3>1, <3>2, <3>4 DEF Task, Truth, IsCancelled
    <3> QED BY <3>3, <3>5 DEF Task
  <2>3. CASE j # k
    <3>1. answer'[j] = answer[j]
      BY <2>3 DEF Told, NoTask, Inv, Types
    <3>2. InPhase(j)' /\ SoFar(j)'
      BY <1>2, <2>1, <3>1 DEF Task, InPhase, SoFar
    <3>3. Truth(j)'
      BY <1>2, <2>1, <2>3, <3>1 DEF Task, Truth, IsCancelled, IsJson
    <3> QED BY <3>2, <3>3 DEF Task
  <2> QED BY <2>2, <2>3
<1>10. Waiting'
  BY <1>2, WaitingStays
<1> QED BY <1>6, <1>7, <1>8, <1>9, <1>10 DEF Inv

-----------------------------------------------------------------------------
(* Steps of the tasks before they are called back.  The parser does not    *)
(* change; only tasks that have finished matter to a load under way.       *)

LEMMA ParserKept ==
  ASSUME Inv, UNCHANGED <<strict, parser>>,
         \A k \in Tasks : phase[k] = "finished" =>
           phase'[k] = "finished" /\ answer'[k] = answer[k] /\ source'[k] = source[k]
  PROVE  Parsing' /\ OwnText'
<1>1. Parsing'
  BY LoadAssumption DEF Inv, Types, Record, Parsing, Labelled, parser
<1>2. OwnText'
  BY DEF Inv, OwnText, Free, IsJson, parser
<1> QED BY <1>1, <1>2

LEMMA LoadAsyncInv ==
  ASSUME Inv, NEW k \in Tasks, NEW d \in Documents, NEW c \in Cancellables \cup {NULL}, LoadAsync(k, d, c)
  PROVE  Inv'
<1>1. Types'
  BY DEF Inv, Types, LoadAsync, parser
<1>2. Parsing' /\ OwnText'
  BY ParserKept DEF LoadAsync, Inv, Types
<1>3. ASSUME NEW j \in Tasks PROVE Task(j)'
  <2>1. Task(j) /\ Task(k)
    BY DEF Inv
  <2>2. CASE j = k
    <3>1. phase[k] = "new" /\ phase'[k] = "queued" /\ source'[k] = d /\ cancellable'[k] = c
      BY DEF LoadAsync, Inv, Types
    <3>2. taken'[k] = 0 /\ answer'[k] = "NONE" /\ content'[k] = content[k] /\ taken[k] = 0
      BY <2>1, <3>1 DEF LoadAsync, Task, InPhase
    <3>3. InPhase(k)'
      BY <3>1, <3>2 DEF InPhase
    <3>4. SoFar(k)'
      <4>1. content[k] = [i \in 1 .. 0 |-> <<source[k], i>>]
        BY <2>1, <3>2 DEF Task, SoFar
      <4>2. [i \in 1 .. 0 |-> <<source[k], i>>] = [i \in 1 .. 0 |-> <<d, i>>]
        OBVIOUS
      <4> QED BY <3>1, <3>2, <4>1, <4>2 DEF SoFar
    <3>5. k \in doomed' => c \in cancelled'
      BY <2>1, <3>1 DEF LoadAsync, Task, InPhase
    <3>6. Truth(k)'
      BY <3>1, <3>2, <3>5 DEF Truth, IsCancelled
    <3> QED BY <2>2, <3>3, <3>4, <3>6 DEF Task
  <2>3. CASE j # k
    <3>1. /\ phase'[j] = phase[j] /\ source'[j] = source[j] /\ cancellable'[j] = cancellable[j]
          /\ j \in doomed' <=> j \in doomed
      BY <2>3 DEF LoadAsync, Inv, Types
    <3>2. UNCHANGED <<strict, parsing, content, taken, answer, cancelled>>
      BY DEF LoadAsync, parser
    <3>3. InPhase(j)' /\ SoFar(j)'
      BY <2>1, <3>1, <3>2 DEF Task, InPhase, SoFar
    <3>4. Truth(j)'
      BY <2>1, <3>1, <3>2 DEF Task, Truth, IsCancelled, IsJson
    <3> QED BY <3>3, <3>4 DEF Task
  <2> QED BY <2>2, <2>3
<1>4. Waiting'
  <2>1. phase[k] = "new" /\ phase' = [phase EXCEPT ![k] = "queued"] /\ pool' = Append(pool, k)
    BY DEF LoadAsync
  <2>2. /\ pool \in Seq(Tasks) /\ phase'[k] = "queued"
        /\ \A i \in DOMAIN pool : pool[i] \in Tasks /\ pool[i] # k /\ phase'[pool[i]] = "queued"
    BY <2>1 DEF Inv, Types, Waiting
  <2>3. /\ DOMAIN pool' = 1 .. Len(pool) + 1 /\ DOMAIN pool = 1 .. Len(pool) /\ Len(pool) \in Nat
        /\ pool'[Len(pool) + 1] = k /\ \A i \in DOMAIN pool : pool'[i] = pool[i]
    BY <2>1, <2>2
  <2>4. \A i \in DOMAIN pool' : phase'[pool'[i]] = "queued"
    BY <2>2, <2>3
  <2>5. \A i, j \in DOMAIN pool' : pool'[i] = pool'[j] => i = j
    BY <2>2, <2>3 DEF Inv, Waiting
  <2> QED BY <2>4, <2>5 DEF Waiting
<1> QED BY <1>1, <1>2, <1>3, <1>4 DEF Inv

LEMMA CancelInv ==
  ASSUME Inv, NEW c \in Cancellables, Cancel(c)
  PROVE  Inv'
<1>1. UNCHANGED <<strict, parser, task>> /\ cancelled \subseteq cancelled'
  BY DEF Cancel
<1>2. Types'
  BY <1>1 DEF Inv, Types, parser, task
<1>3. Parsing' /\ OwnText'
  BY <1>1, ParserKept DEF task
<1>4. ASSUME NEW j \in Tasks PROVE Task(j)'
  <2>1. Task(j)
    BY DEF Inv
  <2>2. InPhase(j)' /\ SoFar(j)'
    BY <1>1, <2>1 DEF Task, InPhase, SoFar, task
  <2>3. IsCancelled(j) => IsCancelled(j)'
    BY <1>1 DEF IsCancelled, task
  <2>4. Truth(j)'
    BY <1>1, <2>1, <2>3 DEF Task, Truth, IsJson, task, parser
  <2> QED BY <2>2, <2>4 DEF Task
<1>5. Waiting'
  BY <1>1, WaitingStays DEF task
<1> QED BY <1>2, <1>3, <1>4, <1>5 DEF Inv

(* The task k takes a step; the others are as they were. *)
LEMMA OtherTasks ==
  ASSUME Inv, parsing' = parsing \/ Free,
         UNCHANGED <<strict, cancelled, source, cancellable, doomed>>, NEW j \in Tasks,
         phase'[j] = phase[j], content'[j] = content[j], taken'[j] = taken[j], answer'[j] = answer[j]
  PROVE  Task(j)'
<1>1. Task(j)
  BY DEF Inv
<1>2. InPhase(j)' /\ SoFar(j)'
  BY <1>1 DEF Task, InPhase, SoFar
<1>3. Truth(j)'
  BY <1>1 DEF Task, Truth, IsJson, IsCancelled, Free
<1> QED BY <1>2, <1>3 DEF Task

LEMMA RunInv ==
  ASSUME Inv, Run
  PROVE  Inv'
<1>1. pool \in Seq(Tasks) /\ pool # <<>> /\ Head(pool) = pool[1] /\ 1 \in DOMAIN pool
  BY DEF Run, Inv, Types
<1> PICK k \in Tasks : k = Head(pool)
  BY <1>1
<1>2. UNCHANGED <<strict, parser, source, cancellable, content, taken, answer, threads, doomed, cancelled, loads>>
  BY DEF Run
<1>3. phase[k] = "queued" /\ phase' = [phase EXCEPT ![k] = "reading"] /\ pool' = Tail(pool)
  BY <1>1 DEF Run, Inv, Waiting
<1>4. Types'
  BY <1>1, <1>2, <1>3 DEF Inv, Types, parser
<1>5. ASSUME NEW j \in Tasks PROVE Task(j)'
  <2>1. CASE j # k
    BY <1>2, <1>3, <2>1, OtherTasks DEF Inv, Types, parser
  <2>2. CASE j = k
    <3>1. phase'[k] = "reading" /\ Task(k)
      BY <1>3 DEF Inv, Types
    <3>2. InPhase(k)' /\ SoFar(k)'
      BY <1>2, <1>3, <3>1 DEF Task, InPhase, SoFar
    <3>3. Truth(k)'
      BY <1>2, <3>1 DEF Task, Truth, IsJson, IsCancelled
    <3> QED BY <2>2, <3>2, <3>3 DEF Task
  <2> QED BY <2>1, <2>2
<1>6. Parsing' /\ OwnText'
  BY <1>2, <1>3, ParserKept DEF Inv, Types
<1>7. Waiting'
  <2>1. /\ \A i \in DOMAIN pool' : i \in Nat /\ i + 1 \in DOMAIN pool /\ i + 1 # 1 /\ pool'[i] = pool[i + 1]
    BY <1>1, <1>3
  <2>2. \A i \in DOMAIN pool' : phase'[pool'[i]] = "queued"
    <3>1. ASSUME NEW i \in DOMAIN pool' PROVE phase'[pool'[i]] = "queued"
      <4>1. i + 1 \in DOMAIN pool /\ i + 1 # 1 /\ pool'[i] = pool[i + 1]
        BY <2>1
      <4>2. pool[i + 1] \in Tasks /\ pool[i + 1] # k /\ phase[pool[i + 1]] = "queued"
        BY <1>1, <4>1 DEF Inv, Waiting
      <4> QED BY <1>3, <4>1, <4>2 DEF Inv, Types
    <3> QED BY <3>1
  <2>3. ASSUME NEW i \in DOMAIN pool', NEW j \in DOMAIN pool', pool'[i] = pool'[j] PROVE i = j
    <3>1. i + 1 = j + 1
      BY <2>1, <2>3 DEF Inv, Waiting
    <3> QED BY <2>1, <3>1
  <2> QED BY <2>2, <2>3 DEF Waiting
<1> QED BY <1>4, <1>5, <1>6, <1>7 DEF Inv

(* read_from_stream ends. *)
LEMMA ReturnInv ==
  ASSUME Inv, NEW k \in Tasks, NEW a \in {"TRUE", "IO", "CANCELLED"}, phase[k] = "reading", Return(k, a),
         UNCHANGED <<strict, parser, source, cancellable, pool, threads, doomed, cancelled, loads>>,
         a = "TRUE" => AtEnd(k), a = "CANCELLED" <=> IsCancelled(k)
  PROVE  Inv'
<1>1. /\ phase' = [phase EXCEPT ![k] = "returned"] /\ answer' = [answer EXCEPT ![k] = a]
      /\ UNCHANGED <<content, taken>>
  BY DEF Return
<1>2. Types'
  BY <1>1 DEF Inv, Types, parser
<1>3. ASSUME NEW j \in Tasks PROVE Task(j)'
  <2>1. CASE j # k
    BY <1>1, <2>1, OtherTasks DEF Inv, Types, parser
  <2>2. CASE j = k
    <3>1. phase'[k] = "returned" /\ answer'[k] = a /\ Task(k)
      BY <1>1 DEF Inv, Types
    <3>2. InPhase(k)' /\ SoFar(k)'
      BY <1>1, <3>1 DEF Task, InPhase, SoFar
    <3>3. IsCancelled(k)' <=> IsCancelled(k)
      BY DEF IsCancelled
    <3>4. Truth(k)'
      BY <1>1, <3>1, <3>3 DEF Task, Truth, AtEnd
    <3> QED BY <2>2, <3>2, <3>4 DEF Task
  <2> QED BY <2>1, <2>2
<1>4. Parsing' /\ OwnText'
  BY <1>1, ParserKept DEF Inv, Types
<1>5. Waiting'
  BY <1>1, WaitingStays DEF Inv, Types
<1> QED BY <1>2, <1>3, <1>4, <1>5 DEF Inv

LEMMA ReadInv ==
  ASSUME Inv, NEW k \in Tasks, Read(k)
  PROVE  Inv'
<1>1. /\ phase[k] = "reading"
      /\ UNCHANGED <<strict, parser, source, cancellable, pool, threads, doomed, cancelled, loads>>
  BY DEF Read, Reading
<1>2. CASE IsCancelled(k) /\ Return(k, "CANCELLED")
  BY <1>1, <1>2, ReturnInv
<1>3. CASE ~ IsCancelled(k) /\ AtEnd(k) /\ Return(k, "TRUE")
  BY <1>1, <1>3, ReturnInv
<1>4. CASE /\ ~ IsCancelled(k) /\ taken[k] < Length[source[k]]
           /\ taken' = [taken EXCEPT ![k] = @ + 1]
           /\ content' = [content EXCEPT ![k] = Stored(@, <<source[k], taken'[k]>>)]
           /\ UNCHANGED <<phase, answer>>
  <2>1. Task(k) /\ taken[k] \in Nat /\ source[k] \in Documents
    BY <1>1 DEF Inv, Types, Task, InPhase
  <2>2. taken'[k] = taken[k] + 1 /\ content'[k] = Append(content[k], <<source[k], taken[k] + 1>>)
    BY <1>4 DEF Inv, Types, Stored
  <2>3. content'[k] \in Seq(Documents \X Nat)
    <3>1. <<source[k], taken[k] + 1>> \in Documents \X Nat
      BY <2>1
    <3> QED BY <2>2, <3>1 DEF Inv, Types
  <2>4. Types'
    BY <1>1, <1>4, <2>1, <2>2, <2>3 DEF Inv, Types, parser
  <2>5. ASSUME NEW j \in Tasks PROVE Task(j)'
    <3>1. CASE j # k
      BY <1>1, <1>4, <3>1, OtherTasks DEF Inv, Types, parser
    <3>2. CASE j = k
      <4>1. InPhase(k)'
        BY <1>1, <1>4, <2>1 DEF Task, InPhase
      <4>2. SoFar(k)'
        BY <1>1, <2>1, <2>2, BlockFacts DEF Task, SoFar
      <4>3. answer[k] = "NONE"
        BY <1>1, <2>1 DEF Task, InPhase
      <4>4. Truth(k)'
        BY <1>1, <1>4, <2>1, <4>3 DEF Task, Truth, IsCancelled
      <4> QED BY <3>2, <4>1, <4>2, <4>4 DEF Task
    <3> QED BY <3>1, <3>2
  <2>6. Parsing' /\ OwnText'
    BY <1>1, <1>4, ParserKept
  <2>7. Waiting'
    BY <1>1, <1>4, WaitingStays
  <2> QED BY <2>4, <2>5, <2>6, <2>7 DEF Inv
<1> QED BY <1>2, <1>3, <1>4 DEF Read, Reading

LEMMA ReadFailsInv ==
  ASSUME Inv, NEW k \in Tasks, ReadFails(k)
  PROVE  Inv'
BY ReturnInv DEF ReadFails, Reading

-----------------------------------------------------------------------------
(* The callback of a task. *)

LEMMA DispatchFacts ==
  ASSUME Inv, NEW k \in Tasks, Dispatch(k)
  PROVE  /\ phase[k] = "returned" /\ Free /\ Task(k)
         /\ phase' = [phase EXCEPT ![k] = "finished"]
         /\ UNCHANGED <<strict, filename, source, cancellable, content, taken, pool, threads, doomed, cancelled, loads>>
         /\ Waiting'
<1>1. /\ phase[k] = "returned" /\ Free /\ Task(k)
      /\ phase' = [phase EXCEPT ![k] = "finished"]
      /\ UNCHANGED <<strict, filename, source, cancellable, content, taken, pool, threads, doomed, cancelled, loads>>
  BY DEF Dispatch, Inv
<1>2. Waiting'
  BY <1>1, WaitingStays DEF Inv, Types
<1> QED BY <1>1, <1>2

(* It loads what it read, and no other load changed that. *)
LEMMA DispatchLoads ==
  ASSUME Inv, NEW k \in Tasks, Dispatch(k), Propagated(k) = "TRUE"
  PROVE  Inv'
<1>1. /\ phase[k] = "returned" /\ Free /\ Task(k) /\ Waiting'
      /\ phase' = [phase EXCEPT ![k] = "finished"]
      /\ UNCHANGED <<strict, filename, source, cancellable, content, taken, pool, threads, doomed, cancelled, loads>>
  BY DispatchFacts
<1>2. answer[k] = "TRUE" /\ k \notin doomed /\ source[k] \in Documents
  BY <1>1 DEF Propagated, Task, InPhase, Truth
<1> PICK d \in Documents : d = source[k]
  BY <1>2
<1>3. content[k] = Text(d)
  BY <1>1, <1>2 DEF Task, SoFar, Truth, Text
<1>4. Load(Text(d), d, "stream", k) /\ filename' \in Documents \cup {NULL}
  BY <1>1, <1>3 DEF Dispatch, Data, Inv, Types
<1>5. /\ parsing' \in Record \cup {NULL} /\ last' \in Record \cup {NULL}
      /\ OwnText'
      /\ \/ parsing' = NULL /\ ~ IsJson(d) /\ Told(k, "FALSE")
         \/ /\ parsing' # NULL /\ answer' = answer
            /\ parsing'.text = Text(d) /\ parsing'.document = d /\ parsing'.task = k
            /\ Labelled(parsing')
  BY <1>1, <1>4, Begun
<1>6. \/ /\ parsing' = NULL /\ ~ IsJson(d)
         /\ answer' = [answer EXCEPT ![k] = "FALSE"]
      \/ /\ parsing' # NULL /\ answer' = answer
         /\ parsing'.text = Text(d) /\ parsing'.document = d /\ parsing'.task = k
         /\ Labelled(parsing')
  BY <1>5, LoadAssumption DEF Told
<1>7. Types'
  BY <1>1, <1>4, <1>5, <1>6 DEF Inv, Types
<1>8. phase'[k] = "finished"
  BY <1>1 DEF Inv, Types
<1>9. Parsing'
  BY <1>1, <1>2, <1>6, <1>8 DEF Parsing, Labelled
<1>10. ASSUME NEW j \in Tasks PROVE Task(j)'
  <2>1. CASE j # k
    <3>1. phase'[j] = phase[j] /\ answer'[j] = answer[j]
      BY <1>1, <1>6, <2>1 DEF Inv, Types
    <3> QED BY <1>1, <3>1, OtherTasks
  <2>2. CASE j = k
    <3>1. answer'[k] = (IF parsing' = NULL THEN "FALSE" ELSE "TRUE")
      BY <1>2, <1>6 DEF Inv, Types
    <3>2. InPhase(k)' /\ SoFar(k)'
      BY <1>1, <1>2, <1>8, <3>1 DEF Task, InPhase, SoFar
    <3>3. Truth(k)'
      BY <1>1, <1>2, <1>6, <1>8, <3>1 DEF Task, Truth, IsJson
    <3> QED BY <2>2, <3>2, <3>3 DEF Task
  <2> QED BY <2>1, <2>2
<1> QED BY <1>1, <1>5, <1>7, <1>9, <1>10 DEF Inv

LEMMA DispatchFails ==
  ASSUME Inv, NEW k \in Tasks, Dispatch(k), Propagated(k) # "TRUE"
  PROVE  Inv'
<1>1. /\ phase[k] = "returned" /\ Free /\ Task(k) /\ Waiting'
      /\ phase' = [phase EXCEPT ![k] = "finished"]
      /\ UNCHANGED <<strict, filename, source, cancellable, content, taken, pool, threads, doomed, cancelled, loads>>
  BY DispatchFacts
<1> PICK a \in {"IO", "CANCELLED"} :
      a = Propagated(k) /\ (a = "CANCELLED" => IsCancelled(k)) /\ (k \in doomed => a = "CANCELLED")
  BY <1>1 DEF Propagated, Task, InPhase, Truth
<1>2. answer' = [answer EXCEPT ![k] = a] /\ UNCHANGED <<root, parsing, last>>
  BY LoadAssumption DEF Dispatch, Told
<1>3. Types'
  BY <1>1, <1>2 DEF Inv, Types
<1>4. Parsing' /\ OwnText'
  BY <1>1, <1>2, ParserKept DEF Inv, Types, parser
<1>5. ASSUME NEW j \in Tasks PROVE Task(j)'
  <2>1. CASE j # k
    BY <1>1, <1>2, <2>1, OtherTasks DEF Inv, Types
  <2>2. CASE j = k
    <3>1. phase'[k] = "finished" /\ answer'[k] = a
      BY <1>1, <1>2 DEF Inv, Types
    <3>2. InPhase(k)' /\ SoFar(k)'
      BY <1>1, <3>1 DEF Task, InPhase, SoFar
    <3>3. Truth(k)'
      BY <1>1, <3>1 DEF Task, Truth, IsCancelled
    <3> QED BY <2>2, <3>2, <3>3 DEF Task
  <2> QED BY <2>1, <2>2
<1> QED BY <1>1, <1>3, <1>4, <1>5 DEF Inv

-----------------------------------------------------------------------------

LEMMA StutterInv ==
  ASSUME Inv, UNCHANGED vars
  PROVE  Inv'
<1>1. UNCHANGED <<strict, parser, task, cancelled>>
  BY DEF vars
<1>2. Types'
  BY <1>1 DEF Inv, Types, parser, task
<1>3. Parsing' /\ OwnText' /\ Waiting'
  BY <1>1, ParserKept, WaitingStays DEF task
<1>4. ASSUME NEW j \in Tasks PROVE Task(j)'
  BY <1>1, OtherTasks DEF parser, task
<1> QED BY <1>2, <1>3, <1>4 DEF Inv

LEMMA NextInv ==
  ASSUME Inv, [Next]_vars
  PROVE  Inv'
<1>1. CASE Loaded
  BY <1>1, LoadedInv
<1>2. CASE \E d \in Documents : LoadFromData(d) \/ LoadFromFile(d) \/ LoadFromStream(d)
  BY <1>2, LoadFromInv
<1>3. CASE StealRoot
  BY <1>3, StealRootInv
<1>4. CASE \E k \in Tasks, d \in Documents, c \in Cancellables \cup {NULL} : LoadAsync(k, d, c)
  BY <1>4, LoadAsyncInv
<1>5. CASE \E c \in Cancellables : Cancel(c)
  BY <1>5, CancelInv
<1>6. CASE Run
  BY <1>6, RunInv
<1>7. CASE \E k \in Tasks : Read(k) \/ ReadFails(k) \/ Dispatch(k)
  BY <1>7, ReadInv, ReadFailsInv, DispatchLoads, DispatchFails
<1>8. CASE Idle \/ UNCHANGED vars
  BY <1>8, StutterInv DEF Idle
<1> QED BY <1>1, <1>2, <1>3, <1>4, <1>5, <1>6, <1>7, <1>8 DEF Next

(* What every task has read, and what the parser is at, is of its own      *)
(* document, however many loads are under way and in whatever order their  *)
(* threads and callbacks run.                                              *)
THEOREM Invariance == Spec => []Inv
<1>1. Init => Inv
  BY InitInv
<1>2. Inv /\ [Next]_vars => Inv'
  BY NextInv
<1> QED BY <1>1, <1>2, PTL DEF Spec

(* The tree is of the document of the load that reached the parser last,   *)
(* whole and in order, when that is JSON, and its error is reported under  *)
(* the name of that load, unless it is of a stream.                        *)
THEOREM OwnTextAlways == Spec => []OwnText
<1>1. Inv => OwnText
  BY DEF Inv
<1> QED BY <1>1, Invariance, PTL

(* Each asynchronous load is told the truth about itself.                  *)
THEOREM VerdictAlways == Spec => []Verdict
<1>1. ASSUME Inv PROVE Verdict
  <2> SUFFICES ASSUME NEW k \in Tasks, phase[k] = "finished"
               PROVE  CASE answer[k] = "TRUE" ->
                             /\ content[k] = Text(source[k]) /\ k \notin doomed
                             /\ IsJson(source[k]) \/ (parsing # NULL /\ parsing.task = k)
                        [] answer[k] = "FALSE" -> ~ IsJson(source[k])
                        [] answer[k] = "CANCELLED" -> IsCancelled(k)
                        [] answer[k] = "IO" -> k \notin doomed
                        [] OTHER -> FALSE
    BY DEF Verdict
  <2>1. InPhase(k) /\ SoFar(k) /\ Truth(k)
    BY <1>1 DEF Inv, Task
  <2>2. answer[k] \in {"TRUE", "FALSE", "CANCELLED", "IO"}
    BY <1>1, <2>1 DEF Inv, Types, InPhase
  <2>3. CASE answer[k] = "TRUE"
    <3>1. content[k] = Text(source[k])
      BY <2>1, <2>3 DEF SoFar, Truth, Text
    <3> QED BY <2>1, <2>3, <3>1 DEF Truth
  <2>4. CASE answer[k] \in {"FALSE", "CANCELLED", "IO"}
    BY <2>1, <2>4 DEF Truth
  <2> QED BY <2>2, <2>3, <2>4
<1> QED BY <1>1, Invariance, PTL

(* A load that is cancelled before its callback runs is told so then, and  *)
(* does not touch the parser, also when it was read to its end by then.    *)
THEOREM CancelledStaysQuiet == Spec => CancelledQuiet
<1>1. ASSUME Inv, [Next]_vars, NEW k \in Tasks, IsCancelled(k), phase[k] # "finished", phase'[k] = "finished"
      PROVE  answer'[k] = "CANCELLED" /\ UNCHANGED parser
  <2>1. PICK j \in Tasks : Dispatch(j)
    <3>1. phase \in [Tasks -> {"new", "queued", "reading", "returned", "finished"}]
      BY <1>1 DEF Inv, Types
    <3>2. phase' # phase
      BY <1>1
    <3>3. ASSUME NEW j \in Tasks, NEW p \in {"queued", "reading", "returned"} PROVE phase' # [phase EXCEPT ![j] = p]
      BY <1>1, <3>1
    <3>4. Head(pool) \in Tasks \/ ~ Run
      BY <1>1 DEF Inv, Types, Run
    <3>5. ~ Run
      BY <3>3, <3>4 DEF Run
    <3>6. \A j \in Tasks, d \in Documents, c \in Cancellables \cup {NULL} : ~ LoadAsync(j, d, c)
      BY <3>3 DEF LoadAsync
    <3>7. \A j \in Tasks : ~ Read(j) /\ ~ ReadFails(j)
      BY <3>2, <3>3 DEF Read, ReadFails, Reading, Return
    <3>8. ~ Loaded /\ ~ StealRoot /\ ~ UNCHANGED vars /\ ~ Idle /\ \A c \in Cancellables : ~ Cancel(c)
      BY <3>2 DEF Loaded, StealRoot, Idle, Cancel, vars, task
    <3>9. \A d \in Documents : ~ (LoadFromData(d) \/ LoadFromFile(d) \/ LoadFromStream(d))
      BY <3>2 DEF LoadFromData, LoadFromFile, LoadFromStream, Outright
    <3> QED BY <1>1, <3>5, <3>6, <3>7, <3>8, <3>9 DEF Next
  <2>2. j = k
    BY <1>1, <2>1 DEF Dispatch, Inv, Types
  <2>3. Propagated(k) = "CANCELLED"
    BY <1>1 DEF Propagated
  <2> QED BY <1>1, <2>1, <2>2, <2>3, LoadAssumption DEF Dispatch, Told, parser, Inv, Types
<1>2. Inv /\ [Next]_vars =>
        \/ UNCHANGED vars
        \/ \A k \in Tasks :
             (IsCancelled(k) /\ phase[k] # "finished" /\ phase'[k] = "finished")
               => answer'[k] = "CANCELLED" /\ UNCHANGED parser
  BY <1>1
<1> QED BY <1>2, Invariance, PTL DEF Spec, CancelledQuiet
=============================================================================
