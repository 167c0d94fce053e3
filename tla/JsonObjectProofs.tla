-------------------------- MODULE JsonObjectProofs --------------------------
(***************************************************************************)
(* What is proved of JsonObject, for any names, nodes and addresses: table *)
(* and queue agree, the members are those of JsonMembers in their order,   *)
(* and an iteration meets them in that order, each once.                   *)
(***************************************************************************)
EXTENDS JsonObject, TLAPS

Entry == [link : Link, key : Key]

-----------------------------------------------------------------------------
(* Sequences and the table.                                                *)

LEMMA Concatenated ==
  ASSUME NEW S, NEW a \in Seq(S), NEW b \in Seq(S)
  PROVE  /\ a \o b \in Seq(S) /\ Len(a \o b) = Len(a) + Len(b)
         /\ \A j \in 1 .. Len(a) + Len(b) :
              (a \o b)[j] = IF j <= Len(a) THEN a[j] ELSE b[j - Len(a)]
OBVIOUS

(* What is left when the i-th entry of a sequence is taken out.            *)
LEMMA Removed ==
  ASSUME NEW S, NEW s \in Seq(S), NEW i \in DOMAIN s
  PROVE  /\ RemoveAt(s, i) \in Seq(S)
         /\ Len(RemoveAt(s, i)) = Len(s) - 1
         /\ \A j \in 1 .. Len(s) - 1 :
              RemoveAt(s, i)[j] = IF j < i THEN s[j] ELSE s[j + 1]
<1> DEFINE a == SubSeq(s, 1, i - 1)
           b == SubSeq(s, i + 1, Len(s))
<1>1. i \in 1 .. Len(s) /\ Len(s) \in Nat
  OBVIOUS
<1>2. /\ a \in Seq(S) /\ Len(a) = i - 1 /\ \A j \in 1 .. i - 1 : a[j] = s[j]
  BY <1>1
<1>3. /\ b \in Seq(S) /\ Len(b) = Len(s) - i
      /\ \A j \in 1 .. Len(s) - i : b[j] = s[i + j]
  BY <1>1
<1>4. RemoveAt(s, i) = a \o b
  BY DEF RemoveAt
<1> HIDE DEF a, b
<1>5. /\ a \o b \in Seq(S) /\ Len(a \o b) = Len(s) - 1
      /\ \A j \in 1 .. Len(s) - 1 : (a \o b)[j] = IF j < i THEN a[j] ELSE b[j - (i - 1)]
  <2>1. /\ a \o b \in Seq(S) /\ Len(a \o b) = Len(a) + Len(b)
        /\ \A j \in 1 .. Len(a) + Len(b) :
             (a \o b)[j] = IF j <= Len(a) THEN a[j] ELSE b[j - Len(a)]
    BY <1>2, <1>3, Concatenated
  <2>2. Len(a) + Len(b) = Len(s) - 1 /\ Len(a) = i - 1
    BY <1>1, <1>2, <1>3
  <2> QED BY <1>1, <2>1, <2>2, SMTT(30)
<1>6. ASSUME NEW j \in 1 .. Len(s) - 1 PROVE (a \o b)[j] = IF j < i THEN s[j] ELSE s[j + 1]
  <2>1. CASE j < i
    BY <1>1, <1>2, <1>5, <2>1
  <2>2. CASE ~ (j < i)
    <3>1. j - (i - 1) \in 1 .. Len(s) - i /\ i + (j - (i - 1)) = j + 1
      BY <1>1, <2>2
    <3> QED BY <1>3, <1>5, <2>2, <3>1
  <2> QED BY <2>1, <2>2
<1> QED BY <1>4, <1>5, <1>6

(* While queue and table agree, a place of the queue is the only one of    *)
(* its name, and the table has it under the key of that place.             *)
LEMMA OnePlace ==
  ASSUME KeysAgree, NEW i \in DOMAIN queue
  PROVE  /\ i \in Nat /\ queue[i] \in Entry /\ queue[i].key \in Key
         /\ table[queue[i].key] \in Node /\ NameAt(i) \in Name
         /\ Found(NameAt(i)) = {queue[i].key}
         /\ Lookup(NameAt(i)) = table[queue[i].key]
         /\ Places(NameAt(i)) = {i} /\ FirstPlace(NameAt(i)) = i
<1>1. queue \in Seq(Entry) /\ text \in [Key -> Name \cup {NULL}]
      /\ table \in [Key -> Node \cup {NULL}]
  BY DEF KeysAgree, TypeOK, Entry
<1>2. i \in Nat /\ queue[i] \in Entry
  BY <1>1
<1>3. queue[i].key \in Key /\ queue[i].key \in {queue[j].key : j \in DOMAIN queue}
  BY <1>2 DEF Entry
<1>4. table[queue[i].key] # NULL /\ text[queue[i].key] # NULL
  BY <1>3 DEF KeysAgree
<1>5. table[queue[i].key] \in Node /\ NameAt(i) \in Name
  BY <1>1, <1>3, <1>4 DEF NameAt
<1>6. Found(NameAt(i)) = {queue[i].key}
  <2>1. queue[i].key \in Found(NameAt(i))
    BY <1>3, <1>4 DEF Found, NameAt
  <2>2. ASSUME NEW k \in Found(NameAt(i)) PROVE k = queue[i].key
    <3>1. k \in Key /\ table[k] # NULL /\ text[k] = NameAt(i)
      BY DEF Found
    <3>2. PICK j \in DOMAIN queue : queue[j].key = k
      BY <3>1 DEF KeysAgree
    <3>3. NameAt(j) = NameAt(i)
      BY <3>1, <3>2 DEF NameAt
    <3> QED BY <3>2, <3>3 DEF KeysAgree
  <2> QED BY <2>1, <2>2
<1>7. Lookup(NameAt(i)) = table[queue[i].key]
  BY <1>6 DEF Lookup
<1>8. Places(NameAt(i)) = {i}
  BY DEF Places, KeysAgree
<1>9. FirstPlace(NameAt(i)) = i
  BY <1>2, <1>8 DEF FirstPlace, Min
<1> QED BY <1>2, <1>3, <1>5, <1>6, <1>7, <1>8, <1>9

(* A name the table has is at a place of the queue, one that it has not is *)
(* at none.                                                                *)
LEMMA PlaceOf ==
  ASSUME KeysAgree, NEW n \in Name
  PROVE  /\ Found(n) = {} => \A i \in DOMAIN queue : NameAt(i) # n
         /\ Found(n) # {} => \E i \in DOMAIN queue : NameAt(i) = n
<1>1. ASSUME NEW i \in DOMAIN queue, NameAt(i) = n PROVE Found(n) # {}
  BY <1>1, OnePlace
<1>2. ASSUME NEW k \in Found(n) PROVE \E i \in DOMAIN queue : NameAt(i) = n
  <2>1. k \in Key /\ table[k] # NULL /\ text[k] = n
    BY DEF Found
  <2>2. PICK i \in DOMAIN queue : queue[i].key = k
    BY <2>1 DEF KeysAgree
  <2> QED BY <2>1, <2>2 DEF NameAt
<1> QED BY <1>1, <1>2

-----------------------------------------------------------------------------
(* The queue and the hash table agree.                                     *)

(* A new name: a new copy, a new link at the end.                          *)
LEMMA AppendAgrees ==
  ASSUME KeysAgree, NEW n \in Name, NEW v \in Node, NEW k \in Key, text[k] = NULL,
         Found(n) = {}, Appended(n, k), UNCHANGED <<walk, visited>>,
         text' = [x \in Key |-> IF x = k THEN n ELSE IF x \in Found(n) THEN NULL ELSE text[x]],
         table' = [x \in Key |-> IF x = k THEN v ELSE IF x \in Found(n) THEN NULL ELSE table[x]]
  PROVE  /\ KeysAgree'
         /\ queue' \in Seq(Entry) /\ Len(queue') = Len(queue) + 1
         /\ \A i \in DOMAIN queue :
              queue'[i] = queue[i] /\ queue[i].key \in Key \ {k} /\ NameAt(i) # n
         /\ queue'[Len(queue) + 1].key = k /\ age' = age + 1
         /\ \A i \in DOMAIN queue : queue'[Len(queue) + 1].link # queue[i].link
<1>1. PICK l \in Link : /\ \A i \in DOMAIN queue : queue[i].link # l
                       /\ queue' = Append(queue, [link |-> l, key |-> k])
  BY DEF Appended
<1>2. queue \in Seq(Entry) /\ Len(queue) \in Nat /\ DOMAIN queue = 1 .. Len(queue)
  BY DEF KeysAgree, TypeOK, Entry
<1>. PICK m : m = Len(queue) + 1
  OBVIOUS
<1>3. /\ queue' \in Seq(Entry) /\ Len(queue') = m
      /\ DOMAIN queue' = 1 .. m /\ m \notin DOMAIN queue
      /\ \A i \in DOMAIN queue' : i \in DOMAIN queue \/ i = m
      /\ \A i \in DOMAIN queue : i \in DOMAIN queue' /\ queue'[i] = queue[i]
      /\ m \in DOMAIN queue' /\ queue'[m] = [link |-> l, key |-> k]
  BY <1>1, <1>2 DEF Entry
<1>4. \A x \in Key : table'[x] = (IF x = k THEN v ELSE table[x])
                   /\ text'[x] = (IF x = k THEN n ELSE text[x])
  OBVIOUS
<1>5. table[k] = NULL /\ NULL \notin Node /\ NULL \notin Name
  BY ObjectAssumption DEF KeysAgree
<1>6. TypeOK'
  <2>1. text' \in [Key -> Name \cup {NULL}] /\ table' \in [Key -> Node \cup {NULL}]
    BY DEF KeysAgree, TypeOK
  <2>2. age' \in 0 .. MaxAge
    BY ObjectAssumption DEF Appended, KeysAgree, TypeOK
  <2> QED BY <1>3, <2>1, <2>2 DEF KeysAgree, TypeOK, Entry, Walk
<1>7. \A i \in DOMAIN queue : queue[i].key \in Key /\ queue[i].key # k
                            /\ NameAt(i)' = NameAt(i) /\ NameAt(i) # n
  <2> SUFFICES ASSUME NEW i \in DOMAIN queue
               PROVE  queue[i].key \in Key /\ queue[i].key # k
                            /\ NameAt(i)' = NameAt(i) /\ NameAt(i) # n
    OBVIOUS
  <2>1. queue[i].key \in Key /\ table[queue[i].key] \in Node
    BY OnePlace
  <2>2. queue[i].key # k
    BY <1>5, <2>1
  <2>3. queue'[i] = queue[i]
    BY <1>3
  <2>4. NameAt(i)' = NameAt(i)
    BY <1>4, <2>1, <2>2, <2>3 DEF NameAt
  <2> QED BY <2>1, <2>2, <2>4, PlaceOf
<1>8. queue'[m].key = k /\ NameAt(m)' = n
  <2>1. queue'[m].key = k
    BY <1>3
  <2> QED BY <1>4, <2>1 DEF NameAt
<1>9. {queue'[i].key : i \in DOMAIN queue'} = {x \in Key : table'[x] # NULL}
  <2>1. ASSUME NEW i \in DOMAIN queue' PROVE queue'[i].key \in Key /\ table'[queue'[i].key] # NULL
    <3>1. CASE i = m
      BY <1>4, <1>5, <1>8, <3>1
    <3>2. CASE i # m
      <4>1. i \in DOMAIN queue
        BY <1>2, <1>3, <3>2
      <4>2. table[queue[i].key] \in Node
        BY <4>1, OnePlace
      <4> QED BY <1>3, <1>4, <1>5, <1>7, <4>1, <4>2
    <3> QED BY <3>1, <3>2
  <2>2. ASSUME NEW x \in Key, table'[x] # NULL PROVE \E i \in DOMAIN queue' : queue'[i].key = x
    <3>1. CASE x = k
      BY <1>2, <1>3, <1>8, <3>1
    <3>2. CASE x # k
      <4>1. table[x] # NULL
        BY <1>4, <2>2, <3>2
      <4>2. PICK i \in DOMAIN queue : queue[i].key = x
        BY <4>1 DEF KeysAgree
      <4> QED BY <1>2, <1>3, <4>2
    <3> QED BY <3>1, <3>2
  <2> QED BY <2>1, <2>2
<1>10. \A i, j \in DOMAIN queue' : NameAt(i)' = NameAt(j)' => i = j
  <2> SUFFICES ASSUME NEW i \in DOMAIN queue', NEW j \in DOMAIN queue', NameAt(i)' = NameAt(j)'
               PROVE  i = j
    OBVIOUS
  <2>1. CASE i \in DOMAIN queue /\ j \in DOMAIN queue
    BY <1>7, <2>1 DEF KeysAgree
  <2>2. CASE i \notin DOMAIN queue \/ j \notin DOMAIN queue
    <3>1. CASE i = m /\ j \in DOMAIN queue
      BY <1>7, <1>8, <3>1
    <3>2. CASE j = m /\ i \in DOMAIN queue
      BY <1>7, <1>8, <3>2
    <3> QED BY <1>3, <2>2, <3>1, <3>2
  <2> QED BY <2>1, <2>2
<1>11. \A x \in Key : table'[x] # NULL <=> text'[x] # NULL
  BY <1>4, <1>5 DEF KeysAgree
<1>12. KeysAgree'
  BY <1>6, <1>9, <1>10, <1>11 DEF KeysAgree
<1> QED BY <1>1, <1>3, <1>7, <1>8, <1>12 DEF Appended

(* Only the key at the place of n changes, to k.                           *)
KeyReplaced(n, k) ==
  \E p \in DOMAIN queue :
      /\ NameAt(p) = n
      /\ queue' \in Seq(Entry) /\ DOMAIN queue' = DOMAIN queue
      /\ \A i \in DOMAIN queue : /\ queue'[i].link = queue[i].link
                                 /\ NameAt(i)' = NameAt(i)
                                 /\ i = p => queue'[i].key = k
                                 /\ i # p => queue'[i].key = queue[i].key
                                 /\ i # p => queue[i].key \in Key \ {k}
                                 /\ i # p => table'[queue[i].key] = table[queue[i].key]

(* A name that is there: its place takes the new copy.                     *)
LEMMA RekeyAgrees ==
  ASSUME KeysAgree, NEW n \in Name, NEW v \in Node, NEW k \in Key, text[k] = NULL,
         Found(n) # {}, Rekeyed(n, k), UNCHANGED <<walk, visited>>,
         text' = [x \in Key |-> IF x = k THEN n ELSE IF x \in Found(n) THEN NULL ELSE text[x]],
         table' = [x \in Key |-> IF x = k THEN v ELSE IF x \in Found(n) THEN NULL ELSE table[x]]
  PROVE  /\ KeysAgree'
         /\ KeyReplaced(n, k)
<1>1. PICK p \in DOMAIN queue : NameAt(p) = n
  BY PlaceOf
<1>2. Places(n) = {p} /\ FirstPlace(n) = p /\ Found(n) = {queue[p].key}
  BY <1>1, OnePlace
<1>3. queue \in Seq(Entry) /\ Len(queue) \in Nat /\ DOMAIN queue = 1 .. Len(queue)
  BY DEF KeysAgree, TypeOK, Entry
<1>4. queue' = [queue EXCEPT ![p].key = k]
  BY <1>2 DEF Rekeyed
<1>5. /\ queue' \in Seq(Entry) /\ DOMAIN queue' = DOMAIN queue
      /\ \A i \in DOMAIN queue : /\ i # p => queue'[i] = queue[i]
                                 /\ queue'[i].link = queue[i].link
      /\ queue'[p].key = k
  <2>1. queue[p] \in Entry /\ [queue[p] EXCEPT !.key = k] \in Entry
    <3>1. queue[p] \in Entry
      BY <1>3
    <3> QED BY <3>1 DEF Entry
  <2>2. /\ queue' \in Seq(Entry) /\ DOMAIN queue' = DOMAIN queue
        /\ \A i \in DOMAIN queue : i # p => queue'[i] = queue[i]
        /\ queue'[p] = [queue[p] EXCEPT !.key = k]
    BY <1>3, <1>4, <2>1
  <2> QED BY <2>1, <2>2 DEF Entry
<1>6. /\ \A x \in Key : table'[x] = (IF x = k THEN v ELSE IF x = queue[p].key THEN NULL ELSE table[x])
      /\ \A x \in Key : text'[x] = (IF x = k THEN n ELSE IF x = queue[p].key THEN NULL ELSE text[x])
  BY <1>2
<1>7. table[k] = NULL /\ NULL \notin Node /\ NULL \notin Name
  BY ObjectAssumption DEF KeysAgree
<1>8. ASSUME NEW i \in DOMAIN queue, i # p
      PROVE  /\ queue[i].key \in Key \ {k} /\ queue[i].key # queue[p].key
             /\ table'[queue[i].key] = table[queue[i].key]
             /\ NameAt(i)' = NameAt(i)
  <2>1. queue[i].key \in Key /\ table[queue[i].key] \in Node
    BY OnePlace
  <2>2. queue[i].key # k
    BY <1>7, <2>1
  <2>3. queue[i].key # queue[p].key
    BY <1>8 DEF KeysAgree, NameAt
  <2> QED BY <1>5, <1>6, <1>8, <2>1, <2>2, <2>3 DEF NameAt
<1>9. NameAt(p)' = n
  BY <1>5, <1>6 DEF NameAt
<1>10. \A i \in DOMAIN queue : NameAt(i)' = NameAt(i)
  BY <1>1, <1>8, <1>9
<1>11. TypeOK'
  <2>1. text' \in [Key -> Name \cup {NULL}] /\ table' \in [Key -> Node \cup {NULL}]
    BY DEF KeysAgree, TypeOK
  <2>2. age' = age
    BY DEF Rekeyed
  <2> QED BY <1>5, <2>1, <2>2 DEF KeysAgree, TypeOK, Entry, Walk
<1>12. {queue'[i].key : i \in DOMAIN queue'} = {x \in Key : table'[x] # NULL}
  <2>1. ASSUME NEW i \in DOMAIN queue' PROVE queue'[i].key \in Key /\ table'[queue'[i].key] # NULL
    <3>1. CASE i = p
      BY <1>5, <1>6, <1>7, <3>1
    <3>2. CASE i # p
      <4>1. table[queue[i].key] \in Node
        BY <1>5, OnePlace
      <4> QED BY <1>5, <1>7, <1>8, <3>2, <4>1
    <3> QED BY <3>1, <3>2
  <2>2. ASSUME NEW x \in Key, table'[x] # NULL PROVE \E i \in DOMAIN queue' : queue'[i].key = x
    <3>1. CASE x = k
      BY <1>5, <3>1
    <3>2. CASE x # k
      <4>1. table[x] # NULL /\ x # queue[p].key
        BY <1>6, <2>2, <3>2
      <4>2. PICK i \in DOMAIN queue : queue[i].key = x
        BY <4>1 DEF KeysAgree
      <4> QED BY <1>5, <4>1, <4>2
    <3> QED BY <3>1, <3>2
  <2> QED BY <2>1, <2>2
<1>13. \A i, j \in DOMAIN queue' : NameAt(i)' = NameAt(j)' => i = j
  BY <1>5, <1>10 DEF KeysAgree
<1>14. \A x \in Key : table'[x] # NULL <=> text'[x] # NULL
  BY <1>6, <1>7 DEF KeysAgree
<1>15. KeysAgree'
  BY <1>11, <1>12, <1>13, <1>14 DEF KeysAgree
<1> QED BY <1>1, <1>5, <1>8, <1>10, <1>15 DEF KeyReplaced

(* A member goes, with its copy and its link.                              *)
LEMMA RemoveAgrees ==
  ASSUME KeysAgree, NEW n \in Name, RemoveMember(n)
  PROVE  /\ KeysAgree'
         /\ \E p \in DOMAIN queue :
              /\ NameAt(p) = n
              /\ queue' \in Seq(Entry) /\ Len(queue') = Len(queue) - 1
              /\ \A i \in 1 .. Len(queue) - 1 :
                   LET j == IF i < p THEN i ELSE i + 1
                   IN  /\ queue'[i] = queue[j] /\ NameAt(i)' = NameAt(j)
                       /\ table'[queue'[i].key] = table[queue[j].key]
<1>1. PICK p \in DOMAIN queue : NameAt(p) = n
  BY PlaceOf DEF RemoveMember
<1>2. Places(n) = {p} /\ FirstPlace(n) = p /\ Found(n) = {queue[p].key} /\ queue[p].key \in Key
  BY <1>1, OnePlace
<1>3. queue \in Seq(Entry) /\ Len(queue) \in Nat /\ DOMAIN queue = 1 .. Len(queue)
  BY DEF KeysAgree, TypeOK, Entry
<1>4. queue' = RemoveAt(queue, p)
  BY <1>2 DEF RemoveMember
<1> DEFINE Old(i) == IF i < p THEN i ELSE i + 1
<1>5. /\ queue' \in Seq(Entry) /\ Len(queue') = Len(queue) - 1
      /\ \A i \in 1 .. Len(queue) - 1 : queue'[i] = queue[Old(i)]
  BY <1>3, <1>4, Removed
<1>6. p \in 1 .. Len(queue) /\ DOMAIN queue' = 1 .. Len(queue) - 1
  BY <1>3, <1>5
<1>7. \A i \in DOMAIN queue' : Old(i) \in DOMAIN queue \ {p}
  BY <1>3, <1>6
<1>8. \A i, j \in DOMAIN queue' : Old(i) = Old(j) => i = j
  BY <1>3, <1>6
<1>9. \A j \in DOMAIN queue \ {p} : \E i \in DOMAIN queue' : Old(i) = j
  <2> SUFFICES ASSUME NEW j \in DOMAIN queue \ {p} PROVE \E i \in DOMAIN queue' : Old(i) = j
    OBVIOUS
  <2>1. CASE j < p
    BY <1>3, <1>6, <2>1
  <2>2. CASE j > p
    <3>1. j - 1 \in DOMAIN queue' /\ Old(j - 1) = j
      BY <1>3, <1>6, <2>2
    <3> QED BY <3>1
  <2> QED BY <1>3, <1>6, <2>1, <2>2
<1> HIDE DEF Old
<1>10. /\ \A x \in Key : table'[x] = (IF x = queue[p].key THEN NULL ELSE table[x])
       /\ \A x \in Key : text'[x] = (IF x = queue[p].key THEN NULL ELSE text[x])
  BY <1>2 DEF RemoveMember
<1>11. ASSUME NEW j \in DOMAIN queue \ {p}
       PROVE  /\ queue[j].key \in Key /\ queue[j].key # queue[p].key
              /\ table'[queue[j].key] = table[queue[j].key] /\ table[queue[j].key] \in Node
              /\ text'[queue[j].key] = text[queue[j].key]
  <2>1. queue[j].key \in Key /\ table[queue[j].key] \in Node
    BY OnePlace
  <2>2. queue[j].key # queue[p].key
    BY DEF KeysAgree, NameAt
  <2> QED BY <1>10, <2>1, <2>2
<1>12. \A i \in DOMAIN queue' : NameAt(i)' = NameAt(Old(i))
  BY <1>5, <1>6, <1>7, <1>11 DEF NameAt
<1>13. TypeOK'
  <2>1. text' \in [Key -> Name \cup {NULL}] /\ table' \in [Key -> Node \cup {NULL}]
    BY DEF KeysAgree, TypeOK, RemoveMember
  <2>2. UNCHANGED <<age, walk, visited>>
    BY DEF RemoveMember
  <2> QED BY <1>5, <2>1, <2>2 DEF KeysAgree, TypeOK, Entry, Walk
<1>14. {queue'[i].key : i \in DOMAIN queue'} = {x \in Key : table'[x] # NULL}
  <2>1. ASSUME NEW i \in DOMAIN queue' PROVE queue'[i].key \in Key /\ table'[queue'[i].key] # NULL
    <3>1. Old(i) \in DOMAIN queue \ {p} /\ queue'[i] = queue[Old(i)]
      BY <1>5, <1>6, <1>7
    <3>2. NULL \notin Node
      BY ObjectAssumption
    <3> QED BY <1>11, <3>1, <3>2
  <2>2. ASSUME NEW x \in Key, table'[x] # NULL PROVE \E i \in DOMAIN queue' : queue'[i].key = x
    <3>1. table[x] # NULL /\ x # queue[p].key
      BY <1>10, <2>2
    <3>2. PICK j \in DOMAIN queue : queue[j].key = x
      BY <3>1 DEF KeysAgree
    <3>3. PICK i \in DOMAIN queue' : Old(i) = j
      BY <1>9, <3>1, <3>2
    <3> QED BY <1>5, <1>6, <3>2, <3>3
  <2> QED BY <2>1, <2>2
<1>15. \A i, j \in DOMAIN queue' : NameAt(i)' = NameAt(j)' => i = j
  BY <1>7, <1>8, <1>12 DEF KeysAgree
<1>16. \A x \in Key : table'[x] # NULL <=> text'[x] # NULL
  BY <1>10 DEF KeysAgree
<1>17. KeysAgree'
  BY <1>13, <1>14, <1>15, <1>16 DEF KeysAgree
<1>18. \A i \in 1 .. Len(queue) - 1 :
         LET j == IF i < p THEN i ELSE i + 1
         IN  /\ queue'[i] = queue[j] /\ NameAt(i)' = NameAt(j)
             /\ table'[queue'[i].key] = table[queue[j].key]
  BY <1>5, <1>6, <1>7, <1>11, <1>12 DEF Old
<1> QED BY <1>1, <1>5, <1>17, <1>18

(* Whatever sets a member.                                                 *)
LEMMA SetKeeps ==
  ASSUME KeysAgree, NEW n \in Name, NEW v \in Node, SetInternal(n, v)
  PROVE  KeysAgree'
<1>1. PICK k \in Key :
        /\ text[k] = NULL
        /\ IF Found(n) = {} THEN Appended(n, k) ELSE Rekeyed(n, k)
        /\ text' = [x \in Key |-> IF x = k THEN n ELSE IF x \in Found(n) THEN NULL ELSE text[x]]
        /\ table' = [x \in Key |-> IF x = k THEN v ELSE IF x \in Found(n) THEN NULL ELSE table[x]]
        /\ UNCHANGED <<walk, visited>>
  BY DEF SetInternal
<1>2. CASE Found(n) = {}
  BY <1>1, <1>2, AppendAgrees
<1>3. CASE Found(n) # {}
  BY <1>1, <1>3, RekeyAgrees
<1> QED BY <1>2, <1>3

(* A walk leaves the members alone.                                        *)
LEMMA WalkKeeps ==
  ASSUME KeysAgree, UNCHANGED object, TypeOK'
  PROVE  KeysAgree'
BY DEF object, KeysAgree, NameAt

LEMMA AdvanceTyped ==
  ASSUME KeysAgree, Advance
  PROVE  TypeOK'
<1>1. queue \in Seq(Entry) /\ visited \in Seq(Name) /\ walk \in Walk /\ age \in Nat
  BY ObjectAssumption DEF KeysAgree, TypeOK, Entry
<1>2. PICK i : /\ IF i \in DOMAIN queue
                  THEN /\ walk' = [walk EXCEPT !.at = "inside", !.cur = queue[i].link]
                       /\ visited' = Append(visited, NameAt(i))
                  ELSE /\ walk' = [walk EXCEPT !.at = "end", !.cur = NULL]
                       /\ UNCHANGED visited
  BY DEF Advance
<1>3. CASE i \in DOMAIN queue
  <2>1. queue[i].link \in Link /\ NameAt(i) \in Name /\ NULL \notin Link
    BY <1>3, OnePlace, ObjectAssumption DEF Entry
  <2>2. walk' \in Walk /\ walk'.at = "inside" /\ walk'.cur # NULL
    BY <1>1, <1>2, <1>3, <2>1 DEF Walk
  <2>3. visited' \in Seq(Name)
    BY <1>1, <1>2, <1>3, <2>1
  <2> QED BY <2>2, <2>3 DEF KeysAgree, TypeOK, Advance, object
<1>4. CASE i \notin DOMAIN queue
  <2>1. walk' \in Walk /\ walk'.at = "end" /\ walk'.cur = NULL
    BY <1>1, <1>2, <1>4 DEF Walk
  <2> QED BY <1>2, <1>4, <2>1 DEF KeysAgree, TypeOK, Advance, object
<1> QED BY <1>3, <1>4

LEMMA InitAgrees ==
  ASSUME Init
  PROVE  KeysAgree
<1>1. <<>> \in Seq([link : Link, key : Key]) /\ <<>> \in Seq(Name) /\ DOMAIN <<>> = {}
  OBVIOUS
<1>2. NoWalk \in Walk /\ (NoWalk.at = "inside" <=> NoWalk.cur # NULL)
  BY DEF NoWalk, Walk
<1>3. TypeOK
  BY <1>1, <1>2, ObjectAssumption DEF Init, TypeOK
<1>4. queue = <<>> /\ \A k \in Key : table[k] = NULL /\ text[k] = NULL
  BY DEF Init
<1> QED BY <1>1, <1>3, <1>4 DEF KeysAgree

LEMMA StepAgrees ==
  ASSUME KeysAgree, [Next]_vars
  PROVE  KeysAgree'
<1>1. ASSUME NEW n \in Name, NEW v \in Node,
             AddMember(n, v) \/ SetMember(n, v) \/ SetValueMember(n, v)
      PROVE  KeysAgree'
  BY <1>1, SetKeeps DEF AddMember, SetMember, SetValueMember
<1>2. ASSUME NEW n \in Name, RemoveMember(n)
      PROVE  KeysAgree'
  BY <1>2, RemoveAgrees
<1>3. CASE Unref
  <2>1. /\ text' = [k \in Key |-> NULL] /\ table' = [k \in Key |-> NULL]
        /\ queue' = <<>> /\ age' = 0 /\ UNCHANGED <<walk, visited>>
    BY <1>3 DEF Unref
  <2>2. <<>> \in Seq([link : Link, key : Key]) /\ DOMAIN <<>> = {}
    OBVIOUS
  <2>3. TypeOK'
    BY <2>1, <2>2, ObjectAssumption DEF KeysAgree, TypeOK
  <2>4. \A k \in Key : table'[k] = NULL /\ text'[k] = NULL
    BY <2>1
  <2> QED BY <2>1, <2>2, <2>3, <2>4 DEF KeysAgree
<1>4. ASSUME NEW kind \in {"iter", "foreach"}, StartWalk(kind)
      PROVE  KeysAgree'
  <2>1. walk' = [kind |-> kind, at |-> "start", cur |-> NULL, age |-> age] /\ visited' = <<>>
    BY <1>4 DEF StartWalk
  <2>2. age \in Nat
    BY ObjectAssumption DEF KeysAgree, TypeOK
  <2>3. walk' \in Walk /\ walk'.at # "inside" /\ walk'.cur = NULL /\ visited' \in Seq(Name)
    BY <2>1, <2>2 DEF Walk
  <2>4. TypeOK' /\ UNCHANGED object
    BY <1>4, <2>3 DEF StartWalk, object, KeysAgree, TypeOK
  <2> QED BY <2>4, WalkKeeps
<1>5. CASE Advance
  BY <1>5, AdvanceTyped, WalkKeeps DEF Advance
<1>6. CASE EndWalk
  <2>1. NoWalk \in Walk /\ (NoWalk.at = "inside" <=> NoWalk.cur # NULL) /\ <<>> \in Seq(Name)
    BY DEF NoWalk, Walk
  <2>2. TypeOK' /\ UNCHANGED object
    BY <1>6, <2>1 DEF EndWalk, object, KeysAgree, TypeOK
  <2> QED BY <2>2, WalkKeeps
<1>7. CASE UNCHANGED vars
  <2>1. TypeOK' /\ UNCHANGED object
    BY <1>7 DEF vars, object, KeysAgree, TypeOK
  <2> QED BY <2>1, WalkKeeps
<1> QED BY <1>1, <1>2, <1>3, <1>4, <1>5, <1>6, <1>7 DEF Next

(* The queue and the hash table agree, whatever is added, replaced and     *)
(* removed, and whatever a callback of a foreach does.                     *)
THEOREM MembersKept == Spec => []KeysAgree
<1>1. Init => KeysAgree
  BY InitAgrees
<1>2. KeysAgree /\ [Next]_vars => KeysAgree'
  BY StepAgrees
<1> QED BY <1>1, <1>2, PTL DEF Spec

-----------------------------------------------------------------------------
(* An object implements an ordered dictionary.                             *)

members == [i \in DOMAIN queue |-> [name |-> NameAt(i), node |-> Lookup(NameAt(i))]]

(* The node at a place is the one the table has under the key there.       *)
ByKey ==
  /\ queue \in Seq(Entry)
  /\ members \in Seq([name : Name, node : Node])
  /\ Len(members) = Len(queue) /\ DOMAIN members = DOMAIN queue
  /\ \A i \in DOMAIN queue :
       /\ members[i] = [name |-> NameAt(i), node |-> table[queue[i].key]]
       /\ NameAt(i) = text[queue[i].key]

LEMMA MembersByKey == KeysAgree => ByKey
<1> SUFFICES ASSUME KeysAgree PROVE ByKey
  OBVIOUS
<1>1. queue \in Seq(Entry) /\ DOMAIN queue = 1 .. Len(queue) /\ Len(queue) \in Nat
  BY DEF KeysAgree, TypeOK, Entry
<1>2. ASSUME NEW i \in DOMAIN queue
      PROVE  /\ members[i] = [name |-> NameAt(i), node |-> table[queue[i].key]]
             /\ members[i] \in [name : Name, node : Node]
  BY OnePlace DEF members
<1>3. members = [i \in 1 .. Len(queue) |-> members[i]]
  BY <1>1 DEF members
<1>4. /\ members \in Seq([name : Name, node : Node])
      /\ Len(members) = Len(queue) /\ DOMAIN members = DOMAIN queue
  BY <1>1, <1>2, <1>3
<1> QED BY <1>1, <1>2, <1>4 DEF ByKey, NameAt

LEMMA SameSequence ==
  ASSUME NEW S, NEW s \in Seq(S), NEW t \in Seq(S), Len(s) = Len(t),
         \A i \in 1 .. Len(s) : s[i] = t[i]
  PROVE  s = t
OBVIOUS

LEMMA SetRefines ==
  ASSUME KeysAgree, NEW n \in Name, NEW v \in Node, SetInternal(n, v)
  PROVE  Dictionary!Put(n, v)
<1>1. PICK k \in Key :
        /\ text[k] = NULL
        /\ IF Found(n) = {} THEN Appended(n, k) ELSE Rekeyed(n, k)
        /\ text' = [x \in Key |-> IF x = k THEN n ELSE IF x \in Found(n) THEN NULL ELSE text[x]]
        /\ table' = [x \in Key |-> IF x = k THEN v ELSE IF x \in Found(n) THEN NULL ELSE table[x]]
        /\ UNCHANGED <<walk, visited>>
  BY DEF SetInternal
<1>2. ByKey
  BY MembersByKey
<1>3. ByKey'
  BY SetKeeps, MembersByKey, PTL
<1> DEFINE R == [name : Name, node : Node]
           r == [name |-> n, node |-> v]
<1>4. /\ members \in Seq(R) /\ members' \in Seq(R) /\ r \in R
      /\ Len(members) = Len(queue) /\ Len(queue) \in Nat
      /\ DOMAIN queue = 1 .. Len(queue) /\ DOMAIN members = DOMAIN queue
  BY <1>2, <1>3 DEF ByKey
<1>5. table'[k] = v /\ text'[k] = n
  BY <1>1
<1>6. CASE Found(n) = {}
  <2>1. /\ queue' \in Seq(Entry) /\ Len(queue') = Len(queue) + 1
        /\ \A i \in DOMAIN queue :
             queue'[i] = queue[i] /\ queue[i].key \in Key \ {k} /\ NameAt(i) # n
        /\ queue'[Len(queue) + 1].key = k
    BY <1>1, <1>6, AppendAgrees
  <2>2. ~ \E i \in DOMAIN members : members[i].name = n
    BY <1>2, <1>4, <2>1 DEF ByKey
  <2>3. Len(members') = Len(members) + 1
    BY <1>3, <1>4, <2>1 DEF ByKey
  <2>4. ASSUME NEW i \in 1 .. Len(queue) + 1 PROVE members'[i] = Append(members, r)[i]
    <3>1. i \in DOMAIN queue'
      BY <1>4, <2>1
    <3>2. members'[i] = [name |-> text'[queue'[i].key], node |-> table'[queue'[i].key]]
      BY <1>3, <3>1 DEF ByKey
    <3>3. CASE i \in DOMAIN queue
      <4>1. queue'[i].key = queue[i].key /\ queue[i].key \in Key \ {k}
        BY <2>1, <3>3
      <4>2. table'[queue[i].key] = table[queue[i].key] /\ text'[queue[i].key] = text[queue[i].key]
        BY <1>1, <1>6, <4>1
      <4>3. members[i] = [name |-> text[queue[i].key], node |-> table[queue[i].key]]
        BY <1>2, <3>3 DEF ByKey
      <4>4. Append(members, r)[i] = members[i]
        BY <1>4, <3>3
      <4> QED BY <3>2, <4>1, <4>2, <4>3, <4>4
    <3>4. CASE i \notin DOMAIN queue
      <4>1. i = Len(queue) + 1
        BY <1>4, <3>4
      <4>2. Append(members, r)[i] = r
        BY <1>4, <4>1
      <4> QED BY <1>5, <2>1, <3>2, <4>1, <4>2
    <3> QED BY <3>3, <3>4
  <2>5. Append(members, r) \in Seq(R) /\ Len(Append(members, r)) = Len(members) + 1
    BY <1>4
  <2>6. members' = Append(members, r)
    <3> HIDE DEF R, r
    <3> QED BY <1>4, <2>3, <2>4, <2>5, SameSequence
  <2> QED BY <2>2, <2>6 DEF Dictionary!Put, members
<1>7. CASE Found(n) # {}
  <2>1. PICK p \in DOMAIN queue :
           /\ NameAt(p) = n
           /\ queue' \in Seq(Entry) /\ DOMAIN queue' = DOMAIN queue
           /\ \A i \in DOMAIN queue : /\ queue'[i].link = queue[i].link
                                      /\ NameAt(i)' = NameAt(i)
                                      /\ i = p => queue'[i].key = k
                                      /\ i # p => queue'[i].key = queue[i].key
                                      /\ i # p => queue[i].key \in Key \ {k}
                                      /\ i # p => table'[queue[i].key] = table[queue[i].key]
    <3>1. KeyReplaced(n, k)
      BY <1>1, <1>7, RekeyAgrees
    <3> QED BY <3>1 DEF KeyReplaced
  <2> DEFINE put == [i \in DOMAIN members |-> IF members[i].name = n THEN r ELSE members[i]]
  <2>2. ASSUME NEW i \in DOMAIN queue PROVE members'[i] = put[i]
    <3>1. members'[i] = [name |-> NameAt(i), node |-> table'[queue'[i].key]]
      BY <1>3, <2>1 DEF ByKey
    <3>2. members[i] = [name |-> NameAt(i), node |-> table[queue[i].key]]
      BY <1>2 DEF ByKey
    <3>3. put[i] = IF NameAt(i) = n THEN r ELSE members[i]
      BY <1>4, <3>2
    <3>4. CASE i = p
      BY <1>5, <2>1, <3>1, <3>3, <3>4
    <3>5. CASE i # p
      <4>1. NameAt(i) # n
        BY <2>1, <3>5 DEF KeysAgree
      <4> QED BY <2>1, <3>1, <3>2, <3>3, <3>5, <4>1
    <3> QED BY <3>4, <3>5
  <2>3. members' = [i \in DOMAIN queue' |-> members'[i]]
    BY DEF members
  <2>4. put = [i \in DOMAIN queue |-> put[i]]
    BY <1>4
  <2>5. members' = put
    <3> HIDE DEF put
    <3> QED BY <2>1, <2>2, <2>3, <2>4
  <2>6. \E i \in DOMAIN members : members[i].name = n
    <3>1. p \in DOMAIN members /\ members[p].name = n
      BY <1>2, <1>4, <2>1 DEF ByKey
    <3> QED BY <3>1
  <2> QED BY <2>5, <2>6 DEF Dictionary!Put, members
<1> QED BY <1>6, <1>7

LEMMA RemoveRefines ==
  ASSUME KeysAgree, NEW n \in Name, RemoveMember(n)
  PROVE  Dictionary!Remove(n)
<1>1. PICK p \in DOMAIN queue :
         /\ NameAt(p) = n
         /\ queue' \in Seq(Entry) /\ Len(queue') = Len(queue) - 1
         /\ \A i \in 1 .. Len(queue) - 1 :
              LET j == IF i < p THEN i ELSE i + 1
              IN  /\ queue'[i] = queue[j] /\ NameAt(i)' = NameAt(j)
                  /\ table'[queue'[i].key] = table[queue[j].key]
  BY RemoveAgrees
<1>2. ByKey
  BY MembersByKey
<1>3. ByKey'
  BY RemoveAgrees, MembersByKey, PTL
<1> DEFINE R == [name : Name, node : Node]
<1>4. /\ members \in Seq(R) /\ members' \in Seq(R)
      /\ Len(members) = Len(queue) /\ Len(queue) \in Nat
      /\ DOMAIN queue = 1 .. Len(queue) /\ DOMAIN members = DOMAIN queue
      /\ Len(members') = Len(queue) - 1 /\ p \in 1 .. Len(queue)
      /\ DOMAIN queue' = 1 .. Len(queue) - 1
  BY <1>1, <1>2, <1>3 DEF ByKey
<1>5. /\ RemoveAt(members, p) \in Seq(R) /\ Len(RemoveAt(members, p)) = Len(queue) - 1
      /\ \A j \in 1 .. Len(queue) - 1 :
            RemoveAt(members, p)[j] = IF j < p THEN members[j] ELSE members[j + 1]
  <2> HIDE DEF R
  <2>1. p \in DOMAIN members
    BY <1>4
  <2> QED BY <1>4, <2>1, Removed
<1>6. ASSUME NEW i \in 1 .. Len(queue) - 1 PROVE members'[i] = RemoveAt(members, p)[i]
  <2>1. PICK j \in 1 .. Len(queue) : j = IF i < p THEN i ELSE i + 1
    BY <1>4
  <2>2. members'[i] = [name |-> NameAt(i)', node |-> table'[queue'[i].key]]
    BY <1>3, <1>4 DEF ByKey
  <2>3. members[j] = [name |-> NameAt(j), node |-> table[queue[j].key]]
    BY <1>2, <1>4 DEF ByKey
  <2>4. RemoveAt(members, p)[i] = members[j]
    BY <1>5, <2>1
  <2>5. NameAt(i)' = NameAt(j) /\ table'[queue'[i].key] = table[queue[j].key]
    BY <1>1, <2>1
  <2> QED BY <2>2, <2>3, <2>4, <2>5
<1>7. members' = RemoveAt(members, p)
  <2> HIDE DEF R
  <2> QED BY <1>4, <1>5, <1>6, SameSequence
<1>8. p \in DOMAIN members /\ members[p].name = n
  BY <1>1, <1>2, <1>4 DEF ByKey
<1> QED BY <1>7, <1>8 DEF Dictionary!Remove, members, RemoveAt

LEMMA SameMembers ==
  ASSUME UNCHANGED object
  PROVE  members' = members
BY DEF object, members, NameAt, Lookup, Found

LEMMA StepRefines ==
  ASSUME KeysAgree, [Next]_vars
  PROVE  Dictionary!Next \/ members' = members
<1>1. ASSUME NEW n \in Name, NEW v \in Node,
             AddMember(n, v) \/ SetMember(n, v) \/ SetValueMember(n, v)
      PROVE  Dictionary!Next
  <2>1. Dictionary!Put(n, v)
    BY <1>1, SetRefines DEF AddMember, SetMember, SetValueMember
  <2> QED BY <2>1 DEF Dictionary!Next
<1>2. ASSUME NEW n \in Name, RemoveMember(n)
      PROVE  Dictionary!Next
  <2>1. Dictionary!Remove(n)
    BY <1>2, RemoveRefines
  <2> QED BY <2>1 DEF Dictionary!Next
<1>3. CASE Unref
  <2>1. queue' = <<>> /\ DOMAIN <<>> = {}
    BY <1>3 DEF Unref
  <2>2. DOMAIN queue' = {}
    BY <2>1
  <2>3. members' = <<>>
    BY <2>1, <2>2 DEF members
  <2>4. Dictionary!Clear
    BY <2>3 DEF Dictionary!Clear, members
  <2> QED BY <2>4 DEF Dictionary!Next
<1>4. ASSUME NEW kind \in {"iter", "foreach"}, StartWalk(kind)
      PROVE  members' = members
  BY <1>4, SameMembers DEF StartWalk
<1>5. CASE Advance \/ EndWalk \/ UNCHANGED vars
  BY <1>5, SameMembers DEF Advance, EndWalk, vars
<1> QED BY <1>1, <1>2, <1>3, <1>4, <1>5 DEF Next

(* What the members, the names and the nodes of an object are is what they *)
(* are in an ordered dictionary: a new name goes to the end, one that is   *)
(* there keeps its place, and removing one moves no other.                 *)
THEOREM InsertionOrder == Spec => Ordered
<1>1. Init => Dictionary!Init
  <2> SUFFICES ASSUME Init PROVE members = <<>>
    BY DEF Dictionary!Init, members
  <2>1. queue = <<>> /\ DOMAIN <<>> = {}
    BY DEF Init
  <2> QED BY <2>1 DEF members
<1>2. KeysAgree /\ [Next]_vars => [Dictionary!Next]_members
  BY StepRefines
<1>3. Ordered <=> Dictionary!Init /\ [][Dictionary!Next]_members
  BY DEF Ordered, Dictionary!Spec, members
<1> QED BY <1>1, <1>2, <1>3, MembersKept, PTL DEF Spec

-----------------------------------------------------------------------------
(* Walking the members.                                                    *)

LinksDiffer == \A i, j \in DOMAIN queue : queue[i].link = queue[j].link => i = j

(* A member that is added during a walk makes the object older than the    *)
(* walk remembers.                                                         *)
WalkInv ==
  /\ KeysAgree /\ LinksDiffer
  /\ walk.kind # "none" => walk.age <= age
  /\ InOrder

(* The walk is one the client may go on with.                              *)
Live == walk.kind # "none" /\ walk.age = age /\ (walk.at = "inside" => Position # {})

LEMMA OnePosition ==
  ASSUME LinksDiffer, NEW i \in DOMAIN queue, queue[i].link = walk.cur, i \in Nat
  PROVE  Position = {i} /\ Min(Position) = i
<1>1. Position = {i}
  BY DEF Position, LinksDiffer
<1> QED BY <1>1 DEF Min

ReachedRight ==
  /\ Reached \in 0 .. Len(queue)
  /\ walk.at = "start" => Reached = 0
  /\ walk.at = "end" => Reached = Len(queue)
  /\ walk.at = "inside" => Reached \in DOMAIN queue /\ queue[Reached].link = walk.cur

LEMMA ReachedType == KeysAgree /\ LinksDiffer /\ Live => ReachedRight
<1> SUFFICES ASSUME KeysAgree, LinksDiffer, Live PROVE ReachedRight
  OBVIOUS
<1>1. /\ queue \in Seq(Entry) /\ Len(queue) \in Nat /\ DOMAIN queue = 1 .. Len(queue)
      /\ walk.at \in {"start", "inside", "end"}
  BY DEF KeysAgree, TypeOK, Entry, Walk
<1>2. CASE walk.at = "inside"
  <2>1. PICK i \in DOMAIN queue : queue[i].link = walk.cur
    BY <1>2 DEF Live, Position
  <2>2. Reached = i
    BY <1>1, <1>2, <2>1, OnePosition DEF Reached
  <2> QED BY <1>1, <1>2, <2>1, <2>2 DEF ReachedRight
<1>3. CASE walk.at # "inside"
  BY <1>1, <1>3 DEF Reached, ReachedRight
<1> QED BY <1>2, <1>3

LEMMA AppendWalk ==
  ASSUME WalkInv, NEW n \in Name, NEW v \in Node, NEW k \in Key, text[k] = NULL,
         Found(n) = {}, Appended(n, k), UNCHANGED <<walk, visited>>,
         text' = [x \in Key |-> IF x = k THEN n ELSE IF x \in Found(n) THEN NULL ELSE text[x]],
         table' = [x \in Key |-> IF x = k THEN v ELSE IF x \in Found(n) THEN NULL ELSE table[x]]
  PROVE  WalkInv'
<1>1. KeysAgree /\ LinksDiffer
  BY DEF WalkInv
<1>2. /\ KeysAgree'
      /\ queue' \in Seq(Entry) /\ Len(queue') = Len(queue) + 1
      /\ \A i \in DOMAIN queue : queue'[i] = queue[i]
      /\ \A i \in DOMAIN queue : queue'[Len(queue) + 1].link # queue[i].link
      /\ age' = age + 1
  BY <1>1, AppendAgrees
<1>3. queue \in Seq(Entry) /\ Len(queue) \in Nat /\ DOMAIN queue = 1 .. Len(queue)
  BY <1>1 DEF KeysAgree, TypeOK, Entry
<1>4. DOMAIN queue' = 1 .. Len(queue) + 1
  BY <1>2
<1>5. LinksDiffer'
  <2> SUFFICES ASSUME NEW i \in DOMAIN queue', NEW j \in DOMAIN queue',
                      queue'[i].link = queue'[j].link
               PROVE  i = j
    BY DEF LinksDiffer
  <2>1. CASE i \in DOMAIN queue /\ j \in DOMAIN queue
    BY <1>1, <1>2, <2>1 DEF LinksDiffer
  <2>2. CASE i = Len(queue) + 1
    BY <1>2, <1>3, <1>4, <2>2
  <2>3. CASE j = Len(queue) + 1
    BY <1>2, <1>3, <1>4, <2>3
  <2> QED BY <1>3, <1>4, <2>1, <2>2, <2>3
<1>6. age \in Nat /\ (walk.kind # "none" => walk.age \in Nat /\ walk.age <= age)
  BY <1>1, ObjectAssumption DEF WalkInv, KeysAgree, TypeOK, Walk
<1>7. /\ walk'.kind # "none" => walk'.age <= age'
      /\ walk'.kind # "none" => walk'.age # age'
  BY <1>2, <1>6
<1>8. InOrder'
  BY <1>7 DEF InOrder
<1> QED BY <1>2, <1>5, <1>7, <1>8 DEF WalkInv

LEMMA RekeyWalk ==
  ASSUME WalkInv, NEW n \in Name, NEW k \in Key, KeyReplaced(n, k), KeysAgree',
         UNCHANGED <<walk, visited, age>>
  PROVE  WalkInv'
<1>1. /\ DOMAIN queue' = DOMAIN queue
      /\ \A i \in DOMAIN queue : queue'[i].link = queue[i].link /\ NameAt(i)' = NameAt(i)
      /\ queue' \in Seq(Entry)
  BY DEF KeyReplaced
<1>2. LinksDiffer'
  BY <1>1 DEF WalkInv, LinksDiffer
<1>3. Position' = Position
  BY <1>1 DEF Position
<1>4. Len(queue') = Len(queue)
  <2>1. queue \in Seq(Entry)
    BY DEF WalkInv, KeysAgree, TypeOK, Entry
  <2> QED BY <1>1, <2>1
<1>5. Reached' = Reached
  BY <1>3, <1>4 DEF Reached
<1>6. \A i \in DOMAIN queue : Visited(i)' <=> Visited(i)
  BY <1>1 DEF Visited
<1>7. InOrder'
  BY <1>1, <1>3, <1>5, <1>6 DEF WalkInv, InOrder
<1> QED BY <1>2, <1>7 DEF WalkInv

LEMMA RemoveWalk ==
  ASSUME WalkInv, NEW n \in Name, RemoveMember(n)
  PROVE  WalkInv'
<1>1. KeysAgree /\ LinksDiffer
  BY DEF WalkInv
<1>2. PICK p \in DOMAIN queue :
         /\ NameAt(p) = n
         /\ queue' \in Seq(Entry) /\ Len(queue') = Len(queue) - 1
         /\ \A i \in 1 .. Len(queue) - 1 :
              LET j == IF i < p THEN i ELSE i + 1
              IN  /\ queue'[i] = queue[j] /\ NameAt(i)' = NameAt(j)
                  /\ table'[queue'[i].key] = table[queue[j].key]
  BY <1>1, RemoveAgrees
<1>3. KeysAgree'
  BY <1>1, RemoveAgrees
<1>4. /\ queue \in Seq(Entry) /\ Len(queue) \in Nat /\ DOMAIN queue = 1 .. Len(queue)
      /\ DOMAIN queue' = 1 .. Len(queue) - 1 /\ p \in 1 .. Len(queue)
  BY <1>1, <1>2 DEF KeysAgree, TypeOK, Entry
<1> DEFINE Old(i) == IF i < p THEN i ELSE i + 1
<1>5. \A i \in DOMAIN queue' : /\ Old(i) \in DOMAIN queue
                              /\ queue'[i] = queue[Old(i)] /\ NameAt(i)' = NameAt(Old(i))
  BY <1>2, <1>4
<1>6. /\ \A i, j \in DOMAIN queue' : i < j <=> Old(i) < Old(j)
      /\ \A i, j \in DOMAIN queue' : i <= j <=> Old(i) <= Old(j)
      /\ \A i, j \in DOMAIN queue' : Old(i) = Old(j) => i = j
  BY <1>4
<1>7. UNCHANGED <<age, walk, visited>>
  BY DEF RemoveMember
<1>8. \A i \in DOMAIN queue' : i \in Int /\ Old(i) >= 1
  BY <1>4
<1> HIDE DEF Old
<1>9. LinksDiffer'
  BY <1>1, <1>5, <1>6 DEF LinksDiffer
<1>10. \A i \in DOMAIN queue' : Visited(i)' <=> Visited(Old(i))
  BY <1>5, <1>7 DEF Visited
<1>11. ASSUME Live'
       PROVE  Live /\ \A i \in DOMAIN queue' : i <= Reached' <=> Old(i) <= Reached
  <2>1. Live
    BY <1>5, <1>7, <1>11 DEF Live, Position
  <2>2. /\ walk.at = "start" => Reached' = 0
        /\ walk.at = "end" => Reached' = Len(queue) - 1
        /\ walk.at = "inside" => Reached' \in DOMAIN queue' /\ queue'[Reached'].link = walk.cur
    <3>1. ReachedRight'
      BY <1>3, <1>9, <1>11, ReachedType, PTL
    <3> QED BY <1>2, <1>7, <3>1 DEF ReachedRight
  <2>3. /\ walk.at = "start" => Reached = 0
        /\ walk.at = "end" => Reached = Len(queue)
        /\ walk.at \in {"start", "inside", "end"}
    BY <1>1, <2>1, ReachedType DEF ReachedRight, KeysAgree, TypeOK, Walk
  <2>4. ASSUME walk.at = "inside" PROVE Reached = Old(Reached')
    <3>1. /\ Old(Reached') \in DOMAIN queue /\ queue[Old(Reached')].link = walk.cur
      BY <1>5, <2>2, <2>4
    <3>2. Reached \in DOMAIN queue /\ queue[Reached].link = walk.cur
      BY <1>1, <2>1, <2>4, ReachedType DEF ReachedRight
    <3> QED BY <1>1, <3>1, <3>2 DEF LinksDiffer
  <2>5. ASSUME NEW i \in DOMAIN queue' PROVE i <= Reached' <=> Old(i) <= Reached
    <3>1. CASE walk.at = "inside"
      BY <1>6, <2>2, <2>4, <3>1
    <3>2. CASE walk.at = "start"
      <4>1. Reached' = 0 /\ Reached = 0
        BY <2>2, <2>3, <3>2
      <4>2. i >= 1 /\ i \in Int /\ Old(i) >= 1 /\ Old(i) \in Int
        BY <1>4, <1>5, <1>8
      <4> QED BY <4>1, <4>2
    <3>3. CASE walk.at = "end"
      BY <1>4, <1>5, <2>2, <2>3, <3>3
    <3> QED BY <2>3, <3>1, <3>2, <3>3
  <2> QED BY <2>1, <2>5
<1>12. InOrder'
  <2> SUFFICES ASSUME Live'
               PROVE  /\ \A i \in DOMAIN queue' : Visited(i)' <=> i <= Reached'
                      /\ \A v, w \in DOMAIN visited' : \A i, j \in DOMAIN queue' :
                           v < w /\ visited'[v] = NameAt(i)' /\ visited'[w] = NameAt(j)' => i < j
    BY DEF InOrder, Live
  <2>1. /\ \A i \in DOMAIN queue : Visited(i) <=> i <= Reached
        /\ \A v, w \in DOMAIN visited : \A i, j \in DOMAIN queue :
             v < w /\ visited[v] = NameAt(i) /\ visited[w] = NameAt(j) => i < j
    BY <1>11 DEF WalkInv, InOrder, Live
  <2>2. \A i \in DOMAIN queue' : Visited(i)' <=> i <= Reached'
    BY <1>5, <1>10, <1>11, <2>1
  <2>3. \A v, w \in DOMAIN visited' : \A i, j \in DOMAIN queue' :
          v < w /\ visited'[v] = NameAt(i)' /\ visited'[w] = NameAt(j)' => i < j
    BY <1>5, <1>6, <1>7, <2>1
  <2> QED BY <2>2, <2>3
<1> QED BY <1>3, <1>7, <1>9, <1>12 DEF WalkInv

LEMMA AdvanceWalk ==
  ASSUME WalkInv, Advance
  PROVE  WalkInv'
<1>1. KeysAgree /\ LinksDiffer /\ Live
  BY DEF WalkInv, Live, Advance
<1>2. KeysAgree'
  BY <1>1, AdvanceTyped, WalkKeeps DEF Advance
<1>3. /\ queue' = queue /\ text' = text /\ age' = age
      /\ walk.at \in {"start", "inside"}
  BY <1>1 DEF Advance, object, KeysAgree, TypeOK, Walk
<1>4. /\ queue \in Seq(Entry) /\ Len(queue) \in Nat /\ DOMAIN queue = 1 .. Len(queue)
      /\ visited \in Seq(Name) /\ Len(visited) \in Nat /\ walk \in Walk
  BY <1>1 DEF KeysAgree, TypeOK, Entry
<1>5. Reached \in 0 .. Len(queue)
  BY <1>1, ReachedType DEF ReachedRight
<1>6. Reached = IF walk.at = "start" THEN 0 ELSE Min(Position)
  BY <1>3 DEF Reached
<1> PICK k : k = 1 + Reached
  OBVIOUS
<1>7. IF k \in DOMAIN queue
      THEN /\ walk' = [walk EXCEPT !.at = "inside", !.cur = queue[k].link]
           /\ visited' = Append(visited, NameAt(k))
      ELSE /\ walk' = [walk EXCEPT !.at = "end", !.cur = NULL]
           /\ UNCHANGED visited
  BY <1>6 DEF Advance
<1>8. walk'.kind = walk.kind /\ walk'.age = walk.age
  BY <1>4, <1>7 DEF Walk
<1>9. /\ \A i \in DOMAIN queue : Visited(i) <=> i <= Reached
      /\ \A v, w \in DOMAIN visited : \A i, j \in DOMAIN queue :
           v < w /\ visited[v] = NameAt(i) /\ visited[w] = NameAt(j) => i < j
  BY <1>1 DEF WalkInv, InOrder, Live
<1>10. \A i \in DOMAIN queue : NameAt(i)' = NameAt(i)
  BY <1>3 DEF NameAt
<1>11. LinksDiffer'
  BY <1>1, <1>3 DEF LinksDiffer
<1>12. CASE k \in DOMAIN queue
  <2>1. /\ walk'.at = "inside" /\ walk'.cur = queue[k].link
        /\ visited' = Append(visited, NameAt(k)) /\ NameAt(k) \in Name
    BY <1>1, <1>4, <1>7, <1>12, OnePlace DEF Walk
  <2>2. /\ visited' \in Seq(Name)
        /\ DOMAIN visited' = 1 .. Len(visited) + 1
        /\ \A v \in 1 .. Len(visited) : visited'[v] = visited[v]
        /\ visited'[Len(visited) + 1] = NameAt(k)
        /\ DOMAIN visited = 1 .. Len(visited)
    BY <1>4, <2>1
  <2>3. Reached' = k
    <3>1. Position' = {i \in DOMAIN queue : queue[i].link = queue[k].link}
      BY <1>3, <2>1 DEF Position
    <3>2. Position' = {k}
      BY <1>1, <1>12, <3>1 DEF LinksDiffer
    <3>3. k \in Int
      BY <1>5
    <3>4. Min({k}) = k
      BY <3>3 DEF Min
    <3> QED BY <2>1, <3>2, <3>4 DEF Reached
  <2>4. ASSUME NEW i \in DOMAIN queue PROVE Visited(i)' <=> i <= k
    <3>1. Visited(i)' <=> Visited(i) \/ NameAt(i) = NameAt(k)
      BY <1>10, <2>2 DEF Visited
    <3>2. NameAt(i) = NameAt(k) <=> i = k
      BY <1>1, <1>12 DEF KeysAgree
    <3> QED BY <1>4, <1>5, <1>9, <3>1, <3>2
  <2>5. ASSUME NEW v \in DOMAIN visited', NEW w \in DOMAIN visited',
               NEW i \in DOMAIN queue, NEW j \in DOMAIN queue,
               v < w, visited'[v] = NameAt(i), visited'[w] = NameAt(j)
        PROVE  i < j
    <3>1. v \in DOMAIN visited /\ visited'[v] = visited[v]
      BY <1>4, <2>2, <2>5
    <3>2. CASE w \in DOMAIN visited
      BY <1>9, <2>2, <2>5, <3>1, <3>2
    <3>3. CASE w \notin DOMAIN visited
      <4>1. w = Len(visited) + 1
        BY <1>4, <2>2, <3>3
      <4>2. j = k
        BY <1>1, <1>12, <2>2, <2>5, <4>1 DEF KeysAgree
      <4>3. i <= Reached
        BY <1>9, <2>5, <3>1 DEF Visited
      <4> QED BY <1>4, <1>5, <4>2, <4>3
    <3> QED BY <3>2, <3>3
  <2>6. InOrder'
    BY <1>3, <1>10, <2>3, <2>4, <2>5 DEF InOrder
  <2> QED BY <1>2, <1>3, <1>8, <1>11, <2>6 DEF WalkInv
<1>13. CASE k \notin DOMAIN queue
  <2>1. walk'.at = "end" /\ visited' = visited
    BY <1>4, <1>7, <1>13 DEF Walk
  <2>2. Reached' = Len(queue) /\ Reached = Len(queue)
    BY <1>3, <1>4, <1>5, <1>13, <2>1 DEF Reached
  <2>3. \A i \in DOMAIN queue : Visited(i)' <=> Visited(i)
    BY <1>10, <2>1 DEF Visited
  <2>4. InOrder'
    BY <1>3, <1>9, <1>10, <2>1, <2>2, <2>3 DEF InOrder
  <2> QED BY <1>2, <1>3, <1>8, <1>11, <2>4 DEF WalkInv
<1> QED BY <1>12, <1>13

LEMMA SetWalk ==
  ASSUME WalkInv, NEW n \in Name, NEW v \in Node, SetInternal(n, v)
  PROVE  WalkInv'
<1>1. PICK k \in Key :
        /\ text[k] = NULL
        /\ IF Found(n) = {} THEN Appended(n, k) ELSE Rekeyed(n, k)
        /\ text' = [x \in Key |-> IF x = k THEN n ELSE IF x \in Found(n) THEN NULL ELSE text[x]]
        /\ table' = [x \in Key |-> IF x = k THEN v ELSE IF x \in Found(n) THEN NULL ELSE table[x]]
        /\ UNCHANGED <<walk, visited>>
  BY DEF SetInternal
<1>2. CASE Found(n) = {}
  BY <1>1, <1>2, AppendWalk
<1>3. CASE Found(n) # {}
  <2>1. KeyReplaced(n, k) /\ KeysAgree' /\ UNCHANGED age
    BY <1>1, <1>3, RekeyAgrees DEF WalkInv, Rekeyed
  <2> QED BY <1>1, <2>1, RekeyWalk
<1> QED BY <1>2, <1>3

LEMMA StepWalk ==
  ASSUME WalkInv, [Next]_vars
  PROVE  WalkInv'
<1>1. KeysAgree /\ KeysAgree'
  BY StepAgrees DEF WalkInv
<1>2. ASSUME NEW n \in Name, NEW v \in Node,
             AddMember(n, v) \/ SetMember(n, v) \/ SetValueMember(n, v)
      PROVE  WalkInv'
  BY <1>2, SetWalk DEF AddMember, SetMember, SetValueMember
<1>3. ASSUME NEW n \in Name, RemoveMember(n)
      PROVE  WalkInv'
  BY <1>3, RemoveWalk
<1>4. CASE Unref
  <2>1. queue' = <<>> /\ walk'.kind = "none" /\ DOMAIN <<>> = {}
    BY <1>4 DEF Unref
  <2> QED BY <1>1, <2>1 DEF WalkInv, LinksDiffer, InOrder
<1>5. ASSUME NEW kind \in {"iter", "foreach"}, StartWalk(kind)
      PROVE  WalkInv'
  <2>1. /\ walk' = [kind |-> kind, at |-> "start", cur |-> NULL, age |-> age]
        /\ visited' = <<>> /\ queue' = queue /\ age' = age /\ DOMAIN <<>> = {}
    BY <1>5 DEF StartWalk, object
  <2>2. Reached' = 0 /\ age \in Nat
    BY <1>1, <2>1, ObjectAssumption DEF Reached, KeysAgree, TypeOK
  <2>3. DOMAIN queue' = 1 .. Len(queue)
    BY <1>1, <2>1 DEF KeysAgree, TypeOK
  <2>4. LinksDiffer'
    BY <2>1 DEF WalkInv, LinksDiffer
  <2>5. InOrder'
    BY <2>1, <2>2, <2>3 DEF InOrder, Visited
  <2> QED BY <1>1, <2>1, <2>2, <2>4, <2>5 DEF WalkInv
<1>6. CASE Advance
  BY <1>6, AdvanceWalk
<1>7. CASE EndWalk
  <2>1. walk'.kind = "none" /\ queue' = queue
    BY <1>7 DEF EndWalk, NoWalk, object
  <2> QED BY <1>1, <2>1 DEF WalkInv, LinksDiffer, InOrder
<1>8. CASE UNCHANGED vars
  <2>1. InOrder' = InOrder
    BY <1>8 DEF vars, object, InOrder, Visited, NameAt, Reached, Position
  <2> QED BY <1>1, <1>8, <2>1 DEF WalkInv, vars, object, LinksDiffer
<1> QED BY <1>2, <1>3, <1>4, <1>5, <1>6, <1>7, <1>8 DEF Next

(* An iterator that is not refused, and json_object_foreach_member, come   *)
(* to every member once and in order, whatever their client replaces and   *)
(* removes on the way.                                                     *)
THEOREM WalkedInOrder == Spec => []InOrder
<1>1. Init => WalkInv
  <2> SUFFICES ASSUME Init PROVE WalkInv
    OBVIOUS
  <2>1. queue = <<>> /\ walk.kind = "none" /\ DOMAIN <<>> = {}
    BY DEF Init, NoWalk
  <2> QED BY <2>1, InitAgrees DEF WalkInv, LinksDiffer, InOrder
<1>2. WalkInv /\ [Next]_vars => WalkInv'
  BY StepWalk
<1>3. WalkInv => InOrder
  BY DEF WalkInv
<1> QED BY <1>1, <1>2, <1>3, PTL DEF Spec
=============================================================================
