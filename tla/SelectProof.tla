---------------------------- MODULE SelectProof ----------------------------
(***************************************************************************)
(* Theorems about Select: the lists hold nodes of calls in progress, no    *)
(* wakeup is lost, and none is taken for another.                          *)
(***************************************************************************)
EXTENDS Select, QPrioProof

Node(t, fd)   == [task |-> t, type |-> fd[1]]
Listed(t, fd) == Node(t, fd) \in Range(wakeupList[fd[2]])
PipeFds       == Types \X Pipes
WakeupNodes   == [task : Tasks, type : Types]

(***************************************************************************)
(* Types.                                                                  *)
(***************************************************************************)
\* What each actor still has to do.
Requesting   == [at : {"select", "look", "wait"}, rest : Seq(Fds), timed : BOOLEAN]
Unselecting  == [at : {"unselect"}, rest : Seq(Fds)]
Deleting     == [at : {"hook"}, victim : Tasks, rest : Seq(Fds)]
Waking       == [at : {"list", "wake"}, pipe : Pipes, type : Types]

CodeOK ==
    /\ DOMAIN code = Actors
    /\ code[exc] \in {Idle} \cup Waking
    /\ \A t \in Tasks :
         /\ code[t] \in {Idle} \cup Requesting \cup Unselecting \cup Deleting \cup Waking
         /\ code[t].at = "wait" => code[t].rest = <<>>
         /\ code[t].at = "look" => code[t].rest # <<>> /\ Head(code[t].rest) \in PipeFds
         /\ code[t].at = "hook" => code[t].victim \in suspended

StateOK ==
    /\ msgs \in [Pipes -> 0..MaxMsg]
    /\ wakeupList \in [Pipes -> Seq(WakeupNodes)]
    /\ owner \in [Pipes -> Actors \cup {NULL}]
    /\ waiters \in [Pipes -> Seq(Actors)]
    /\ wakeupSync \in [Tasks -> BOOLEAN]
    /\ orig \in [Tasks -> Seq(Fds)]
    /\ found \in [Tasks -> SUBSET Fds]
    /\ pendedOnSelect \in [Tasks -> BOOLEAN]
    /\ excMsgQ \in Seq(Pipes) /\ Len(excMsgQ) <= EXC_MAX_MSGS
    /\ dead \subseteq suspended /\ suspended \subseteq Tasks
    /\ untold \subseteq PipeFds

(***************************************************************************)
(* The descriptors of a call.                                              *)
(***************************************************************************)
Selects(t) == Runs(t) /\ code[t].at \in {"select", "look", "wait"}

\* Those whose list has a node of t ...
Noted(t) ==
    CASE code[t].at \in {"select", "wait"} -> Range(orig[t]) \ Range(code[t].rest)
      [] code[t].at = "look"     -> Range(orig[t]) \ Range(Tail(code[t].rest))
      [] code[t].at = "unselect" -> Range(code[t].rest)
      [] OTHER -> {}

\* ... and those t has looked at.
Looked(t) == Range(orig[t]) \ Range(code[t].rest)

RestOK(t) == Selects(t) =>
    IsQueue(code[t].rest, Fds) /\ Range(code[t].rest) \subseteq Range(orig[t])

NodesOK(t) == Runs(t) => \A fd \in PipeFds :
    /\ Listed(t, fd) => fd \in Noted(t)
    /\ Selects(t) /\ fd \in Noted(t) => Listed(t, fd)

\* Of a ready descriptor somebody is told, or it is an exception.
Told(fd) == fd \in untold \/ WakeupComes(fd)

\* A call that has its wakeup has found something; one that has not will be
\* woken for what is ready by now.
WakeupOK(t) == Selects(t) =>
    /\ wakeupSync[t] => found[t] # {}
    /\ \A fd \in Looked(t) \cap PipeFds : Ready(fd) /\ ~wakeupSync[t] => Told(fd)

\* A node is in a list once.
ListsOK == \A p \in Pipes : IsQueue(wakeupList[p], WakeupNodes)

CallOK(t) == RestOK(t) /\ NodesOK(t) /\ WakeupOK(t)

SelectInv == CodeOK /\ StateOK /\ ListsOK /\ \A t \in Tasks : CallOK(t)

-----------------------------------------------------------------------------
(***************************************************************************)
(* Sequences.                                                              *)
(***************************************************************************)
\* The two names for the elements of a sequence.
LEMMA RangeElements == \A s : Range(s) = Elements(s)
BY DEF Range, Elements

\* selNodeAdd puts a node at the end of the list.
LEMMA AppendNode ==
    ASSUME NEW S, NEW s, IsQueue(s, S), NEW n \in S, n \notin Range(s)
    PROVE  IsQueue(Append(s, n), S) /\ Range(Append(s, n)) = Range(s) \cup {n}
<1>1. InsertedAt(Append(s, n), s, Len(s) + 1, n, S)
    BY AppendQueue DEF IsQueue
<1> QED BY <1>1, Inserts, RangeElements

\* What is left when the first descriptor of a call is done with.
LEMMA TailNodes ==
    ASSUME NEW S, NEW s, IsQueue(s, S), s # <<>>
    PROVE  /\ Head(s) \in S /\ Head(s) \in Range(s)
           /\ IsQueue(Tail(s), S) /\ Range(Tail(s)) = Range(s) \ {Head(s)}
BY TailQueue, RangeElements

\* The same for a sequence that may have an element twice.
LEMMA TailRange ==
    ASSUME NEW S, NEW s \in Seq(S), s # <<>>
    PROVE  /\ Head(s) \in S /\ Head(s) \in Range(s)
           /\ Tail(s) \in Seq(S) /\ Range(s) = Range(Tail(s)) \cup {Head(s)}
<1>1. PICK N \in Nat : N = Len(s) /\ DOMAIN s = 1..N /\ N > 0
    OBVIOUS
<1>2. PICK r \in Seq(S) : r = Tail(s)
    BY <1>1, HeadTailProperties
<1>8. Len(r) = N - 1 /\ DOMAIN r = 1..(N - 1) /\ \A i \in 1..(N - 1) : r[i] = s[i + 1]
    BY <1>1, <1>2
<1>3. Head(s) = s[1] /\ s[1] \in S
    BY <1>1
<1>4. Range(s) = {s[i] : i \in 1..N} /\ Range(r) = {r[i] : i \in 1..(N - 1)}
    BY <1>1, <1>8 DEF Range
<1>5. \A x \in Range(s) : x \in Range(r) \cup {s[1]}
  <2> TAKE x \in Range(s)
  <2>1. PICK i \in 1..N : x = s[i]
      BY <1>4
  <2>2. CASE i # 1
    <3>1. i - 1 \in 1..(N - 1) /\ r[i - 1] = s[i]
        BY <1>8, <2>2
    <3> QED BY <1>4, <2>1, <3>1
  <2> QED BY <2>1, <2>2
<1>6. \A x \in Range(r) : x \in Range(s)
  <2> TAKE x \in Range(r)
  <2>1. PICK i \in 1..(N - 1) : x = s[i + 1]
      BY <1>8, <1>4
  <2>2. i + 1 \in 1..N
      BY <1>1
  <2> QED BY <1>4, <2>1, <2>2
<1>7. s[1] \in Range(s)
    BY <1>1, <1>4
<1> QED BY <1>2, <1>3, <1>5, <1>6, <1>7

\* The node is taken out of the list, if it is there.
LEMMA WithoutNode ==
    ASSUME NEW S, NEW s, IsQueue(s, S), NEW n
    PROVE  IsQueue(Without(s, n), S) /\ Range(Without(s, n)) = Range(s) \ {n}
<1>1. Without(s, n) = QRemove(s, n)
  <2>1. PICK N \in Nat : N = Len(s) /\ DOMAIN s = 1..N
                         /\ \A i, j \in 1..N : s[i] = s[j] => i = j
      BY DEF IsQueue
  <2> DEFINE at == {i \in DOMAIN s : s[i] = n}
  <2>2. CASE at = {}
      BY <2>2 DEF Without, QRemove, Elements
  <2>3. CASE at # {}
    <3>1. PICK k \in 1..N : s[k] = n
        BY <2>1, <2>3
    <3>2. at = {k}
        BY <2>1, <3>1
    <3>3. k <= k
        BY <3>1
    <3>4. (CHOOSE i \in at : \A j \in at : i <= j) = k
        BY <3>2, <3>3
    <3>5. (CHOOSE j \in DOMAIN s : s[j] = n) = k
        BY <2>1, <3>1
    <3>6. n \in Elements(s)
        BY <2>1, <3>1 DEF Elements
    <3>7. Without(s, n) = SubSeq(s, 1, k - 1) \o SubSeq(s, k + 1, Len(s))
        BY <2>3, <3>4 DEF Without
    <3>8. QRemove(s, n) = SubSeq(s, 1, k - 1) \o SubSeq(s, k + 1, Len(s))
        BY <3>5, <3>6 DEF QRemove
    <3> QED BY <3>7, <3>8
  <2> QED BY <2>2, <2>3
<1> QED BY <1>1, RemoveQueue, RangeElements

\* Whoever dies leaves the queue of a mutex.
LEMMA WithoutSeq ==
    ASSUME NEW S, NEW s \in Seq(S), NEW n
    PROVE  Without(s, n) \in Seq(S)
<1> DEFINE at == {i \in DOMAIN s : s[i] = n}
           k  == CHOOSE i \in at : \A j \in at : i <= j
<1>1. CASE at = {}
    BY <1>1 DEF Without
<1>2. CASE at # {}
  <2>1. at \subseteq 1..Len(s) /\ Len(s) \in Nat
      OBVIOUS
  <2>2. \E i \in at : \A j \in at : i <= j
    <3> HIDE DEF at
    <3> QED BY <1>2, <2>1, FirstIndex
  <2>3. k \in DOMAIN s
      BY <2>2
  <2>4. Without(s, n) = SubSeq(s, 1, k - 1) \o SubSeq(s, k + 1, Len(s))
      BY <1>2 DEF Without
  <2> HIDE DEF k
  <2>5. k \in 1..Len(s)
      BY <2>3
  <2>6. SubSeq(s, 1, k - 1) \in Seq(S) /\ SubSeq(s, k + 1, Len(s)) \in Seq(S)
      BY <2>5
  <2> QED BY <2>4, <2>6
<1> QED BY <1>1, <1>2

-----------------------------------------------------------------------------
(***************************************************************************)
(* Where the actors are.                                                   *)
(***************************************************************************)
\* The place of an actor tells what it is doing.
LEMMA Kinds ==
    ASSUME CodeOK, NEW t \in Actors
    PROVE  /\ code[t].at \in {"select", "look", "wait"} => t \in Tasks /\ code[t] \in Requesting
           /\ code[t].at = "unselect" => t \in Tasks /\ code[t] \in Unselecting
           /\ code[t].at = "hook"     => t \in Tasks /\ code[t] \in Deleting
           /\ OnItsWay(t) => code[t] \in Waking
           /\ code[t].at = "idle" => code[t] = Idle
<1>1. t \in Tasks \/ t = exc
    BY DEF Actors
<1> QED BY <1>1 DEF CodeOK, Idle, Requesting, Unselecting, Deleting, Waking, OnItsWay

\* One actor goes on.
LEMMA OneGoes ==
    ASSUME CodeOK, NEW t \in Actors, NEW c, Goto(t, c)
    PROVE  /\ DOMAIN code' = Actors /\ code'[t] = c
           /\ \A u \in Actors \ {t} : code'[u] = code[u]
BY DEF CodeOK, Goto

\* A call keeps its descriptors, or is done with the first of them.
LEMMA Moves ==
    /\ \A r \in Requesting, a \in {"select", "look", "wait"} :
          [r EXCEPT !.at = a] = [at |-> a, rest |-> r.rest, timed |-> r.timed]
    /\ \A r \in Requesting, a \in {"select", "look", "wait"} :
          [[r EXCEPT !.rest = Tail(@)] EXCEPT !.at = a]
            = [at |-> a, rest |-> Tail(r.rest), timed |-> r.timed]
    /\ \A r \in Unselecting :
          [r EXCEPT !.rest = Tail(@)] = [at |-> "unselect", rest |-> Tail(r.rest)]
    /\ \A r \in Deleting :
          [r EXCEPT !.rest = Tail(@)]
            = [at |-> "hook", victim |-> r.victim, rest |-> Tail(r.rest)]
    /\ \A r \in Waking, a \in {"list", "wake"} :
          [r EXCEPT !.at = a] = [at |-> a, pipe |-> r.pipe, type |-> r.type]
<1>1. ASSUME NEW r \in Requesting, NEW a \in {"select", "look", "wait"}
      PROVE  [r EXCEPT !.at = a] = [at |-> a, rest |-> r.rest, timed |-> r.timed]
    BY DEF Requesting
<1>2. ASSUME NEW r \in Requesting, NEW a \in {"select", "look", "wait"}
      PROVE  [[r EXCEPT !.rest = Tail(@)] EXCEPT !.at = a]
               = [at |-> a, rest |-> Tail(r.rest), timed |-> r.timed]
  <2>1. PICK x : x = Tail(r.rest)
      OBVIOUS
  <2>2. PICK q : q = [at |-> r.at, rest |-> x, timed |-> r.timed]
      OBVIOUS
  <2>3. [r EXCEPT !.rest = x] = q
      BY <2>2 DEF Requesting
  <2>4. [q EXCEPT !.at = a] = [at |-> a, rest |-> x, timed |-> r.timed]
      BY <2>2
  <2> QED BY <2>1, <2>3, <2>4
<1>3. ASSUME NEW r \in Unselecting
      PROVE  [r EXCEPT !.rest = Tail(@)] = [at |-> "unselect", rest |-> Tail(r.rest)]
  <2>1. PICK x : x = Tail(r.rest)
      OBVIOUS
  <2>2. [r EXCEPT !.rest = x] = [at |-> "unselect", rest |-> x]
      BY DEF Unselecting
  <2> QED BY <2>1, <2>2
<1>4. ASSUME NEW r \in Deleting
      PROVE  [r EXCEPT !.rest = Tail(@)]
               = [at |-> "hook", victim |-> r.victim, rest |-> Tail(r.rest)]
  <2>1. PICK x : x = Tail(r.rest)
      OBVIOUS
  <2>2. [r EXCEPT !.rest = x] = [at |-> "hook", victim |-> r.victim, rest |-> x]
      BY DEF Deleting
  <2> QED BY <2>1, <2>2
<1>5. ASSUME NEW r \in Waking, NEW a \in {"list", "wake"}
      PROVE  [r EXCEPT !.at = a] = [at |-> a, pipe |-> r.pipe, type |-> r.type]
    BY DEF Waking
<1> QED BY <1>1, <1>2, <1>3, <1>4, <1>5

\* The types of the others stay, as nobody is resumed.
LEMMA CodeKept ==
    ASSUME CodeOK, NEW t \in Actors, NEW c, Goto(t, c), suspended \subseteq suspended',
           t = exc => c \in {Idle} \cup Waking,
           t \in Tasks =>
             /\ c \in {Idle} \cup Requesting \cup Unselecting \cup Deleting \cup Waking
             /\ c.at = "wait" => c.rest = <<>>
             /\ c.at = "look" => c.rest # <<>> /\ Head(c.rest) \in PipeFds
             /\ c.at = "hook" => c.victim \in suspended'
    PROVE  CodeOK'
<1>1. /\ DOMAIN code' = Actors /\ code'[t] = c
      /\ \A u \in Actors \ {t} : code'[u] = code[u]
    BY OneGoes
<1>2. code'[exc] \in {Idle} \cup Waking
  <2>1. exc \in Actors
      BY DEF Actors
  <2> QED BY <1>1, <2>1 DEF CodeOK
<1>3. ASSUME NEW u \in Tasks
      PROVE  /\ code'[u] \in {Idle} \cup Requesting \cup Unselecting \cup Deleting \cup Waking
             /\ code'[u].at = "wait" => code'[u].rest = <<>>
             /\ code'[u].at = "look" => code'[u].rest # <<>> /\ Head(code'[u].rest) \in PipeFds
             /\ code'[u].at = "hook" => code'[u].victim \in suspended'
  <2>1. CASE u = t
      BY <1>1, <2>1
  <2>2. CASE u # t
    <3>1. code'[u] = code[u]
        BY <1>1, <2>2 DEF Actors
    <3> QED BY <3>1 DEF CodeOK
  <2> QED BY <2>1, <2>2
<1> QED BY <1>1, <1>2, <1>3 DEF CodeOK

-----------------------------------------------------------------------------
(***************************************************************************)
(* What a step may leave alone.                                            *)
(***************************************************************************)
\* What a call has looked at has a node.
LEMMA LookedListed ==
    ASSUME CodeOK, NEW t \in Tasks, NodesOK(t), Selects(t), NEW fd \in Looked(t) \cap PipeFds
    PROVE  fd \in Noted(t) /\ Listed(t, fd) /\ wakeupList[fd[2]] # <<>>
<1>1. fd \in Noted(t)
  <2>1. CASE code[t].at \in {"select", "wait"}
      BY <2>1 DEF Noted, Looked
  <2>2. CASE code[t].at = "look"
    <3>1. code[t].rest \in Seq(Fds) /\ code[t].rest # <<>>
        BY <2>2, Kinds DEF CodeOK, Requesting, Actors
    <3>2. Range(Tail(code[t].rest)) \subseteq Range(code[t].rest)
        BY <3>1, TailRange
    <3> QED BY <2>2, <3>2 DEF Noted, Looked
  <2> QED BY <2>1, <2>2 DEF Selects
<1>2. Listed(t, fd)
    BY <1>1 DEF NodesOK, Selects
<1>3. wakeupList[fd[2]] # <<>>
  <2>1. Range(<<>>) = {}
      BY DEF Range
  <2> QED BY <1>2, <2>1 DEF Listed
<1> QED BY <1>1, <1>2, <1>3

\* Who has to be told still is, in the lists of fds.
StaysTold(fds) == \A fd \in fds :
    Ready(fd)' /\ wakeupList[fd[2]] # <<>> /\ (Ready(fd) => Told(fd)) => Told(fd)'

\* A step of another actor.
Undisturbed(u) ==
    /\ Runs(u)' => /\ Runs(u) /\ Noted(u) \cap PipeFds \subseteq Noted(u)'
                   /\ \A fd \in PipeFds : Listed(u, fd)' <=> Listed(u, fd)
    /\ Selects(u)' => /\ Selects(u) /\ code'[u] = code[u] /\ orig'[u] = orig[u]
                      /\ wakeupSync'[u] = wakeupSync[u] /\ found'[u] = found[u]

\* A call that a step leaves alone stays in order.
LEMMA UndisturbedKeeps ==
    ASSUME CodeOK, NEW u \in Tasks, CallOK(u), Undisturbed(u),
           NEW fds, StaysTold(fds), Selects(u) => Looked(u) \cap PipeFds \subseteq fds
    PROVE  CallOK(u)'
<1>1. RestOK(u)'
    BY DEF CallOK, RestOK, Undisturbed
<1>2. NodesOK(u)'
  <2>1. Selects(u)' => Noted(u)' = Noted(u)
      BY DEF Noted, Undisturbed
  <2> QED BY <2>1 DEF NodesOK, CallOK, Undisturbed
<1>3. WakeupOK(u)'
  <2> SUFFICES ASSUME Selects(u)'
               PROVE  /\ wakeupSync'[u] => found'[u] # {}
                      /\ \A fd \in Looked(u)' \cap PipeFds :
                            Ready(fd)' /\ ~wakeupSync'[u] => Told(fd)'
      BY DEF WakeupOK
  <2>1. Selects(u) /\ Looked(u)' = Looked(u)
      BY DEF Looked, Undisturbed
  <2>2. wakeupSync'[u] => found'[u] # {}
      BY <2>1 DEF CallOK, WakeupOK, Undisturbed
  <2>3. ASSUME NEW fd \in Looked(u)' \cap PipeFds, Ready(fd)', ~wakeupSync'[u]
        PROVE  Told(fd)'
    <3>1. fd \in Looked(u) \cap PipeFds /\ ~wakeupSync[u]
        BY <2>1, <2>3 DEF Undisturbed
    <3>2. Ready(fd) => Told(fd)
        BY <2>1, <3>1 DEF CallOK, WakeupOK
    <3>3. wakeupList[fd[2]] # <<>>
        BY <2>1, <3>1, LookedListed DEF CallOK
    <3> QED BY <2>1, <2>3, <3>1, <3>2, <3>3 DEF StaysTold
  <2> QED BY <2>2, <2>3
<1> QED BY <1>1, <1>2, <1>3 DEF CallOK

\* An actor that is not on its way to a list goes on.
LEMMA NothingTold ==
    ASSUME CodeOK, NEW t \in Actors, NEW c, Goto(t, c), ~OnItsWay(t),
           UNCHANGED <<ipcVars, lifeVars, untold>>
    PROVE  \A fd \in PipeFds : (Ready(fd)' <=> Ready(fd)) /\ (Told(fd) => Told(fd)')
<1> TAKE fd \in PipeFds
<1>1. Ready(fd)' <=> Ready(fd)
    BY DEF Ready, ipcVars
<1>2. ASSUME Told(fd) PROVE Told(fd)'
  <2>1. CASE fd \in untold \/ (fd[1] = "read" /\ fd[2] \in Range(excMsgQ))
      BY <2>1 DEF Told, WakeupComes, ipcVars
  <2>2. ASSUME NEW u \in Actors, Runs(u), OnItsWay(u), code[u].pipe = fd[2], code[u].type = fd[1]
        PROVE  Told(fd)'
    <3>1. u # t /\ code'[u] = code[u]
        BY <2>2, OneGoes
    <3>2. Runs(u)' /\ OnItsWay(u)'
        BY <2>2, <3>1 DEF Runs, lifeVars, OnItsWay
    <3> QED BY <2>2, <3>1, <3>2 DEF Told, WakeupComes
  <2> QED BY <1>2, <2>1, <2>2 DEF Told, WakeupComes
<1> QED BY <1>1, <1>2

\* One actor goes on, and touches no other call.
Apart(t) ==
    /\ \A u \in Actors \ {t} : code'[u] = code[u]
    /\ suspended \subseteq suspended' /\ dead \subseteq dead'
    /\ \A u \in Tasks \ {t} :
          /\ orig'[u] = orig[u] /\ wakeupSync'[u] = wakeupSync[u] /\ found'[u] = found[u]
          /\ \A fd \in PipeFds : Listed(u, fd)' <=> Listed(u, fd)

\* All calls but the one that makes the step are left alone.
LEMMA ApartKeeps ==
    ASSUME SelectInv, NEW t, Apart(t), StaysTold(PipeFds), CodeOK', StateOK', ListsOK',
           t \in Tasks => CallOK(t)'
    PROVE  SelectInv'
<1>1. ASSUME NEW u \in Tasks PROVE CallOK(u)'
  <2>1. CASE u = t
      BY <2>1
  <2>2. CASE u # t
    <3>1. Runs(u)' => Runs(u)
        BY DEF Apart, Runs
    <3>2. code'[u] = code[u]
        BY <2>2 DEF Apart, Actors
    <3>3. Runs(u)' => Noted(u) \subseteq Noted(u)'
        BY <2>2, <3>2 DEF Noted, Apart
    <3>4. Undisturbed(u)
        BY <2>2, <3>1, <3>2, <3>3 DEF Undisturbed, Apart, Selects
    <3>5. Looked(u) \cap PipeFds \subseteq PipeFds
        OBVIOUS
    <3> QED BY <3>4, <3>5, UndisturbedKeeps DEF SelectInv
  <2> QED BY <2>1, <2>2
<1> QED BY <1>1 DEF SelectInv

\* A call that is not one of select, before the step and behind it, or is over.
LEMMA NotSelecting ==
    ASSUME NEW t \in Tasks, NodesOK(t), wakeupList' = wakeupList, ~Selects(t)',
           Runs(t)' => Runs(t) /\ Noted(t) \cap PipeFds \subseteq Noted(t)'
    PROVE  CallOK(t)'
BY DEF CallOK, RestOK, NodesOK, WakeupOK, Listed

-----------------------------------------------------------------------------
(***************************************************************************)
(* The mutex of a list, and wakeups.                                       *)
(***************************************************************************)
\* The owner of a mutex and those who wait for it are actors.
LEMMA MutexTypes ==
    ASSUME StateOK, NEW p \in Pipes
    PROVE  /\ \A t \in Actors : MutexTake(t, p) =>
                /\ owner' \in [Pipes -> Actors \cup {NULL}]
                /\ waiters' \in [Pipes -> Seq(Actors)]
           /\ MutexGive(p) =>
                /\ owner' \in [Pipes -> Actors \cup {NULL}]
                /\ waiters' \in [Pipes -> Seq(Actors)]
<1>1. PICK w \in Seq(Actors) : w = waiters[p]
    BY DEF StateOK
<1>2. ASSUME NEW t \in Actors, MutexTake(t, p)
      PROVE  owner' \in [Pipes -> Actors \cup {NULL}] /\ waiters' \in [Pipes -> Seq(Actors)]
  <2>1. Append(w, t) \in Seq(Actors)
      BY <1>1
  <2> QED BY <1>1, <1>2, <2>1 DEF MutexTake, StateOK
<1>3. ASSUME MutexGive(p)
      PROVE  owner' \in [Pipes -> Actors \cup {NULL}] /\ waiters' \in [Pipes -> Seq(Actors)]
  <2>1. w # <<>> => Head(w) \in Actors /\ Tail(w) \in Seq(Actors)
      BY <1>1
  <2>2. PICK o \in Actors \cup {NULL} : o = IF w = <<>> THEN NULL ELSE Head(w)
      BY <2>1
  <2>3. PICK v \in Seq(Actors) : v = IF w = <<>> THEN w ELSE Tail(w)
      BY <1>1, <2>1
  <2>4. owner' = [owner EXCEPT ![p] = o] /\ waiters' = [waiters EXCEPT ![p] = v]
      BY <1>1, <1>3, <2>2, <2>3 DEF MutexGive
  <2> QED BY <2>4 DEF StateOK
<1> QED BY <1>2, <1>3

\* An actor begins to wait for a mutex, or has it.
LEMMA TakeKeeps == ASSUME SelectInv, NEW t \in Actors, semTake(t) PROVE SelectInv'
<1>1. UNCHANGED <<ipcVars, wakeupList, taskVars, code, lifeVars, untold>>
    BY DEF semTake
<1>2. StateOK'
  <2>1. PICK p \in Pipes : MutexTake(t, p)
      BY DEF semTake
  <2>2. owner' \in [Pipes -> Actors \cup {NULL}] /\ waiters' \in [Pipes -> Seq(Actors)]
      BY <2>1, MutexTypes DEF SelectInv
  <2> QED BY <1>1, <2>2 DEF StateOK, SelectInv, ipcVars, taskVars, lifeVars
<1>3. CodeOK' /\ ListsOK'
    BY <1>1 DEF CodeOK, ListsOK, SelectInv, lifeVars
<1>4. StaysTold(PipeFds)
    BY <1>1 DEF StaysTold, Told, WakeupComes, Runs, OnItsWay, Ready, ipcVars, lifeVars
<1>5. ASSUME NEW u \in Tasks PROVE CallOK(u)'
  <2>1. Undisturbed(u)
      BY <1>1 DEF Undisturbed, Runs, Selects, Noted, Listed, taskVars, lifeVars
  <2>2. Looked(u) \cap PipeFds \subseteq PipeFds
      OBVIOUS
  <2> QED BY <1>4, <2>1, <2>2, UndisturbedKeeps DEF SelectInv
<1> QED BY <1>2, <1>3, <1>5 DEF SelectInv

\* selWakeupAll finds an empty list, or goes on.
LEMMA LookAtListKeeps == ASSUME SelectInv, NEW t \in Actors, LookAtList(t) PROVE SelectInv'
<1> DEFINE empty == wakeupList[code[t].pipe] = <<>>
           c == IF empty THEN Idle ELSE [code[t] EXCEPT !.at = "wake"]
<1>1. /\ Goto(t, c) /\ Runs(t) /\ code[t].at = "list"
      /\ UNCHANGED <<ipcVars, listVars, taskVars, lifeVars, untold>>
    BY DEF LookAtList, At
<1>2. code[t] \in Waking
    BY <1>1, Kinds DEF OnItsWay, SelectInv
<1>3. c = IF empty THEN Idle ELSE [at |-> "wake", pipe |-> code[t].pipe, type |-> code[t].type]
    BY <1>2, Moves
<1>4. /\ c \in {Idle} \cup Waking /\ c.at \in {"idle", "wake"}
      /\ ~empty => c.at = "wake" /\ c.pipe = code[t].pipe /\ c.type = code[t].type
    BY <1>2, <1>3 DEF Waking, Idle
<1> HIDE DEF c
<1>5. /\ DOMAIN code' = Actors /\ code'[t] = c
      /\ \A u \in Actors \ {t} : code'[u] = code[u]
    BY <1>1, OneGoes DEF SelectInv
<1>6. CodeOK'
    BY <1>1, <1>4, CodeKept DEF SelectInv, lifeVars
<1>7. StateOK' /\ ListsOK'
    BY <1>1 DEF StateOK, ListsOK, SelectInv, ipcVars, taskVars, lifeVars, listVars
<1>8. StaysTold(PipeFds)
  <2> SUFFICES ASSUME NEW fd \in PipeFds, Ready(fd)', wakeupList[fd[2]] # <<>>,
                      Ready(fd) => Told(fd)
               PROVE  Told(fd)'
      BY DEF StaysTold
  <2>1. Told(fd)
      BY <1>1 DEF Ready, ipcVars
  <2>2. CASE fd \in untold \/ (fd[1] = "read" /\ fd[2] \in Range(excMsgQ))
      BY <1>1, <2>2 DEF Told, WakeupComes, ipcVars
  <2>3. ASSUME NEW u \in Actors, Runs(u), OnItsWay(u), code[u].pipe = fd[2], code[u].type = fd[1]
        PROVE  Told(fd)'
    <3>1. OnItsWay(u)' /\ code'[u].pipe = fd[2] /\ code'[u].type = fd[1]
        BY <1>4, <1>5, <2>3 DEF OnItsWay
    <3>2. Runs(u)'
        BY <1>1, <2>3 DEF Runs, lifeVars
    <3> QED BY <3>1, <3>2, <2>3 DEF Told, WakeupComes
  <2> QED BY <2>1, <2>2, <2>3 DEF Told, WakeupComes
<1>9. Apart(t)
    BY <1>1, <1>5 DEF Apart, lifeVars, taskVars, listVars, Listed
<1>10. t \in Tasks => CallOK(t)'
  <2> SUFFICES ASSUME t \in Tasks PROVE CallOK(t)'
      OBVIOUS
  <2>1. Noted(t) = {} /\ ~Selects(t)'
      BY <1>1, <1>4, <1>5 DEF Noted, Selects
  <2> QED BY <1>1, <2>1, NotSelecting DEF SelectInv, CallOK, Runs, lifeVars, listVars
<1> QED BY <1>6, <1>7, <1>8, <1>9, <1>10, ApartKeeps

\* selWakeupAll wakes those in the list, who are all that can have looked.
LEMMA WakeAllKeeps == ASSUME SelectInv, NEW t \in Actors, WakeAll(t) PROVE SelectInv'
<1>1. PICK p, type : p = code[t].pipe /\ type = code[t].type
    OBVIOUS
<1> DEFINE woken == Woken(p, type)
<1>2. /\ Runs(t) /\ code[t].at = "wake" /\ ListOf(t) \in Pipes /\ MutexGive(p)
      /\ found' = [u \in Tasks |-> IF u \in woken THEN found[u] \cup {<<type, p>>}
                                                  ELSE found[u]]
      /\ wakeupSync' = [u \in Tasks |-> u \in woken \/ wakeupSync[u]]
      /\ untold' = untold \ {<<type, p>>} /\ Goto(t, Idle)
      /\ UNCHANGED <<ipcVars, wakeupList, orig, pendedOnSelect, lifeVars>>
    BY <1>1 DEF WakeAll, Has, At
<1>3. p \in Pipes /\ type \in Types /\ <<type, p>> \in PipeFds /\ <<type, p>> \in Fds
  <2>1. code[t] \in Waking
      BY <1>2, Kinds DEF OnItsWay, SelectInv
  <2> QED BY <1>1, <2>1 DEF Waking, PipeFds, Fds
<1>4. /\ DOMAIN code' = Actors /\ code'[t] = Idle
      /\ \A u \in Actors \ {t} : code'[u] = code[u]
    BY <1>2, OneGoes DEF SelectInv
<1>5. CodeOK'
    BY <1>2, CodeKept DEF SelectInv, lifeVars, Idle
<1>6. StateOK'
  <2>1. owner' \in [Pipes -> Actors \cup {NULL}] /\ waiters' \in [Pipes -> Seq(Actors)]
      BY <1>2, <1>3, MutexTypes DEF SelectInv
  <2>2. found' \in [Tasks -> SUBSET Fds]
    <3>1. \A u \in Tasks : found[u] \in SUBSET Fds
        BY DEF StateOK, SelectInv
    <3> QED BY <1>2, <1>3, <3>1
  <2>3. wakeupSync' \in [Tasks -> BOOLEAN]
      BY <1>2
  <2> QED BY <1>2, <2>1, <2>2, <2>3 DEF StateOK, SelectInv, ipcVars, lifeVars
<1>7. ListsOK'
    BY <1>2 DEF ListsOK, SelectInv
<1>8. StaysTold(PipeFds \ {<<type, p>>})
  <2> SUFFICES ASSUME NEW fd \in PipeFds, fd # <<type, p>>, Ready(fd)', Ready(fd) => Told(fd)
               PROVE  Told(fd)'
      BY DEF StaysTold
  <2>1. Told(fd)
      BY <1>2 DEF Ready, ipcVars
  <2>2. CASE fd \in untold \/ (fd[1] = "read" /\ fd[2] \in Range(excMsgQ))
      BY <1>2, <2>2 DEF Told, WakeupComes, ipcVars
  <2>3. ASSUME NEW u \in Actors, Runs(u), OnItsWay(u), code[u].pipe = fd[2], code[u].type = fd[1]
        PROVE  Told(fd)'
    <3>1. u # t
        BY <1>1, <2>3 DEF PipeFds
    <3>2. OnItsWay(u)' /\ code'[u].pipe = fd[2] /\ code'[u].type = fd[1] /\ Runs(u)'
        BY <1>2, <1>4, <2>3, <3>1 DEF OnItsWay, Runs, lifeVars
    <3> QED BY <3>2, <2>3 DEF Told, WakeupComes
  <2> QED BY <2>1, <2>2, <2>3 DEF Told, WakeupComes
<1>9. ASSUME NEW u \in Tasks PROVE CallOK(u)'
  <2>1. CASE u = t
    <3>1. Noted(u) = {} /\ ~Selects(u)'
        BY <1>2, <1>4, <2>1 DEF Noted, Selects, Idle
    <3> QED BY <1>2, <2>1, <3>1, NotSelecting DEF SelectInv, CallOK, Runs, lifeVars
  <2>2. CASE u # t /\ u \notin woken
    <3>1. code'[u] = code[u]
        BY <1>4, <2>2 DEF Actors
    <3>2. Undisturbed(u)
        BY <1>2, <2>2, <3>1
           DEF Undisturbed, Runs, lifeVars, Noted, Selects, Listed, StateOK, SelectInv
    <3>3. Selects(u) => <<type, p>> \notin Looked(u)
      <4> SUFFICES ASSUME Selects(u), <<type, p>> \in Looked(u) PROVE FALSE
          OBVIOUS
      <4>1. Listed(u, <<type, p>>)
          BY <1>3, LookedListed DEF SelectInv, CallOK
      <4> QED BY <2>2, <4>1 DEF Listed, Node, Woken, Nodes
    <3> QED BY <1>8, <3>2, <3>3, UndisturbedKeeps DEF SelectInv
  <2>3. CASE u # t /\ u \in woken
    <3>1. code'[u] = code[u]
        BY <1>4, <2>3 DEF Actors
    <3>2. /\ Selects(u)' <=> Selects(u)
          /\ Runs(u)' <=> Runs(u)
          /\ Noted(u)' = Noted(u)
          /\ \A fd \in PipeFds : Listed(u, fd)' <=> Listed(u, fd)
        BY <1>2, <3>1 DEF Selects, Runs, lifeVars, Noted, Listed
    <3>3. wakeupSync'[u] /\ found'[u] # {}
        BY <1>2, <2>3
    <3>4. WakeupOK(u)'
        BY <3>3 DEF WakeupOK
    <3>5. RestOK(u)' /\ NodesOK(u)'
        BY <1>2, <3>1, <3>2 DEF RestOK, NodesOK, CallOK, SelectInv
    <3> QED BY <3>4, <3>5 DEF CallOK
  <2> QED BY <2>1, <2>2, <2>3
<1> QED BY <1>5, <1>6, <1>7, <1>9 DEF SelectInv

-----------------------------------------------------------------------------
(***************************************************************************)
(* The steps of select.                                                    *)
(***************************************************************************)
\* A step of select changes neither pipes nor what others are to be told.
SelectStep(t) ==
    /\ Runs(t) /\ UNCHANGED <<ipcVars, lifeVars, untold>>
    /\ UNCHANGED <<owner, waiters, wakeupList>>
    /\ \A u \in Tasks \ {t} :
          orig'[u] = orig[u] /\ wakeupSync'[u] = wakeupSync[u] /\ found'[u] = found[u]

\* A step of select outside the lists changes one call.
LEMMA SelectSteps ==
    ASSUME SelectInv, NEW t \in Tasks, SelectStep(t), ~OnItsWay(t),
           wakeupSync' \in [Tasks -> BOOLEAN], orig' \in [Tasks -> Seq(Fds)],
           found' \in [Tasks -> SUBSET Fds], pendedOnSelect' \in [Tasks -> BOOLEAN],
           NEW c, Goto(t, c), CodeOK', CallOK(t)'
    PROVE  SelectInv'
<1>1. t \in Actors
    BY DEF Actors
<1>2. \A u \in Actors \ {t} : code'[u] = code[u]
    BY <1>1, OneGoes DEF SelectInv
<1>3. Apart(t)
    BY <1>2 DEF Apart, SelectStep, lifeVars, Listed
<1>4. StaysTold(PipeFds)
    BY <1>1, NothingTold DEF StaysTold, SelectInv, SelectStep
<1>5. StateOK'
    BY DEF StateOK, SelectInv, SelectStep, ipcVars, lifeVars
<1>6. ListsOK'
    BY DEF ListsOK, SelectInv, SelectStep
<1> QED BY <1>3, <1>4, <1>5, <1>6, ApartKeeps

\* What a step of a call does to its own descriptors, if it adds no node.
LEMMA OwnStep ==
    ASSUME NEW t \in Tasks, CallOK(t), wakeupList' = wakeupList,
           Runs(t)' => Runs(t), RestOK(t)', WakeupOK(t)',
           \A fd \in PipeFds : fd \in Noted(t) => fd \in Noted(t)',
           Selects(t)' => \A fd \in PipeFds : fd \in Noted(t)' => Selects(t) /\ fd \in Noted(t)
    PROVE  CallOK(t)'
<1>1. \A fd \in PipeFds : Listed(t, fd)' <=> Listed(t, fd)
    BY DEF Listed
<1> QED BY <1>1 DEF CallOK, NodesOK

\* select empties the semaphore and begins with the first descriptor.
LEMMA SelectKeeps ==
    ASSUME SelectInv, NEW t \in Tasks, NEW r \in Requests, select(t, r.fds, r.timed)
    PROVE  SelectInv'
<1>1. PICK c : c = [at |-> "select", rest |-> r.fds, timed |-> r.timed]
    OBVIOUS
<1>2. /\ Runs(t) /\ code[t].at = "idle" /\ Goto(t, c)
      /\ wakeupSync' = [wakeupSync EXCEPT ![t] = FALSE]
      /\ orig' = [orig EXCEPT ![t] = r.fds] /\ found' = [found EXCEPT ![t] = {}]
      /\ UNCHANGED <<ipcVars, listVars, pendedOnSelect, lifeVars, untold>>
    BY <1>1 DEF select, At
<1>3. IsQueue(r.fds, Fds) /\ r.timed \in BOOLEAN
  <2>1. IsRequest(r)
      BY SelectAssumption
  <2>2. PICK s \in Seq(Fds) : s = r.fds
      BY <2>1 DEF IsRequest
  <2>3. DOMAIN s = 1..Len(s)
      OBVIOUS
  <2> QED BY <2>1, <2>2, <2>3 DEF IsRequest, IsQueue
<1>4. c \in Requesting /\ c.at = "select" /\ c.rest = r.fds
    BY <1>1, <1>3 DEF Requesting, IsQueue
<1>5. t \in Actors
    BY DEF Actors
<1>6. code'[t] = c
    BY <1>2, <1>5, OneGoes DEF SelectInv
<1>7. CodeOK'
  <2>1. t # exc
      BY SelectAssumption
  <2> QED BY <1>2, <1>4, <1>5, <2>1, CodeKept DEF SelectInv, lifeVars
<1>8. orig'[t] = r.fds /\ wakeupSync'[t] = FALSE
    BY <1>2 DEF SelectInv, StateOK
<1>9. /\ wakeupSync' \in [Tasks -> BOOLEAN] /\ orig' \in [Tasks -> Seq(Fds)]
      /\ found' \in [Tasks -> SUBSET Fds] /\ pendedOnSelect' \in [Tasks -> BOOLEAN]
    BY <1>2, <1>3 DEF SelectInv, StateOK, IsQueue
<1>10. CallOK(t)'
  <2>1. Noted(t) = {} /\ Noted(t)' = {} /\ Looked(t)' = {}
      BY <1>2, <1>4, <1>6, <1>8 DEF Noted, Looked
  <2>2. RestOK(t)' /\ WakeupOK(t)'
      BY <1>3, <1>4, <1>6, <1>8, <2>1 DEF RestOK, WakeupOK
  <2> QED BY <1>2, <2>1, <2>2, OwnStep DEF SelectInv, listVars, Runs, lifeVars
<1>11. SelectStep(t) /\ ~OnItsWay(t)
    BY <1>2 DEF SelectStep, SelectInv, StateOK, OnItsWay, listVars
<1> QED BY <1>2, <1>7, <1>9, <1>10, <1>11, SelectSteps

\* The look at a device, behind its node.
LEMMA LookKeeps == ASSUME SelectInv, NEW t \in Tasks, Look(t) PROVE SelectInv'
<1>1. t \in Actors /\ t # exc
    BY SelectAssumption DEF Actors
<1>2. code[t].at = "look" /\ Runs(t) /\ code[t] \in Requesting
    BY <1>1, Kinds DEF Look, At, SelectInv
<1>3. PICK r \in Seq(Fds) : r = code[t].rest
    BY <1>2 DEF Requesting
<1>4. r # <<>> /\ Head(r) \in PipeFds /\ IsQueue(r, Fds) /\ Range(r) \subseteq Range(orig[t])
    BY <1>2, <1>3 DEF SelectInv, CodeOK, CallOK, RestOK, Selects
<1>5. PICK fd \in PipeFds : fd = Head(r)
    BY <1>4
<1>6. /\ fd \in Range(r) /\ fd \in Fds
      /\ IsQueue(Tail(r), Fds) /\ Range(Tail(r)) = Range(r) \ {fd}
    BY <1>4, <1>5, TailNodes
<1>7. PICK c : c = [at |-> "select", rest |-> Tail(r), timed |-> code[t].timed]
    OBVIOUS
<1>8. /\ Goto(t, c)
      /\ IF Ready(fd) THEN /\ found' = [found EXCEPT ![t] = @ \cup {fd}]
                           /\ wakeupSync' = [wakeupSync EXCEPT ![t] = TRUE]
                      ELSE UNCHANGED <<found, wakeupSync>>
      /\ UNCHANGED <<ipcVars, listVars, orig, pendedOnSelect, lifeVars, untold>>
  <2>1. c = [Rest(t) EXCEPT !.at = "select"]
      BY <1>2, <1>3, <1>7, Moves DEF Rest
  <2> QED BY <1>3, <1>5, <2>1 DEF Look
<1>9. c \in Requesting /\ c.at = "select" /\ c.rest = Tail(r)
    BY <1>2, <1>6, <1>7 DEF Requesting, IsQueue
<1>10. code'[t] = c
    BY <1>1, <1>8, OneGoes DEF SelectInv
<1>11. CodeOK'
    BY <1>1, <1>8, <1>9, CodeKept DEF SelectInv, lifeVars
<1>12. /\ wakeupSync' \in [Tasks -> BOOLEAN] /\ orig' \in [Tasks -> Seq(Fds)]
       /\ found' \in [Tasks -> SUBSET Fds] /\ pendedOnSelect' \in [Tasks -> BOOLEAN]
  <2>1. found[t] \cup {fd} \in SUBSET Fds
      BY <1>6 DEF SelectInv, StateOK
  <2>2. found' \in [Tasks -> SUBSET Fds] /\ wakeupSync' \in [Tasks -> BOOLEAN]
      BY <1>8, <2>1 DEF SelectInv, StateOK
  <2> QED BY <1>8, <2>2 DEF SelectInv, StateOK
<1>13. SelectStep(t) /\ ~OnItsWay(t)
    BY <1>2, <1>8 DEF SelectStep, SelectInv, StateOK, OnItsWay, listVars
<1>14. RestOK(t)'
    BY <1>4, <1>6, <1>8, <1>9, <1>10 DEF RestOK
<1>15. Noted(t)' = Noted(t) /\ Looked(t)' \subseteq Looked(t) \cup {fd}
    BY <1>2, <1>3, <1>6, <1>8, <1>9, <1>10 DEF Noted, Looked
<1>16. WakeupOK(t)'
  <2>1. CASE Ready(fd)
    <3>1. wakeupSync'[t] /\ found'[t] # {}
        BY <1>8, <2>1 DEF SelectInv, StateOK
    <3> QED BY <3>1 DEF WakeupOK
  <2>2. CASE ~Ready(fd)
    <3>1. UNCHANGED <<found, wakeupSync>>
        BY <1>8, <2>2
    <3>2. \A f \in PipeFds : (Ready(f)' <=> Ready(f)) /\ (Told(f) => Told(f)')
        BY <1>1, <1>8, <1>13, NothingTold DEF SelectInv
    <3>3. \A f \in Looked(t)' \cap PipeFds : Ready(f)' => f \in Looked(t)
        BY <1>15, <2>2, <3>2
    <3>4. WakeupOK(t) /\ Selects(t)
        BY <1>2 DEF SelectInv, CallOK, Selects
    <3> QED BY <3>1, <3>2, <3>3, <3>4 DEF WakeupOK
  <2> QED BY <2>1, <2>2
<1>17. CallOK(t)'
    BY <1>2, <1>8, <1>14, <1>15, <1>16, OwnStep
       DEF SelectInv, Selects, Runs, lifeVars, listVars
<1> QED BY <1>8, <1>11, <1>12, <1>13, <1>17, SelectSteps

\* All descriptors have been looked at.
LEMMA PendKeeps == ASSUME SelectInv, NEW t \in Tasks, Pend(t) PROVE SelectInv'
<1>1. t \in Actors /\ t # exc
    BY SelectAssumption DEF Actors
<1>2. /\ code[t].at = "select" /\ Runs(t) /\ code[t] \in Requesting /\ code[t].rest = <<>>
    BY <1>1, Kinds DEF Pend, At, SelectInv
<1>3. PICK c : c = [at |-> "wait", rest |-> code[t].rest, timed |-> code[t].timed]
    OBVIOUS
<1>4. /\ Goto(t, c) /\ pendedOnSelect' = [pendedOnSelect EXCEPT ![t] = TRUE]
      /\ UNCHANGED <<ipcVars, listVars, wakeupSync, orig, found, lifeVars, untold>>
  <2>1. c = [code[t] EXCEPT !.at = "wait"]
      BY <1>2, <1>3, Moves
  <2> QED BY <2>1 DEF Pend
<1>5. c \in Requesting /\ c.at = "wait" /\ c.rest = code[t].rest
    BY <1>2, <1>3 DEF Requesting
<1>6. code'[t] = c
    BY <1>1, <1>4, OneGoes DEF SelectInv
<1>7. CodeOK'
    BY <1>1, <1>2, <1>4, <1>5, CodeKept DEF SelectInv, lifeVars
<1>8. /\ wakeupSync' \in [Tasks -> BOOLEAN] /\ orig' \in [Tasks -> Seq(Fds)]
      /\ found' \in [Tasks -> SUBSET Fds] /\ pendedOnSelect' \in [Tasks -> BOOLEAN]
    BY <1>4 DEF SelectInv, StateOK
<1>9. SelectStep(t) /\ ~OnItsWay(t)
    BY <1>2, <1>4 DEF SelectStep, OnItsWay, listVars
<1>10. Selects(t) /\ Noted(t)' = Noted(t) /\ Looked(t)' = Looked(t)
    BY <1>2, <1>4, <1>5, <1>6 DEF Noted, Looked, Selects
<1>11. RestOK(t)' /\ WakeupOK(t)'
  <2>1. \A f \in PipeFds : (Ready(f)' <=> Ready(f)) /\ (Told(f) => Told(f)')
      BY <1>1, <1>4, <1>9, NothingTold DEF SelectInv
  <2> QED BY <1>4, <1>5, <1>6, <1>10, <2>1 DEF RestOK, WakeupOK, CallOK, SelectInv
<1>12. CallOK(t)'
    BY <1>2, <1>4, <1>10, <1>11, OwnStep DEF SelectInv, Runs, lifeVars, listVars
<1> QED BY <1>4, <1>7, <1>8, <1>9, <1>12, SelectSteps

\* A call is over for select: what is left is to take its nodes out.
LEMMA BackKeeps ==
    ASSUME SelectInv, NEW t \in Tasks, SelectStep(t), ~OnItsWay(t), UNCHANGED found,
           wakeupSync' \in [Tasks -> BOOLEAN], UNCHANGED <<orig, pendedOnSelect>>,
           Selects(t), Goto(t, [at |-> "unselect", rest |-> orig[t]])
    PROVE  SelectInv'
<1>1. t \in Actors /\ t # exc
    BY SelectAssumption DEF Actors
<1>2. PICK c : c = [at |-> "unselect", rest |-> orig[t]]
    OBVIOUS
<1>3. c \in Unselecting /\ c.at = "unselect" /\ c.rest = orig[t]
    BY <1>2 DEF Unselecting, SelectInv, StateOK
<1>4. code'[t] = c
    BY <1>1, <1>2, OneGoes DEF SelectInv
<1>5. CodeOK'
    BY <1>1, <1>2, <1>3, CodeKept DEF SelectInv, lifeVars, SelectStep
<1>6. Noted(t) \subseteq Noted(t)' /\ ~Selects(t)'
    BY <1>3, <1>4 DEF Noted, Selects
<1>7. CallOK(t)'
    BY <1>6, NotSelecting DEF SelectInv, CallOK, SelectStep, Runs, lifeVars
<1>8. /\ orig' \in [Tasks -> Seq(Fds)] /\ found' \in [Tasks -> SUBSET Fds]
      /\ pendedOnSelect' \in [Tasks -> BOOLEAN]
    BY DEF SelectInv, StateOK
<1> QED BY <1>2, <1>5, <1>7, <1>8, SelectSteps

\* A driver knows no FIOSELECT, or the wait is over.
LEMMA FailsKeeps == ASSUME SelectInv, NEW t \in Tasks, SelectFails(t) PROVE SelectInv'
<1>1. /\ Runs(t) /\ code[t].at = "select" /\ Goto(t, [at |-> "unselect", rest |-> orig[t]])
      /\ UNCHANGED <<ipcVars, listVars, taskVars, lifeVars, untold>>
    BY DEF SelectFails, At
<1>2. SelectStep(t) /\ ~OnItsWay(t) /\ Selects(t)
    BY <1>1 DEF SelectStep, OnItsWay, Selects, listVars, taskVars
<1> QED BY <1>1, <1>2, BackKeeps DEF taskVars, SelectInv, StateOK

\* With a wakeup or with the timeout, the nodes are taken out.
LEMMA WaitEndsKeeps == ASSUME SelectInv, NEW t \in Tasks, WaitEnds(t) PROVE SelectInv'
<1>1. /\ Runs(t) /\ code[t].at = "wait" /\ Goto(t, [at |-> "unselect", rest |-> orig[t]])
      /\ wakeupSync' = [wakeupSync EXCEPT ![t] = FALSE]
      /\ UNCHANGED <<ipcVars, listVars, orig, found, pendedOnSelect, lifeVars, untold>>
    BY DEF WaitEnds, At
<1>2. SelectStep(t) /\ ~OnItsWay(t) /\ Selects(t)
    BY <1>1 DEF SelectStep, OnItsWay, Selects, listVars, SelectInv, StateOK
<1>3. wakeupSync' \in [Tasks -> BOOLEAN]
    BY <1>1 DEF SelectInv, StateOK
<1> QED BY <1>1, <1>2, <1>3, BackKeeps

\* The call returns.
LEMMA ReturnKeeps == ASSUME SelectInv, NEW t \in Tasks, Return(t) PROVE SelectInv'
<1>1. t \in Actors /\ t # exc
    BY SelectAssumption DEF Actors
<1>2. /\ Runs(t) /\ code[t].at = "unselect" /\ code[t].rest = <<>> /\ Goto(t, Idle)
      /\ pendedOnSelect' = [pendedOnSelect EXCEPT ![t] = FALSE]
      /\ orig' = [orig EXCEPT ![t] = <<>>] /\ found' = [found EXCEPT ![t] = {}]
      /\ UNCHANGED <<ipcVars, listVars, wakeupSync, lifeVars, untold>>
    BY DEF Return, At
<1>3. code'[t] = Idle
    BY <1>1, <1>2, OneGoes DEF SelectInv
<1>4. CodeOK'
    BY <1>1, <1>2, CodeKept DEF SelectInv, lifeVars, Idle
<1>5. Noted(t) = {} /\ ~Selects(t)'
  <2>1. Range(<<>>) = {}
      BY DEF Range
  <2> QED BY <1>2, <1>3, <2>1 DEF Noted, Selects, Idle
<1>6. CallOK(t)'
    BY <1>2, <1>5, NotSelecting DEF SelectInv, CallOK, Runs, lifeVars, listVars
<1>7. <<>> \in Seq(Fds)
    OBVIOUS
<1>8. /\ wakeupSync' \in [Tasks -> BOOLEAN] /\ orig' \in [Tasks -> Seq(Fds)]
      /\ found' \in [Tasks -> SUBSET Fds] /\ pendedOnSelect' \in [Tasks -> BOOLEAN]
    BY <1>2, <1>7 DEF SelectInv, StateOK
<1>9. SelectStep(t) /\ ~OnItsWay(t)
    BY <1>2 DEF SelectStep, OnItsWay, listVars, SelectInv, StateOK
<1> QED BY <1>2, <1>4, <1>6, <1>8, <1>9, SelectSteps

-----------------------------------------------------------------------------
(***************************************************************************)
(* Nodes.                                                                  *)
(***************************************************************************)
\* A list changes, with its mutex, for one call.
ListStep(t, p, list) ==
    /\ Runs(t) /\ UNCHANGED <<ipcVars, taskVars, lifeVars, untold>>
    /\ MutexGive(p) /\ wakeupList' = [wakeupList EXCEPT ![p] = list]

\* A step that changes a list changes the nodes of one call.
LEMMA ListSteps ==
    ASSUME SelectInv, NEW t \in Tasks, NEW p \in Pipes, NEW list, ListStep(t, p, list),
           IsQueue(list, WakeupNodes), ~OnItsWay(t), NEW c, Goto(t, c), CodeOK', CallOK(t)',
           \A u \in Tasks \ {t}, type \in Types :
              Runs(u) => (Node(u, <<type, p>>) \in Range(list)
                          <=> Node(u, <<type, p>>) \in Range(wakeupList[p]))
    PROVE  SelectInv'
<1>1. t \in Actors
    BY DEF Actors
<1>2. \A u \in Actors \ {t} : code'[u] = code[u]
    BY <1>1, OneGoes DEF SelectInv
<1>3. list \in Seq(WakeupNodes) /\ wakeupList' \in [Pipes -> Seq(WakeupNodes)]
    BY DEF IsQueue, ListStep, SelectInv, StateOK
<1>4. StateOK'
  <2>1. owner' \in [Pipes -> Actors \cup {NULL}] /\ waiters' \in [Pipes -> Seq(Actors)]
      BY MutexTypes DEF SelectInv, ListStep
  <2> QED BY <1>3, <2>1 DEF StateOK, SelectInv, ListStep, ipcVars, taskVars, lifeVars
<1>5. ListsOK'
    BY DEF ListsOK, ListStep, SelectInv, StateOK
<1>6. StaysTold(PipeFds)
    BY <1>1, NothingTold DEF StaysTold, SelectInv, ListStep
<1>7. ASSUME NEW u \in Tasks PROVE CallOK(u)'
  <2>1. CASE u = t
      BY <2>1
  <2>2. CASE u # t
    <3>1. code'[u] = code[u]
        BY <1>2, <2>2 DEF Actors
    <3>2. ASSUME Runs(u), NEW fd \in PipeFds PROVE Listed(u, fd)' <=> Listed(u, fd)
      <4>1. PICK type \in Types, q \in Pipes : fd = <<type, q>>
          BY <3>2 DEF PipeFds
      <4>2. CASE q = p
        <5>1. wakeupList'[p] = list
            BY DEF ListStep, SelectInv, StateOK
        <5> QED BY <2>2, <3>2, <4>1, <4>2, <5>1 DEF Listed, Node
      <4>3. CASE q # p
        <5>1. wakeupList'[q] = wakeupList[q]
            BY <4>3 DEF ListStep, SelectInv, StateOK
        <5> QED BY <4>1, <5>1 DEF Listed, Node
      <4> QED BY <4>2, <4>3
    <3>3. Undisturbed(u)
        BY <3>1, <3>2 DEF Undisturbed, Runs, Selects, Noted, ListStep, taskVars, lifeVars
    <3>4. Looked(u) \cap PipeFds \subseteq PipeFds
        OBVIOUS
    <3> QED BY <1>6, <3>3, <3>4, UndisturbedKeeps DEF SelectInv
  <2> QED BY <2>1, <2>2
<1> QED BY <1>4, <1>5, <1>7 DEF SelectInv

\* FIOSELECT adds a node for the first descriptor that is left.
LEMMA AddKeeps == ASSUME SelectInv, NEW t \in Tasks, selNodeAdd(t) PROVE SelectInv'
<1>1. t \in Actors /\ t # exc
    BY SelectAssumption DEF Actors
<1>2. PICK p : p = ListOf(t)
    OBVIOUS
<1>3. code[t].at = "select" /\ Runs(t) /\ code[t] \in Requesting /\ p \in Pipes
    BY <1>1, <1>2, Kinds DEF selNodeAdd, Has, At, SelectInv
<1>4. PICK r \in Seq(Fds) : r = code[t].rest
    BY <1>3 DEF Requesting
<1>5. r # <<>> /\ IsQueue(r, Fds) /\ Range(r) \subseteq Range(orig[t])
  <2>1. r # <<>>
      BY <1>2, <1>3, <1>4, SelectAssumption DEF ListOf
  <2> QED BY <1>3, <1>4, <2>1 DEF SelectInv, CallOK, RestOK, Selects
<1>6. PICK fd : fd = Head(r)
    OBVIOUS
<1>7. fd \in Range(r) /\ fd \in Fds /\ Range(Tail(r)) = Range(r) \ {fd}
    BY <1>5, <1>6, TailNodes
<1>8. fd[2] = p /\ fd \in PipeFds /\ fd = <<fd[1], p>> /\ fd[1] \in Types
  <2>1. fd[2] = p
      BY <1>2, <1>3, <1>4, <1>5, <1>6 DEF ListOf
  <2> QED BY <1>3, <1>7, <2>1 DEF Fds, PipeFds
<1>9. PICK n \in WakeupNodes : n = Node(t, fd)
    BY <1>8 DEF WakeupNodes, Node
<1>10. PICK list : list = Append(wakeupList[p], n)
    OBVIOUS
<1>11. PICK c : c = [at |-> "look", rest |-> r, timed |-> code[t].timed]
    OBVIOUS
<1>12. ListStep(t, p, list) /\ Goto(t, c)
  <2>1. c = [code[t] EXCEPT !.at = "look"]
      BY <1>3, <1>4, <1>11, Moves
  <2> QED BY <1>2, <1>3, <1>4, <1>6, <1>9, <1>10, <2>1 DEF selNodeAdd, ListStep, Node
<1>13. c \in Requesting /\ c.at = "look" /\ c.rest = r
    BY <1>3, <1>4, <1>11 DEF Requesting
<1>14. code'[t] = c
    BY <1>1, <1>12, OneGoes DEF SelectInv
<1>15. CodeOK'
    BY <1>1, <1>5, <1>6, <1>8, <1>12, <1>13, CodeKept DEF SelectInv, ListStep, lifeVars
<1>16. CallOK(t) /\ Selects(t) /\ NodesOK(t)
    BY <1>3 DEF SelectInv, Selects, CallOK
<1>17. n \notin Range(wakeupList[p])
    BY <1>3, <1>4, <1>7, <1>8, <1>9, <1>16 DEF NodesOK, Listed, Noted
<1>18. IsQueue(list, WakeupNodes) /\ Range(list) = Range(wakeupList[p]) \cup {n}
    BY <1>3, <1>10, <1>17, AppendNode DEF SelectInv, ListsOK
<1>19. Selects(t)' /\ Noted(t)' = Noted(t) \cup {fd} /\ Looked(t)' = Looked(t)
  <2>1. orig' = orig
      BY <1>12 DEF ListStep, taskVars
  <2> QED BY <1>3, <1>4, <1>5, <1>7, <1>12, <1>13, <1>14, <2>1
             DEF Selects, Noted, Looked, Runs, ListStep, lifeVars
<1>20. RestOK(t)'
    BY <1>5, <1>12, <1>13, <1>14 DEF RestOK, ListStep, taskVars
<1>21. WakeupOK(t)'
  <2>1. ~OnItsWay(t)
      BY <1>3 DEF OnItsWay
  <2>2. \A f \in PipeFds : (Ready(f)' <=> Ready(f)) /\ (Told(f) => Told(f)')
      BY <1>1, <1>12, <2>1, NothingTold DEF SelectInv, ListStep
  <2> QED BY <1>12, <1>16, <1>19, <2>2 DEF WakeupOK, CallOK, ListStep, taskVars
<1>22. NodesOK(t)'
  <2> SUFFICES ASSUME NEW f \in PipeFds PROVE Listed(t, f)' <=> f \in Noted(t)'
      BY DEF NodesOK
  <2>1. Listed(t, f) <=> f \in Noted(t)
      BY <1>16 DEF NodesOK, Selects
  <2>2. PICK type \in Types, q \in Pipes : f = <<type, q>>
      BY DEF PipeFds
  <2>3. CASE q = p
    <3>1. wakeupList'[p] = list
        BY <1>3, <1>12 DEF ListStep, SelectInv, StateOK
    <3>2. Node(t, f) = n <=> f = fd
        BY <1>8, <1>9, <2>2, <2>3 DEF Node
    <3>3. Listed(t, f)' <=> Listed(t, f) \/ f = fd
        BY <1>18, <2>2, <2>3, <3>1, <3>2 DEF Listed, Node
    <3> QED BY <1>19, <2>1, <3>3
  <2>4. CASE q # p
    <3>1. wakeupList'[q] = wakeupList[q]
        BY <1>12, <2>4 DEF ListStep, SelectInv, StateOK
    <3>2. Listed(t, f)' <=> Listed(t, f)
        BY <2>2, <3>1 DEF Listed, Node
    <3>3. f # fd
        BY <1>8, <2>2, <2>4
    <3> QED BY <1>19, <2>1, <3>2, <3>3
  <2> QED BY <2>3, <2>4
<1>23. \A u \in Tasks \ {t}, type \in Types :
          Node(u, <<type, p>>) \in Range(list) <=> Node(u, <<type, p>>) \in Range(wakeupList[p])
    BY <1>9, <1>18 DEF Node
<1>24. CallOK(t)' /\ ~OnItsWay(t)
    BY <1>3, <1>20, <1>21, <1>22 DEF CallOK, OnItsWay
<1> QED BY <1>3, <1>12, <1>15, <1>18, <1>23, <1>24, ListSteps

\* FIOUNSELECT takes the node out again.
LEMMA UnselectKeeps == ASSUME SelectInv, NEW t \in Tasks, Unselect(t) PROVE SelectInv'
<1>1. t \in Actors /\ t # exc
    BY SelectAssumption DEF Actors
<1>2. PICK p : p = ListOf(t)
    OBVIOUS
<1>3. code[t].at = "unselect" /\ Runs(t) /\ code[t] \in Unselecting /\ p \in Pipes
    BY <1>1, <1>2, Kinds DEF Unselect, Has, At, SelectInv
<1>4. PICK r \in Seq(Fds) : r = code[t].rest
    BY <1>3 DEF Unselecting
<1>5. r # <<>>
    BY <1>2, <1>3, <1>4, SelectAssumption DEF ListOf
<1>6. PICK fd : fd = Head(r)
    OBVIOUS
<1>7. fd \in Fds /\ Range(r) = Range(Tail(r)) \cup {fd} /\ Tail(r) \in Seq(Fds)
    BY <1>5, <1>6, TailRange
<1>8. fd \in PipeFds /\ fd = <<fd[1], p>>
  <2>1. fd[2] = p
      BY <1>2, <1>3, <1>4, <1>5, <1>6 DEF ListOf
  <2> QED BY <1>3, <1>7, <2>1 DEF Fds, PipeFds
<1>9. PICK n : n = Node(t, fd)
    OBVIOUS
<1>10. PICK list : list = Without(wakeupList[p], n)
    OBVIOUS
<1>11. PICK c : c = [at |-> "unselect", rest |-> Tail(r)]
    OBVIOUS
<1>12. ListStep(t, p, list) /\ Goto(t, c)
  <2>1. c = Rest(t)
      BY <1>3, <1>4, <1>11, Moves DEF Rest
  <2> QED BY <1>2, <1>3, <1>4, <1>6, <1>9, <1>10, <2>1
             DEF Unselect, selNodeDelete, ListStep, Node
<1>13. c \in Unselecting /\ c.at = "unselect" /\ c.rest = Tail(r)
    BY <1>7, <1>11 DEF Unselecting
<1>14. code'[t] = c
    BY <1>1, <1>12, OneGoes DEF SelectInv
<1>15. CodeOK'
    BY <1>1, <1>12, <1>13, CodeKept DEF SelectInv, ListStep, lifeVars
<1>16. IsQueue(list, WakeupNodes) /\ Range(list) = Range(wakeupList[p]) \ {n}
    BY <1>3, <1>10, WithoutNode DEF SelectInv, ListsOK
<1>17. ~Selects(t)' /\ Noted(t) = Range(r) /\ Noted(t)' = Range(Tail(r))
    BY <1>3, <1>4, <1>13, <1>14 DEF Selects, Noted
<1>18. NodesOK(t)'
  <2> SUFFICES ASSUME NEW f \in PipeFds, Listed(t, f)' PROVE f \in Noted(t)'
      BY <1>17 DEF NodesOK
  <2>1. PICK type \in Types, q \in Pipes : f = <<type, q>>
      BY DEF PipeFds
  <2>2. wakeupList'[q] = IF q = p THEN list ELSE wakeupList[q]
      BY <1>3, <1>12 DEF ListStep, SelectInv, StateOK
  <2>3. Listed(t, f) /\ (q = p => Node(t, f) # n)
      BY <1>16, <2>1, <2>2 DEF Listed, Node
  <2>4. f \in Range(r)
      BY <1>3, <1>17, <2>3 DEF SelectInv, CallOK, NodesOK
  <2>5. f # fd
      BY <1>8, <1>9, <2>1, <2>3
  <2> QED BY <1>7, <1>17, <2>4, <2>5
<1>19. CallOK(t)' /\ ~OnItsWay(t)
    BY <1>3, <1>17, <1>18 DEF CallOK, RestOK, WakeupOK, OnItsWay
<1>20. \A u \in Tasks \ {t}, type \in Types :
          Node(u, <<type, p>>) \in Range(list) <=> Node(u, <<type, p>>) \in Range(wakeupList[p])
    BY <1>9, <1>16 DEF Node
<1> QED BY <1>3, <1>12, <1>15, <1>16, <1>19, <1>20, ListSteps

\* The delete hook does so for the victim.
LEMMA HookKeeps == ASSUME SelectInv, NEW t \in Tasks, selTaskDeleteHook(t) PROVE SelectInv'
<1>1. t \in Actors /\ t # exc
    BY SelectAssumption DEF Actors
<1>2. PICK p : p = ListOf(t)
    OBVIOUS
<1>3. code[t].at = "hook" /\ Runs(t) /\ code[t] \in Deleting /\ p \in Pipes
    BY <1>1, <1>2, Kinds DEF selTaskDeleteHook, Has, At, SelectInv
<1>4. PICK v \in Tasks, r \in Seq(Fds) : v = code[t].victim /\ r = code[t].rest
    BY <1>3 DEF Deleting
<1>5. v \in suspended /\ ~Runs(v) /\ v # t
    BY <1>3, <1>4 DEF SelectInv, CodeOK, Runs
<1>6. r # <<>>
    BY <1>2, <1>3, <1>4, SelectAssumption DEF ListOf
<1>7. Tail(r) \in Seq(Fds)
    BY <1>6, TailRange
<1>8. PICK n : n = [task |-> v, type |-> Head(r)[1]]
    OBVIOUS
<1>9. PICK list : list = Without(wakeupList[p], n)
    OBVIOUS
<1>10. PICK c : c = [at |-> "hook", victim |-> v, rest |-> Tail(r)]
    OBVIOUS
<1>11. ListStep(t, p, list) /\ Goto(t, c)
  <2>1. c = Rest(t)
      BY <1>3, <1>4, <1>10, Moves DEF Rest
  <2> QED BY <1>2, <1>3, <1>4, <1>8, <1>9, <2>1
             DEF selTaskDeleteHook, selNodeDelete, ListStep
<1>12. c \in Deleting /\ c.at = "hook" /\ c.victim = v
    BY <1>7, <1>10 DEF Deleting
<1>13. code'[t] = c
    BY <1>1, <1>11, OneGoes DEF SelectInv
<1>14. CodeOK'
    BY <1>1, <1>5, <1>11, <1>12, CodeKept DEF SelectInv, ListStep, lifeVars
<1>15. IsQueue(list, WakeupNodes) /\ Range(list) = Range(wakeupList[p]) \ {n}
    BY <1>3, <1>9, WithoutNode DEF SelectInv, ListsOK
<1>16. \A u \in Tasks \ {v}, type \in Types :
          Node(u, <<type, p>>) \in Range(list) <=> Node(u, <<type, p>>) \in Range(wakeupList[p])
    BY <1>8, <1>15 DEF Node
<1>17. ~Selects(t)' /\ Noted(t) = {}
    BY <1>3, <1>12, <1>13 DEF Selects, Noted
<1>18. NodesOK(t)'
  <2> SUFFICES ASSUME NEW f \in PipeFds, Listed(t, f)' PROVE FALSE
      BY <1>17 DEF NodesOK
  <2>1. PICK type \in Types, q \in Pipes : f = <<type, q>>
      BY DEF PipeFds
  <2>2. wakeupList'[q] = IF q = p THEN list ELSE wakeupList[q]
      BY <1>3, <1>11 DEF ListStep, SelectInv, StateOK
  <2>3. Listed(t, f)
      BY <1>15, <2>1, <2>2 DEF Listed, Node
  <2> QED BY <1>3, <1>17, <2>3 DEF SelectInv, CallOK, NodesOK
<1>19. CallOK(t)' /\ ~OnItsWay(t)
    BY <1>3, <1>17, <1>18 DEF CallOK, RestOK, WakeupOK, OnItsWay
<1> QED BY <1>3, <1>5, <1>11, <1>14, <1>15, <1>16, <1>19, ListSteps

\* A driver that has no FIOUNSELECT has no list either.
LEMMA PlainKeeps == ASSUME SelectInv, NEW t \in Tasks, UnselectPlain(t) PROVE SelectInv'
<1>1. t \in Actors /\ t # exc
    BY SelectAssumption DEF Actors
<1>2. /\ Runs(t) /\ code[t].at \in {"unselect", "hook"} /\ ListOf(t) \in Plain
      /\ Goto(t, Rest(t)) /\ UNCHANGED <<ipcVars, listVars, taskVars, lifeVars, untold>>
    BY DEF UnselectPlain, At
<1>3. SelectStep(t) /\ ~OnItsWay(t)
    BY <1>2 DEF SelectStep, OnItsWay, listVars, taskVars
<1>4. /\ wakeupSync' \in [Tasks -> BOOLEAN] /\ orig' \in [Tasks -> Seq(Fds)]
      /\ found' \in [Tasks -> SUBSET Fds] /\ pendedOnSelect' \in [Tasks -> BOOLEAN]
    BY <1>2 DEF SelectInv, StateOK, taskVars
<1>5. CASE code[t].at = "unselect"
  <2>1. code[t] \in Unselecting
      BY <1>1, <1>5, Kinds DEF SelectInv
  <2>2. PICK r \in Seq(Fds) : r = code[t].rest
      BY <2>1 DEF Unselecting
  <2>3. PICK x : x = Tail(r)
      OBVIOUS
  <2>4. PICK c : c = [at |-> "unselect", rest |-> x]
      OBVIOUS
  <2>5. Rest(t) = c
      BY <2>1, <2>2, <2>3, <2>4, Moves DEF Rest
  <2>6. \A fd \in PipeFds : fd \in Range(r) => fd \in Range(x)
    <3> SUFFICES ASSUME NEW fd \in PipeFds, fd \in Range(r) PROVE fd \in Range(x)
        OBVIOUS
    <3>1. r # <<>>
      <4>1. Range(<<>>) = {}
          BY DEF Range
      <4> QED BY <4>1
    <3>2. Range(r) = Range(x) \cup {Head(r)}
        BY <2>3, <3>1, TailRange
    <3>3. Head(r)[2] \in Plain
        BY <1>2, <1>5, <2>2, <3>1 DEF ListOf
    <3>4. Head(r) \notin PipeFds
        BY <3>3, SelectAssumption DEF PipeFds
    <3> QED BY <3>2, <3>4
  <2>7. x \in Seq(Fds)
    <3>1. r # <<>>
        BY <1>2, <1>5, <2>2, SelectAssumption DEF ListOf
    <3> QED BY <2>3, <3>1, TailRange
  <2>8. c \in Unselecting /\ c.at = "unselect" /\ c.rest = x
      BY <2>4, <2>7 DEF Unselecting
  <2>9. code'[t] = c
      BY <1>1, <1>2, <2>5, OneGoes DEF SelectInv
  <2>10. CodeOK'
      BY <1>1, <1>2, <2>5, <2>8, CodeKept DEF SelectInv, lifeVars
  <2>11. ~Selects(t)' /\ Noted(t) \cap PipeFds \subseteq Noted(t)'
      BY <1>5, <2>2, <2>6, <2>8, <2>9 DEF Selects, Noted
  <2>12. CallOK(t)'
      BY <1>2, <2>11, NotSelecting DEF SelectInv, CallOK, Runs, lifeVars, listVars
  <2> QED BY <1>2, <1>3, <1>4, <2>10, <2>12, SelectSteps
<1>6. CASE code[t].at = "hook"
  <2>1. code[t] \in Deleting
      BY <1>1, <1>6, Kinds DEF SelectInv
  <2>2. PICK v \in Tasks, r \in Seq(Fds) : v = code[t].victim /\ r = code[t].rest
      BY <2>1 DEF Deleting
  <2>3. Tail(r) \in Seq(Fds)
    <3>1. r # <<>>
        BY <1>2, <1>6, <2>2, SelectAssumption DEF ListOf
    <3> QED BY <3>1, TailRange
  <2>4. PICK c : c = [at |-> "hook", victim |-> v, rest |-> Tail(r)]
      OBVIOUS
  <2>5. Rest(t) = c
      BY <2>1, <2>2, <2>4, Moves DEF Rest
  <2>6. c \in Deleting /\ c.at = "hook" /\ c.victim = v
      BY <2>3, <2>4 DEF Deleting
  <2>7. v \in suspended
      BY <1>6, <2>2 DEF SelectInv, CodeOK
  <2>8. code'[t] = c
      BY <1>1, <1>2, <2>5, OneGoes DEF SelectInv
  <2>9. CodeOK'
      BY <1>1, <1>2, <2>5, <2>6, <2>7, CodeKept DEF SelectInv, lifeVars
  <2>10. ~Selects(t)' /\ Noted(t) = {}
      BY <1>6, <2>6, <2>8 DEF Selects, Noted
  <2>11. CallOK(t)'
      BY <1>2, <2>10, NotSelecting DEF SelectInv, CallOK, Runs, lifeVars, listVars
  <2> QED BY <1>2, <1>3, <1>4, <2>9, <2>11, SelectSteps
<1> QED BY <1>2, <1>5, <1>6

-----------------------------------------------------------------------------
(***************************************************************************)
(* Pipes, handlers and the exception task.                                 *)
(***************************************************************************)
\* A step outside of select.
OtherStep ==
    /\ UNCHANGED <<wakeupList, taskVars>>
    /\ suspended \subseteq suspended' /\ dead \subseteq dead'

\* Nothing of a call changes, as long as somebody is still told.
LEMMA OtherSteps ==
    ASSUME SelectInv, NEW t \in Actors, Runs(t), ~Selects(t), NEW c, Goto(t, c), OtherStep,
           code[t].at # "unselect", CodeOK', StateOK', StaysTold(PipeFds),
           c.at \notin {"select", "look", "wait"}
    PROVE  SelectInv'
<1>1. code'[t] = c /\ \A u \in Actors \ {t} : code'[u] = code[u]
    BY OneGoes DEF SelectInv
<1>2. Apart(t)
    BY <1>1 DEF Apart, OtherStep, taskVars, Listed
<1>3. ListsOK'
    BY DEF ListsOK, OtherStep, SelectInv
<1>4. t \in Tasks => CallOK(t)'
  <2> SUFFICES ASSUME t \in Tasks PROVE CallOK(t)'
      OBVIOUS
  <2>1. Noted(t) = {} /\ ~Selects(t)'
      BY <1>1 DEF Noted, Selects
  <2> QED BY <2>1, NotSelecting DEF SelectInv, CallOK, OtherStep
<1> QED BY <1>2, <1>3, <1>4, ApartKeeps

\* Whoever is on its way is still, if it is not this actor.
LEMMA OthersCome ==
    ASSUME CodeOK, NEW t \in Actors, NEW c, Goto(t, c), ~OnItsWay(t), UNCHANGED lifeVars,
           Range(excMsgQ) \subseteq Range(excMsgQ')
    PROVE  \A fd \in PipeFds : WakeupComes(fd) => WakeupComes(fd)'
<1> SUFFICES ASSUME NEW fd \in PipeFds, WakeupComes(fd) PROVE WakeupComes(fd)'
    OBVIOUS
<1>1. CASE fd[1] = "read" /\ fd[2] \in Range(excMsgQ)
    BY <1>1 DEF WakeupComes
<1>2. ASSUME NEW u \in Actors, Runs(u), OnItsWay(u), code[u].pipe = fd[2], code[u].type = fd[1]
      PROVE  WakeupComes(fd)'
  <2>1. u # t /\ code'[u] = code[u]
      BY <1>2, OneGoes
  <2>2. Runs(u)' /\ OnItsWay(u)'
      BY <1>2, <2>1 DEF Runs, lifeVars, OnItsWay
  <2> QED BY <1>2, <2>1, <2>2 DEF WakeupComes
<1> QED BY <1>1, <1>2 DEF WakeupComes

\* What is not told any more is not ready, and what is new is an exception.
LEMMA UntoldKeeps ==
    ASSUME StateOK, NEW fds \in SUBSET PipeFds, Untold(fds)
    PROVE  /\ untold' \subseteq PipeFds
           /\ \A fd \in PipeFds : Ready(fd)' /\ fd \in untold \cup fds => fd \in untold'
BY DEF Untold, StateOK

\* A message more, or one less, changes the readiness of one pipe.
LEMMA OnePipe ==
    ASSUME NEW p \in Pipes, NEW n \in 0..MaxMsg, msgs \in [Pipes -> 0..MaxMsg],
           msgs' = [msgs EXCEPT ![p] = n]
    PROVE  /\ msgs' \in [Pipes -> 0..MaxMsg]
           /\ \A fd \in PipeFds : fd[2] # p => (Ready(fd)' <=> Ready(fd))
           /\ n > msgs[p] => (Ready(<<"write", p>>)' => Ready(<<"write", p>>))
           /\ n < msgs[p] => (Ready(<<"read", p>>)' => Ready(<<"read", p>>))
           /\ \A fd \in PipeFds : fd[2] = p => fd \in {<<"read", p>>, <<"write", p>>}
<1>1. msgs' \in [Pipes -> 0..MaxMsg] /\ msgs'[p] = n
      /\ \A q \in Pipes : q # p => msgs'[q] = msgs[q]
    OBVIOUS
<1>2. MaxMsg \in Nat /\ msgs[p] \in 0..MaxMsg
    BY SelectAssumption
<1>3. ASSUME NEW fd \in PipeFds, fd[2] # p PROVE Ready(fd)' <=> Ready(fd)
    BY <1>1, <1>3 DEF Ready, PipeFds
<1>4. \A fd \in PipeFds : fd[2] = p => fd \in {<<"read", p>>, <<"write", p>>}
    BY DEF PipeFds, Types
<1>5. n > msgs[p] => (Ready(<<"write", p>>)' => Ready(<<"write", p>>))
    BY <1>1, <1>2 DEF Ready
<1>6. n < msgs[p] => (Ready(<<"read", p>>)' => Ready(<<"read", p>>))
    BY <1>1, <1>2 DEF Ready
<1> QED BY <1>1, <1>3, <1>4, <1>5, <1>6

\* A message is sent, and the writer goes to those who wait for it.
LEMMA WriteKeeps ==
    ASSUME SelectInv, NEW t \in Tasks, NEW p \in Pipes, pipeWrite(t, p) PROVE SelectInv'
<1>1. t \in Actors /\ t # exc
    BY SelectAssumption DEF Actors
<1>2. PICK c : c = [at |-> "wake", pipe |-> p, type |-> "read"]
    OBVIOUS
<1>3. PICK n : n = msgs[p] + 1
    OBVIOUS
<1>4. /\ Runs(t) /\ code[t].at = "idle" /\ msgs[p] < MaxMsg /\ msgs' = [msgs EXCEPT ![p] = n]
      /\ MutexTake(t, p) /\ Goto(t, c) /\ Untold({})
      /\ UNCHANGED <<excMsgQ, wakeupList, taskVars, lifeVars>>
    BY <1>2, <1>3 DEF pipeWrite, At
<1>5. n \in 0..MaxMsg /\ n > msgs[p] /\ msgs \in [Pipes -> 0..MaxMsg]
    BY <1>3, <1>4, SelectAssumption DEF SelectInv, StateOK
<1>6. c \in Waking /\ c.at = "wake" /\ c.pipe = p /\ c.type = "read"
    BY <1>2 DEF Waking, Types
<1>7. code'[t] = c
    BY <1>1, <1>4, OneGoes DEF SelectInv
<1>8. CodeOK'
    BY <1>1, <1>4, <1>6, CodeKept DEF SelectInv, lifeVars
<1>9. StateOK'
  <2>1. owner' \in [Pipes -> Actors \cup {NULL}] /\ waiters' \in [Pipes -> Seq(Actors)]
      BY <1>1, <1>4, MutexTypes DEF SelectInv
  <2>2. msgs' \in [Pipes -> 0..MaxMsg]
      BY <1>4, <1>5, OnePipe
  <2>3. untold' \subseteq PipeFds
      BY <1>4, UntoldKeeps DEF SelectInv
  <2> QED BY <1>4, <2>1, <2>2, <2>3 DEF StateOK, SelectInv, taskVars, lifeVars
<1>10. StaysTold(PipeFds)
  <2> SUFFICES ASSUME NEW fd \in PipeFds, Ready(fd)', Ready(fd) => Told(fd) PROVE Told(fd)'
      BY DEF StaysTold
  <2>1. CASE fd = <<"read", p>>
    <3>1. Runs(t)' /\ OnItsWay(t)'
        BY <1>4, <1>6, <1>7 DEF Runs, lifeVars, OnItsWay
    <3> QED BY <1>1, <1>6, <1>7, <2>1, <3>1 DEF Told, WakeupComes
  <2>2. CASE fd # <<"read", p>>
    <3>1. Ready(fd)
        BY <1>4, <1>5, <2>2, OnePipe
    <3>2. fd \in untold => fd \in untold'
        BY <1>4, UntoldKeeps DEF SelectInv
    <3>3. ~OnItsWay(t)
        BY <1>4 DEF OnItsWay
    <3>4. WakeupComes(fd) => WakeupComes(fd)'
        BY <1>1, <1>4, <3>3, OthersCome DEF SelectInv
    <3> QED BY <3>1, <3>2, <3>4 DEF Told
  <2> QED BY <2>1, <2>2
<1>11. OtherStep /\ ~Selects(t)
    BY <1>4 DEF OtherStep, lifeVars, Selects
<1> QED BY <1>1, <1>4, <1>6, <1>8, <1>9, <1>10, <1>11, OtherSteps

\* A message is received, and the reader goes to those who wait for room.
LEMMA ReadKeeps ==
    ASSUME SelectInv, NEW t \in Tasks, NEW p \in Pipes, pipeRead(t, p) PROVE SelectInv'
<1>1. t \in Actors /\ t # exc
    BY SelectAssumption DEF Actors
<1>2. PICK c : c = [at |-> "list", pipe |-> p, type |-> "write"]
    OBVIOUS
<1>3. PICK n : n = msgs[p] - 1
    OBVIOUS
<1>4. /\ Runs(t) /\ code[t].at = "idle" /\ msgs[p] > 0 /\ msgs' = [msgs EXCEPT ![p] = n]
      /\ Goto(t, c) /\ Untold({})
      /\ UNCHANGED <<excMsgQ, listVars, taskVars, lifeVars>>
    BY <1>2, <1>3 DEF pipeRead, At
<1>5. n \in 0..MaxMsg /\ n < msgs[p] /\ msgs \in [Pipes -> 0..MaxMsg]
    BY <1>3, <1>4, SelectAssumption DEF SelectInv, StateOK
<1>6. c \in Waking /\ c.at = "list" /\ c.pipe = p /\ c.type = "write"
    BY <1>2 DEF Waking, Types
<1>7. code'[t] = c
    BY <1>1, <1>4, OneGoes DEF SelectInv
<1>8. CodeOK'
    BY <1>1, <1>4, <1>6, CodeKept DEF SelectInv, lifeVars
<1>9. StateOK'
  <2>1. msgs' \in [Pipes -> 0..MaxMsg]
      BY <1>4, <1>5, OnePipe
  <2>2. untold' \subseteq PipeFds
      BY <1>4, UntoldKeeps DEF SelectInv
  <2> QED BY <1>4, <2>1, <2>2 DEF StateOK, SelectInv, taskVars, lifeVars, listVars
<1>10. StaysTold(PipeFds)
  <2> SUFFICES ASSUME NEW fd \in PipeFds, Ready(fd)', Ready(fd) => Told(fd) PROVE Told(fd)'
      BY DEF StaysTold
  <2>1. CASE fd = <<"write", p>>
    <3>1. Runs(t)' /\ OnItsWay(t)'
        BY <1>4, <1>6, <1>7 DEF Runs, lifeVars, OnItsWay
    <3> QED BY <1>1, <1>6, <1>7, <2>1, <3>1 DEF Told, WakeupComes
  <2>2. CASE fd # <<"write", p>>
    <3>1. Ready(fd)
        BY <1>4, <1>5, <2>2, OnePipe
    <3>2. fd \in untold => fd \in untold'
        BY <1>4, UntoldKeeps DEF SelectInv
    <3>3. ~OnItsWay(t)
        BY <1>4 DEF OnItsWay
    <3>4. WakeupComes(fd) => WakeupComes(fd)'
        BY <1>1, <1>4, <3>3, OthersCome DEF SelectInv
    <3> QED BY <3>1, <3>2, <3>4 DEF Told
  <2> QED BY <2>1, <2>2
<1>11. OtherStep /\ ~Selects(t)
    BY <1>4 DEF OtherStep, lifeVars, listVars, Selects
<1> QED BY <1>1, <1>4, <1>6, <1>8, <1>9, <1>10, <1>11, OtherSteps

\* No actor moves: a pipe is flushed, or a handler writes.
LEMMA PipeSteps ==
    ASSUME SelectInv, UNCHANGED <<listVars, taskVars, code, lifeVars>>,
           NEW p \in Pipes, NEW n \in 0..MaxMsg, msgs' = [msgs EXCEPT ![p] = n],
           n # msgs[p], NEW fds \in SUBSET PipeFds, Untold(fds),
           excMsgQ' \in Seq(Pipes), Len(excMsgQ') <= EXC_MAX_MSGS,
           Range(excMsgQ) \subseteq Range(excMsgQ'),
           wakeupList[p] # <<>> /\ n < msgs[p] => <<"write", p>> \in fds,
           wakeupList[p] # <<>> /\ n > msgs[p] => <<"read", p>> \in fds \/ p \in Range(excMsgQ')
    PROVE  SelectInv'
<1>1. CodeOK' /\ ListsOK'
    BY DEF CodeOK, ListsOK, SelectInv, lifeVars, listVars
<1>2. msgs \in [Pipes -> 0..MaxMsg]
    BY DEF SelectInv, StateOK
<1>3. StateOK'
  <2>1. msgs' \in [Pipes -> 0..MaxMsg]
      BY <1>2, OnePipe
  <2>2. untold' \subseteq PipeFds
      BY UntoldKeeps DEF SelectInv
  <2> QED BY <2>1, <2>2 DEF StateOK, SelectInv, taskVars, lifeVars, listVars
<1>4. \A fd : WakeupComes(fd) => WakeupComes(fd)'
    BY DEF WakeupComes, Runs, OnItsWay, lifeVars
<1>5. StaysTold(PipeFds)
  <2> SUFFICES ASSUME NEW fd \in PipeFds, Ready(fd)', wakeupList[fd[2]] # <<>>,
                      Ready(fd) => Told(fd)
               PROVE  Told(fd)'
      BY DEF StaysTold
  <2>1. fd \in untold \cup fds => Told(fd)'
      BY UntoldKeeps DEF SelectInv, Told
  <2>2. CASE Ready(fd)
      BY <1>4, <2>1, <2>2 DEF Told
  <2>3. CASE ~Ready(fd)
    <3>1. fd[2] = p /\ fd \in {<<"read", p>>, <<"write", p>>}
        BY <1>2, <2>3, OnePipe
    <3>2. n < msgs[p] \/ n > msgs[p]
      <4>1. msgs[p] \in Nat /\ n \in Nat
          BY <1>2, SelectAssumption
      <4> QED BY <4>1
    <3>3. CASE n < msgs[p]
      <4>1. fd = <<"write", p>>
          BY <1>2, <2>3, <3>1, <3>3, OnePipe
      <4> QED BY <2>1, <3>1, <3>3, <4>1
    <3>4. CASE n > msgs[p]
      <4>1. fd = <<"read", p>>
          BY <1>2, <2>3, <3>1, <3>4, OnePipe
      <4>2. p \in Range(excMsgQ') => WakeupComes(fd)'
          BY <4>1 DEF WakeupComes
      <4> QED BY <2>1, <3>1, <3>4, <4>1, <4>2 DEF Told
    <3> QED BY <3>2, <3>3, <3>4
  <2> QED BY <2>2, <2>3
<1>6. ASSUME NEW u \in Tasks PROVE CallOK(u)'
  <2>1. Undisturbed(u)
      BY DEF Undisturbed, Runs, Selects, Noted, Listed, taskVars, lifeVars, listVars
  <2>2. Looked(u) \cap PipeFds \subseteq PipeFds
      OBVIOUS
  <2> QED BY <1>5, <2>1, <2>2, UndisturbedKeeps DEF SelectInv
<1> QED BY <1>1, <1>3, <1>6 DEF SelectInv

\* FIOFLUSH tells nobody.
LEMMA FlushKeeps ==
    ASSUME SelectInv, NEW t \in Tasks, NEW p \in Pipes, pipeFlush(t, p) PROVE SelectInv'
<1>1. PICK fds \in SUBSET PipeFds :
            fds = IF wakeupList[p] = <<>> THEN {} ELSE {<<"write", p>>}
  <2>1. <<"write", p>> \in PipeFds
      BY DEF PipeFds, Types
  <2>2. (IF wakeupList[p] = <<>> THEN {} ELSE {<<"write", p>>}) \in SUBSET PipeFds
      BY <2>1
  <2> QED BY <2>2
<1>2. /\ msgs[p] > 0 /\ msgs' = [msgs EXCEPT ![p] = 0] /\ Untold(fds)
      /\ UNCHANGED <<excMsgQ, listVars, taskVars, code, lifeVars>>
    BY <1>1 DEF pipeFlush
<1>3. msgs[p] \in 0..MaxMsg /\ 0 \in 0..MaxMsg /\ 0 # msgs[p] /\ ~(0 > msgs[p])
    BY <1>2, SelectAssumption DEF SelectInv, StateOK
<1>4. excMsgQ' \in Seq(Pipes) /\ Len(excMsgQ') <= EXC_MAX_MSGS
    BY <1>2 DEF SelectInv, StateOK
<1> QED BY <1>1, <1>2, <1>3, <1>4, PipeSteps

\* A handler adds a job for the exception task, or its wakeup is an exception.
LEMMA HandlerKeeps ==
    ASSUME SelectInv, NEW p \in Pipes, HandlerWrites(p) \/ HandlerMisled(p) PROVE SelectInv'
<1>1. PICK n : n = msgs[p] + 1
    OBVIOUS
<1>2. /\ msgs[p] < MaxMsg /\ msgs' = [msgs EXCEPT ![p] = n]
      /\ UNCHANGED <<listVars, taskVars, code, lifeVars>>
    BY <1>1 DEF HandlerWrites, HandlerMisled, HandlerSends
<1>3. n \in 0..MaxMsg /\ n # msgs[p] /\ n > msgs[p] /\ ~(n < msgs[p])
    BY <1>1, <1>2, SelectAssumption DEF SelectInv, StateOK
<1>4. <<"read", p>> \in PipeFds
    BY DEF PipeFds, Types
<1>5. excMsgQ \in Seq(Pipes) /\ Len(excMsgQ) <= EXC_MAX_MSGS
    BY DEF SelectInv, StateOK
<1>6. CASE wakeupList[p] = <<>> /\ Untold({}) /\ UNCHANGED excMsgQ
    BY <1>2, <1>3, <1>5, <1>6, PipeSteps
<1>7. CASE wakeupList[p] # <<>> /\ Untold({<<"read", p>>}) /\ UNCHANGED excMsgQ
  <2>1. {<<"read", p>>} \in SUBSET PipeFds
      BY <1>4
  <2> QED BY <1>2, <1>3, <1>5, <1>7, <2>1, PipeSteps
<1>8. CASE /\ Len(excMsgQ) < EXC_MAX_MSGS /\ excMsgQ' = Append(excMsgQ, p) /\ Untold({})
  <2>6. PICK q \in Seq(Pipes) : q = excMsgQ
      BY <1>5
  <2>7. Append(q, p) \in Seq(Pipes)
      OBVIOUS
  <2>1. PICK r \in Seq(Pipes) : r = Append(q, p)
      BY <2>7
  <2>2. PICK N \in Nat : /\ N = Len(q) /\ DOMAIN q = 1..N /\ Len(r) = N + 1
                         /\ DOMAIN r = 1..(N + 1) /\ r[N + 1] = p
                         /\ \A i \in 1..N : r[i] = q[i]
      BY <2>1
  <2>3. Range(q) \subseteq Range(r)
    <3>1. \A i \in 1..N : i \in 1..(N + 1)
        BY <2>2
    <3> QED BY <2>2, <3>1 DEF Range
  <2>4. p \in Range(r)
    <3>1. N + 1 \in 1..(N + 1)
        BY <2>2
    <3> QED BY <2>2, <3>1 DEF Range
  <2>5. Len(r) <= EXC_MAX_MSGS
      BY <1>8, <2>6, <2>2, SelectAssumption
  <2> QED BY <1>2, <1>3, <1>8, <2>6, <2>1, <2>3, <2>4, <2>5, PipeSteps
<1> QED BY <1>6, <1>7, <1>8 DEF HandlerWrites, HandlerMisled

\* The exception task goes to the list of its first job.
LEMMA ExcTaskKeeps == ASSUME SelectInv, ExcTask PROVE SelectInv'
<1>1. exc \in Actors /\ exc \notin Tasks
    BY SelectAssumption DEF Actors
<1>2. PICK q \in Seq(Pipes) : q = excMsgQ
    BY DEF SelectInv, StateOK
<1>3. q # <<>> /\ Len(q) <= EXC_MAX_MSGS
    BY <1>2 DEF ExcTask, SelectInv, StateOK
<1>4. Head(q) \in Pipes /\ Tail(q) \in Seq(Pipes) /\ Range(q) = Range(Tail(q)) \cup {Head(q)}
    BY <1>3, TailRange
<1>5. PICK p \in Pipes, r \in Seq(Pipes) : p = Head(q) /\ r = Tail(q)
    BY <1>4
<1>6. PICK c : c = [at |-> "list", pipe |-> p, type |-> "read"]
    OBVIOUS
<1>7. /\ Runs(exc) /\ code[exc].at = "idle" /\ excMsgQ' = r /\ Goto(exc, c)
      /\ UNCHANGED <<msgs, listVars, taskVars, lifeVars, untold>>
    BY <1>2, <1>5, <1>6 DEF ExcTask, At
<1>8. c \in Waking /\ c.at = "list" /\ c.pipe = p /\ c.type = "read"
    BY <1>6 DEF Waking, Types
<1>9. /\ DOMAIN code' = Actors /\ code'[exc] = c
      /\ \A u \in Actors \ {exc} : code'[u] = code[u]
    BY <1>1, <1>7, OneGoes DEF SelectInv
<1>10. CodeOK'
    BY <1>1, <1>7, <1>8, CodeKept DEF SelectInv, lifeVars
<1>11. StateOK'
  <2>1. Len(r) <= EXC_MAX_MSGS
    <3>1. Len(r) = Len(q) - 1 /\ Len(q) \in Nat /\ EXC_MAX_MSGS \in Nat
        BY <1>3, <1>5, SelectAssumption
    <3> QED BY <1>3, <3>1
  <2> QED BY <1>7, <2>1 DEF StateOK, SelectInv, listVars, taskVars, lifeVars
<1>12. StaysTold(PipeFds)
  <2> SUFFICES ASSUME NEW fd \in PipeFds, Ready(fd)', Ready(fd) => Told(fd)
               PROVE  Told(fd)'
      BY DEF StaysTold
  <2>1. Told(fd)
      BY <1>7 DEF Ready
  <2>2. CASE fd \in untold
      BY <1>7, <2>2 DEF Told
  <2>3. CASE fd[1] = "read" /\ fd[2] \in Range(excMsgQ)
    <3>1. fd[2] \in Range(r) \/ fd[2] = p
        BY <1>2, <1>4, <1>5, <2>3
    <3>2. fd[2] \in Range(r) => WakeupComes(fd)'
        BY <1>7, <2>3 DEF WakeupComes
    <3>3. Runs(exc)' /\ OnItsWay(exc)'
        BY <1>7, <1>8, <1>9 DEF Runs, lifeVars, OnItsWay
    <3>4. fd[2] = p => WakeupComes(fd)'
        BY <1>1, <1>8, <1>9, <2>3, <3>3 DEF WakeupComes
    <3> QED BY <3>1, <3>2, <3>4 DEF Told
  <2>4. ASSUME NEW u \in Actors, Runs(u), OnItsWay(u), code[u].pipe = fd[2], code[u].type = fd[1]
        PROVE  Told(fd)'
    <3>1. u # exc /\ code'[u] = code[u]
        BY <1>7, <1>9, <2>4 DEF OnItsWay
    <3>2. Runs(u)' /\ OnItsWay(u)'
        BY <1>7, <2>4, <3>1 DEF Runs, lifeVars, OnItsWay
    <3> QED BY <2>4, <3>1, <3>2 DEF Told, WakeupComes
  <2> QED BY <2>1, <2>2, <2>3, <2>4 DEF Told, WakeupComes
<1>13. OtherStep /\ ~Selects(exc)
    BY <1>7 DEF OtherStep, lifeVars, listVars, Selects
<1> QED BY <1>1, <1>7, <1>8, <1>10, <1>11, <1>12, <1>13, OtherSteps

-----------------------------------------------------------------------------
(***************************************************************************)
(* Deletion.                                                               *)
(***************************************************************************)
\* The victim is stopped wherever it is; its wakeup becomes an exception.
LEMMA DestroyKeeps ==
    ASSUME SelectInv, NEW t \in Tasks, NEW v \in Tasks, taskDestroy(t, v) PROVE SelectInv'
<1>1. t \in Actors /\ t # exc /\ v \in Actors
    BY SelectAssumption DEF Actors
<1>2. PICK rest \in Seq(Fds) : rest = IF pendedOnSelect[v] THEN orig[v] ELSE <<>>
  <2>1. orig[v] \in Seq(Fds) /\ <<>> \in Seq(Fds)
      BY DEF SelectInv, StateOK
  <2> QED BY <2>1
<1>3. PICK c : c = [at |-> "hook", victim |-> v, rest |-> rest]
    OBVIOUS
<1>4. PICK fds \in SUBSET PipeFds :
            fds = IF OnItsWay(v) THEN {<<code[v].type, code[v].pipe>>} ELSE {}
  <2>1. OnItsWay(v) => <<code[v].type, code[v].pipe>> \in PipeFds
      BY <1>1, Kinds DEF SelectInv, Waking, PipeFds
  <2>2. (IF OnItsWay(v) THEN {<<code[v].type, code[v].pipe>>} ELSE {}) \in SUBSET PipeFds
      BY <2>1
  <2> QED BY <2>2
<1>5. /\ Runs(t) /\ code[t].at = "idle" /\ suspended' = suspended \cup {v} /\ Goto(t, c)
      /\ UNCHANGED <<ipcVars, listVars, taskVars, dead>> /\ Untold(fds)
    BY <1>2, <1>3, <1>4 DEF taskDestroy, At
<1>6. c \in Deleting /\ c.at = "hook" /\ c.victim = v
    BY <1>3 DEF Deleting
<1>7. /\ DOMAIN code' = Actors /\ code'[t] = c
      /\ \A u \in Actors \ {t} : code'[u] = code[u]
    BY <1>1, <1>5, OneGoes DEF SelectInv
<1>8. CodeOK'
    BY <1>1, <1>5, <1>6, CodeKept DEF SelectInv
<1>9. StateOK'
  <2>1. untold' \subseteq PipeFds
      BY <1>5, UntoldKeeps DEF SelectInv
  <2>2. dead' \subseteq suspended' /\ suspended' \subseteq Tasks
      BY <1>5 DEF SelectInv, StateOK
  <2> QED BY <1>5, <2>1, <2>2 DEF StateOK, SelectInv, ipcVars, listVars, taskVars
<1>10. StaysTold(PipeFds)
  <2> SUFFICES ASSUME NEW fd \in PipeFds, Ready(fd)', Ready(fd) => Told(fd)
               PROVE  Told(fd)'
      BY DEF StaysTold
  <2>1. Told(fd)
      BY <1>5 DEF Ready, ipcVars
  <2>2. fd \in untold \cup fds => Told(fd)'
      BY <1>5, UntoldKeeps DEF SelectInv, Told
  <2>3. CASE fd[1] = "read" /\ fd[2] \in Range(excMsgQ)
      BY <1>5, <2>3 DEF Told, WakeupComes, ipcVars
  <2>4. ASSUME NEW u \in Actors, Runs(u), OnItsWay(u), code[u].pipe = fd[2], code[u].type = fd[1]
        PROVE  Told(fd)'
    <3>1. u # t /\ code'[u] = code[u]
        BY <1>5, <1>7, <2>4 DEF OnItsWay
    <3>2. CASE u = v
      <4>1. fd = <<code[v].type, code[v].pipe>>
          BY <2>4, <3>2 DEF PipeFds
      <4> QED BY <1>4, <2>2, <2>4, <3>2, <4>1
    <3>3. CASE u # v
      <4>1. Runs(u)' /\ OnItsWay(u)'
          BY <1>5, <2>4, <3>1, <3>3 DEF Runs, OnItsWay
      <4> QED BY <2>4, <3>1, <4>1 DEF Told, WakeupComes
    <3> QED BY <3>2, <3>3
  <2> QED BY <2>1, <2>2, <2>3, <2>4 DEF Told, WakeupComes
<1>11. OtherStep /\ ~Selects(t)
    BY <1>5 DEF OtherStep, listVars, Selects
<1> QED BY <1>1, <1>5, <1>6, <1>8, <1>9, <1>10, <1>11, OtherSteps

\* The victim is gone, and waits for no mutex.
LEMMA DiesKeeps == ASSUME SelectInv, NEW t \in Tasks, Dies(t) PROVE SelectInv'
<1>1. t \in Actors /\ t # exc
    BY SelectAssumption DEF Actors
<1>2. PICK v : v = code[t].victim
    OBVIOUS
<1>3. /\ Runs(t) /\ code[t].at = "hook" /\ dead' = dead \cup {v}
      /\ waiters' = [p \in Pipes |-> Without(waiters[p], v)] /\ Goto(t, Idle)
      /\ UNCHANGED <<ipcVars, wakeupList, owner, taskVars, suspended, untold>>
    BY <1>2 DEF Dies, At
<1>4. v \in suspended
    BY <1>2, <1>3 DEF SelectInv, CodeOK
<1>5. /\ DOMAIN code' = Actors /\ code'[t] = Idle
      /\ \A u \in Actors \ {t} : code'[u] = code[u]
    BY <1>1, <1>3, OneGoes DEF SelectInv
<1>6. CodeOK'
    BY <1>1, <1>3, CodeKept DEF SelectInv, Idle
<1>7. StateOK'
  <2>1. waiters' \in [Pipes -> Seq(Actors)]
    <3>1. \A p \in Pipes : waiters[p] \in Seq(Actors)
        BY DEF SelectInv, StateOK
    <3>2. \A p \in Pipes : Without(waiters[p], v) \in Seq(Actors)
        BY <3>1, WithoutSeq
    <3> QED BY <1>3, <3>2
  <2>2. dead' \subseteq suspended'
      BY <1>3, <1>4 DEF SelectInv, StateOK
  <2> QED BY <1>3, <2>1, <2>2 DEF StateOK, SelectInv, ipcVars, taskVars
<1>8. StaysTold(PipeFds)
  <2> SUFFICES ASSUME NEW fd \in PipeFds, Ready(fd)', Ready(fd) => Told(fd)
               PROVE  Told(fd)'
      BY DEF StaysTold
  <2>1. Told(fd)
      BY <1>3 DEF Ready, ipcVars
  <2>2. CASE fd \in untold \/ (fd[1] = "read" /\ fd[2] \in Range(excMsgQ))
      BY <1>3, <2>2 DEF Told, WakeupComes, ipcVars
  <2>3. ASSUME NEW u \in Actors, Runs(u), OnItsWay(u), code[u].pipe = fd[2], code[u].type = fd[1]
        PROVE  Told(fd)'
    <3>1. u # t /\ code'[u] = code[u]
        BY <1>3, <1>5, <2>3 DEF OnItsWay
    <3>2. Runs(u)' /\ OnItsWay(u)'
        BY <1>3, <1>4, <2>3, <3>1 DEF Runs, OnItsWay
    <3> QED BY <2>3, <3>1, <3>2 DEF Told, WakeupComes
  <2> QED BY <2>1, <2>2, <2>3 DEF Told, WakeupComes
<1>9. OtherStep /\ ~Selects(t)
    BY <1>3 DEF OtherStep, Selects
<1>10. Idle.at = "idle"
    BY DEF Idle
<1> QED BY <1>1, <1>3, <1>6, <1>7, <1>8, <1>9, <1>10, OtherSteps

-----------------------------------------------------------------------------
(***************************************************************************)
(* The theorems.                                                           *)
(***************************************************************************)
\* Nobody is in a call when the system comes up.
LEMMA InitInv == Init => SelectInv
<1> SUFFICES ASSUME Init PROVE SelectInv
    OBVIOUS
<1>1. CodeOK
    BY DEF Init, CodeOK, Actors, Idle
<1>2. StateOK
  <2>1. 0 \in 0..MaxMsg /\ MaxMsg \in Nat /\ EXC_MAX_MSGS \in Nat
      BY SelectAssumption
  <2>2. msgs \in [Pipes -> 0..MaxMsg]
      BY <2>1 DEF Init
  <2>3. \A S : <<>> \in Seq(S) /\ Len(<<>>) = 0
      OBVIOUS
  <2>4. wakeupList \in [Pipes -> Seq(WakeupNodes)] /\ waiters \in [Pipes -> Seq(Actors)]
      BY <2>3 DEF Init
  <2>5. orig \in [Tasks -> Seq(Fds)] /\ excMsgQ \in Seq(Pipes) /\ Len(excMsgQ) <= EXC_MAX_MSGS
      BY <2>1, <2>3 DEF Init
  <2>6. found \in [Tasks -> SUBSET Fds]
      BY DEF Init
  <2> QED BY <2>2, <2>4, <2>5, <2>6 DEF Init, StateOK
<1>3. ListsOK
    BY DEF Init, ListsOK, IsQueue
<1>4. ASSUME NEW t \in Tasks PROVE CallOK(t)
  <2>1. code[t].at = "idle"
      BY DEF Init, Actors, Idle
  <2>2. Range(<<>>) = {}
      BY DEF Range
  <2>3. NodesOK(t)
    <3>1. ~Selects(t) /\ \A fd \in PipeFds : ~Listed(t, fd)
        BY <2>1, <2>2 DEF Init, Selects, Listed, PipeFds
    <3> QED BY <3>1 DEF NodesOK
  <2> QED BY <2>1, <2>3 DEF CallOK, RestOK, WakeupOK, Selects
<1> QED BY <1>1, <1>2, <1>3, <1>4 DEF SelectInv

\* Every step keeps the lists and the calls in order.
LEMMA NextInv == SelectInv /\ [Next]_vars => SelectInv'
<1> SUFFICES ASSUME SelectInv, [Next]_vars PROVE SelectInv'
    OBVIOUS
<1>1. ASSUME NEW t \in Actors, Goes(t) PROVE SelectInv'
  <2>1. CASE semTake(t) \/ LookAtList(t) \/ WakeAll(t)
      BY <2>1, TakeKeeps, LookAtListKeeps, WakeAllKeeps
  <2>2. CASE t \in Tasks /\ (selNodeAdd(t) \/ Look(t) \/ SelectFails(t) \/ Pend(t) \/ WaitEnds(t))
      BY <2>2, AddKeeps, LookKeeps, FailsKeeps, PendKeeps, WaitEndsKeeps
  <2>3. CASE t \in Tasks /\ (Unselect(t) \/ UnselectPlain(t) \/ Return(t))
      BY <2>3, UnselectKeeps, PlainKeeps, ReturnKeeps
  <2>4. CASE t \in Tasks /\ (selTaskDeleteHook(t) \/ Dies(t))
      BY <2>4, HookKeeps, DiesKeeps
  <2> QED BY <1>1, <2>1, <2>2, <2>3, <2>4 DEF Goes
<1>2. ASSUME NEW t \in Tasks, Call(t) PROVE SelectInv'
  <2>1. CASE \E r \in Requests : select(t, r.fds, r.timed)
      BY <2>1, SelectKeeps
  <2>2. CASE \E p \in Pipes : pipeWrite(t, p) \/ pipeRead(t, p) \/ pipeFlush(t, p)
      BY <2>2, WriteKeeps, ReadKeeps, FlushKeeps
  <2>3. CASE \E v \in Victims : taskDestroy(t, v)
      BY <2>3, SelectAssumption, DestroyKeeps
  <2> QED BY <1>2, <2>1, <2>2, <2>3 DEF Call
<1>3. CASE UNCHANGED vars
  <2>1. UNCHANGED <<ipcVars, listVars, taskVars, code, lifeVars, untold>>
      BY <1>3 DEF vars
  <2>2. CodeOK' /\ StateOK' /\ ListsOK'
      BY <2>1 DEF SelectInv, CodeOK, StateOK, ListsOK, ipcVars, listVars, taskVars, lifeVars
  <2>3. StaysTold(PipeFds)
      BY <2>1 DEF StaysTold, Told, WakeupComes, Runs, OnItsWay, Ready, ipcVars, lifeVars
  <2>4. ASSUME NEW u \in Tasks PROVE CallOK(u)'
    <3>1. Undisturbed(u)
        BY <2>1 DEF Undisturbed, Runs, Selects, Noted, Listed, taskVars, lifeVars, listVars
    <3>2. Looked(u) \cap PipeFds \subseteq PipeFds
        OBVIOUS
    <3> QED BY <2>3, <3>1, <3>2, UndisturbedKeeps DEF SelectInv
  <2> QED BY <2>2, <2>4 DEF SelectInv
<1> QED BY <1>1, <1>2, <1>3, HandlerKeeps, ExcTaskKeeps DEF Next

(***************************************************************************)
(* The inductive invariant: every node in a list is of a descriptor that   *)
(* its call still has to take out, every descriptor a call has looked at   *)
(* has its node, and a call that has not been woken will be told of what   *)
(* became ready behind its look (selectLib.c select, selWakeupAll).        *)
(***************************************************************************)
THEOREM SelectInductive == Spec => []SelectInv
<1>1. Init => SelectInv
    BY InitInv
<1>2. SelectInv /\ [Next]_vars => SelectInv'
    BY NextInv
<1> QED BY <1>1, <1>2, PTL DEF Spec

(***************************************************************************)
(* The lists hold nodes of tasks that are in select, and everything the    *)
(* calls keep has its type (selectLib.c selNodeAdd, selNodeDelete).        *)
(***************************************************************************)
THEOREM ListsConsistent == Spec => []Consistent
<1>1. SelectInv => Consistent
  <2> SUFFICES ASSUME SelectInv PROVE Consistent
      OBVIOUS
  <2>1. \A S, s : s \in Seq(S) => Range(s) \subseteq S
      BY DEF Range
  <2>2. TypeOK
    <3>1. \A p \in Pipes : Range(wakeupList[p]) \subseteq WakeupNodes
        BY <2>1 DEF SelectInv, StateOK
    <3>2. \A p \in Pipes : Range(waiters[p]) \subseteq Actors
        BY <2>1 DEF SelectInv, StateOK
    <3>3. Range(excMsgQ) \subseteq Pipes
        BY <2>1 DEF SelectInv, StateOK
    <3> QED BY <3>1, <3>2, <3>3 DEF TypeOK, SelectInv, StateOK, WakeupNodes
  <2>3. ASSUME NEW t \in Tasks, NEW p \in Pipes, At(t, "idle"),
               NEW n \in Range(wakeupList[p]), n.task = t
        PROVE  FALSE
    <3>1. n \in WakeupNodes
        BY <2>1 DEF SelectInv, StateOK
    <3>2. PICK fd \in PipeFds : fd = <<n.type, p>>
        BY <3>1 DEF WakeupNodes, PipeFds
    <3>3. n = Node(t, fd)
        BY <2>3, <3>1, <3>2 DEF WakeupNodes, Node
    <3>4. Listed(t, fd)
        BY <3>2, <3>3 DEF Listed
    <3>5. fd \in Noted(t)
        BY <2>3, <3>4 DEF SelectInv, CallOK, NodesOK, At
    <3> QED BY <2>3, <3>5 DEF Noted, At
  <2> QED BY <2>2, <2>3 DEF Consistent, NoNodeAfterReturn
<1> QED BY <1>1, SelectInductive, PTL

(***************************************************************************)
(* No wakeup is lost: whoever waits in select on a descriptor that is      *)
(* ready is about to be told, but for the exceptions (selectLib.c select,  *)
(* selWakeupAll; pipeDrv.c pipeWrite, pipeRead).                           *)
(***************************************************************************)
THEOREM NoWakeupLost == Spec => []NoLostWakeup
<1>1. SelectInv => NoLostWakeup
  <2> SUFFICES ASSUME SelectInv, NEW t \in Tasks, NEW fd \in PipeFds, Sleeps(t, fd)
               PROVE  Told(fd)
      BY DEF NoLostWakeup, PipeFds, Told
  <2>1. Runs(t) /\ code[t].at = "wait" /\ ~wakeupSync[t] /\ fd \in Range(orig[t]) /\ Ready(fd)
      BY DEF Sleeps, At
  <2>2. Selects(t)
      BY <2>1 DEF Selects
  <2>3. Range(code[t].rest) = {}
      BY <2>1 DEF SelectInv, CodeOK, Range
  <2>4. fd \in Looked(t)
      BY <2>1, <2>3 DEF Looked
  <2> QED BY <2>1, <2>2, <2>4 DEF SelectInv, CallOK, WakeupOK
<1> QED BY <1>1, SelectInductive, PTL

(***************************************************************************)
(* Whoever is woken has a descriptor in the result: no wakeup is left over *)
(* from an earlier call (selectLib.c select).                              *)
(***************************************************************************)
THEOREM WokenRight == Spec => []WokenForSomething
<1>1. SelectInv => WokenForSomething
    BY DEF SelectInv, CallOK, WakeupOK, WokenForSomething, At, Selects
<1> QED BY <1>1, SelectInductive, PTL
=============================================================================
