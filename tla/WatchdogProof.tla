--------------------------- MODULE WatchdogProof ----------------------------
(***************************************************************************)
(* Watchdogs, and the work queue under them, are correct for every number  *)
(* of watchdogs, of jobs and of frames.                                    *)
(***************************************************************************)
EXTENDS Watchdog, WorkQ, QPrioProof

(***************************************************************************)
(* Sequences: a last element more or less, and how often something is in   *)
(* one.                                                                    *)
(***************************************************************************)
LEMMA AppendElements == ASSUME NEW S, NEW q \in Seq(S), NEW x \in S
    PROVE  /\ Append(q, x) \in Seq(S) /\ Append(q, x) # <<>>
           /\ Len(Append(q, x)) = Len(q) + 1 /\ Len(q) \in Nat
           /\ Append(q, x)[Len(q) + 1] = x
           /\ \A i \in 1..Len(q) : Append(q, x)[i] = q[i]
           /\ SubSeq(Append(q, x), 1, Len(q)) = q
           /\ Elements(Append(q, x)) = Elements(q) \cup {x}
<1> DEFINE r == Append(q, x)
<1>1. /\ r \in Seq(S) /\ r # <<>> /\ Len(r) = Len(q) + 1 /\ Len(q) \in Nat
      /\ r[Len(q) + 1] = x /\ \A i \in 1..Len(q) : r[i] = q[i]
    OBVIOUS
<1> HIDE DEF r
<1>2. SubSeq(r, 1, Len(q)) = q
  <2>1. SubSeq(r, 1, Len(q)) \in Seq(S) /\ Len(SubSeq(r, 1, Len(q))) = Len(q)
      BY <1>1
  <2>2. \A i \in 1..Len(q) : SubSeq(r, 1, Len(q))[i] = q[i]
      BY <1>1
  <2> HIDE DEF r
  <2> QED BY <2>1, <2>2, SeqEqual
<1>3. Elements(r) = Elements(q) \cup {x}
  <2>1. Elements(r) = {r[i] : i \in 1..(Len(q) + 1)}
        /\ Elements(q) = {q[i] : i \in 1..Len(q)}
      BY <1>1, QueueElements
  <2>2. \A i \in 1..(Len(q) + 1) : r[i] \in Elements(q) \cup {x}
      BY <1>1, <2>1
  <2>3. \A i \in 1..Len(q) : q[i] \in Elements(r)
    <3> TAKE i \in 1..Len(q)
    <3>1. i \in 1..(Len(q) + 1) /\ r[i] = q[i]
        BY <1>1
    <3> QED BY <2>1, <3>1
  <2>4. x \in Elements(r)
    <3>1. Len(q) + 1 \in 1..(Len(q) + 1)
        BY <1>1
    <3> QED BY <1>1, <2>1, <3>1
  <2> QED BY <2>1, <2>2, <2>3, <2>4
<1> QED BY <1>1, <1>2, <1>3 DEF r

LEMMA FrontLast == ASSUME NEW S, NEW q \in Seq(S), q # <<>>
    PROVE  /\ SubSeq(q, 1, Len(q) - 1) \in Seq(S) /\ q[Len(q)] \in S
           /\ q = Append(SubSeq(q, 1, Len(q) - 1), q[Len(q)])
<1>1. PICK N \in Nat : Len(q) = N + 1
  <2>1. Len(q) \in Nat /\ Len(q) > 0
      OBVIOUS
  <2> QED BY <2>1
<1> DEFINE b == SubSeq(q, 1, N)
           r == Append(b, q[Len(q)])
<1>2. b \in Seq(S) /\ Len(b) = N /\ \A i \in 1..N : b[i] = q[i]
    BY <1>1
<1> SUFFICES b \in Seq(S) /\ q[Len(q)] \in S /\ q = r
    BY <1>1
<1>3. q[Len(q)] \in S
    BY <1>1
<1> HIDE DEF b
<1>4. r \in Seq(S) /\ Len(r) = Len(q) /\ \A i \in 1..Len(q) : r[i] = q[i]
    BY <1>1, <1>2, <1>3, AppendElements
<1> HIDE DEF r
<1>5. q = r
    BY <1>4, SeqEqual
<1> QED BY <1>2, <1>3, <1>5

LEMMA TailElements == ASSUME NEW S, NEW q \in Seq(S), q # <<>>
    PROVE  /\ Tail(q) \in Seq(S) /\ Head(q) \in S
           /\ Len(Tail(q)) = Len(q) - 1 /\ Len(q) \in Nat \ {0}
           /\ Head(q) = q[1] /\ \A i \in 1..(Len(q) - 1) : Tail(q)[i] = q[i + 1]
           /\ Elements(q) = Elements(Tail(q)) \cup {Head(q)}
<1>1. /\ Tail(q) \in Seq(S) /\ Head(q) \in S
      /\ Len(Tail(q)) = Len(q) - 1 /\ Len(q) \in Nat \ {0}
      /\ Head(q) = q[1] /\ \A i \in 1..(Len(q) - 1) : Tail(q)[i] = q[i + 1]
    OBVIOUS
<1> DEFINE r == Tail(q)
<1>2. Elements(r) = {r[i] : i \in 1..(Len(q) - 1)}
      /\ Elements(q) = {q[i] : i \in 1..Len(q)}
    BY <1>1, QueueElements
<1>3. \A i \in 1..Len(q) : q[i] \in Elements(r) \cup {q[1]}
  <2> TAKE i \in 1..Len(q)
  <2>1. CASE i # 1
    <3>1. i - 1 \in 1..(Len(q) - 1) /\ r[i - 1] = q[i]
        BY <1>1, <2>1
    <3> QED BY <1>2, <3>1
  <2> QED BY <2>1
<1>4. \A i \in 1..(Len(q) - 1) : r[i] \in Elements(q)
  <2> TAKE i \in 1..(Len(q) - 1)
  <2>1. i + 1 \in 1..Len(q) /\ r[i] = q[i + 1]
      BY <1>1
  <2> QED BY <1>2, <2>1
<1>5. q[1] \in Elements(q)
    BY <1>1, <1>2
<1> HIDE DEF r
<1>6. Elements(q) = Elements(r) \cup {q[1]}
    BY <1>2, <1>3, <1>4, <1>5
<1> QED BY <1>1, <1>6 DEF r

\* How many elements of q are in S.
Places(q, S) == {i \in DOMAIN q : q[i] \in S}
HowMany(q, S) == Cardinality(Places(q, S))

LEMMA HowManyFinite == ASSUME NEW T, NEW q \in Seq(T), NEW S
    PROVE  /\ IsFiniteSet(Places(q, S)) /\ HowMany(q, S) \in Nat
           /\ HowMany(q, S) = 0 <=> \A x \in Elements(q) : x \notin S
<1>1. Len(q) \in Nat /\ DOMAIN q = 1..Len(q)
    OBVIOUS
<1>2. IsFiniteSet(Places(q, S))
  <2>1. IsFiniteSet(1..Len(q)) /\ Places(q, S) \subseteq 1..Len(q)
      BY <1>1, FS_Interval DEF Places
  <2> QED BY <2>1, FS_Subset
<1>3. HowMany(q, S) \in Nat /\ (HowMany(q, S) = 0 <=> Places(q, S) = {})
    BY <1>2, FS_CardinalityType, FS_EmptySet DEF HowMany
<1>4. Places(q, S) = {} <=> \A x \in Elements(q) : x \notin S
    BY DEF Places, Elements
<1> QED BY <1>2, <1>3, <1>4

LEMMA HowManyAppend == ASSUME NEW T, NEW q \in Seq(T), NEW x \in T, NEW S
    PROVE  HowMany(Append(q, x), S) = HowMany(q, S) + (IF x \in S THEN 1 ELSE 0)
<1> DEFINE r == Append(q, x)
           n == Len(q) + 1
<1>1. /\ Len(q) \in Nat /\ DOMAIN q = 1..Len(q) /\ DOMAIN r = 1..n
      /\ r[n] = x /\ \A i \in 1..Len(q) : r[i] = q[i]
    OBVIOUS
<1> HIDE DEF r
<1>2. IsFiniteSet(Places(q, S)) /\ HowMany(q, S) \in Nat
    BY HowManyFinite
<1>3. n \notin Places(q, S)
    BY <1>1 DEF Places
<1>4. CASE x \in S
  <2>1. Places(r, S) = Places(q, S) \cup {n}
      BY <1>1, <1>4 DEF Places
  <2> QED BY <1>2, <1>3, <1>4, <2>1, FS_AddElement DEF HowMany, r
<1>5. CASE x \notin S
  <2>1. Places(r, S) = Places(q, S)
      BY <1>1, <1>5 DEF Places
  <2> QED BY <1>2, <1>5, <2>1 DEF HowMany, r
<1> QED BY <1>4, <1>5

LEMMA HowManyTail == ASSUME NEW T, NEW q \in Seq(T), q # <<>>, NEW S
    PROVE  HowMany(q, S) = HowMany(Tail(q), S) + (IF Head(q) \in S THEN 1 ELSE 0)
<1> DEFINE r == Tail(q)
           f == [i \in Places(r, S) |-> i + 1]
<1>1. /\ r \in Seq(T) /\ Len(q) \in Nat \ {0}
      /\ DOMAIN q = 1..Len(q) /\ DOMAIN r = 1..(Len(q) - 1)
      /\ Head(q) = q[1] /\ \A i \in 1..(Len(q) - 1) : r[i] = q[i + 1]
    BY TailElements
<1> HIDE DEF r
<1>2. IsFiniteSet(Places(q, S)) /\ HowMany(q, S) \in Nat
    BY HowManyFinite
<1>3. IsFiniteSet(Places(r, S))
    BY <1>1, HowManyFinite
<1>4. f \in Bijection(Places(r, S), Places(q, S) \ {1})
  <2>1. \A i \in Places(r, S) : i \in 1..(Len(q) - 1) /\ r[i] \in S
      BY <1>1 DEF Places
  <2>2. \A i \in Places(r, S) : i + 1 \in Places(q, S) \ {1}
    <3> TAKE i \in Places(r, S)
    <3>1. i \in 1..(Len(q) - 1) /\ r[i] = q[i + 1] /\ r[i] \in S
        BY <1>1, <2>1
    <3>2. i + 1 \in 1..Len(q) /\ i + 1 # 1
        BY <1>1, <3>1
    <3> QED BY <1>1, <3>1, <3>2 DEF Places
  <2>3. \A j \in Places(q, S) \ {1} : \E i \in Places(r, S) : f[i] = j
    <3> TAKE j \in Places(q, S) \ {1}
    <3>1. j \in 1..Len(q) /\ j # 1 /\ q[j] \in S
        BY <1>1 DEF Places
    <3>2. j - 1 \in 1..(Len(q) - 1) /\ r[j - 1] = q[j] /\ (j - 1) + 1 = j
        BY <1>1, <3>1
    <3>3. j - 1 \in Places(r, S)
        BY <1>1, <3>1, <3>2 DEF Places
    <3> QED BY <3>2, <3>3
  <2>4. \A i, j \in Places(r, S) : f[i] = f[j] => i = j
      BY <2>1
  <2>5. f \in [Places(r, S) -> Places(q, S) \ {1}]
      BY <2>2
  <2> HIDE DEF f
  <2> QED BY <2>3, <2>4, <2>5 DEF Bijection, Injection, Surjection, IsInjective
<1>5. HowMany(r, S) = Cardinality(Places(q, S) \ {1})
  <2>1. ExistsBijection(Places(r, S), Places(q, S) \ {1})
      BY <1>4 DEF ExistsBijection
  <2> QED BY <1>3, <2>1, FS_Bijection DEF HowMany
<1>6. CASE q[1] \in S
  <2>1. 1 \in Places(q, S)
      BY <1>1, <1>6 DEF Places
  <2>2. Cardinality(Places(q, S) \ {1}) = Cardinality(Places(q, S)) - 1
      BY <1>2, <2>1, FS_RemoveElement
  <2> QED BY <1>1, <1>2, <1>5, <1>6, <2>2 DEF HowMany, r
<1>7. CASE q[1] \notin S
  <2>1. Places(q, S) \ {1} = Places(q, S)
      BY <1>7 DEF Places
  <2>2. HowMany(r, S) = HowMany(q, S)
      BY <1>5, <2>1 DEF HowMany
  <2> QED BY <1>1, <1>2, <1>7, <2>2 DEF r
<1> QED BY <1>6, <1>7


-----------------------------------------------------------------------------
(***************************************************************************)
(* The stack.                                                              *)
(***************************************************************************)
\* Code that came between, code that has set kernelState, code that only
\* interrupts come between, and code that kernelState was set below.
Interrupt(f) == f.at \in {"clock", "post"} \/ (f.at = "handler" /\ f.fn = NoWd)
Section(f)   == f.at \in {"start", "cancel", "destroy", "exit"}
Rests(f)     == \/ f.at \in {"start", "cancel", "destroy", "fire", "post"}
                \/ f.at = "handler" /\ f.fn # NoWd
Inside(f)    == \/ f.at \in {"tick", "fire", "drain", "post"}
                \/ f.at = "handler" /\ f.fn # NoWd

InSection(s) == \E f \in Elements(s) : Section(f)

\* What the frames can be, from the bottom up.
Shape(s) ==
    /\ \A i \in 1..Len(s) : s[i].at = "task" <=> i = 1
    /\ \A i, j \in 1..Len(s) : i < j => ~(Section(s[i]) /\ Section(s[j]))
    /\ \A i, j \in 1..Len(s) : i < j /\ Rests(s[i]) => Interrupt(s[j])
    /\ \A j \in 1..Len(s) : Inside(s[j]) => \E i \in 1..(j - 1) : Section(s[i])
    /\ \A j \in 1..Len(s) : s[j].at \in {"fire", "drain"} =>
          j > 1 /\ s[j - 1].at = "tick"

CanStandOn(f, s) ==
    /\ f.at = "task" <=> s = <<>>
    /\ Section(f) => ~InSection(s)
    /\ (\E g \in Elements(s) : Rests(g)) => Interrupt(f)
    /\ Inside(f) => InSection(s)
    /\ f.at \in {"fire", "drain"} => s # <<>> /\ s[Len(s)].at = "tick"

LEMMA EmptyShape == Shape(<<>>) /\ Elements(<<>>) = {} /\ ~InSection(<<>>)
BY DEF Shape, InSection, Elements

LEMMA ShapeAppend == ASSUME NEW s \in Seq(Frames), NEW f \in Frames
    PROVE  Shape(Append(s, f)) <=> Shape(s) /\ CanStandOn(f, s)
<1> DEFINE r == Append(s, f)
           n == Len(s) + 1
<1>1. /\ Len(r) = n /\ Len(s) \in Nat /\ r[n] = f
      /\ \A i \in 1..Len(s) : r[i] = s[i]
    BY AppendElements
<1>2. Elements(s) = {s[i] : i \in 1..Len(s)}
    BY QueueElements
<1>3. s = <<>> <=> Len(s) = 0
    OBVIOUS
<1> HIDE DEF r
<1>4. (\A i \in 1..n : r[i].at = "task" <=> i = 1) <=>
      /\ \A i \in 1..Len(s) : s[i].at = "task" <=> i = 1
      /\ f.at = "task" <=> s = <<>>
  <2>1. n = 1 <=> s = <<>>
      BY <1>1, <1>3
  <2>2. \A i \in 1..n : i \in 1..Len(s) \/ i = n
      BY <1>1
  <2>3. n \in 1..n /\ \A i \in 1..Len(s) : i \in 1..n
      BY <1>1
  <2> QED BY <1>1, <2>1, <2>2, <2>3
<1>5. (\A i, j \in 1..n : i < j => ~(Section(r[i]) /\ Section(r[j]))) <=>
      /\ \A i, j \in 1..Len(s) : i < j => ~(Section(s[i]) /\ Section(s[j]))
      /\ Section(f) => ~InSection(s)
    BY <1>1, <1>2 DEF InSection
<1>6. (\A i, j \in 1..n : i < j /\ Rests(r[i]) => Interrupt(r[j])) <=>
      /\ \A i, j \in 1..Len(s) : i < j /\ Rests(s[i]) => Interrupt(s[j])
      /\ (\E g \in Elements(s) : Rests(g)) => Interrupt(f)
    BY <1>1, <1>2
<1>7. (\A j \in 1..n : Inside(r[j]) => \E i \in 1..(j - 1) : Section(r[i])) <=>
      /\ \A j \in 1..Len(s) : Inside(s[j]) => \E i \in 1..(j - 1) : Section(s[i])
      /\ Inside(f) => InSection(s)
  <2>1. ASSUME NEW j \in 1..Len(s)
        PROVE  (\E i \in 1..(j - 1) : Section(r[i])) <=>
               (\E i \in 1..(j - 1) : Section(s[i]))
      BY <1>1
  <2>2. (\E i \in 1..(n - 1) : Section(r[i])) <=> InSection(s)
      BY <1>1, <1>2 DEF InSection
  <2>3. \A i \in 1..n : i \in 1..Len(s) \/ i = n
      BY <1>1
  <2>4. n \in 1..n /\ \A i \in 1..Len(s) : i \in 1..n
      BY <1>1
  <2> QED BY <1>1, <2>1, <2>2, <2>3, <2>4
<1>8. (\A j \in 1..n : r[j].at \in {"fire", "drain"} =>
          j > 1 /\ r[j - 1].at = "tick") <=>
      /\ \A j \in 1..Len(s) : s[j].at \in {"fire", "drain"} =>
            j > 1 /\ s[j - 1].at = "tick"
      /\ f.at \in {"fire", "drain"} => s # <<>> /\ s[Len(s)].at = "tick"
  <2>1. \A j \in 1..Len(s) : j > 1 => r[j] = s[j] /\ r[j - 1] = s[j - 1]
      BY <1>1
  <2>2. n > 1 <=> s # <<>>
      BY <1>1, <1>3
  <2>3. n > 1 => r[n - 1] = s[Len(s)]
      BY <1>1
  <2>4. \A j \in 1..n : j \in 1..Len(s) \/ j = n
      BY <1>1
  <2>5. n \in 1..n /\ \A j \in 1..Len(s) : j \in 1..n /\ r[j] = s[j]
      BY <1>1
  <2> QED BY <1>1, <2>1, <2>2, <2>3, <2>4, <2>5
<1> QED BY <1>1, <1>4, <1>5, <1>6, <1>7, <1>8 DEF Shape, CanStandOn, r

LEMMA FrameKinds == \A f \in Frames :
    /\ f.at \in {"task", "clock", "exit", "drain", "tick", "handler", "post",
                 "start", "cancel", "destroy", "fire"}
    /\ f.at = "handler" => f.fn \in Wds \cup {NoWd}
    /\ f.at = "post" => f.job \in CallJobs
    /\ f.at \in {"start", "cancel", "destroy", "fire"} => f.wd \in Wds
    /\ f.at = "start" => f.delay \in Delays
    /\ f.at = "fire" => f.func \in Functions
BY DEF Frames

LEMMA JobKinds == CallJobs \subseteq Jobs /\ \A j \in Jobs :
    /\ j.op \in {"start", "cancel", "tick"}
    /\ j.op # "tick" => j.wd \in Wds
    /\ j.op = "start" => j.delay \in Delays
    /\ j \in CallJobs => j.op # "tick"
BY DEF Jobs, CallJobs

LEMMA NewFrames ==
    /\ \A x \in {"task", "clock", "exit", "drain", "tick"} : [at |-> x] \in Frames
    /\ \A w \in Wds \cup {NoWd} : [at |-> "handler", fn |-> w] \in Frames
    /\ \A j \in CallJobs : [at |-> "post", job |-> j] \in Frames
    /\ \A w \in Wds, d \in Delays :
          [at |-> "start", wd |-> w, delay |-> d] \in Frames
    /\ \A w \in Wds : /\ [at |-> "cancel", wd |-> w] \in Frames
                      /\ [at |-> "destroy", wd |-> w] \in Frames
    /\ \A w \in Wds, g \in Functions :
          [at |-> "fire", wd |-> w, func |-> g] \in Frames
BY DEF Frames

LEMMA NewJobs ==
    /\ \A w \in Wds, d \in Delays :
          [op |-> "start", wd |-> w, delay |-> d] \in CallJobs
    /\ \A w \in Wds : [op |-> "cancel", wd |-> w] \in CallJobs
    /\ [op |-> "tick"] \in Jobs
BY DEF Jobs, CallJobs

-----------------------------------------------------------------------------
(***************************************************************************)
(* The inductive invariant.                                                *)
(***************************************************************************)
On == Elements(stack)

Types ==
    /\ valid \in [Wds -> BOOLEAN]
    /\ status \in [Wds -> {"OUT_OF_Q", "IN_Q", "DEAD"}]
    /\ dfrStartCount \in [Wds -> Nat]
    /\ wdFunc \in [Wds -> Functions]
    /\ key \in [Wds -> 0..(WORD - 1)]
    /\ sysTicks \in 0..(WORD - 1) /\ sysAbsTicks \in Nat
    /\ jobs \in Seq(Jobs)
    /\ asked \in [Wds -> [delay : Nat, fate : {"open", "cancelling", "over"}]]
    /\ set \in [Wds -> [delay : Nat, due : Nat]]

\* kernelState is set by the one section on the stack, and while it is FALSE
\* nothing was deferred.
StackOK ==
    /\ stack \in Seq(Frames) /\ stack # <<>> /\ Shape(stack)
    /\ kernelState = InSection(stack)
    /\ ~kernelState => jobs = <<>>

StartJobs(w) == {j \in Jobs : StartJob(j, w)}
StartFrames(w) == {f \in Frames : \/ f.at = "start" /\ f.wd = w
                                  \/ f.at = "post" /\ StartJob(f.job, w)}

Deferred == \A w \in Wds : dfrStartCount[w] =
    HowMany(jobs, StartJobs(w)) + HowMany(stack, StartFrames(w))

\* Frames and jobs that refer to a watchdog, which its memory has to outlive.
JobFor(j, w) == j.op # "tick" /\ j.wd = w
FrameFor(f, w) == \/ f.at \in {"start", "cancel", "fire"} /\ f.wd = w
                  \/ f.at = "post" /\ JobFor(f.job, w)
Destroying(w) == \E f \in On : f.at = "destroy" /\ f.wd = w

StatusOK == \A w \in Wds :
    /\ valid[w] => status[w] # "DEAD"
    /\ ~valid[w] /\ status[w] # "DEAD" => Destroying(w)
    /\ Destroying(w) => ~valid[w]
    /\ ~valid[w] => /\ \A j \in Elements(jobs) : ~JobFor(j, w)
                    /\ \A f \in On : ~FrameFor(f, w)

QueueOK ==
    /\ IsQueue(tickQ, Wds)
    /\ \A w \in Wds : status[w] = "IN_Q" <=> w \in Elements(tickQ)
    /\ \A f \in On : f.at = "fire" => f.wd \notin Elements(tickQ)

\* A watchdog that will be called, unless it is started again, is one that was
\* asked for ...
Armed(w) == w \in Elements(tickQ) \/ \E f \in On : f.at = "fire" /\ f.wd = w
Cancelling(w) == \E f \in On : f.at \in {"cancel", "destroy"} /\ f.wd = w

FateOK == \A w \in Wds :
    /\ dfrStartCount[w] > 0 => asked[w].fate # "over"
    /\ Armed(w) /\ ~Cancelling(w) => asked[w].fate # "over"

\* ... with the function of the last start ...
FuncOK == \A f \in On :
    f.at = "fire" /\ dfrStartCount[f.wd] = 0 => f.func = wdFunc[f.wd]

\* ... and its delay: of the deferred starts of w the last one has it.
LastStart(q, w, d) == \E i \in 1..Len(q) :
    /\ StartJob(q[i], w) /\ q[i].delay = d
    /\ \A j \in 1..Len(q) : j > i => ~StartJob(q[j], w)
Posting(f, w) == f.at = "post" /\ StartJob(f.job, w)

DelayOK == \A w \in Private :
    /\ \A f \in On : f.at = "start" /\ f.wd = w => f.delay = asked[w].delay
    /\ \A f \in On : Posting(f, w) => f.job.delay = asked[w].delay
    /\ (\A f \in On : ~Posting(f, w)) =>
          \A d \in Delays : LastStart(jobs, w, d) => d = asked[w].delay
    /\ Armed(w) /\ dfrStartCount[w] = 0 /\ asked[w].fate # "over" =>
          set[w].delay = asked[w].delay

WdInv == Types /\ StackOK /\ Deferred /\ StatusOK /\ QueueOK /\ FateOK /\ FuncOK
         /\ DelayOK

-----------------------------------------------------------------------------
(***************************************************************************)
(* The frame that executes, t, and those below it, b.                      *)
(***************************************************************************)
OneIf(x, S) == IF x \in S THEN 1 ELSE 0

OnTop(b, t) ==
    /\ b \in Seq(Frames) /\ t \in Frames /\ Top = t /\ Below = b
    /\ stack = Append(b, t) /\ On = Elements(b) \cup {t}
    /\ Shape(b) /\ CanStandOn(t, b)
    /\ kernelState <=> InSection(b) \/ Section(t)
    /\ \A w \in Wds : /\ HowMany(b, StartFrames(w)) \in Nat
                      /\ HowMany(stack, StartFrames(w)) =
                            HowMany(b, StartFrames(w)) + OneIf(t, StartFrames(w))

LEMMA Splits == ASSUME StackOK PROVE \E b, t : OnTop(b, t)
<1> DEFINE b == SubSeq(stack, 1, Len(stack) - 1)
           t == stack[Len(stack)]
<1>1. stack \in Seq(Frames) /\ stack # <<>> /\ Shape(stack)
      /\ kernelState = InSection(stack)
    BY DEF StackOK
<1>2. b \in Seq(Frames) /\ t \in Frames /\ stack = Append(b, t)
    BY <1>1, FrontLast
<1>3. Top = t /\ Below = b
    BY DEF Top, Below
<1> HIDE DEF b, t
<1>4. On = Elements(b) \cup {t}
    BY <1>2, AppendElements DEF On
<1>5. Shape(b) /\ CanStandOn(t, b)
    BY <1>1, <1>2, ShapeAppend
<1>6. kernelState <=> InSection(b) \/ Section(t)
    BY <1>1, <1>4 DEF InSection, On
<1>7. \A w \in Wds :
        /\ HowMany(b, StartFrames(w)) \in Nat
        /\ HowMany(stack, StartFrames(w)) =
              HowMany(b, StartFrames(w)) + OneIf(t, StartFrames(w))
    BY <1>2, HowManyFinite, HowManyAppend DEF OneIf
<1> QED BY <1>2, <1>3, <1>4, <1>5, <1>6, <1>7 DEF OnTop

\* A frame more.
LEMMA Pushed == ASSUME NEW s \in Seq(Frames), Shape(s), NEW f \in Frames,
                       CanStandOn(f, s)
    PROVE  LET r == Append(s, f) IN
             /\ r \in Seq(Frames) /\ r # <<>> /\ Shape(r)
             /\ Elements(r) = Elements(s) \cup {f}
             /\ InSection(r) <=> InSection(s) \/ Section(f)
             /\ Len(r) = Len(s) + 1 /\ r[Len(r)] = f
             /\ \A w \in Wds : HowMany(r, StartFrames(w)) =
                   HowMany(s, StartFrames(w)) + OneIf(f, StartFrames(w))
<1> DEFINE r == Append(s, f)
<1>1. r \in Seq(Frames) /\ r # <<>> /\ Elements(r) = Elements(s) \cup {f}
      /\ Len(r) = Len(s) + 1 /\ r[Len(r)] = f
    BY AppendElements
<1>2. Shape(r)
    BY ShapeAppend
<1>3. \A w \in Wds : HowMany(r, StartFrames(w)) =
          HowMany(s, StartFrames(w)) + OneIf(f, StartFrames(w))
    BY HowManyAppend DEF OneIf
<1> HIDE DEF r
<1>4. InSection(r) <=> InSection(s) \/ Section(f)
    BY <1>1 DEF InSection
<1> QED BY <1>1, <1>2, <1>3, <1>4 DEF r

\* Without a section nothing is inside one.
LEMMA NothingInside == ASSUME NEW s \in Seq(Frames), Shape(s), ~InSection(s)
    PROVE  \A f \in Elements(s) : f.at \in {"task", "clock", "handler"}
                                  /\ ~Rests(f) /\ ~Inside(f) /\ ~Section(f)
<1>1. Elements(s) = {s[i] : i \in 1..Len(s)} /\ Elements(s) \subseteq Frames
    BY QueueElements
<1>2. \A f \in Elements(s) : ~Section(f)
    BY DEF InSection
<1>3. \A f \in Elements(s) : ~Inside(f)
  <2> SUFFICES ASSUME NEW j \in 1..Len(s), Inside(s[j]) PROVE FALSE
      BY <1>1
  <2>1. PICK i \in 1..(j - 1) : Section(s[i])
      BY DEF Shape
  <2>2. i \in 1..Len(s)
      OBVIOUS
  <2> QED BY <1>1, <1>2, <2>1, <2>2
<1> QED BY <1>1, <1>2, <1>3, FrameKinds DEF Rests, Inside, Section

\* While kernelState is FALSE nothing waits to be done, and no start is counted.
LEMMA KernelFree == ASSUME Types, StackOK, Deferred, ~kernelState
    PROVE  /\ jobs = <<>> /\ Elements(jobs) = {}
           /\ \A f \in On : f.at \in {"task", "clock", "handler"}
                            /\ ~Rests(f) /\ ~Inside(f) /\ ~Section(f)
           /\ \A w \in Wds : /\ dfrStartCount[w] = 0
                             /\ HowMany(jobs, StartJobs(w)) = 0
                             /\ HowMany(stack, StartFrames(w)) = 0
<1>1. jobs = <<>> /\ Elements(jobs) = {}
    BY DEF StackOK, Elements
<1>2. \A f \in On : f.at \in {"task", "clock", "handler"}
                    /\ ~Rests(f) /\ ~Inside(f) /\ ~Section(f)
    BY NothingInside DEF StackOK, On
<1>3. ASSUME NEW w \in Wds
      PROVE  HowMany(jobs, StartJobs(w)) = 0 /\ HowMany(stack, StartFrames(w)) = 0
  <2>1. HowMany(jobs, StartJobs(w)) = 0
      BY <1>1, HowManyFinite DEF Types
  <2>2. \A f \in Elements(stack) : f \notin StartFrames(w)
      BY <1>2 DEF StartFrames, On
  <2>3. HowMany(stack, StartFrames(w)) = 0
      BY <2>2, HowManyFinite DEF StackOK
  <2> QED BY <2>1, <2>3
<1>4. \A w \in Wds : dfrStartCount[w] = 0
    BY <1>3 DEF Deferred
<1> QED BY <1>1, <1>2, <1>3, <1>4

\* Below code that is no interrupt nothing rests.
LEMMA NothingRests == ASSUME NEW b, NEW t, OnTop(b, t), ~Interrupt(t)
    PROVE  \A f \in Elements(b) : ~Rests(f)
BY DEF OnTop, CanStandOn

\* The task is alone.
LEMMA TaskAlone == ASSUME NEW b, NEW t, OnTop(b, t), t.at = "task"
    PROVE  b = <<>> /\ Elements(b) = {} /\ ~kernelState
BY EmptyShape DEF OnTop, CanStandOn, Section

-----------------------------------------------------------------------------
(***************************************************************************)
(* Steps that neither start nor cancel nor call: frames come and go that   *)
(* refer to no watchdog.                                                   *)
(***************************************************************************)
Refers(f) == f.at \in {"start", "cancel", "destroy", "fire", "post"}

\* The jobs r are those of q, but for ticks.
SameStarts(r, q) ==
    /\ \A w \in Wds : HowMany(r, StartJobs(w)) = HowMany(q, StartJobs(w))
    /\ \A w \in Wds, d \in Delays : LastStart(r, w, d) => LastStart(q, w, d)
    /\ \A j \in Elements(r) : j.op # "tick" => j \in Elements(q)

SameFrames(r, q) ==
    /\ \A w \in Wds : HowMany(r, StartFrames(w)) = HowMany(q, StartFrames(w))
    /\ \A f : Refers(f) => (f \in Elements(r) <=> f \in Elements(q))

Unchanged == UNCHANGED <<wdVars, tickQ, asked, set>>

LEMMA Undisturbed ==
    ASSUME Deferred, StatusOK, QueueOK, FateOK, FuncOK, DelayOK, Unchanged,
           Private \subseteq Wds, SameStarts(jobs', jobs), SameFrames(stack', stack)
    PROVE  Deferred' /\ StatusOK' /\ QueueOK' /\ FateOK' /\ FuncOK' /\ DelayOK'
<1>1. UNCHANGED <<valid, status, dfrStartCount, wdFunc, tickQ, asked, set>>
    BY DEF Unchanged, wdVars
<1>2. \A f : Refers(f) => (f \in On' <=> f \in On)
    BY DEF SameFrames, On
<1>3. Deferred'
    BY <1>1 DEF Deferred, SameStarts, SameFrames
<1>4. \A w \in Wds : Destroying(w)' <=> Destroying(w)
    BY <1>2 DEF Destroying, Refers
<1>5. \A w \in Wds : Armed(w)' <=> Armed(w)
    BY <1>1, <1>2 DEF Armed, Refers
<1>6. \A w \in Wds : Cancelling(w)' <=> Cancelling(w)
    BY <1>2 DEF Cancelling, Refers
<1>7. StatusOK'
  <2> SUFFICES ASSUME NEW w \in Wds
               PROVE  /\ valid[w] => status[w] # "DEAD"
                      /\ ~valid[w] /\ status[w] # "DEAD" => Destroying(w)'
                      /\ Destroying(w)' => ~valid[w]
                      /\ ~valid[w] => /\ \A j \in Elements(jobs') : ~JobFor(j, w)
                                      /\ \A f \in On' : ~FrameFor(f, w)
      BY <1>1 DEF StatusOK
  <2>1. ~valid[w] => \A j \in Elements(jobs') : ~JobFor(j, w)
      BY DEF SameStarts, StatusOK, JobFor
  <2>2. ~valid[w] => \A f \in On' : ~FrameFor(f, w)
      BY <1>2 DEF StatusOK, FrameFor, Refers
  <2> QED BY <1>4, <2>1, <2>2 DEF StatusOK
<1>8. QueueOK'
    BY <1>1, <1>2 DEF QueueOK, Refers
<1>9. FateOK'
    BY <1>1, <1>5, <1>6 DEF FateOK
<1>10. FuncOK'
    BY <1>1, <1>2 DEF FuncOK, Refers
<1>11. DelayOK'
  <2> SUFFICES ASSUME NEW w \in Private
      PROVE  /\ \A f \in On' : f.at = "start" /\ f.wd = w => f.delay = asked[w].delay
             /\ \A f \in On' : Posting(f, w) => f.job.delay = asked[w].delay
             /\ (\A f \in On' : ~Posting(f, w)) =>
                   \A d \in Delays : LastStart(jobs', w, d) => d = asked[w].delay
             /\ Armed(w)' /\ dfrStartCount[w] = 0 /\ asked[w].fate # "over" =>
                   set[w].delay = asked[w].delay
      BY <1>1 DEF DelayOK
  <2>1. w \in Wds
      OBVIOUS
  <2>2. \A f : Posting(f, w) => (f \in On' <=> f \in On)
      BY <1>2 DEF Posting, Refers
  <2>3. \A f \in On' : f.at = "start" /\ f.wd = w => f.delay = asked[w].delay
      BY <1>2 DEF DelayOK, Refers
  <2> QED BY <1>5, <2>1, <2>2, <2>3 DEF DelayOK, SameStarts
<1> QED BY <1>3, <1>7, <1>8, <1>9, <1>10, <1>11

\* The jobs stay, or a tick comes or goes.
LEMMA SameJobs == SameStarts(jobs, jobs)
BY DEF SameStarts

\* The last start of a queue that grows.
LEMMA LastAppend ==
    ASSUME NEW q \in Seq(Jobs), NEW x \in Jobs, NEW w, NEW d,
           LastStart(Append(q, x), w, d)
    PROVE  IF StartJob(x, w) THEN x.delay = d ELSE LastStart(q, w, d)
<1> DEFINE r == Append(q, x)
<1>1. /\ Len(r) = Len(q) + 1 /\ Len(q) \in Nat /\ r[Len(q) + 1] = x
      /\ \A i \in 1..Len(q) : r[i] = q[i]
    BY AppendElements
<1> HIDE DEF r
<1>2. PICK i \in 1..Len(r) :
        /\ StartJob(r[i], w) /\ r[i].delay = d
        /\ \A k \in 1..Len(r) : k > i => ~StartJob(r[k], w)
    BY DEF LastStart, r
<1>3. CASE i = Len(q) + 1
    BY <1>1, <1>2, <1>3
<1>4. CASE i # Len(q) + 1
  <2>1. i \in 1..Len(q) /\ Len(q) + 1 \in 1..Len(r) /\ Len(q) + 1 > i
      BY <1>1, <1>4
  <2>2. ~StartJob(x, w)
      BY <1>1, <1>2, <2>1
  <2>3. \A k \in 1..Len(q) : k \in 1..Len(r)
      BY <1>1
  <2> QED BY <1>1, <1>2, <2>1, <2>2, <2>3 DEF LastStart
<1> QED BY <1>3, <1>4

LEMMA TickPosted == ASSUME jobs \in Seq(Jobs)
    PROVE  SameStarts(Append(jobs, [op |-> "tick"]), jobs)
<1> DEFINE j == [op |-> "tick"]
           r == Append(jobs, j)
<1>1. j \in Jobs /\ j.op = "tick"
    BY NewJobs
<1>2. Elements(r) = Elements(jobs) \cup {j}
    BY <1>1, AppendElements
<1>3. \A w \in Wds : HowMany(r, StartJobs(w)) = HowMany(jobs, StartJobs(w))
  <2> TAKE w \in Wds
  <2>1. j \notin StartJobs(w)
      BY <1>1 DEF StartJobs, StartJob
  <2> QED BY <1>1, <2>1, HowManyAppend, HowManyFinite
<1>4. ASSUME NEW w \in Wds, NEW d \in Delays, LastStart(r, w, d)
      PROVE  LastStart(jobs, w, d)
    BY <1>1, <1>4, LastAppend DEF StartJob
<1> HIDE DEF j, r
<1> QED BY <1>1, <1>2, <1>3, <1>4 DEF SameStarts, j, r

\* What is true of the jobs that are left.
LEMMA JobGone == ASSUME jobs \in Seq(Jobs), jobs # <<>>
    PROVE  /\ Tail(jobs) \in Seq(Jobs) /\ Head(jobs) \in Jobs
           /\ Elements(jobs) = Elements(Tail(jobs)) \cup {Head(jobs)}
           /\ \A w \in Wds : /\ HowMany(Tail(jobs), StartJobs(w)) \in Nat
                             /\ HowMany(jobs, StartJobs(w)) =
                                   HowMany(Tail(jobs), StartJobs(w))
                                       + OneIf(Head(jobs), StartJobs(w))
           /\ \A w \in Wds, d \in Delays :
                 LastStart(Tail(jobs), w, d) => LastStart(jobs, w, d)
<1> DEFINE r == Tail(jobs)
<1>1. /\ r \in Seq(Jobs) /\ Head(jobs) \in Jobs
      /\ Len(r) = Len(jobs) - 1 /\ Len(jobs) \in Nat \ {0}
      /\ \A i \in 1..(Len(jobs) - 1) : r[i] = jobs[i + 1]
      /\ Elements(jobs) = Elements(r) \cup {Head(jobs)}
    BY TailElements
<1>2. \A w \in Wds : /\ HowMany(r, StartJobs(w)) \in Nat
                     /\ HowMany(jobs, StartJobs(w)) =
                           HowMany(r, StartJobs(w)) + OneIf(Head(jobs), StartJobs(w))
    BY <1>1, HowManyTail, HowManyFinite DEF OneIf
<1> HIDE DEF r
<1>3. ASSUME NEW w \in Wds, NEW d \in Delays, LastStart(r, w, d)
      PROVE  LastStart(jobs, w, d)
  <2>1. PICK i \in 1..Len(r) :
          /\ StartJob(r[i], w) /\ r[i].delay = d
          /\ \A k \in 1..Len(r) : k > i => ~StartJob(r[k], w)
      BY <1>3 DEF LastStart
  <2>2. i + 1 \in 1..Len(jobs) /\ jobs[i + 1] = r[i]
      BY <1>1
  <2>3. ASSUME NEW k \in 1..Len(jobs), k > i + 1 PROVE ~StartJob(jobs[k], w)
    <3>1. k - 1 \in 1..Len(r) /\ k - 1 > i /\ jobs[k] = r[k - 1]
        BY <1>1, <2>3
    <3> QED BY <2>1, <3>1
  <2> QED BY <2>1, <2>2, <2>3 DEF LastStart
<1> QED BY <1>1, <1>2, <1>3 DEF r

LEMMA TickTaken == ASSUME jobs \in Seq(Jobs), jobs # <<>>, Head(jobs).op = "tick"
    PROVE  SameStarts(Tail(jobs), jobs)
<1>1. \A w \in Wds : OneIf(Head(jobs), StartJobs(w)) = 0
    BY DEF OneIf, StartJobs, StartJob
<1> QED BY <1>1, JobGone DEF SameStarts

LEMMA NoStart == ASSUME NEW f, ~Refers(f)
    PROVE  \A w \in Wds : OneIf(f, StartFrames(w)) = 0
BY DEF OneIf, StartFrames, Refers

LEMMA PlainPush == ASSUME NEW s \in Seq(Frames), Shape(s), NEW f \in Frames,
                          CanStandOn(f, s), ~Refers(f)
    PROVE  SameFrames(Append(s, f), s)
<1>1. /\ Elements(Append(s, f)) = Elements(s) \cup {f}
      /\ \A w \in Wds : HowMany(Append(s, f), StartFrames(w)) =
             HowMany(s, StartFrames(w)) + OneIf(f, StartFrames(w))
    BY Pushed
<1>2. \A w \in Wds : HowMany(s, StartFrames(w)) \in Nat
    BY HowManyFinite
<1> QED BY <1>1, <1>2, NoStart DEF SameFrames

LEMMA PlainPop == ASSUME NEW b, NEW t, OnTop(b, t), ~Refers(t)
    PROVE  SameFrames(b, stack)
BY NoStart DEF OnTop, SameFrames, On

LEMMA SameTwice == ASSUME NEW r, NEW s, NEW q, SameFrames(r, s), SameFrames(s, q)
    PROVE  SameFrames(r, q)
BY DEF SameFrames

LEMMA PlainStep ==
    ASSUME WdInv, Types', Unchanged, SameStarts(jobs', jobs),
           NEW s \in Seq(Frames), s # <<>>, Shape(s), SameFrames(s, stack),
           stack' = s, kernelState' = InSection(s), ~kernelState' => jobs' = <<>>
    PROVE  WdInv'
<1>1. StackOK'
    BY DEF StackOK
<1>2. Deferred' /\ StatusOK' /\ QueueOK' /\ FateOK' /\ FuncOK' /\ DelayOK'
    BY Undisturbed, WatchdogAssumption DEF WdInv, WatchdogAssumption
<1> QED BY <1>1, <1>2 DEF WdInv

\* A handler, or the clock interrupt, on top of whatever it interrupts.
LEMMA QuietKept == ASSUME WdInv, NEW f \in Frames, Quiet(f), ~Refers(f),
                          Interrupt(f)
    PROVE  WdInv'
<1>1. /\ stack' = Append(stack, f) /\ Unchanged /\ jobs' = jobs
      /\ kernelState' = kernelState
    BY DEF Quiet, Push, Unchanged, clockVars, ghosts, wdVars
<1>2. Types'
    BY DEF WdInv, Types, Quiet, clockVars, ghosts, wdVars
<1>3. stack \in Seq(Frames) /\ stack # <<>> /\ Shape(stack)
      /\ kernelState = InSection(stack)
    BY DEF WdInv, StackOK
<1>4. CanStandOn(f, stack)
    BY <1>3 DEF CanStandOn, Interrupt, Section, Inside, Refers
<1>5. ~Section(f)
    BY DEF Interrupt, Section
<1> DEFINE s == Append(stack, f)
<1>6. /\ s \in Seq(Frames) /\ s # <<>> /\ Shape(s)
      /\ InSection(s) <=> InSection(stack)
    BY <1>3, <1>4, <1>5, Pushed
<1>7. SameFrames(s, stack)
    BY <1>3, <1>4, PlainPush
<1> HIDE DEF s
<1>8. kernelState' = InSection(s)
    BY <1>1, <1>3, <1>6 DEF InSection
<1> QED BY <1>1, <1>2, <1>6, <1>7, <1>8, PlainStep, SameJobs DEF WdInv, StackOK, s

LEMMA InterruptKept == ASSUME WdInv, HandlerStarts \/ ClockInterrupt PROVE WdInv'
<1>1. CASE HandlerStarts
  <2> DEFINE f == [at |-> "handler", fn |-> NoWd]
  <2>1. f \in Frames /\ ~Refers(f) /\ Interrupt(f)
      BY NewFrames DEF Refers, Interrupt
  <2> QED BY <1>1, <2>1, QuietKept DEF HandlerStarts
<1>2. CASE ClockInterrupt
  <2> DEFINE f == [at |-> "clock"]
  <2>1. f \in Frames /\ ~Refers(f) /\ Interrupt(f)
      BY NewFrames DEF Refers, Interrupt
  <2> QED BY <1>2, <2>1, QuietKept DEF ClockInterrupt
<1> QED BY <1>1, <1>2

\* What returns: a handler, a function, a loop, or vmxExit.
LEMMA ReturnKept ==
    ASSUME WdInv, HandlerEnds \/ TickEnds \/ DrainEnds \/ ExitKernel
    PROVE  WdInv'
<1>1. PICK b, t : OnTop(b, t)
    BY Splits DEF WdInv
<1>2. t.at \in {"handler", "tick", "drain", "exit"} /\ stack' = b
    BY <1>1 DEF OnTop, HandlerEnds, TickEnds, DrainEnds, ExitKernel, Pop
<1>3. Unchanged /\ jobs' = jobs
    BY DEF HandlerEnds, TickEnds, DrainEnds, ExitKernel, Unchanged, clockVars,
           ghosts, wdVars
<1>4. Types'
    BY DEF WdInv, Types, HandlerEnds, TickEnds, DrainEnds, ExitKernel, clockVars,
           ghosts, wdVars
<1>5. b \in Seq(Frames) /\ b # <<>> /\ Shape(b) /\ SameFrames(b, stack)
    BY <1>1, <1>2, PlainPop DEF OnTop, CanStandOn, Refers
<1>6. kernelState' = InSection(b)
  <2>1. CASE t.at = "exit"
    <3>1. ~InSection(b) /\ kernelState' = FALSE
        BY <1>1, <2>1 DEF OnTop, CanStandOn, Section, HandlerEnds, TickEnds,
                          DrainEnds, ExitKernel
    <3> QED BY <3>1 DEF InSection
  <2>2. CASE t.at # "exit"
    <3>1. kernelState' = kernelState
        BY <1>1, <2>2 DEF OnTop, HandlerEnds, TickEnds, DrainEnds, ExitKernel
    <3>2. kernelState = InSection(stack) /\ (kernelState <=> InSection(b))
        BY <1>1, <1>2, <2>2 DEF OnTop, Section, WdInv, StackOK
    <3> QED BY <3>1, <3>2 DEF InSection
  <2> QED BY <2>1, <2>2
<1>7. ~kernelState' => jobs' = <<>>
    BY <1>3 DEF WdInv, StackOK, HandlerEnds, TickEnds, DrainEnds, ExitKernel
<1> QED BY <1>2, <1>3, <1>4, <1>5, <1>6, <1>7, PlainStep, SameJobs

LEMMA Concat1 == ASSUME NEW S, NEW s \in Seq(S), NEW x \in S
    PROVE  s \o <<x>> = Append(s, x)
OBVIOUS

LEMMA Concat2 == ASSUME NEW S, NEW s \in Seq(S), NEW x \in S, NEW y \in S
    PROVE  s \o <<x, y>> = Append(Append(s, x), y)
<1> DEFINE l == s \o <<x, y>>
           r == Append(Append(s, x), y)
<1>1. /\ l \in Seq(S) /\ Len(l) = Len(s) + 2 /\ Len(s) \in Nat
      /\ l[Len(s) + 1] = x /\ l[Len(s) + 2] = y
      /\ \A i \in 1..Len(s) : l[i] = s[i]
    OBVIOUS
<1>2. /\ r \in Seq(S) /\ Len(r) = Len(s) + 2
      /\ r[Len(s) + 1] = x /\ r[Len(s) + 2] = y
      /\ \A i \in 1..Len(s) : r[i] = s[i]
    OBVIOUS
<1> HIDE DEF l, r
<1>3. l = r
    BY <1>1, <1>2, SeqEqual
<1> QED BY <1>3 DEF l, r

\* The flag is TRUE or FALSE.
LEMMA AFlag == ASSUME NEW s, InSection(s) PROVE InSection(s) = TRUE
BY DEF InSection

\* The tick loop starts on top of code that has set kernelState.
LEMMA AnnounceKept ==
    ASSUME WdInv, NEW s \in Seq(Frames), Shape(s), s # <<>>, InSection(s),
           \A f \in Elements(s) : ~Rests(f), SameFrames(s, stack),
           Announce(s), kernelState' = TRUE, jobs' \in Seq(Jobs),
           SameStarts(jobs', jobs)
    PROVE  WdInv'
<1> DEFINE f == [at |-> "tick"]
           r == Append(s, f)
<1>1. f \in Frames /\ ~Refers(f) /\ CanStandOn(f, s)
    BY NewFrames DEF Refers, CanStandOn, Section
<1>2. stack' = r /\ Unchanged
    BY <1>1, Concat1 DEF Announce, Unchanged, ghosts, wdVars
<1>3. Types'
  <2>1. sysTicks' \in 0..(WORD - 1) /\ sysAbsTicks' \in Nat
      BY WatchdogAssumption DEF WatchdogAssumption, Announce, WdInv, Types
  <2> QED BY <2>1 DEF WdInv, Types, Announce, ghosts, wdVars
<1>4. r \in Seq(Frames) /\ r # <<>> /\ Shape(r) /\ InSection(r)
    BY <1>1, Pushed
<1>5. SameFrames(r, stack)
    BY <1>1, PlainPush, SameTwice
<1> HIDE DEF r
<1> QED BY <1>2, <1>3, <1>4, <1>5, AFlag, PlainStep

\* The clock interrupt: it counts and announces, or leaves a job.
LEMMA TickAnnounceKept == ASSUME WdInv, tickAnnounce PROVE WdInv'
<1>1. PICK b, t : OnTop(b, t)
    BY Splits DEF WdInv
<1>2. /\ t.at = "clock" /\ ~Refers(t) /\ b # <<>> /\ b \in Seq(Frames) /\ Shape(b)
      /\ SameFrames(b, stack)
    BY <1>1, PlainPop DEF OnTop, tickAnnounce, Refers, CanStandOn
<1>3. CASE kernelState
  <2>1. /\ stack' = b /\ Unchanged /\ kernelState' = TRUE
        /\ jobs' = Append(jobs, [op |-> "tick"])
      BY <1>1, <1>3 DEF tickAnnounce, OnTop, Pop, Unchanged, wdVars, clockVars, ghosts
  <2>2. Types'
      BY <1>3, <2>1, NewJobs DEF WdInv, Types, tickAnnounce, wdVars, clockVars, ghosts
  <2>3. InSection(b)
      BY <1>1, <1>2, <1>3 DEF OnTop, Section
  <2>4. SameStarts(jobs', jobs)
      BY <2>1, TickPosted DEF WdInv, Types
  <2> QED BY <1>2, <2>1, <2>2, <2>3, <2>4, AFlag, PlainStep
<1>4. CASE ~kernelState
  <2> DEFINE f == [at |-> "exit"]
             s == Append(b, f)
  <2>1. Announce(s) /\ kernelState' = TRUE /\ jobs' = jobs /\ jobs \in Seq(Jobs)
      BY <1>1, <1>4 DEF tickAnnounce, OnTop, WdInv, Types
  <2>2. \A g \in On : ~Rests(g) /\ ~Section(g)
      BY <1>4, KernelFree DEF WdInv
  <2>3. \A g \in Elements(b) : ~Rests(g) /\ ~Section(g)
      BY <1>1, <2>2 DEF OnTop
  <2>4. f \in Frames /\ ~Refers(f) /\ Section(f) /\ ~Rests(f) /\ CanStandOn(f, b)
      BY <1>2, <2>3, NewFrames DEF Refers, CanStandOn, InSection, Inside, Rests, Section
  <2>5. /\ s \in Seq(Frames) /\ s # <<>> /\ Shape(s) /\ InSection(s)
        /\ Elements(s) = Elements(b) \cup {f}
      BY <1>2, <2>4, Pushed
  <2>6. SameFrames(s, stack)
      BY <1>2, <2>4, PlainPush, SameTwice
  <2> HIDE DEF s
  <2>7. \A g \in Elements(s) : ~Rests(g)
      BY <2>3, <2>4, <2>5
  <2> QED BY <2>1, <2>5, <2>6, <2>7, SameJobs, AnnounceKept
<1> QED BY <1>3, <1>4

\* A tick that waited, while the loop of another tick runs or vmxExit.
LEMMA TickJobKept ==
    ASSUME WdInv, RunJob, Head(jobs).op = "tick", Announce(stack)
    PROVE  WdInv'
<1>1. PICK b, t : OnTop(b, t)
    BY Splits DEF WdInv
<1>2. t.at \in {"drain", "exit"} /\ jobs # <<>> /\ jobs' = Tail(jobs)
      /\ kernelState' = kernelState /\ kernelState
    BY <1>1 DEF RunJob, OnTop, WdInv, StackOK
<1>3. stack \in Seq(Frames) /\ stack # <<>> /\ Shape(stack) /\ InSection(stack)
    BY <1>2 DEF WdInv, StackOK
<1>4. \A g \in On : ~Rests(g)
    BY <1>1, <1>2, NothingRests DEF OnTop, Interrupt, Rests
<1>5. jobs' \in Seq(Jobs) /\ SameStarts(jobs', jobs)
    BY <1>2, JobGone, TickTaken DEF WdInv, Types
<1>6. SameFrames(stack, stack) /\ kernelState' = TRUE
  <2>1. kernelState = TRUE
      BY <1>3, AFlag DEF WdInv, StackOK
  <2> QED BY <1>2, <2>1 DEF SameFrames
<1> QED BY <1>3, <1>4, <1>5, <1>6, AnnounceKept DEF On

-----------------------------------------------------------------------------
(***************************************************************************)
(* Starts and cancels that are carried out: no call is under way then, and *)
(* nothing has expired that was not called.                                *)
(***************************************************************************)
\* The queue, the clock and the key that QPut leaves.
LEMMA PutKept ==
    ASSUME Types, QueueOK, NEW w \in Wds, NEW d \in Delays, QPut(w, d)
    PROVE  /\ IsQueue(tickQ', Wds) /\ Elements(tickQ') = Elements(tickQ) \cup {w}
           /\ sysTicks' \in 0..(WORD - 1) /\ key' \in [Wds -> 0..(WORD - 1)]
<1>1. /\ WORD \in Nat \ {0} /\ d \in 0..(WORD - 1) /\ sysTicks \in 0..(WORD - 1)
      /\ key \in [Wds -> 0..(WORD - 1)]
    BY WatchdogAssumption DEF WatchdogAssumption, Types
<1>2. Shifted \in [Wds -> 0..(WORD - 1)]
    BY <1>1 DEF Shifted
<1>3. sysTicks' \in 0..(WORD - 1) /\ key' \in [Wds -> 0..(WORD - 1)]
  <2>1. CASE Overflow(d)
      BY <1>1, <1>2, <2>1 DEF QPut
  <2>2. CASE ~Overflow(d)
      BY <1>1, <2>2 DEF QPut, Overflow
  <2> QED BY <2>1, <2>2
<1>4. IsQueue(tickQ', Wds) /\ Elements(tickQ') = Elements(tickQ) \cup {w}
  <2> DEFINE k == key'
  <2>1. tickQ' = IF status[w] = "IN_Q" THEN QPrioMove(tickQ, w, k)
                                       ELSE QPrioPut(tickQ, w, k)
      BY DEF QPut
  <2> HIDE DEF k
  <2>2. CASE status[w] = "IN_Q"
    <3>1. w \in Elements(tickQ) /\ IsQueue(tickQ, Wds)
        BY <2>2 DEF QueueOK
    <3> QED BY <2>1, <2>2, <3>1, MoveElements
  <2>3. CASE status[w] # "IN_Q"
    <3>1. w \notin Elements(tickQ) /\ IsQueue(tickQ, Wds)
        BY <2>3 DEF QueueOK
    <3> QED BY <2>1, <2>3, <3>1, PutElements
  <2> QED BY <2>2, <2>3
<1> QED BY <1>3, <1>4

\* The jobs that are left when one was taken or none.
FewerJobs == /\ jobs' \in Seq(Jobs)
             /\ \A j \in Elements(jobs') : j \in Elements(jobs)
             /\ \A w \in Wds, d \in Delays :
                   LastStart(jobs', w, d) => LastStart(jobs, w, d)

StartCount(w) == HowMany(jobs, StartJobs(w)) + HowMany(stack, StartFrames(w))

LEMMA StartCarriedOut ==
    ASSUME WdInv, NEW w \in Wds, NEW d \in Delays, vmxWdStart(w, d),
           UNCHANGED <<valid, wdFunc, asked>>, StackOK', FewerJobs,
           \A f \in On : f.at \notin {"cancel", "destroy", "fire", "post"},
           \A f \in On' : ~Refers(f), valid[w],
           \A v \in Wds : /\ StartCount(v)' \in Nat
                          /\ StartCount(v) = StartCount(v)' + OneIf(v, {w}),
           w \in Private /\ StartCount(w) = 1 => d = asked[w].delay
    PROVE  WdInv'
<1> DEFINE last == dfrStartCount'[w] = 0
<1>1. /\ dfrStartCount \in [Wds -> Nat] /\ status \in [Wds -> {"OUT_OF_Q", "IN_Q", "DEAD"}]
      /\ asked \in [Wds -> [delay : Nat, fate : {"open", "cancelling", "over"}]]
      /\ set \in [Wds -> [delay : Nat, due : Nat]]
    BY DEF WdInv, Types
<1>2. \A v \in Wds : dfrStartCount[v] = StartCount(v)
    BY DEF WdInv, Deferred, StartCount
<1>3. /\ dfrStartCount' = [dfrStartCount EXCEPT ![w] = @ - 1]
      /\ dfrStartCount[w] > 0 /\ dfrStartCount' \in [Wds -> Nat]
      /\ \A v \in Wds : dfrStartCount'[v] = StartCount(v)'
  <2>1. dfrStartCount' = [dfrStartCount EXCEPT ![w] = @ - 1]
      BY DEF vmxWdStart
  <2>2. StartCount(w) = StartCount(w)' + 1 /\ StartCount(w)' \in Nat
      BY DEF OneIf
  <2>3. \A v \in Wds : v # w => StartCount(v) = StartCount(v)'
      BY DEF OneIf
  <2> QED BY <1>1, <1>2, <2>1, <2>2, <2>3
<1>4. Deferred'
    BY <1>3 DEF Deferred, StartCount
<1>5. /\ IsQueue(tickQ', Wds)
      /\ Elements(tickQ') = IF last THEN Elements(tickQ) \cup {w} ELSE Elements(tickQ)
      /\ sysTicks' \in 0..(WORD - 1) /\ key' \in [Wds -> 0..(WORD - 1)]
  <2>1. CASE last
      BY <2>1, PutKept DEF WdInv, vmxWdStart
  <2>2. CASE ~last
      BY <2>2 DEF vmxWdStart, WdInv, Types, QueueOK
  <2> QED BY <2>1, <2>2
<1>6. /\ status' = IF last THEN [status EXCEPT ![w] = "IN_Q"] ELSE status
      /\ set' = IF last THEN [set EXCEPT ![w] = [delay |-> d, due |-> sysAbsTicks + d]]
                        ELSE set
      /\ sysAbsTicks' = sysAbsTicks
    BY DEF vmxWdStart, SetTo
<1>7. d \in Nat /\ sysAbsTicks + d \in Nat
    BY WatchdogAssumption DEF WatchdogAssumption, WdInv, Types
<1> HIDE DEF last
<1>8. Types'
    BY <1>3, <1>5, <1>6, <1>7 DEF Types, WdInv, FewerJobs
<1>9. StatusOK'
  <2> SUFFICES ASSUME NEW v \in Wds
               PROVE  /\ valid[v] => status'[v] # "DEAD"
                      /\ ~valid[v] => status'[v] = "DEAD"
                      /\ ~Destroying(v)'
                      /\ ~valid[v] => /\ \A j \in Elements(jobs') : ~JobFor(j, v)
                                      /\ \A f \in On' : ~FrameFor(f, v)
      BY DEF StatusOK
  <2>1. /\ valid[v] => status[v] # "DEAD"
        /\ ~valid[v] => \A j \in Elements(jobs) : ~JobFor(j, v)
      BY DEF WdInv, StatusOK
  <2>2. ~valid[v] => status[v] = "DEAD"
      BY DEF WdInv, StatusOK, Destroying
  <2>3. ~Destroying(v)' /\ \A f \in On' : ~FrameFor(f, v)
      BY DEF Destroying, Refers, FrameFor
  <2> QED BY <1>1, <1>6, <2>1, <2>2, <2>3 DEF FewerJobs
<1>10. QueueOK'
  <2>1. \A v \in Wds : status'[v] = "IN_Q" <=> v \in Elements(tickQ')
      BY <1>1, <1>5, <1>6 DEF WdInv, QueueOK
  <2> QED BY <1>5, <2>1 DEF QueueOK, Refers
<1>11. \A v \in Wds : /\ Armed(v)' => (v = w /\ last) \/ Armed(v)
                      /\ ~Cancelling(v)
    BY <1>5 DEF Armed, Refers, Cancelling
<1>12. FateOK'
  <2> SUFFICES ASSUME NEW v \in Wds
               PROVE  /\ dfrStartCount'[v] > 0 => asked[v].fate # "over"
                      /\ Armed(v)' => asked[v].fate # "over"
      BY DEF FateOK
  <2>1. /\ dfrStartCount[v] > 0 => asked[v].fate # "over"
        /\ Armed(v) => asked[v].fate # "over"
      BY <1>11 DEF WdInv, FateOK
  <2>2. dfrStartCount'[v] > 0 => dfrStartCount[v] > 0
      BY <1>1, <1>3
  <2> QED BY <1>3, <1>11, <2>1, <2>2
<1>13. FuncOK'
    BY DEF FuncOK, Refers
<1>14. DelayOK'
  <2> SUFFICES ASSUME NEW v \in Private
      PROVE  /\ \A f \in On' : f.at # "start" /\ ~Posting(f, v)
             /\ \A e \in Delays : LastStart(jobs', v, e) => e = asked[v].delay
             /\ Armed(v)' /\ dfrStartCount'[v] = 0 /\ asked[v].fate # "over" =>
                   set'[v].delay = asked[v].delay
      BY DEF DelayOK
  <2>1. v \in Wds
      BY WatchdogAssumption DEF WatchdogAssumption
  <2>2. \A f \in On' : f.at # "start" /\ ~Posting(f, v)
      BY DEF Refers, Posting
  <2>3. \A f \in On : ~Posting(f, v)
      BY DEF Posting
  <2>4. \A e \in Delays : LastStart(jobs', v, e) => e = asked[v].delay
      BY <2>1, <2>3 DEF WdInv, DelayOK, FewerJobs
  <2>5. CASE v = w
    <3>1. last => dfrStartCount[w] = 1
        BY <1>1, <1>3 DEF last
    <3>2. last => set'[w].delay = asked[w].delay
        BY <1>1, <1>2, <1>6, <2>5, <3>1
    <3> QED BY <2>2, <2>4, <2>5, <3>2 DEF last
  <2>6. CASE v # w
    <3>1. dfrStartCount'[v] = dfrStartCount[v] /\ set'[v] = set[v]
          /\ (Armed(v)' => Armed(v))
        BY <1>1, <1>3, <1>6, <1>11, <2>1, <2>6
    <3> QED BY <2>2, <2>4, <3>1 DEF WdInv, DelayOK
  <2> QED BY <2>5, <2>6
<1> QED BY <1>4, <1>8, <1>9, <1>10, <1>12, <1>13, <1>14 DEF WdInv

LEMMA CancelCarriedOut ==
    ASSUME WdInv, NEW w \in Wds, vmxWdCancel(w), Forget(w),
           status' = [status EXCEPT ![w] = IF Destroying(w) THEN "DEAD"
                                                            ELSE Cancelled(w)],
           UNCHANGED <<valid, dfrStartCount, wdFunc, sysTicks, sysAbsTicks, asked>>,
           StackOK', FewerJobs,
           \A f \in On : /\ f.at \notin {"start", "fire", "post"}
                         /\ f.at \in {"cancel", "destroy"} => f.wd = w,
           \A f \in On' : ~Refers(f),
           \A v \in Wds : StartCount(v)' = StartCount(v)
    PROVE  WdInv'
<1>1. /\ status \in [Wds -> {"OUT_OF_Q", "IN_Q", "DEAD"}]
      /\ set \in [Wds -> [delay : Nat, due : Nat]]
      /\ key \in [Wds -> 0..(WORD - 1)] /\ 0 \in 0..(WORD - 1)
    BY WatchdogAssumption DEF WatchdogAssumption, WdInv, Types
<1>2. Deferred'
    BY DEF WdInv, Deferred, StartCount
<1>3. IsQueue(tickQ', Wds) /\ Elements(tickQ') = Elements(tickQ) \ {w}
  <2>1. IsQueue(tickQ, Wds) /\ (status[w] = "IN_Q" <=> w \in Elements(tickQ))
      BY DEF WdInv, QueueOK
  <2>2. CASE status[w] = "IN_Q"
      BY <2>1, <2>2, RemoveQueue DEF vmxWdCancel
  <2>3. CASE status[w] # "IN_Q"
      BY <2>1, <2>3 DEF vmxWdCancel
  <2> QED BY <2>2, <2>3
<1>4. /\ \A v \in Wds : v # w => status'[v] = status[v] /\ set'[v] = set[v]
      /\ status'[w] = IF Destroying(w) THEN "DEAD" ELSE Cancelled(w)
      /\ status'[w] # "IN_Q"
    BY <1>1 DEF Forget, Cancelled
<1>5. Types'
  <2>1. status' \in [Wds -> {"OUT_OF_Q", "IN_Q", "DEAD"}]
      BY <1>1 DEF Cancelled
  <2>2. key' \in [Wds -> 0..(WORD - 1)]
      BY <1>1 DEF Forget
  <2>3. set' \in [Wds -> [delay : Nat, due : Nat]]
      BY <1>1 DEF Forget, NotSet
  <2> QED BY <2>1, <2>2, <2>3 DEF WdInv, Types, FewerJobs
<1>6. StatusOK'
  <2> SUFFICES ASSUME NEW v \in Wds
               PROVE  /\ valid[v] => status'[v] # "DEAD"
                      /\ ~valid[v] => status'[v] = "DEAD"
                      /\ ~Destroying(v)'
                      /\ ~valid[v] => /\ \A j \in Elements(jobs') : ~JobFor(j, v)
                                      /\ \A f \in On' : ~FrameFor(f, v)
      BY DEF StatusOK
  <2>1. /\ valid[v] => status[v] # "DEAD"
        /\ ~valid[v] => \A j \in Elements(jobs) : ~JobFor(j, v)
        /\ ~valid[v] /\ status[v] # "DEAD" => Destroying(v)
        /\ Destroying(v) => ~valid[v]
      BY DEF WdInv, StatusOK
  <2>2. Destroying(v) => v = w
      BY DEF Destroying
  <2>3. ~Destroying(v)' /\ \A f \in On' : ~FrameFor(f, v)
      BY DEF Destroying, Refers, FrameFor
  <2> QED BY <1>4, <2>1, <2>2, <2>3 DEF FewerJobs, Cancelled
<1>7. QueueOK'
  <2>1. \A v \in Wds : status'[v] = "IN_Q" <=> v \in Elements(tickQ')
      BY <1>3, <1>4 DEF WdInv, QueueOK
  <2> QED BY <1>3, <2>1 DEF QueueOK, Refers
<1>8. \A v \in Wds : Armed(v)' => v # w /\ Armed(v) /\ ~Cancelling(v)
    BY <1>3 DEF Armed, Refers, Cancelling
<1>9. FateOK'
    BY <1>8 DEF WdInv, FateOK
<1>10. FuncOK'
    BY DEF FuncOK, Refers
<1>11. DelayOK'
  <2> SUFFICES ASSUME NEW v \in Private
      PROVE  /\ \A f \in On' : f.at # "start" /\ ~Posting(f, v)
             /\ \A e \in Delays : LastStart(jobs', v, e) => e = asked[v].delay
             /\ Armed(v)' /\ dfrStartCount[v] = 0 /\ asked[v].fate # "over" =>
                   set'[v].delay = asked[v].delay
      BY DEF DelayOK
  <2>1. v \in Wds
      BY WatchdogAssumption DEF WatchdogAssumption
  <2>2. \A f \in On' : f.at # "start" /\ ~Posting(f, v)
      BY DEF Refers, Posting
  <2>3. \A f \in On : ~Posting(f, v)
      BY DEF Posting
  <2>4. \A e \in Delays : LastStart(jobs', v, e) => e = asked[v].delay
      BY <2>1, <2>3 DEF WdInv, DelayOK, FewerJobs
  <2> QED BY <1>4, <1>8, <2>1, <2>2, <2>4 DEF WdInv, DelayOK
<1> QED BY <1>2, <1>5, <1>6, <1>7, <1>9, <1>10, <1>11 DEF WdInv

\* A call that has done its work leaves the kernel.
LEMMA BecomesExit ==
    ASSUME WdInv, NEW b, NEW t, OnTop(b, t), t.at \in {"start", "cancel", "destroy"},
           Become([at |-> "exit"]), UNCHANGED <<kernelState, jobs>>
    PROVE  /\ StackOK' /\ FewerJobs
           /\ \A f \in On' : ~Refers(f)
           /\ \A f \in Elements(b) : ~Rests(f)
           /\ \A v \in Wds : /\ StartCount(v)' \in Nat
                             /\ StartCount(v) = StartCount(v)' + OneIf(t, StartFrames(v))
<1> DEFINE f == [at |-> "exit"]
           r == Append(b, f)
<1>1. b \in Seq(Frames) /\ Shape(b) /\ b # <<>> /\ ~InSection(b)
      /\ \A g \in Elements(b) : ~Rests(g)
    BY NothingRests DEF OnTop, CanStandOn, Section, Interrupt
<1>2. f \in Frames /\ ~Refers(f) /\ Section(f) /\ CanStandOn(f, b)
    BY <1>1, NewFrames DEF Refers, Section, CanStandOn, Inside
<1>3. /\ r \in Seq(Frames) /\ r # <<>> /\ Shape(r) /\ InSection(r)
      /\ Elements(r) = Elements(b) \cup {f}
      /\ \A v \in Wds : HowMany(r, StartFrames(v)) =
             HowMany(b, StartFrames(v)) + OneIf(f, StartFrames(v))
    BY <1>1, <1>2, Pushed
<1>4. stack' = r
    BY DEF Become, OnTop
<1> HIDE DEF r
<1>5. kernelState' = InSection(stack') /\ kernelState'
  <2>1. kernelState
      BY DEF OnTop, Section
  <2> QED BY <1>3, <1>4, <2>1, AFlag DEF WdInv, StackOK
<1>6. \A v \in Wds : HowMany(stack', StartFrames(v)) = HowMany(b, StartFrames(v))
    BY <1>2, <1>3, <1>4, NoStart DEF OnTop
<1>7. StackOK'
    BY <1>3, <1>4, <1>5 DEF StackOK
<1>8. \A g \in On' : ~Refers(g)
    BY <1>1, <1>2, <1>3, <1>4 DEF On, Refers, Rests
<1>9. \A v \in Wds : /\ StartCount(v)' \in Nat
                     /\ StartCount(v) = StartCount(v)' + OneIf(t, StartFrames(v))
  <2> TAKE v \in Wds
  <2>1. HowMany(jobs, StartJobs(v)) \in Nat
      BY HowManyFinite DEF WdInv, Types
  <2>2. OneIf(t, StartFrames(v)) \in Nat
      BY DEF OneIf
  <2> QED BY <1>6, <2>1, <2>2 DEF StartCount, OnTop
<1> QED BY <1>1, <1>7, <1>8, <1>9 DEF FewerJobs, WdInv, Types

LEMMA StartKept == ASSUME WdInv, Start PROVE WdInv'
<1>1. PICK b, t : OnTop(b, t)
    BY Splits DEF WdInv
<1> DEFINE w == t.wd
           d == t.delay
<1>2. /\ t.at = "start" /\ vmxWdStart(w, d) /\ Become([at |-> "exit"])
      /\ UNCHANGED <<valid, wdFunc, kernelState, jobs, asked>>
    BY <1>1 DEF Start, OnTop
<1>3. w \in Wds /\ d \in Delays
    BY <1>1, <1>2, FrameKinds DEF OnTop
<1>4. /\ StackOK' /\ FewerJobs
      /\ \A f \in On' : ~Refers(f)
      /\ \A f \in Elements(b) : ~Rests(f)
      /\ \A v \in Wds : /\ StartCount(v)' \in Nat
                        /\ StartCount(v) = StartCount(v)' + OneIf(t, StartFrames(v))
    BY <1>1, <1>2, BecomesExit
<1>5. \A f \in On : f.at \notin {"cancel", "destroy", "fire", "post"}
    BY <1>1, <1>2, <1>4 DEF OnTop, Rests
<1>6. \A v \in Wds : OneIf(t, StartFrames(v)) = OneIf(v, {w})
    BY <1>1, <1>2 DEF OneIf, StartFrames, OnTop
<1>7. valid[w]
    BY <1>1, <1>2, <1>3 DEF WdInv, StatusOK, FrameFor, OnTop, Types
<1>8. w \in Private => d = asked[w].delay
    BY <1>1, <1>2 DEF WdInv, DelayOK, OnTop
<1> HIDE DEF w, d
<1> QED BY <1>2, <1>3, <1>4, <1>5, <1>6, <1>7, <1>8, StartCarriedOut

LEMMA CancelKept == ASSUME WdInv, Cancel PROVE WdInv'
<1>1. PICK b, t : OnTop(b, t)
    BY Splits DEF WdInv
<1> DEFINE w == t.wd
<1>2. /\ t.at \in {"cancel", "destroy"} /\ vmxWdCancel(w) /\ Forget(w)
      /\ status' = [status EXCEPT ![w] = IF t.at = "destroy" THEN "DEAD"
                                                             ELSE Cancelled(w)]
      /\ Become([at |-> "exit"])
      /\ UNCHANGED <<valid, dfrStartCount, wdFunc, sysTicks, sysAbsTicks,
                     kernelState, jobs, asked>>
    BY <1>1 DEF Cancel, OnTop
<1>3. w \in Wds
    BY <1>1, <1>2, FrameKinds DEF OnTop
<1>4. /\ StackOK' /\ FewerJobs
      /\ \A f \in On' : ~Refers(f)
      /\ \A f \in Elements(b) : ~Rests(f)
      /\ \A v \in Wds : /\ StartCount(v)' \in Nat
                        /\ StartCount(v) = StartCount(v)' + OneIf(t, StartFrames(v))
    BY <1>1, <1>2, BecomesExit
<1>5. \A f \in On : /\ f.at \notin {"start", "fire", "post"}
                    /\ f.at \in {"cancel", "destroy"} => f.wd = w
    BY <1>1, <1>2, <1>4 DEF OnTop, Rests
<1>6. \A v \in Wds : StartCount(v)' = StartCount(v)
  <2>1. \A v \in Wds : OneIf(t, StartFrames(v)) = 0
      BY <1>2 DEF OneIf, StartFrames
  <2> QED BY <1>4, <2>1
<1>7. Destroying(w) <=> t.at = "destroy"
    BY <1>1, <1>2, <1>4 DEF Destroying, OnTop, Rests
<1>8. status' = [status EXCEPT ![w] = IF Destroying(w) THEN "DEAD"
                                                       ELSE Cancelled(w)]
    BY <1>2, <1>7
<1> HIDE DEF w
<1> QED BY <1>2, <1>3, <1>4, <1>5, <1>6, <1>8, CancelCarriedOut

\* A job that workQDoWork runs.
LEMMA JobRuns ==
    ASSUME WdInv, Top.at \in {"drain", "exit"}, jobs # <<>>, jobs' = Tail(jobs),
           UNCHANGED <<kernelState, stack>>
    PROVE  /\ StackOK' /\ FewerJobs
           /\ \A f \in On : ~Rests(f) /\ ~Refers(f)
           /\ On' = On
           /\ \A v \in Wds : /\ StartCount(v)' \in Nat
                             /\ HowMany(Tail(jobs), StartJobs(v)) \in Nat
                             /\ HowMany(stack, StartFrames(v)) \in Nat
                             /\ StartCount(v)' = HowMany(Tail(jobs), StartJobs(v))
                                                  + HowMany(stack, StartFrames(v))
                             /\ StartCount(v) = StartCount(v)'
                                                 + OneIf(Head(jobs), StartJobs(v))
<1>1. PICK b, t : OnTop(b, t)
    BY Splits DEF WdInv
<1>2. \A f \in On : ~Rests(f) /\ ~Refers(f)
    BY <1>1, NothingRests DEF OnTop, Interrupt, Rests, Refers
<1>3. StackOK'
    BY DEF WdInv, StackOK
<1>4. /\ FewerJobs
      /\ \A v \in Wds : /\ HowMany(Tail(jobs), StartJobs(v)) \in Nat
                        /\ HowMany(jobs, StartJobs(v)) =
                               HowMany(Tail(jobs), StartJobs(v))
                                   + OneIf(Head(jobs), StartJobs(v))
    BY JobGone DEF WdInv, Types, FewerJobs
<1>5. \A v \in Wds : /\ HowMany(stack, StartFrames(v)) \in Nat
                     /\ OneIf(Head(jobs), StartJobs(v)) \in Nat
    BY HowManyFinite DEF WdInv, StackOK, OneIf
<1> QED BY <1>2, <1>3, <1>4, <1>5 DEF StartCount, On

LEMMA StartJobKept ==
    ASSUME WdInv, Top.at \in {"drain", "exit"}, jobs # <<>>, jobs' = Tail(jobs),
           UNCHANGED <<kernelState, stack>>, Head(jobs).op = "start",
           vmxWdStart(Head(jobs).wd, Head(jobs).delay),
           UNCHANGED <<valid, wdFunc, asked>>
    PROVE  WdInv'
<1> DEFINE w == Head(jobs).wd
           d == Head(jobs).delay
<1>1. /\ Head(jobs) \in Jobs /\ Head(jobs) \in Elements(jobs)
      /\ Tail(jobs) \in Seq(Jobs) /\ jobs \in Seq(Jobs)
      /\ Len(Tail(jobs)) = Len(jobs) - 1 /\ Len(jobs) \in Nat \ {0}
      /\ Head(jobs) = jobs[1]
      /\ \A i \in 1..(Len(jobs) - 1) : Tail(jobs)[i] = jobs[i + 1]
    BY TailElements DEF WdInv, Types
<1>2. w \in Wds /\ d \in Delays
    BY <1>1, JobKinds
<1>3. \A v \in Wds : OneIf(Head(jobs), StartJobs(v)) = OneIf(v, {w})
    BY <1>1 DEF OneIf, StartJobs, StartJob
<1>4. valid[w]
    BY <1>1, <1>2 DEF WdInv, StatusOK, JobFor, Types
<1>5. /\ StackOK' /\ FewerJobs /\ On' = On
      /\ \A f \in On : ~Rests(f) /\ ~Refers(f)
      /\ \A v \in Wds : /\ StartCount(v)' \in Nat
                        /\ HowMany(Tail(jobs), StartJobs(v)) \in Nat
                        /\ HowMany(stack, StartFrames(v)) \in Nat
                        /\ StartCount(v)' = HowMany(Tail(jobs), StartJobs(v))
                                             + HowMany(stack, StartFrames(v))
                        /\ StartCount(v) = StartCount(v)' + OneIf(v, {w})
    BY <1>3, JobRuns
<1>6. ASSUME w \in Private, StartCount(w) = 1 PROVE d = asked[w].delay
  <2>1. HowMany(Tail(jobs), StartJobs(w)) = 0
      BY <1>2, <1>5, <1>6 DEF OneIf
  <2>2. \A i \in 1..(Len(jobs) - 1) : ~StartJob(Tail(jobs)[i], w)
    <3>1. \A j \in Elements(Tail(jobs)) : j \notin StartJobs(w)
        BY <1>1, <2>1, HowManyFinite
    <3>2. \A i \in 1..(Len(jobs) - 1) : /\ Tail(jobs)[i] \in Elements(Tail(jobs))
                                        /\ Tail(jobs)[i] \in Jobs
      <4>1. /\ Elements(Tail(jobs)) = {Tail(jobs)[i] : i \in 1..Len(Tail(jobs))}
            /\ Elements(Tail(jobs)) \subseteq Jobs
          BY <1>1, QueueElements
      <4> QED BY <1>1, <4>1
    <3> QED BY <3>1, <3>2 DEF StartJobs
  <2>3. \A j \in 1..Len(jobs) : j > 1 => ~StartJob(jobs[j], w)
    <3> TAKE j \in 1..Len(jobs)
    <3> HAVE j > 1
    <3>1. j - 1 \in 1..(Len(jobs) - 1) /\ Tail(jobs)[j - 1] = jobs[j]
        BY <1>1
    <3> QED BY <2>2, <3>1
  <2>4. LastStart(jobs, w, d)
    <3>1. 1 \in 1..Len(jobs) /\ StartJob(jobs[1], w) /\ jobs[1].delay = d
        BY <1>1 DEF StartJob
    <3> QED BY <2>3, <3>1 DEF LastStart
  <2> QED BY <1>2, <1>5, <1>6, <2>4 DEF WdInv, DelayOK, Posting, Refers
<1>7. \A f \in On : f.at \notin {"cancel", "destroy", "fire", "post"}
    BY <1>5 DEF Refers
<1> HIDE DEF w, d
<1> QED BY <1>2, <1>4, <1>5, <1>6, <1>7, StartCarriedOut DEF w, d

LEMMA CancelJobKept ==
    ASSUME WdInv, Top.at \in {"drain", "exit"}, jobs # <<>>, jobs' = Tail(jobs),
           UNCHANGED <<kernelState, stack>>, Head(jobs).op = "cancel",
           vmxWdCancel(Head(jobs).wd), Forget(Head(jobs).wd),
           status' = [status EXCEPT ![Head(jobs).wd] = Cancelled(Head(jobs).wd)],
           UNCHANGED <<valid, dfrStartCount, wdFunc, sysTicks, sysAbsTicks, asked>>
    PROVE  WdInv'
<1> DEFINE w == Head(jobs).wd
<1>1. Head(jobs) \in Jobs /\ w \in Wds
    BY JobGone, JobKinds DEF WdInv, Types
<1>2. \A v \in Wds : OneIf(Head(jobs), StartJobs(v)) = 0
    BY DEF OneIf, StartJobs, StartJob
<1>3. /\ StackOK' /\ FewerJobs /\ On' = On
      /\ \A f \in On : ~Rests(f) /\ ~Refers(f)
      /\ \A v \in Wds : StartCount(v)' = StartCount(v)
    BY <1>2, JobRuns
<1>4. ~Destroying(w)
    BY <1>3 DEF Destroying, Refers
<1>5. status' = [status EXCEPT ![w] = IF Destroying(w) THEN "DEAD"
                                                       ELSE Cancelled(w)]
    BY <1>4
<1>6. \A f \in On : /\ f.at \notin {"start", "fire", "post"}
                    /\ f.at \in {"cancel", "destroy"} => f.wd = w
    BY <1>3 DEF Refers
<1> HIDE DEF w
<1> QED BY <1>1, <1>3, <1>5, <1>6, CancelCarriedOut DEF w

LEMMA RunJobKept == ASSUME WdInv, RunJob PROVE WdInv'
<1>1. Top.at \in {"drain", "exit"} /\ jobs # <<>> /\ jobs' = Tail(jobs)
      /\ kernelState' = kernelState
    BY DEF RunJob
<1>2. CASE Head(jobs).op = "start"
    BY <1>1, <1>2, StartJobKept DEF RunJob
<1>3. CASE Head(jobs).op = "cancel"
    BY <1>1, <1>3, CancelJobKept DEF RunJob
<1>4. CASE Head(jobs).op = "tick"
    BY <1>4, TickJobKept DEF RunJob
<1> QED BY <1>2, <1>3, <1>4 DEF RunJob

-----------------------------------------------------------------------------
(***************************************************************************)
(* Expiry and the call of the function.                                    *)
(***************************************************************************)
LEMMA ExpireKept == ASSUME WdInv, Expire PROVE WdInv'
<1>1. PICK b, t : OnTop(b, t)
    BY Splits DEF WdInv
<1> DEFINE w == Head(tickQ)
           f == [at |-> "fire", wd |-> w, func |-> wdFunc[w]]
           r == Append(stack, f)
<1>2. /\ t.at = "tick" /\ tickQ # <<>> /\ tickQ' = Tail(tickQ) /\ stack' = r
      /\ status' = [status EXCEPT ![w] = "OUT_OF_Q"]
      /\ key' = [key EXCEPT ![w] = 0]
      /\ UNCHANGED <<valid, dfrStartCount, wdFunc, sysTicks, sysAbsTicks,
                     kernelState, jobs, asked, set>>
    BY <1>1 DEF Expire, Expired, OnTop, Push, ghosts
<1>3. /\ w \in Wds /\ w \in Elements(tickQ) /\ IsQueue(tickQ', Wds)
      /\ Elements(tickQ') = Elements(tickQ) \ {w}
    BY <1>2, TailQueue DEF WdInv, QueueOK
<1>4. f \in Frames /\ f.at = "fire" /\ f.wd = w /\ f.func = wdFunc[w]
    BY <1>3, NewFrames DEF WdInv, Types
<1> HIDE DEF w, f
<1>5. \A g \in On : ~Rests(g) /\ g.at \notin {"start", "cancel", "destroy",
                                              "fire", "post"}
    BY <1>1, <1>2, NothingRests DEF OnTop, Interrupt, Rests
<1>6. stack \in Seq(Frames) /\ stack # <<>> /\ Shape(stack)
      /\ kernelState = InSection(stack) /\ stack[Len(stack)].at = "tick"
    BY <1>1, <1>2 DEF WdInv, StackOK, OnTop, Top
<1>7. InSection(stack)
    BY <1>1, <1>2, <1>6 DEF OnTop, CanStandOn, Inside
<1>8. CanStandOn(f, stack)
    BY <1>4, <1>5, <1>6, <1>7 DEF CanStandOn, Section, On
<1>9. /\ r \in Seq(Frames) /\ r # <<>> /\ Shape(r) /\ Elements(r) = On \cup {f}
      /\ InSection(r)
      /\ \A v \in Wds : HowMany(r, StartFrames(v)) =
             HowMany(stack, StartFrames(v)) + OneIf(f, StartFrames(v))
    BY <1>4, <1>6, <1>7, <1>8, Pushed DEF On
<1> HIDE DEF r
<1>10. On' = On \cup {f}
    BY <1>2, <1>9 DEF On
<1>11. StackOK'
  <2>1. kernelState' = InSection(stack')
      BY <1>2, <1>6, <1>7, <1>9, AFlag
  <2> QED BY <1>2, <1>6, <1>7, <1>9, <2>1 DEF StackOK
<1>12. Types'
    BY <1>2, <1>3, WatchdogAssumption DEF WatchdogAssumption, WdInv, Types
<1>13. Deferred'
  <2>1. \A v \in Wds : OneIf(f, StartFrames(v)) = 0
      BY <1>4 DEF OneIf, StartFrames
  <2>2. \A v \in Wds : HowMany(stack, StartFrames(v)) \in Nat
      BY <1>6, HowManyFinite
  <2> QED BY <1>2, <1>9, <2>1, <2>2 DEF WdInv, Deferred
<1>14. \A v \in Wds : /\ v # w => status'[v] = status[v]
                      /\ status'[w] = "OUT_OF_Q" /\ status[w] = "IN_Q"
    BY <1>2, <1>3 DEF WdInv, Types, QueueOK
<1>15. \A v \in Wds : ~Destroying(v) /\ ~Destroying(v)'
    BY <1>4, <1>5, <1>10 DEF Destroying
<1>16. valid[w]
    BY <1>3, <1>14, <1>15 DEF WdInv, StatusOK, Types
<1>17. StatusOK'
  <2>1. \A v \in Wds : ~valid[v] => ~FrameFor(f, v)
      BY <1>4, <1>16 DEF FrameFor
  <2> QED BY <1>2, <1>10, <1>14, <1>15, <1>16, <2>1 DEF WdInv, StatusOK
<1>18. QueueOK'
  <2>1. \A v \in Wds : status'[v] = "IN_Q" <=> v \in Elements(tickQ')
      BY <1>3, <1>14 DEF WdInv, QueueOK
  <2> QED BY <1>3, <1>4, <1>5, <1>10, <2>1 DEF QueueOK
<1>19. \A v \in Wds : Armed(v)' => Armed(v)
    BY <1>3, <1>4, <1>5, <1>10 DEF Armed
<1>20. FateOK'
  <2>1. \A v \in Wds : ~Cancelling(v)
      BY <1>5 DEF Cancelling
  <2> QED BY <1>2, <1>19, <2>1 DEF WdInv, FateOK
<1>21. FuncOK'
    BY <1>2, <1>4, <1>5, <1>10 DEF FuncOK
<1>22. DelayOK'
  <2>1. \A v \in Private : v \in Wds
      BY WatchdogAssumption DEF WatchdogAssumption
  <2>2. \A g \in On' : g.at # "start" /\ g.at # "post"
      BY <1>4, <1>5, <1>10
  <2>3. \A g \in On : g.at # "post"
      BY <1>5
  <2> QED BY <1>2, <1>19, <2>1, <2>2, <2>3 DEF WdInv, DelayOK, Posting
<1> QED BY <1>11, <1>12, <1>13, <1>17, <1>18, <1>20, <1>21, <1>22 DEF WdInv

\* What becomes of what was asked for.
LEMMA FateKept == ASSUME Types, NEW w \in Wds, NEW x \in {"cancelling", "over"},
                         Fate(w, x)
    PROVE  /\ asked' \in [Wds -> [delay : Nat, fate : {"open", "cancelling", "over"}]]
           /\ \A v \in Wds : v # w => asked'[v] = asked[v]
           /\ asked'[w].fate = IF asked[w].fate = "over" THEN "over" ELSE x
           /\ asked'[w].fate # "over" => asked'[w].delay = asked[w].delay
<1>1. asked \in [Wds -> [delay : Nat, fate : {"open", "cancelling", "over"}]]
    BY DEF Types
<1>2. asked' = [asked EXCEPT ![w] =
          IF asked[w].fate = "over" \/ x = "over" THEN [delay |-> 0, fate |-> "over"]
                                          ELSE [asked[w] EXCEPT !.fate = x]]
    BY DEF Fate
<1>3. CASE asked[w].fate = "over" \/ x = "over"
    BY <1>1, <1>2, <1>3
<1>4. CASE ~(asked[w].fate = "over" \/ x = "over")
  <2>1. asked' = [asked EXCEPT ![w] = [asked[w] EXCEPT !.fate = x]]
      BY <1>2, <1>4
  <2>2. /\ [asked[w] EXCEPT !.fate = x] \in
              [delay : Nat, fate : {"open", "cancelling", "over"}]
        /\ [asked[w] EXCEPT !.fate = x].fate = x
        /\ [asked[w] EXCEPT !.fate = x].delay = asked[w].delay
      BY <1>1
  <2> QED BY <1>1, <1>4, <2>1, <2>2
<1> QED BY <1>3, <1>4

\* Of no start none is the last.
LEMMA NoneWaits == ASSUME WdInv, NEW w \in Wds, dfrStartCount[w] = 0
    PROVE  /\ \A f \in On : f \notin StartFrames(w) /\ ~Posting(f, w)
                            /\ ~(f.at = "start" /\ f.wd = w)
           /\ \A d \in Delays : ~LastStart(jobs, w, d)
<1>1. stack \in Seq(Frames) /\ jobs \in Seq(Jobs)
    BY DEF WdInv, StackOK, Types
<1>2. HowMany(jobs, StartJobs(w)) = 0 /\ HowMany(stack, StartFrames(w)) = 0
  <2>1. HowMany(jobs, StartJobs(w)) \in Nat /\ HowMany(stack, StartFrames(w)) \in Nat
      BY <1>1, HowManyFinite
  <2>2. HowMany(jobs, StartJobs(w)) + HowMany(stack, StartFrames(w)) = 0
      BY DEF WdInv, Deferred
  <2> QED BY <2>1, <2>2
<1>3. \A f \in On : f \notin StartFrames(w) /\ f \in Frames
    BY <1>1, <1>2, HowManyFinite, QueueElements DEF On
<1>4. \A j \in Elements(jobs) : j \notin StartJobs(w) /\ j \in Jobs
    BY <1>1, <1>2, HowManyFinite, QueueElements
<1>5. \A i \in 1..Len(jobs) : jobs[i] \in Elements(jobs)
    BY <1>1, QueueElements
<1> QED BY <1>3, <1>4, <1>5 DEF StartFrames, StartJobs, LastStart, Posting

LEMMA FireKept == ASSUME WdInv, Fire PROVE WdInv'
<1>1. PICK b, t : OnTop(b, t)
    BY Splits DEF WdInv
<1> DEFINE w == t.wd
           calls == dfrStartCount[w] = 0
           drain == [at |-> "drain"]
           handler == [at |-> "handler", fn |-> w]
           s == Append(b, drain)
           r == IF calls THEN Append(s, handler) ELSE s
<1>2. /\ t.at = "fire" /\ set' = [set EXCEPT ![w] = NotSet]
      /\ UNCHANGED <<valid, status, dfrStartCount, wdFunc, clockVars, kernelState, jobs>>
    BY <1>1 DEF Fire, OnTop, wdVars
<1>3. w \in Wds /\ w # NoWd
    BY <1>1, <1>2, FrameKinds, WatchdogAssumption DEF OnTop, WatchdogAssumption
<1>4. drain \in Frames /\ handler \in Frames
    BY <1>3, NewFrames
<1>5. stack' = r
    BY <1>1, <1>2, <1>4, Concat2 DEF Fire, OnTop, Become
<1>6. IF calls THEN Fate(w, "over") ELSE asked' = asked
    BY <1>1 DEF Fire, OnTop
<1>7. /\ b \in Seq(Frames) /\ b # <<>> /\ Shape(b) /\ InSection(b)
      /\ b[Len(b)].at = "tick" /\ \A g \in Elements(b) : ~Rests(g)
    BY <1>1, <1>2, NothingRests DEF OnTop, CanStandOn, Inside, Interrupt
<1>8. CanStandOn(drain, b)
    BY <1>7 DEF CanStandOn, Section
<1>9. /\ s \in Seq(Frames) /\ s # <<>> /\ Shape(s) /\ InSection(s)
      /\ Elements(s) = Elements(b) \cup {drain}
      /\ \A v \in Wds : HowMany(s, StartFrames(v)) =
             HowMany(b, StartFrames(v)) + OneIf(drain, StartFrames(v))
    BY <1>4, <1>7, <1>8, Pushed
<1> HIDE DEF s
<1>10. CanStandOn(handler, s)
    BY <1>7, <1>9 DEF CanStandOn, Section, Rests
<1>11. /\ r \in Seq(Frames) /\ r # <<>> /\ Shape(r) /\ InSection(r)
       /\ \A g \in Elements(r) : g \in Elements(b) \/ g = drain \/ g = handler
       /\ \A v \in Wds : HowMany(r, StartFrames(v)) = HowMany(b, StartFrames(v))
  <2>1. \A v \in Wds : /\ OneIf(drain, StartFrames(v)) = 0
                       /\ OneIf(handler, StartFrames(v)) = 0
                       /\ HowMany(b, StartFrames(v)) \in Nat
      BY <1>1 DEF OneIf, StartFrames, OnTop
  <2>2. CASE calls
    <3>1. /\ r \in Seq(Frames) /\ r # <<>> /\ Shape(r)
          /\ Elements(r) = Elements(s) \cup {handler}
          /\ InSection(r)
          /\ \A v \in Wds : HowMany(r, StartFrames(v)) =
                 HowMany(s, StartFrames(v)) + OneIf(handler, StartFrames(v))
        BY <1>4, <1>9, <1>10, <2>2, Pushed
    <3> QED BY <1>9, <2>1, <3>1
  <2>3. CASE ~calls
      BY <1>9, <2>1, <2>3
  <2> QED BY <2>2, <2>3
<1> HIDE DEF r
<1>12. \A g \in On' : ~Refers(g)
    BY <1>5, <1>7, <1>11 DEF On, Refers, Rests
<1>13. StackOK'
  <2>1. kernelState' = InSection(stack') /\ kernelState'
      BY <1>1, <1>2, <1>5, <1>7, <1>11, AFlag DEF OnTop, WdInv, StackOK
  <2> QED BY <1>5, <1>11, <2>1 DEF StackOK
<1>14. /\ asked' \in [Wds -> [delay : Nat, fate : {"open", "cancelling", "over"}]]
       /\ \A v \in Wds : v # w \/ ~calls => asked'[v] = asked[v]
    BY <1>3, <1>6, FateKept DEF WdInv, Types
<1>15. Types'
    BY <1>2, <1>3, <1>14 DEF WdInv, Types, NotSet, clockVars
<1>16. Deferred'
  <2>1. \A v \in Wds : HowMany(stack, StartFrames(v)) = HowMany(b, StartFrames(v))
      BY <1>1, <1>2 DEF OnTop, OneIf, StartFrames
  <2> QED BY <1>2, <1>5, <1>11, <2>1 DEF WdInv, Deferred
<1>17. \A g \in On : g.at # "destroy" /\ g.at # "cancel" /\ g.at # "post"
    BY <1>1, <1>2, <1>7 DEF OnTop, Rests
<1>18. StatusOK'
  <2>1. \A v \in Wds : ~Destroying(v) /\ ~Destroying(v)'
      BY <1>12, <1>17 DEF Destroying, Refers
  <2>2. \A v \in Wds : \A g \in On' : ~FrameFor(g, v)
      BY <1>12 DEF FrameFor, Refers
  <2> QED BY <1>2, <2>1, <2>2 DEF WdInv, StatusOK
<1>19. QueueOK'
    BY <1>2, <1>12 DEF WdInv, QueueOK, Refers, clockVars
<1>20. \A v \in Wds : Armed(v)' => v # w /\ Armed(v)
  <2>1. w \notin Elements(tickQ)
      BY <1>1, <1>2 DEF WdInv, QueueOK, OnTop
  <2> QED BY <1>2, <1>12, <2>1 DEF Armed, Refers, clockVars
<1>21. FateOK'
  <2>1. \A v \in Wds : ~Cancelling(v)
      BY <1>17 DEF Cancelling
  <2>2. \A v \in Wds : dfrStartCount[v] > 0 => v # w \/ ~calls
      BY DEF WdInv, Types
  <2> QED BY <1>2, <1>14, <1>20, <2>1, <2>2 DEF WdInv, FateOK
<1>22. FuncOK'
    BY <1>12 DEF FuncOK, Refers
<1>23. DelayOK'
  <2> SUFFICES ASSUME NEW v \in Private
      PROVE  /\ \A e \in Delays : LastStart(jobs, v, e) => e = asked'[v].delay
             /\ Armed(v)' /\ dfrStartCount[v] = 0 /\ asked'[v].fate # "over" =>
                   set'[v].delay = asked'[v].delay
      BY <1>2, <1>12 DEF DelayOK, Refers, Posting
  <2>1. v \in Wds /\ \A g \in On : ~Posting(g, v)
      BY <1>17, WatchdogAssumption DEF WatchdogAssumption, Posting
  <2>2. CASE v # w
    <3>1. asked'[v] = asked[v] /\ set'[v] = set[v]
        BY <1>2, <1>14, <2>1, <2>2 DEF WdInv, Types
    <3> QED BY <1>20, <2>1, <3>1 DEF WdInv, DelayOK
  <2>3. CASE v = w
    <3>1. CASE calls
        BY <1>20, <2>1, <2>3, <3>1, NoneWaits
    <3>2. CASE ~calls
        BY <1>14, <1>20, <2>1, <2>3, <3>2 DEF WdInv, DelayOK
    <3> QED BY <3>1, <3>2
  <2> QED BY <2>2, <2>3
<1> QED BY <1>13, <1>15, <1>16, <1>18, <1>19, <1>21, <1>22, <1>23 DEF WdInv

-----------------------------------------------------------------------------
(***************************************************************************)
(* The calls.                                                              *)
(***************************************************************************)
LEMMA PostKept == ASSUME WdInv, Post PROVE WdInv'
<1>1. PICK b, t : OnTop(b, t)
    BY Splits DEF WdInv
<1> DEFINE job == t.job
           r == Append(jobs, job)
<1>2. /\ t.at = "post" /\ stack' = b /\ jobs' = r
      /\ UNCHANGED <<wdVars, clockVars, kernelState, asked, set>>
    BY <1>1 DEF Post, OnTop, Pop, ghosts
<1>3. job \in Jobs
    BY <1>1, <1>2, FrameKinds, JobKinds DEF OnTop
<1> HIDE DEF job
<1>4. /\ jobs \in Seq(Jobs) /\ r \in Seq(Jobs) /\ r # <<>>
      /\ Elements(r) = Elements(jobs) \cup {job}
      /\ \A v \in Wds : HowMany(r, StartJobs(v)) =
             HowMany(jobs, StartJobs(v)) + OneIf(job, StartJobs(v))
  <2>1. jobs \in Seq(Jobs)
      BY DEF WdInv, Types
  <2>2. r \in Seq(Jobs) /\ r # <<>> /\ Elements(r) = Elements(jobs) \cup {job}
      BY <1>3, <2>1, AppendElements
  <2>3. \A v \in Wds : HowMany(r, StartJobs(v)) =
            HowMany(jobs, StartJobs(v)) + OneIf(job, StartJobs(v))
      BY <1>3, <2>1, HowManyAppend DEF OneIf
  <2> QED BY <2>1, <2>2, <2>3
<1>5. \A v \in Wds, d \in Delays : LastStart(r, v, d) =>
          IF StartJob(job, v) THEN job.delay = d ELSE LastStart(jobs, v, d)
    BY <1>3, <1>4, LastAppend
<1> HIDE DEF r
<1>6. b \in Seq(Frames) /\ b # <<>> /\ Shape(b) /\ InSection(b) /\ kernelState
    BY <1>1, <1>2 DEF OnTop, CanStandOn, Inside
<1>7. StackOK'
  <2>1. kernelState' = InSection(stack')
      BY <1>2, <1>6, AFlag DEF WdInv, StackOK
  <2> QED BY <1>2, <1>4, <1>6, <2>1 DEF StackOK
<1>8. On = Elements(b) \cup {t} /\ On' = Elements(b)
    BY <1>1, <1>2 DEF OnTop, On
<1>9. Types'
    BY <1>2, <1>4 DEF WdInv, Types, wdVars, clockVars
<1>10. Deferred'
  <2>1. \A v \in Wds : OneIf(job, StartJobs(v)) = OneIf(t, StartFrames(v))
      BY <1>1, <1>2, <1>3 DEF OneIf, StartJobs, StartFrames, OnTop, job
  <2>2. \A v \in Wds : /\ HowMany(jobs, StartJobs(v)) \in Nat
                       /\ HowMany(b, StartFrames(v)) \in Nat
                       /\ HowMany(stack, StartFrames(v)) =
                             HowMany(b, StartFrames(v)) + OneIf(t, StartFrames(v))
                       /\ OneIf(t, StartFrames(v)) \in Nat
      BY <1>1, <1>4, HowManyFinite DEF OnTop, OneIf
  <2>3. \A v \in Wds : dfrStartCount'[v] = dfrStartCount[v]
      BY <1>2 DEF wdVars
  <2> QED BY <1>2, <1>4, <2>1, <2>2, <2>3 DEF WdInv, Deferred
<1>11. \A v \in Wds : /\ Destroying(v)' <=> Destroying(v)
                      /\ Armed(v)' <=> Armed(v)
                      /\ Cancelling(v)' <=> Cancelling(v)
    BY <1>2, <1>8 DEF Destroying, Armed, Cancelling, clockVars
<1>12. StatusOK'
  <2>1. \A v \in Wds : JobFor(job, v) => FrameFor(t, v)
      BY <1>2 DEF JobFor, FrameFor, job
  <2> QED BY <1>2, <1>4, <1>8, <1>11, <2>1 DEF WdInv, StatusOK, wdVars
<1>13. QueueOK'
    BY <1>2, <1>8 DEF WdInv, QueueOK, wdVars, clockVars
<1>14. FateOK'
    BY <1>2, <1>11 DEF WdInv, FateOK, wdVars
<1>15. FuncOK'
    BY <1>2, <1>8 DEF WdInv, FuncOK, wdVars
<1>16. DelayOK'
  <2> SUFFICES ASSUME NEW v \in Private
      PROVE  /\ \A f \in On' : f.at = "start" /\ f.wd = v => f.delay = asked[v].delay
             /\ \A f \in On' : Posting(f, v) => f.job.delay = asked[v].delay
             /\ (\A f \in On' : ~Posting(f, v)) =>
                   \A d \in Delays : LastStart(r, v, d) => d = asked[v].delay
             /\ Armed(v)' /\ dfrStartCount[v] = 0 /\ asked[v].fate # "over" =>
                   set[v].delay = asked[v].delay
      BY <1>2 DEF DelayOK, wdVars
  <2>1. v \in Wds
      BY WatchdogAssumption DEF WatchdogAssumption
  <2>2. StartJob(job, v) <=> Posting(t, v)
      BY <1>2 DEF Posting, job
  <2>3. StartJob(job, v) => job.delay = asked[v].delay
      BY <1>8, <2>2 DEF WdInv, DelayOK, job
  <2>4. ASSUME \A f \in On' : ~Posting(f, v)
        PROVE  \A d \in Delays : LastStart(r, v, d) => d = asked[v].delay
    <3>1. CASE StartJob(job, v)
        BY <1>5, <2>1, <2>3, <3>1
    <3>2. CASE ~StartJob(job, v)
      <4>1. \A f \in On : ~Posting(f, v)
          BY <1>8, <2>2, <2>4, <3>2
      <4> QED BY <1>5, <2>1, <3>2, <4>1 DEF WdInv, DelayOK
    <3> QED BY <3>1, <3>2
  <2> QED BY <1>8, <1>11, <2>1, <2>4 DEF WdInv, DelayOK
<1> QED BY <1>7, <1>9, <1>10, <1>12, <1>13, <1>14, <1>15, <1>16 DEF WdInv

\* A call that finds the kernel free sets kernelState.
LEMMA SetsKernel ==
    ASSUME WdInv, ~kernelState, NEW f \in Frames, Section(f), Push(f),
           kernelState' = TRUE, jobs' = jobs
    PROVE  /\ StackOK' /\ On' = On \cup {f} /\ jobs' = <<>>
           /\ Elements(jobs') = {}
           /\ \A g \in On : ~Refers(g) /\ ~Rests(g)
           /\ \A v \in Wds : /\ dfrStartCount[v] = 0
                             /\ HowMany(jobs', StartJobs(v)) = 0
                             /\ HowMany(stack', StartFrames(v)) =
                                   OneIf(f, StartFrames(v))
<1>1. /\ jobs = <<>> /\ Elements(jobs) = {}
      /\ \A g \in On : g.at \in {"task", "clock", "handler"}
                       /\ ~Rests(g) /\ ~Inside(g) /\ ~Section(g)
      /\ \A v \in Wds : /\ dfrStartCount[v] = 0
                        /\ HowMany(jobs, StartJobs(v)) = 0
                        /\ HowMany(stack, StartFrames(v)) = 0
    BY KernelFree DEF WdInv
<1>2. stack \in Seq(Frames) /\ stack # <<>> /\ Shape(stack)
    BY DEF WdInv, StackOK
<1>3. CanStandOn(f, stack)
    BY <1>1, <1>2 DEF CanStandOn, Section, Inside, InSection, On
<1> DEFINE r == Append(stack, f)
<1>4. /\ r \in Seq(Frames) /\ r # <<>> /\ Shape(r) /\ InSection(r)
      /\ Elements(r) = On \cup {f}
      /\ \A v \in Wds : HowMany(r, StartFrames(v)) =
             HowMany(stack, StartFrames(v)) + OneIf(f, StartFrames(v))
    BY <1>2, <1>3, Pushed DEF On
<1>5. stack' = r
    BY DEF Push
<1> HIDE DEF r
<1>6. \A v \in Wds : HowMany(stack', StartFrames(v)) = OneIf(f, StartFrames(v))
    BY <1>1, <1>4, <1>5 DEF OneIf
<1>7. StackOK'
    BY <1>4, <1>5, AFlag DEF StackOK
<1> QED BY <1>1, <1>4, <1>5, <1>6, <1>7 DEF On, Refers

\* A call that does not leaves a job.
LEMMA DefersCall ==
    ASSUME WdInv, kernelState, NEW job \in CallJobs,
           Push([at |-> "post", job |-> job]), kernelState' = TRUE, jobs' = jobs
    PROVE  /\ StackOK' /\ On' = On \cup {[at |-> "post", job |-> job]}
           /\ \A v \in Wds : /\ HowMany(stack, StartFrames(v)) \in Nat
                             /\ HowMany(stack', StartFrames(v)) =
                                   HowMany(stack, StartFrames(v)) + OneIf(job, StartJobs(v))
<1> DEFINE f == [at |-> "post", job |-> job]
           r == Append(stack, f)
<1>1. stack \in Seq(Frames) /\ stack # <<>> /\ Shape(stack) /\ InSection(stack)
    BY DEF WdInv, StackOK
<1>2. f \in Frames /\ f.at = "post" /\ f.job = job
    BY NewFrames
<1>3. stack' = r
    BY DEF Push
<1> HIDE DEF f
<1>4. CanStandOn(f, stack)
    BY <1>1, <1>2 DEF CanStandOn, Section, Interrupt
<1>5. /\ r \in Seq(Frames) /\ r # <<>> /\ Shape(r) /\ InSection(r)
      /\ Elements(r) = On \cup {f}
      /\ \A v \in Wds : HowMany(r, StartFrames(v)) =
             HowMany(stack, StartFrames(v)) + OneIf(f, StartFrames(v))
    BY <1>1, <1>2, <1>4, Pushed DEF On
<1> HIDE DEF r
<1>6. \A v \in Wds : OneIf(f, StartFrames(v)) = OneIf(job, StartJobs(v))
    BY <1>2, JobKinds DEF OneIf, StartFrames, StartJobs
<1>7. StackOK'
    BY <1>3, <1>5, AFlag DEF StackOK
<1>8. \A v \in Wds : HowMany(stack, StartFrames(v)) \in Nat
    BY <1>1, HowManyFinite
<1> QED BY <1>3, <1>5, <1>6, <1>7, <1>8 DEF On, f

LEMMA CreateKept == ASSUME WdInv, NEW w \in Wds, wdCreate(w) PROVE WdInv'
<1>1. PICK b, t : OnTop(b, t)
    BY Splits DEF WdInv
<1>2. t.at = "task" /\ On = {t} /\ ~kernelState
    BY <1>1, TaskAlone DEF OnTop, wdCreate
<1>3. \A v \in Wds : dfrStartCount[v] = 0
    BY <1>2, KernelFree DEF WdInv
<1>4. /\ status[w] = "DEAD" /\ ~valid[w]
      /\ valid' = [valid EXCEPT ![w] = TRUE]
      /\ status' = [status EXCEPT ![w] = "OUT_OF_Q"]
      /\ dfrStartCount' = [dfrStartCount EXCEPT ![w] = 0]
      /\ UNCHANGED <<wdFunc, clockVars, kernelState, jobs, stack, asked, set>>
    BY DEF wdCreate, ghosts
<1>5. dfrStartCount' = dfrStartCount
    BY <1>3, <1>4 DEF WdInv, Types
<1>6. Types' /\ StackOK' /\ Deferred' /\ FuncOK'
    BY <1>4, <1>5 DEF WdInv, Types, StackOK, Deferred, FuncOK, On, clockVars
<1>7. \A v \in Wds : v # w => status'[v] = status[v] /\ valid'[v] = valid[v]
    BY <1>4 DEF WdInv, Types
<1>8. valid'[w] /\ status'[w] = "OUT_OF_Q"
    BY <1>4 DEF WdInv, Types
<1>9. On' = On /\ tickQ' = tickQ
    BY <1>4 DEF On, clockVars
<1>10. \A v \in Wds : ~Destroying(v) /\ ~Destroying(v)' /\ \A f \in On : ~FrameFor(f, v)
    BY <1>2, <1>9 DEF Destroying, FrameFor
<1>11. StatusOK'
    BY <1>4, <1>7, <1>8, <1>9, <1>10 DEF WdInv, StatusOK
<1>12. QueueOK'
    BY <1>4, <1>7, <1>8, <1>9 DEF WdInv, QueueOK
<1>13. FateOK'
    BY <1>4, <1>5, <1>9 DEF WdInv, FateOK, Armed, Cancelling
<1>14. DelayOK'
    BY <1>4, <1>5, <1>9 DEF WdInv, DelayOK, Armed
<1> QED BY <1>6, <1>11, <1>12, <1>13, <1>14 DEF WdInv

\* The function that is called last, and its delay, are those of this start.
LEMMA StartCallKept ==
    ASSUME WdInv, NEW w \in Wds, NEW d \in Delays, wdStart(w, d)
    PROVE  WdInv'
<1> DEFINE job == [op |-> "start", wd |-> w, delay |-> d]
           f == IF kernelState THEN [at |-> "post", job |-> job]
                               ELSE [at |-> "start", wd |-> w, delay |-> d]
<1>1. PICK b, t : OnTop(b, t)
    BY Splits DEF WdInv
<1>2. /\ valid[w] /\ dfrStartCount' = [dfrStartCount EXCEPT ![w] = @ + 1]
      /\ wdFunc' = [wdFunc EXCEPT ![w] = 1 - @]
      /\ asked' = [asked EXCEPT ![w] = [delay |-> d, fate |-> "open"]]
      /\ kernelState' = TRUE /\ Push(f)
      /\ UNCHANGED <<valid, status, key, tickQ, sysTicks, sysAbsTicks, jobs, set>>
    BY DEF wdStart, Count, clockVars
<1>3. w \in Private => t.at = "task" \/ (t.at = "handler" /\ t.fn = w /\ w # NoWd)
    BY <1>1, WatchdogAssumption DEF wdStart, MayStart, OnTop, WatchdogAssumption
<1>4. job \in CallJobs /\ job \in Jobs /\ f \in Frames /\ StartJob(job, w) /\ job.delay = d
    BY NewJobs, JobKinds, NewFrames DEF StartJob
<1>5. \A v \in Wds : OneIf(job, StartJobs(v)) = OneIf(v, {w})
    BY <1>4 DEF OneIf, StartJobs, StartJob
<1>6. /\ StackOK' /\ On' = On \cup {f}
      /\ \A v \in Wds : /\ HowMany(stack, StartFrames(v)) \in Nat
                        /\ HowMany(stack', StartFrames(v)) =
                              HowMany(stack, StartFrames(v)) + OneIf(v, {w})
  <2>1. CASE kernelState
      BY <1>2, <1>4, <1>5, <2>1, DefersCall
  <2>2. CASE ~kernelState
    <3>1. f.at = "start" /\ f.wd = w /\ Section(f)
        BY <2>2 DEF Section
    <3>2. \A v \in Wds : OneIf(f, StartFrames(v)) = OneIf(v, {w})
        BY <1>4, <3>1 DEF OneIf, StartFrames
    <3>3. \A v \in Wds : HowMany(stack, StartFrames(v)) = 0
        BY <2>2, KernelFree DEF WdInv
    <3> HIDE DEF f
    <3>4. /\ StackOK' /\ On' = On \cup {f}
          /\ \A v \in Wds : HowMany(stack', StartFrames(v)) = OneIf(f, StartFrames(v))
        BY <1>2, <1>4, <2>2, <3>1, SetsKernel
    <3> QED BY <3>2, <3>3, <3>4 DEF OneIf
  <2> QED BY <2>1, <2>2
<1>7. /\ f.at \in {"post", "start"}
      /\ f.at = "post" => f.job = job
      /\ f.at = "start" => f.wd = w /\ f.delay = d
    OBVIOUS
<1>8. /\ job.op = "start" /\ job.wd = w /\ job.delay = d
      /\ kernelState => f.at = "post"
      /\ ~kernelState => f.at = "start"
    OBVIOUS
<1> HIDE DEF f, job
<1>9. Types'
  <2>1. dfrStartCount' \in [Wds -> Nat]
      BY <1>2 DEF WdInv, Types
  <2>2. wdFunc' \in [Wds -> Functions]
    <3>1. \A x \in Functions : 1 - x \in Functions
        BY DEF Functions
    <3> QED BY <1>2, <3>1 DEF WdInv, Types
  <2>3. asked' \in [Wds -> [delay : Nat, fate : {"open", "cancelling", "over"}]]
      BY <1>2, WatchdogAssumption DEF WdInv, Types, WatchdogAssumption
  <2> QED BY <1>2, <2>1, <2>2, <2>3 DEF WdInv, Types
<1>10. \A v \in Wds : /\ v # w => /\ dfrStartCount'[v] = dfrStartCount[v]
                                  /\ wdFunc'[v] = wdFunc[v] /\ asked'[v] = asked[v]
                      /\ dfrStartCount'[w] = dfrStartCount[w] + 1
                      /\ dfrStartCount'[w] > 0
                      /\ asked'[w].delay = d /\ asked'[w].fate = "open"
    BY <1>2 DEF WdInv, Types
<1>11. Deferred'
  <2>1. \A v \in Wds : HowMany(jobs, StartJobs(v)) \in Nat
      BY HowManyFinite DEF WdInv, Types
  <2> QED BY <1>2, <1>6, <1>10, <2>1 DEF WdInv, Deferred, OneIf
<1>12. \A v \in Wds : /\ Destroying(v)' <=> Destroying(v)
                      /\ Armed(v)' <=> Armed(v)
                      /\ Cancelling(v)' <=> Cancelling(v)
    BY <1>2, <1>6, <1>7 DEF Destroying, Armed, Cancelling
<1>13. StatusOK'
  <2>1. \A v \in Wds : v # w => ~FrameFor(f, v)
      BY <1>7, <1>8 DEF FrameFor, JobFor
  <2> QED BY <1>2, <1>6, <1>12, <2>1 DEF WdInv, StatusOK
<1>14. QueueOK'
    BY <1>2, <1>6, <1>7 DEF WdInv, QueueOK
<1>15. FateOK'
    BY <1>10, <1>12 DEF WdInv, FateOK
<1>16. FuncOK'
  <2>1. \A g \in On : g.at = "fire" => g.wd \in Wds
      BY FrameKinds, QueueElements DEF WdInv, StackOK, On
  <2> QED BY <1>6, <1>7, <1>10, <2>1 DEF WdInv, FuncOK
<1>17. DelayOK'
  <2> SUFFICES ASSUME NEW v \in Private
      PROVE  /\ \A g \in On' : g.at = "start" /\ g.wd = v => g.delay = asked'[v].delay
             /\ \A g \in On' : Posting(g, v) => g.job.delay = asked'[v].delay
             /\ (\A g \in On' : ~Posting(g, v)) =>
                   \A e \in Delays : LastStart(jobs, v, e) => e = asked'[v].delay
             /\ Armed(v)' /\ dfrStartCount'[v] = 0 /\ asked'[v].fate # "over" =>
                   set[v].delay = asked'[v].delay
      BY <1>2 DEF DelayOK
  <2>1. v \in Wds
      BY WatchdogAssumption DEF WatchdogAssumption
  <2>2. CASE v # w
    <3>1. ~Posting(f, v) /\ ~(f.at = "start" /\ f.wd = v)
        BY <1>7, <1>8, <2>2 DEF Posting, StartJob
    <3> QED BY <1>6, <1>10, <1>12, <2>1, <2>2, <3>1 DEF WdInv, DelayOK
  <2>3. CASE v = w
    <3>1. \A g \in On : g.at \notin {"start", "post"}
      <4>1. \A g \in Elements(b) : ~Rests(g)
          BY <1>1, <1>3, <2>3, NothingRests DEF Interrupt
      <4> QED BY <1>1, <1>3, <2>3, <4>1 DEF OnTop, Rests
    <3>2. CASE kernelState
        BY <1>6, <1>7, <1>8, <1>10, <2>3, <3>1, <3>2 DEF Posting, StartJob
    <3>3. CASE ~kernelState
      <4>1. jobs = <<>>
          BY <3>3 DEF WdInv, StackOK
      <4>2. \A e \in Delays : ~LastStart(jobs, v, e)
          BY <4>1 DEF LastStart
      <4> QED BY <1>6, <1>7, <1>8, <1>10, <2>3, <3>1, <3>3, <4>2 DEF Posting
    <3> QED BY <3>2, <3>3
  <2> QED BY <2>2, <2>3
<1> QED BY <1>6, <1>9, <1>11, <1>13, <1>14, <1>15, <1>16, <1>17 DEF WdInv

\* A cancel, and a delete, that find the kernel free.
LEMMA SectionCallKept ==
    ASSUME WdInv, ~kernelState, NEW w \in Wds, valid[w], NEW f \in Frames,
           f.at \in {"cancel", "destroy"}, f.wd = w, Push(f), Fate(w, "over"),
           kernelState' = TRUE,
           valid' = IF f.at = "destroy" THEN [valid EXCEPT ![w] = FALSE] ELSE valid,
           UNCHANGED <<status, dfrStartCount, wdFunc, clockVars, jobs, set>>
    PROVE  WdInv'
<1>1. /\ StackOK' /\ On' = On \cup {f} /\ jobs' = <<>> /\ Elements(jobs') = {}
      /\ \A g \in On : ~Refers(g)
      /\ \A v \in Wds : /\ dfrStartCount[v] = 0
                        /\ HowMany(jobs', StartJobs(v)) = 0
                        /\ HowMany(stack', StartFrames(v)) = OneIf(f, StartFrames(v))
    BY SetsKernel DEF Section
<1>2. /\ asked' \in [Wds -> [delay : Nat, fate : {"open", "cancelling", "over"}]]
      /\ \A v \in Wds : v # w => asked'[v] = asked[v]
      /\ asked'[w].fate = "over"
    BY FateKept DEF WdInv
<1>3. /\ \A v \in Wds : v # w \/ f.at = "cancel" => valid'[v] = valid[v]
      /\ f.at = "destroy" => ~valid'[w]
      /\ valid' \in [Wds -> BOOLEAN]
    BY DEF WdInv, Types
<1>4. Types'
    BY <1>2, <1>3 DEF WdInv, Types, clockVars
<1>5. Deferred'
  <2>1. \A v \in Wds : OneIf(f, StartFrames(v)) = 0
      BY DEF OneIf, StartFrames
  <2> QED BY <1>1, <2>1 DEF Deferred
<1>6. StatusOK'
  <2> SUFFICES ASSUME NEW v \in Wds
               PROVE  /\ valid'[v] => status[v] # "DEAD"
                      /\ ~valid'[v] /\ status[v] # "DEAD" => Destroying(v)'
                      /\ Destroying(v)' => ~valid'[v]
                      /\ ~valid'[v] => /\ \A j \in Elements(jobs') : ~JobFor(j, v)
                                       /\ \A g \in On' : ~FrameFor(g, v)
      BY DEF StatusOK
  <2>1. Destroying(v)' <=> v = w /\ f.at = "destroy"
      BY <1>1 DEF Destroying, Refers
  <2>2. ~Destroying(v)
      BY <1>1 DEF Destroying, Refers
  <2>3. /\ valid[v] => status[v] # "DEAD"
        /\ ~valid[v] => status[v] = "DEAD"
      BY <2>2 DEF WdInv, StatusOK
  <2>4. ~valid'[v] => ~FrameFor(f, v)
      BY <1>3 DEF FrameFor
  <2>5. \A g \in On : ~FrameFor(g, v)
      BY <1>1 DEF FrameFor, Refers
  <2> QED BY <1>1, <1>3, <2>1, <2>3, <2>4, <2>5
<1>7. QueueOK'
    BY <1>1 DEF WdInv, QueueOK, clockVars, Refers
<1>8. \A v \in Wds : /\ Armed(v)' => Armed(v)
                     /\ ~Cancelling(v) /\ Cancelling(w)'
    BY <1>1 DEF Armed, Cancelling, Refers, clockVars
<1>9. FateOK'
  <2> SUFFICES ASSUME NEW v \in Wds, Armed(v)', ~Cancelling(v)'
               PROVE  asked'[v].fate # "over"
      BY <1>1 DEF FateOK
  <2>1. v # w /\ Armed(v) /\ ~Cancelling(v)
      BY <1>8
  <2> QED BY <1>2, <2>1 DEF WdInv, FateOK
<1>10. FuncOK'
    BY <1>1 DEF FuncOK, Refers
<1>11. DelayOK'
  <2> SUFFICES ASSUME NEW v \in Private
      PROVE  /\ \A g \in On' : g.at # "start" /\ ~Posting(g, v)
             /\ \A e \in Delays : ~LastStart(jobs', v, e)
             /\ Armed(v)' /\ asked'[v].fate # "over" => set[v].delay = asked'[v].delay
      BY DEF DelayOK
  <2>1. v \in Wds
      BY WatchdogAssumption DEF WatchdogAssumption
  <2>2. \A e \in Delays : ~LastStart(jobs', v, e)
      BY <1>1 DEF LastStart
  <2>3. \A g \in On' : g.at # "start" /\ ~Posting(g, v)
      BY <1>1 DEF Posting, Refers
  <2> QED BY <1>1, <1>2, <1>8, <2>1, <2>2, <2>3 DEF WdInv, DelayOK
<1> QED BY <1>1, <1>4, <1>5, <1>6, <1>7, <1>9, <1>10, <1>11 DEF WdInv

\* A cancel that is deferred.
LEMMA DeferredCancelKept ==
    ASSUME WdInv, kernelState, NEW w \in Wds, wdCancel(w)
    PROVE  WdInv'
<1> DEFINE job == [op |-> "cancel", wd |-> w]
           f == [at |-> "post", job |-> job]
<1>1. /\ valid[w] /\ kernelState' = TRUE /\ Push(f) /\ Fate(w, "cancelling")
      /\ UNCHANGED <<valid, status, dfrStartCount, wdFunc, key, tickQ, sysTicks,
                     sysAbsTicks, jobs, set>>
    BY DEF wdCancel, wdVars, clockVars
<1>2. job \in CallJobs /\ job.op = "cancel" /\ job.wd = w
    BY NewJobs
<1>3. f.at = "post" /\ f.job = job
    OBVIOUS
<1> HIDE DEF job
<1>4. /\ StackOK' /\ On' = On \cup {f}
      /\ \A v \in Wds : /\ HowMany(stack, StartFrames(v)) \in Nat
                        /\ HowMany(stack', StartFrames(v)) =
                              HowMany(stack, StartFrames(v)) + OneIf(job, StartJobs(v))
    BY <1>1, <1>2, DefersCall
<1> HIDE DEF f
<1>5. /\ asked' \in [Wds -> [delay : Nat, fate : {"open", "cancelling", "over"}]]
      /\ \A v \in Wds : v # w => asked'[v] = asked[v]
      /\ asked'[w].fate = "over" <=> asked[w].fate = "over"
      /\ asked'[w].fate # "over" => asked'[w].delay = asked[w].delay
    BY <1>1, FateKept DEF WdInv
<1>6. Types'
    BY <1>1, <1>5 DEF WdInv, Types
<1>7. Deferred'
  <2>1. \A v \in Wds : OneIf(job, StartJobs(v)) = 0
      BY <1>2 DEF OneIf, StartJobs, StartJob
  <2> QED BY <1>1, <1>4, <2>1 DEF WdInv, Deferred
<1>8. \A v \in Wds : /\ Destroying(v)' <=> Destroying(v)
                     /\ Armed(v)' <=> Armed(v)
                     /\ Cancelling(v)' <=> Cancelling(v)
    BY <1>1, <1>3, <1>4 DEF Destroying, Armed, Cancelling
<1>9. StatusOK'
  <2>1. \A v \in Wds : v # w => ~FrameFor(f, v)
      BY <1>2, <1>3 DEF FrameFor, JobFor
  <2> QED BY <1>1, <1>4, <1>8, <2>1 DEF WdInv, StatusOK
<1>10. QueueOK'
    BY <1>1, <1>3, <1>4 DEF WdInv, QueueOK
<1>11. FateOK'
    BY <1>1, <1>5, <1>8 DEF WdInv, FateOK
<1>12. FuncOK'
    BY <1>1, <1>3, <1>4 DEF WdInv, FuncOK
<1>13. DelayOK'
  <2> SUFFICES ASSUME NEW v \in Private
      PROVE  /\ \A g \in On' : g.at = "start" /\ g.wd = v => g.delay = asked'[v].delay
             /\ \A g \in On' : Posting(g, v) => g.job.delay = asked'[v].delay
             /\ (\A g \in On' : ~Posting(g, v)) =>
                   \A e \in Delays : LastStart(jobs, v, e) => e = asked'[v].delay
             /\ Armed(v)' /\ dfrStartCount[v] = 0 /\ asked'[v].fate # "over" =>
                   set[v].delay = asked'[v].delay
      BY <1>1 DEF DelayOK
  <2>1. v \in Wds
      BY WatchdogAssumption DEF WatchdogAssumption
  <2>2. ~Posting(f, v) /\ f.at # "start"
      BY <1>2, <1>3 DEF Posting, StartJob
  <2>3. CASE asked'[v].fate # "over"
    <3>1. asked'[v].delay = asked[v].delay /\ asked[v].fate # "over"
        BY <1>5, <2>1, <2>3
    <3> QED BY <1>4, <1>8, <2>1, <2>2, <3>1 DEF WdInv, DelayOK
  <2>4. CASE asked'[v].fate = "over"
    <3>1. asked[v].fate = "over"
        BY <1>5, <2>1, <2>4
    <3>2. dfrStartCount[v] = 0
        BY <2>1, <3>1 DEF WdInv, FateOK, Types
    <3> QED BY <1>4, <2>1, <2>2, <2>4, <3>2, NoneWaits
  <2> QED BY <2>3, <2>4
<1> QED BY <1>4, <1>6, <1>7, <1>9, <1>10, <1>11, <1>12, <1>13 DEF WdInv

LEMMA CancelCallKept == ASSUME WdInv, NEW w \in Wds, wdCancel(w) PROVE WdInv'
<1>1. CASE kernelState
    BY <1>1, DeferredCancelKept
<1>2. CASE ~kernelState
  <2> DEFINE f == [at |-> "cancel", wd |-> w]
  <2>1. f \in Frames /\ f.at = "cancel" /\ f.wd = w
      BY NewFrames
  <2>2. /\ valid[w] /\ kernelState' = TRUE /\ Push(f) /\ Fate(w, "over")
        /\ UNCHANGED <<valid, status, dfrStartCount, wdFunc, clockVars, jobs, set>>
      BY <1>2 DEF wdCancel, wdVars
  <2> HIDE DEF f
  <2> QED BY <1>2, <2>1, <2>2, SectionCallKept
<1> QED BY <1>1, <1>2

LEMMA DestroyKept == ASSUME WdInv, NEW w \in Wds, wdDestroy(w) PROVE WdInv'
<1> DEFINE f == [at |-> "destroy", wd |-> w]
<1>1. f \in Frames /\ f.at = "destroy" /\ f.wd = w
    BY NewFrames
<1>2. /\ valid[w] /\ kernelState' = TRUE /\ Push(f) /\ Fate(w, "over")
      /\ valid' = [valid EXCEPT ![w] = FALSE]
      /\ UNCHANGED <<status, dfrStartCount, wdFunc, clockVars, jobs, set>>
    BY DEF wdDestroy
<1>3. ~kernelState
  <2>1. PICK b, t : OnTop(b, t)
      BY Splits DEF WdInv
  <2> QED BY <2>1, TaskAlone DEF OnTop, wdDestroy
<1> HIDE DEF f
<1> QED BY <1>1, <1>2, <1>3, SectionCallKept

-----------------------------------------------------------------------------
LEMMA WdInvInit == Init => WdInv
<1> SUFFICES ASSUME Init PROVE WdInv
    OBVIOUS
<1> DEFINE f == [at |-> "task"]
<1>1. /\ valid = [w \in Wds |-> FALSE] /\ status = [w \in Wds |-> "DEAD"]
      /\ dfrStartCount = [w \in Wds |-> 0] /\ wdFunc = [w \in Wds |-> 0]
      /\ key = [w \in Wds |-> 0] /\ tickQ = <<>> /\ sysTicks = 0 /\ sysAbsTicks = 0
      /\ kernelState = FALSE /\ jobs = <<>> /\ stack = <<f>>
      /\ asked = [w \in Wds |-> [delay |-> 0, fate |-> "over"]]
      /\ set = [w \in Wds |-> NotSet]
    BY DEF Init
<1>2. PICK e \in Seq(Frames) : e = <<>> /\ stack = Append(e, f)
  <2>1. f \in Frames
      BY NewFrames
  <2> HIDE DEF f
  <2>2. <<>> \in Seq(Frames) /\ Append(<<>>, f) = <<f>>
      BY <2>1
  <2> QED BY <1>1, <2>2
<1>3. stack \in Seq(Frames) /\ stack # <<>> /\ Shape(stack) /\ On = {f}
      /\ ~InSection(stack)
  <2>1. Shape(e) /\ Elements(e) = {} /\ ~InSection(e)
      BY <1>2, EmptyShape
  <2>2. f \in Frames /\ f.at = "task"
      BY NewFrames
  <2> HIDE DEF f
  <2>3. CanStandOn(f, e) /\ ~Section(f)
      BY <1>2, <2>1, <2>2 DEF CanStandOn, Section, Inside
  <2>4. /\ Append(e, f) \in Seq(Frames) /\ Append(e, f) # <<>>
        /\ Shape(Append(e, f)) /\ Elements(Append(e, f)) = Elements(e) \cup {f}
        /\ InSection(Append(e, f)) <=> InSection(e) \/ Section(f)
      BY <2>1, <2>2, <2>3, Pushed
  <2> QED BY <1>2, <2>1, <2>3, <2>4 DEF On
<1>4. StackOK
    BY <1>1, <1>3 DEF StackOK, InSection
<1>5. Types
    BY <1>1, WatchdogAssumption DEF WatchdogAssumption, Types, Functions, NotSet
<1>6. Elements(tickQ) = {} /\ Elements(jobs) = {} /\ IsQueue(tickQ, Wds)
    BY <1>1 DEF Elements, IsQueue
<1>7. Deferred
  <2>1. \A w \in Wds : HowMany(jobs, StartJobs(w)) = 0
      BY <1>5, <1>6, HowManyFinite DEF Types
  <2>2. \A w \in Wds : HowMany(stack, StartFrames(w)) = 0
    <3>1. \A w \in Wds : \A g \in Elements(stack) : g \notin StartFrames(w)
        BY <1>3 DEF On, StartFrames
    <3> QED BY <1>3, <3>1, HowManyFinite
  <2> QED BY <1>1, <2>1, <2>2 DEF Deferred
<1>8. StatusOK
    BY <1>1, <1>3, <1>6 DEF StatusOK, Destroying, FrameFor
<1>9. QueueOK
    BY <1>1, <1>3, <1>6 DEF QueueOK
<1>10. FateOK
    BY <1>1, <1>3, <1>6 DEF FateOK, Armed
<1>11. FuncOK
    BY <1>3 DEF FuncOK
<1>12. DelayOK
  <2>1. \A w \in Private : \A d \in Delays : ~LastStart(jobs, w, d)
      BY <1>1 DEF LastStart
  <2> QED BY <1>1, <1>3, <1>6, <2>1, WatchdogAssumption
          DEF WatchdogAssumption, DelayOK, Posting, Armed
<1> QED BY <1>4, <1>5, <1>7, <1>8, <1>9, <1>10, <1>11, <1>12 DEF WdInv

LEMMA WdInvStep == WdInv /\ [Next]_vars => WdInv'
<1> SUFFICES ASSUME WdInv, [Next]_vars PROVE WdInv'
    OBVIOUS
<1>1. CASE Goes
    BY <1>1, PostKept, StartKept, CancelKept, TickAnnounceKept, ExpireKept, FireKept,
       ReturnKept, RunJobKept DEF Goes
<1>2. CASE Call
    BY <1>2, CreateKept, CancelCallKept, DestroyKept, StartCallKept DEF Call
<1>3. CASE HandlerStarts \/ ClockInterrupt
    BY <1>3, InterruptKept
<1>4. CASE UNCHANGED vars
    BY <1>4 DEF vars, wdVars, clockVars, ghosts, WdInv, Types, StackOK, Deferred,
       StatusOK, Destroying, QueueOK, FateOK, Armed, Cancelling, FuncOK, DelayOK, On
<1> QED BY <1>1, <1>2, <1>3, <1>4 DEF Next

LEMMA WdInvAlways == Spec => []WdInv
BY WdInvInit, WdInvStep, PTL DEF Spec

-----------------------------------------------------------------------------
(***************************************************************************)
(* Time, until the tick counters come so close to their wrap that a delay  *)
(* reaches across it.                                                      *)
(***************************************************************************)
NoWrap == sysAbsTicks < WORD /\ \A d \in Delays : sysAbsTicks + d < WORD

\* Both counters agree, the queue is sorted by the ticks that the timers are
\* set to, what has expired was due, and only while a tick loop is on the stack
\* something can be overdue.
TimeOK ==
    /\ sysTicks = sysAbsTicks
    /\ QSorted(tickQ, key)
    /\ \A w \in Elements(tickQ) : key[w] = set[w].due
    /\ \A f \in On : f.at = "fire" => set[f.wd].due <= sysAbsTicks
    /\ (\A f \in On : f.at # "tick") => \A w \in Elements(tickQ) :
          /\ set[w].due >= sysAbsTicks
          /\ set[w].delay > 0 => set[w].due > sysAbsTicks

\* Frames come and go, but no loop of a tick.
SameTicks == /\ \A f \in On' : f.at = "fire" => f \in On
             /\ \A f \in On : f.at = "tick" => f \in On'

LEMMA TimeStands == ASSUME TimeOK, SameTicks, UNCHANGED <<clockVars, set>>
    PROVE  TimeOK'
BY DEF TimeOK, SameTicks, clockVars

LEMMA PushOn == ASSUME StackOK, NEW f \in Frames, Push(f) PROVE On' = On \cup {f}
BY AppendElements DEF StackOK, Push, On

\* The steps that leave the clock alone.
LEMMA CallTime == ASSUME WdInv, TimeOK, Call \/ HandlerStarts \/ ClockInterrupt
    PROVE  TimeOK'
<1>1. ASSUME NEW f \in Frames, f.at # "fire", Push(f), UNCHANGED <<clockVars, set>>
      PROVE  TimeOK'
  <2>1. On' = On \cup {f}
      BY <1>1, PushOn DEF WdInv
  <2> QED BY <1>1, <2>1, TimeStands DEF SameTicks
<1>2. CASE HandlerStarts \/ ClockInterrupt
    BY <1>1, <1>2, NewFrames DEF HandlerStarts, ClockInterrupt, Quiet, ghosts
<1>3. ASSUME NEW w \in Wds, wdCreate(w) PROVE TimeOK'
  <2>1. On' = On /\ UNCHANGED <<clockVars, set>>
      BY <1>3 DEF wdCreate, ghosts, On
  <2> QED BY <2>1, TimeStands DEF SameTicks
<1>4. ASSUME NEW w \in Wds, wdCancel(w) PROVE TimeOK'
  <2> DEFINE job == [op |-> "cancel", wd |-> w]
  <2>1. [at |-> "post", job |-> job] \in Frames
      BY NewJobs, NewFrames
  <2>2. [at |-> "cancel", wd |-> w] \in Frames
      BY NewFrames
  <2> QED BY <1>1, <1>4, <2>1, <2>2 DEF wdCancel
<1>5. ASSUME NEW w \in Wds, wdDestroy(w) PROVE TimeOK'
    BY <1>1, <1>5, NewFrames DEF wdDestroy
<1>6. ASSUME NEW w \in Wds, NEW d \in Delays, wdStart(w, d) PROVE TimeOK'
  <2> DEFINE job == [op |-> "start", wd |-> w, delay |-> d]
  <2>1. [at |-> "post", job |-> job] \in Frames
      BY NewJobs, NewFrames
  <2>2. [at |-> "start", wd |-> w, delay |-> d] \in Frames
      BY NewFrames
  <2> QED BY <1>1, <1>6, <2>1, <2>2 DEF wdStart
<1> QED BY <1>2, <1>3, <1>4, <1>5, <1>6 DEF Call

LEMMA ReturnTime ==
    ASSUME WdInv, TimeOK, Post \/ HandlerEnds \/ DrainEnds \/ ExitKernel
    PROVE  TimeOK'
<1>1. PICK b, t : OnTop(b, t)
    BY Splits DEF WdInv
<1>2. /\ t.at \in {"post", "handler", "drain", "exit"} /\ stack' = b
      /\ UNCHANGED <<clockVars, set>>
    BY <1>1 DEF Post, HandlerEnds, DrainEnds, ExitKernel, OnTop, Pop, ghosts
<1>3. SameTicks
    BY <1>1, <1>2 DEF OnTop, SameTicks, On
<1> QED BY <1>2, <1>3, TimeStands

\* When the loop of a tick ends nothing is due.
LEMMA TickEndsTime == ASSUME WdInv, TimeOK, NoWrap, TickEnds PROVE TimeOK'
<1>1. PICK b, t : OnTop(b, t)
    BY Splits DEF WdInv
<1>2. t.at = "tick" /\ stack' = b /\ UNCHANGED <<clockVars, set>> /\ ~Expired
    BY <1>1 DEF TickEnds, OnTop, Pop, ghosts
<1>3. On = Elements(b) \cup {t} /\ On' = Elements(b)
    BY <1>1, <1>2 DEF OnTop, On
<1>4. tickGet = sysAbsTicks
  <2>1. sysAbsTicks \in Nat /\ WORD \in Nat \ {0} /\ sysAbsTicks < WORD
      BY WatchdogAssumption DEF NoWrap, WdInv, Types, WatchdogAssumption
  <2> QED BY <2>1 DEF tickGet
<1>5. ASSUME NEW w \in Elements(tickQ) PROVE set[w].due > sysAbsTicks
  <2>1. /\ tickQ \in Seq(Wds) /\ Elements(tickQ) = {tickQ[i] : i \in 1..Len(tickQ)}
        /\ Elements(tickQ) \subseteq Wds /\ DOMAIN tickQ = 1..Len(tickQ)
        /\ Len(tickQ) \in Nat
      BY QueueElements DEF WdInv, QueueOK, IsQueue
  <2>2. PICK i \in 1..Len(tickQ) : tickQ[i] = w
      BY <2>1
  <2>3. 1 \in 1..Len(tickQ) /\ 1 <= i /\ Head(tickQ) = tickQ[1] /\ tickQ # <<>>
      BY <2>1, <2>2
  <2>4. key[tickQ[1]] <= key[w]
      BY <2>1, <2>2, <2>3 DEF TimeOK, QSorted
  <2>5. ~(key[tickQ[1]] <= sysAbsTicks)
      BY <1>2, <1>4, <2>3 DEF Expired
  <2>6. key[tickQ[1]] \in Nat /\ key[w] \in Nat /\ sysAbsTicks \in Nat
      BY <2>1, <2>3, WatchdogAssumption DEF WdInv, Types, WatchdogAssumption
  <2>7. key[w] = set[w].due
      BY DEF TimeOK
  <2> QED BY <2>4, <2>5, <2>6, <2>7
<1>6. \A w \in Elements(tickQ) : set[w].due \in Nat /\ sysAbsTicks \in Nat
    BY QueueElements DEF WdInv, Types, QueueOK, IsQueue
<1> QED BY <1>2, <1>3, <1>5, <1>6 DEF TimeOK, clockVars

LEMMA AnnounceTime ==
    ASSUME WdInv, TimeOK, NoWrap', NEW s \in Seq(Frames), Announce(s),
           \A f \in Elements(s) : f.at = "fire" => f \in On
    PROVE  TimeOK'
<1> DEFINE f == [at |-> "tick"]
<1>1. On' = Elements(s) \cup {f}
  <2>1. f \in Frames
      BY NewFrames
  <2>2. stack' = Append(s, f)
      BY <2>1, Concat1 DEF Announce
  <2> HIDE DEF f
  <2> QED BY <2>1, <2>2, AppendElements DEF On
<1>2. /\ sysTicks' = (sysTicks + 1) % WORD /\ sysAbsTicks' = sysAbsTicks + 1
      /\ UNCHANGED <<key, tickQ, set>>
    BY DEF Announce, ghosts
<1>3. /\ sysAbsTicks \in Nat /\ sysTicks = sysAbsTicks /\ WORD \in Nat \ {0}
      /\ sysAbsTicks + 1 < WORD
    BY <1>2, WatchdogAssumption
       DEF WdInv, Types, TimeOK, NoWrap, WatchdogAssumption
<1>4. sysTicks' = sysAbsTicks'
    BY <1>2, <1>3
<1>5. \A g \in On' : g.at = "fire" => g \in On
    BY <1>1
<1>6. \A g \in On : g.at = "fire" => set[g.wd].due \in Nat
    BY FrameKinds, QueueElements DEF WdInv, Types, StackOK, On
<1>7. \A g \in On' : g.at = "fire" => set'[g.wd].due <= sysAbsTicks'
    BY <1>2, <1>3, <1>5, <1>6 DEF TimeOK
<1>8. f \in On' /\ f.at = "tick"
    BY <1>1
<1> HIDE DEF f
<1> QED BY <1>2, <1>4, <1>7, <1>8 DEF TimeOK

\* A timer that is set is sorted by the tick it is set to.
LEMMA StartTime ==
    ASSUME WdInv, TimeOK, NoWrap, NEW w \in Wds, NEW d \in Delays, vmxWdStart(w, d),
           \A f \in On' : f.at # "fire",
           \A f \in On : f.at = "tick" => f \in On'
    PROVE  TimeOK'
<1>1. /\ sysAbsTicks \in Nat /\ sysTicks = sysAbsTicks /\ d \in Nat
      /\ WORD \in Nat \ {0} /\ sysTicks + d < WORD
      /\ key \in [Wds -> 0..(WORD - 1)] /\ key \in [Wds -> Nat]
      /\ set \in [Wds -> [delay : Nat, due : Nat]]
    BY WatchdogAssumption
       DEF NoWrap, WdInv, Types, TimeOK, WatchdogAssumption
<1>2. /\ IsQueue(tickQ, Wds) /\ QSorted(tickQ, key) /\ tickQ \in Seq(Wds)
      /\ Elements(tickQ) \subseteq Wds
      /\ status[w] = "IN_Q" <=> w \in Elements(tickQ)
    BY QueueElements DEF WdInv, QueueOK, TimeOK, IsQueue
<1>3. sysAbsTicks' = sysAbsTicks
    BY DEF vmxWdStart
<1>4. CASE dfrStartCount'[w] # 0
  <2>1. UNCHANGED <<clockVars, set>>
      BY <1>3, <1>4 DEF vmxWdStart, clockVars
  <2> QED BY <2>1, TimeStands DEF SameTicks
<1>5. CASE dfrStartCount'[w] = 0
  <2> DEFINE k == [key EXCEPT ![w] = sysTicks + d]
  <2>1. /\ QPut(w, d)
        /\ set' = [set EXCEPT ![w] = [delay |-> d, due |-> sysAbsTicks + d]]
      BY <1>5 DEF vmxWdStart, SetTo
  <2>2. ~Overflow(d)
      BY <1>1 DEF Overflow
  <2>3. /\ sysTicks' = sysTicks /\ key' = k
        /\ tickQ' = IF status[w] = "IN_Q" THEN QPrioMove(tickQ, w, k)
                                          ELSE QPrioPut(tickQ, w, k)
      BY <2>1, <2>2 DEF QPut
  <2>4. /\ k \in [Wds -> Nat] /\ k[w] = sysTicks + d
        /\ \A v \in Wds : v # w => k[v] = key[v]
      BY <1>1
  <2> HIDE DEF k
  <2>5. QSorted(tickQ', k) /\ Elements(tickQ') = Elements(tickQ) \cup {w}
    <3>1. CASE w \in Elements(tickQ)
      <4>1. key \in [Wds -> Nat] /\ \A m \in Wds : m # w => k[m] = key[m]
          BY <1>1, <2>4
      <4>2. LET r == QPrioMove(tickQ, w, k) IN
               IsQueue(r, Wds) /\ Elements(r) = Elements(tickQ) /\ QSorted(r, k)
          BY <1>2, <2>4, <3>1, <4>1, MoveQueue
      <4> QED BY <1>2, <2>3, <3>1, <4>2
    <3>2. CASE w \notin Elements(tickQ)
      <4>1. \A v \in Elements(tickQ) : k[v] = key[v]
          BY <1>2, <2>4, <3>2
      <4>2. QSorted(tickQ, k)
          BY <1>2, <4>1, SortedBy
      <4>3. /\ QSorted(QPrioPut(tickQ, w, k), k)
            /\ Elements(QPrioPut(tickQ, w, k)) = Elements(tickQ) \cup {w}
          BY <1>2, <2>4, <3>2, <4>2, PutQueue
      <4> QED BY <1>2, <2>3, <3>2, <4>3
    <3> QED BY <3>1, <3>2
  <2>6. /\ \A v \in Wds : v # w => set'[v] = set[v]
        /\ set'[w].delay = d /\ set'[w].due = sysAbsTicks + d
      BY <1>1, <2>1
  <2>7. \A v \in Elements(tickQ') : key'[v] = set'[v].due
      BY <1>1, <1>2, <2>3, <2>4, <2>5, <2>6 DEF TimeOK
  <2>8. (\A f \in On' : f.at # "tick") => \A v \in Elements(tickQ') :
          /\ set'[v].due >= sysAbsTicks
          /\ set'[v].delay > 0 => set'[v].due > sysAbsTicks
    <3> SUFFICES ASSUME \A f \in On' : f.at # "tick", NEW v \in Elements(tickQ')
                 PROVE  /\ set'[v].due >= sysAbsTicks
                        /\ set'[v].delay > 0 => set'[v].due > sysAbsTicks
        OBVIOUS
    <3>1. \A f \in On : f.at # "tick"
        OBVIOUS
    <3>2. CASE v = w
        BY <1>1, <2>6, <3>2
    <3>3. CASE v # w
        BY <1>2, <2>5, <2>6, <3>1, <3>3 DEF TimeOK
    <3> QED BY <3>2, <3>3
  <2> QED BY <1>1, <1>3, <2>3, <2>5, <2>7, <2>8 DEF TimeOK
<1> QED BY <1>4, <1>5

LEMMA CancelTime ==
    ASSUME WdInv, TimeOK, NEW w \in Wds, vmxWdCancel(w), Forget(w),
           UNCHANGED <<sysTicks, sysAbsTicks>>,
           \A f \in On' : f.at # "fire",
           \A f \in On : f.at = "tick" => f \in On'
    PROVE  TimeOK'
<1>1. /\ key \in [Wds -> 0..(WORD - 1)] /\ set \in [Wds -> [delay : Nat, due : Nat]]
    BY DEF WdInv, Types
<1>2. /\ IsQueue(tickQ, Wds) /\ QSorted(tickQ, key)
      /\ status[w] = "IN_Q" <=> w \in Elements(tickQ)
    BY DEF WdInv, QueueOK, TimeOK
<1>3. /\ IsQueue(tickQ', Wds) /\ QSorted(tickQ', key)
      /\ Elements(tickQ') = Elements(tickQ) \ {w}
  <2>1. CASE status[w] = "IN_Q"
      BY <1>2, <2>1, RemoveQueue DEF vmxWdCancel
  <2>2. CASE status[w] # "IN_Q"
      BY <1>2, <2>2 DEF vmxWdCancel
  <2> QED BY <2>1, <2>2
<1>4. /\ Elements(tickQ') \subseteq Wds /\ tickQ' \in Seq(Wds)
    BY <1>3, QueueElements DEF IsQueue
<1>5. \A v \in Wds : v # w => key'[v] = key[v] /\ set'[v] = set[v]
    BY <1>1 DEF Forget
<1>6. \A v \in Elements(tickQ') : /\ key'[v] = key[v] /\ set'[v] = set[v]
                                  /\ v \in Elements(tickQ)
    BY <1>3, <1>4, <1>5
<1>7. QSorted(tickQ', key')
    BY <1>3, <1>4, <1>6, SortedBy
<1> QED BY <1>6, <1>7 DEF TimeOK

LEMMA SectionTime == ASSUME WdInv, TimeOK, NoWrap, Start \/ Cancel PROVE TimeOK'
<1>1. PICK b, t : OnTop(b, t)
    BY Splits DEF WdInv
<1>2. t.at \in {"start", "cancel", "destroy"} /\ Become([at |-> "exit"])
    BY <1>1 DEF Start, Cancel, OnTop
<1>3. On = Elements(b) \cup {t} /\ \A f \in Elements(b) : ~Rests(f)
    BY <1>1, <1>2, NothingRests DEF OnTop, Interrupt
<1>4. On' = Elements(b) \cup {[at |-> "exit"]}
    BY <1>1, <1>2, NewFrames, AppendElements DEF Become, OnTop, On
<1>5. /\ \A f \in On' : f.at # "fire"
      /\ \A f \in On : f.at = "tick" => f \in On'
    BY <1>2, <1>3, <1>4 DEF Rests
<1>6. t.wd \in Wds /\ (t.at = "start" => t.delay \in Delays)
    BY <1>1, <1>2, FrameKinds DEF OnTop
<1>7. CASE Start
    BY <1>1, <1>5, <1>6, <1>7, StartTime DEF Start, OnTop
<1>8. CASE Cancel
    BY <1>1, <1>5, <1>6, <1>8, CancelTime DEF Cancel, OnTop
<1> QED BY <1>7, <1>8

LEMMA JobTime == ASSUME WdInv, TimeOK, NoWrap, NoWrap', RunJob PROVE TimeOK'
<1>1. Top.at \in {"drain", "exit"} /\ jobs # <<>>
    BY DEF RunJob
<1>2. Head(jobs) \in Jobs
    BY <1>1, JobGone DEF WdInv, Types
<1>3. \A f \in On : f.at # "fire"
  <2>1. PICK b, t : OnTop(b, t)
      BY Splits DEF WdInv
  <2> QED BY <1>1, <2>1, NothingRests DEF OnTop, Interrupt, Rests
<1>4. CASE stack' = stack
  <2>1. On' = On
      BY <1>4 DEF On
  <2>2. CASE Head(jobs).op = "start"
    <3>1. vmxWdStart(Head(jobs).wd, Head(jobs).delay)
        BY <2>2 DEF RunJob
    <3> QED BY <1>2, <1>3, <2>1, <2>2, <3>1, JobKinds, StartTime
  <2>3. CASE Head(jobs).op = "cancel"
    <3>1. vmxWdCancel(Head(jobs).wd) /\ Forget(Head(jobs).wd)
          /\ UNCHANGED <<sysTicks, sysAbsTicks>>
        BY <2>3 DEF RunJob
    <3> QED BY <1>2, <1>3, <2>1, <2>3, <3>1, JobKinds, CancelTime
  <2>4. CASE Head(jobs).op = "tick"
    <3>1. Announce(stack)
        BY <2>4 DEF RunJob
    <3> QED BY <3>1, AnnounceTime DEF WdInv, StackOK, On
  <2> QED BY <1>2, <2>2, <2>3, <2>4, JobKinds
<1>5. CASE stack' # stack
  <2>1. Announce(stack)
      BY <1>5 DEF RunJob
  <2> QED BY <2>1, AnnounceTime DEF WdInv, StackOK, On
<1> QED BY <1>4, <1>5

LEMMA TickTime == ASSUME WdInv, TimeOK, NoWrap', tickAnnounce PROVE TimeOK'
<1>1. PICK b, t : OnTop(b, t)
    BY Splits DEF WdInv
<1>2. t.at = "clock" /\ On = Elements(b) \cup {t} /\ b \in Seq(Frames)
    BY <1>1 DEF tickAnnounce, OnTop
<1>3. CASE kernelState
  <2>1. stack' = b /\ UNCHANGED <<clockVars, set>>
      BY <1>1, <1>3 DEF tickAnnounce, OnTop, Pop, ghosts
  <2> QED BY <1>2, <2>1, TimeStands DEF SameTicks, On
<1>4. CASE ~kernelState
  <2> DEFINE f == [at |-> "exit"]
             s == Append(b, f)
  <2>1. Announce(s)
      BY <1>1, <1>4 DEF tickAnnounce, OnTop
  <2>2. s \in Seq(Frames) /\ Elements(s) = Elements(b) \cup {f} /\ f.at = "exit"
      BY <1>2, NewFrames, AppendElements
  <2> HIDE DEF s
  <2> QED BY <1>2, <2>1, <2>2, AnnounceTime
<1> QED BY <1>3, <1>4

\* What expires is due.
LEMMA ExpireTime == ASSUME WdInv, TimeOK, NoWrap, Expire PROVE TimeOK'
<1> DEFINE w == Head(tickQ)
           f == [at |-> "fire", wd |-> w, func |-> wdFunc[w]]
<1>1. PICK b, t : OnTop(b, t)
    BY Splits DEF WdInv
<1>2. /\ t.at = "tick" /\ tickQ # <<>> /\ tickQ' = Tail(tickQ) /\ Push(f)
      /\ key[w] <= tickGet /\ key' = [key EXCEPT ![w] = 0]
      /\ UNCHANGED <<sysTicks, sysAbsTicks, set>>
    BY <1>1 DEF Expire, Expired, OnTop, ghosts
<1>3. /\ w \in Wds /\ w \in Elements(tickQ) /\ IsQueue(tickQ', Wds)
      /\ Elements(tickQ') = Elements(tickQ) \ {w} /\ QSorted(tickQ', key)
    BY <1>2, TailQueue DEF WdInv, QueueOK, TimeOK
<1>4. f \in Frames /\ f.wd = w
    BY <1>3, NewFrames DEF WdInv, Types
<1> HIDE DEF f, w
<1>5. On' = On \cup {f} /\ t \in On
    BY <1>1, <1>2, <1>4, PushOn DEF WdInv, OnTop
<1>6. tickGet = sysAbsTicks
  <2>1. sysAbsTicks \in Nat /\ WORD \in Nat \ {0} /\ sysAbsTicks < WORD
      BY WatchdogAssumption DEF NoWrap, WdInv, Types, WatchdogAssumption
  <2> QED BY <2>1 DEF tickGet
<1>7. set[w].due <= sysAbsTicks
    BY <1>2, <1>3, <1>6 DEF TimeOK
<1>8. \A v \in Elements(tickQ') : v \in Elements(tickQ) /\ key'[v] = key[v]
  <2>1. tickQ' \in Seq(Wds) /\ Elements(tickQ') \subseteq Wds
      BY <1>3, QueueElements DEF IsQueue
  <2> QED BY <1>2, <1>3, <2>1 DEF WdInv, Types
<1>9. QSorted(tickQ', key')
    BY <1>3, <1>8, SortedBy DEF IsQueue
<1>10. \A g \in On' : g.at = "fire" => set[g.wd].due <= sysAbsTicks
    BY <1>4, <1>5, <1>7 DEF TimeOK
<1>11. ~(\A g \in On' : g.at # "tick")
    BY <1>2, <1>5
<1> QED BY <1>2, <1>8, <1>9, <1>10, <1>11 DEF TimeOK

LEMMA FireTime == ASSUME WdInv, TimeOK, Fire PROVE TimeOK'
<1>1. PICK b, t : OnTop(b, t)
    BY Splits DEF WdInv
<1> DEFINE w == t.wd
           x == [at |-> "drain"]
           y == [at |-> "handler", fn |-> w]
<1>2. /\ t.at = "fire" /\ set' = [set EXCEPT ![w] = NotSet] /\ UNCHANGED clockVars
    BY <1>1 DEF Fire, OnTop
<1>3. /\ b \in Seq(Frames) /\ t \in Frames /\ b # <<>> /\ b[Len(b)].at = "tick"
      /\ \A f \in Elements(b) : ~Rests(f)
    BY <1>1, <1>2, NothingRests DEF OnTop, CanStandOn, Interrupt
<1>4. w \in Wds /\ w \notin Elements(tickQ)
    BY <1>1, <1>2, <1>3, FrameKinds DEF OnTop, WdInv, QueueOK
<1>5. x \in Frames /\ y \in Frames /\ x.at = "drain" /\ y.at = "handler"
    BY <1>4, NewFrames
<1>6. stack' \in {Append(b, x), Append(Append(b, x), y)}
    BY <1>1, <1>3, <1>5, Concat2 DEF Fire, OnTop, Become
<1> HIDE DEF x, y
<1>7. On' \in {Elements(b) \cup {x}, Elements(b) \cup {x} \cup {y}}
  <2> DEFINE s == Append(b, x)
  <2>1. s \in Seq(Frames) /\ Elements(s) = Elements(b) \cup {x}
      BY <1>3, <1>5, AppendElements
  <2> HIDE DEF s
  <2>2. Elements(Append(s, y)) = Elements(s) \cup {y}
      BY <1>5, <2>1, AppendElements
  <2> QED BY <1>6, <2>1, <2>2 DEF On, s
<1>8. \A f \in On' : f.at # "fire"
    BY <1>3, <1>5, <1>7 DEF Rests
<1>9. b[Len(b)] \in On'
  <2>1. b[Len(b)] \in Elements(b)
    <3>1. Len(b) \in 1..Len(b)
        BY <1>3
    <3> QED BY <1>3, <3>1, QueueElements
  <2> QED BY <1>7, <2>1
<1>10. \A v \in Elements(tickQ) : set'[v] = set[v]
  <2>1. Elements(tickQ) \subseteq Wds
      BY QueueElements DEF WdInv, QueueOK, IsQueue
  <2> QED BY <1>2, <1>4, <2>1 DEF WdInv, Types
<1> QED BY <1>2, <1>3, <1>8, <1>9, <1>10 DEF TimeOK, clockVars

LEMMA TimeInit == Init => TimeOK
<1> SUFFICES ASSUME Init PROVE TimeOK
    OBVIOUS
<1>1. sysTicks = 0 /\ sysAbsTicks = 0 /\ tickQ = <<>> /\ stack = <<[at |-> "task"]>>
    BY DEF Init
<1>2. Elements(tickQ) = {} /\ QSorted(tickQ, key)
    BY <1>1 DEF Elements, QSorted
<1>3. \A f \in On : f.at = "task"
    BY <1>1 DEF On, Elements
<1> QED BY <1>1, <1>2, <1>3 DEF TimeOK

LEMMA TimeStep == WdInv /\ TimeOK /\ NoWrap /\ NoWrap' /\ [Next]_vars => TimeOK'
<1> SUFFICES ASSUME WdInv, TimeOK, NoWrap, NoWrap', [Next]_vars PROVE TimeOK'
    OBVIOUS
<1>1. CASE Goes
    BY <1>1, ReturnTime, SectionTime, TickTime, ExpireTime, FireTime, TickEndsTime,
       JobTime DEF Goes
<1>2. CASE Call \/ HandlerStarts \/ ClockInterrupt
    BY <1>2, CallTime
<1>3. CASE UNCHANGED vars
    BY <1>3, TimeStands DEF vars, ghosts, SameTicks, On
<1> QED BY <1>1, <1>2, <1>3 DEF Next

LEMMA TimeAlways == Spec /\ []NoWrap => []TimeOK
BY WdInvAlways, TimeInit, TimeStep, PTL DEF Spec

-----------------------------------------------------------------------------
(***************************************************************************)
(* The invariants of Watchdog.                                             *)
(***************************************************************************)
LEMMA TypesHold == ASSUME WdInv PROVE TypeOK /\ DeferredCounted
<1>1. stack \in Seq(Frames) /\ stack # <<>> /\ jobs \in Seq(Jobs)
    BY DEF WdInv, StackOK, Types
<1>2. stack[1].at = "task"
  <2>1. 1 \in 1..Len(stack)
      BY <1>1
  <2> QED BY <2>1 DEF WdInv, StackOK, Shape
<1>3. kernelState = \E i \in DOMAIN stack :
          stack[i].at \in {"start", "cancel", "destroy", "exit"}
  <2>1. (\E i \in DOMAIN stack : Section(stack[i])) = InSection(stack)
      BY DEF InSection, Elements
  <2> QED BY <2>1 DEF WdInv, StackOK, Section
<1>4. TypeOK
    BY <1>1, <1>2, <1>3 DEF TypeOK, WdInv, Types, QueueOK, IsQueue
<1>5. ASSUME NEW w \in Wds
      PROVE  dfrStartCount[w] =
                Cardinality({i \in DOMAIN jobs : StartJob(jobs[i], w)}) +
                Cardinality({i \in DOMAIN stack :
                    \/ stack[i].at = "start" /\ stack[i].wd = w
                    \/ stack[i].at = "post" /\ StartJob(stack[i].job, w)})
  <2>1. {i \in DOMAIN jobs : StartJob(jobs[i], w)} = Places(jobs, StartJobs(w))
      BY <1>1 DEF Places, StartJobs
  <2>2. {i \in DOMAIN stack : \/ stack[i].at = "start" /\ stack[i].wd = w
                              \/ stack[i].at = "post" /\ StartJob(stack[i].job, w)}
        = Places(stack, StartFrames(w))
      BY <1>1 DEF Places, StartFrames
  <2> QED BY <2>1, <2>2 DEF WdInv, Deferred, HowMany
<1> QED BY <1>4, <1>5 DEF DeferredCounted

\* The deferred starts are counted, and the types hold, for every number of
\* ticks, also across the wrap of the tick counter (wdLib.c wdStart, vmxLib.c
\* vmxWdStart).
THEOREM StartsCounted == Spec => [](TypeOK /\ DeferredCounted)
BY WdInvAlways, TypesHold, PTL

LEMMA ConsistentHolds == ASSUME WdInv, TimeOK PROVE Consistent
<1>1. \A w \in Wds : (status[w] = "IN_Q") = (w \in Elements(tickQ))
    BY DEF WdInv, QueueOK
<1>2. Cardinality(Elements(tickQ)) = Len(tickQ)
    BY QueueSize DEF WdInv, QueueOK
<1> QED BY <1>1, <1>2, TypesHold DEF Consistent, QueueTells, TimeOK

\* What later calls decide by is true, until the tick counter wraps (wdLib.c,
\* vmxLib.c vmxWdStart, vmxWdCancel, vmxTickAnnounce).
THEOREM CallsDecideRight == Spec /\ []NoWrap => []Consistent
BY WdInvAlways, TimeAlways, ConsistentHolds, PTL

LEMMA TopOn == ASSUME WdInv PROVE Top \in On /\ Top \in Frames
<1>1. PICK b, t : OnTop(b, t)
    BY Splits DEF WdInv
<1> QED BY <1>1 DEF OnTop

\* No function is called before its time, until the tick counter wraps (vmxLib.c
\* vmxTickAnnounce, qPrioLib.c qPrioExpired).
THEOREM NoneIsEarly == Spec /\ []NoWrap => []NotEarly
<1>1. WdInv /\ TimeOK => NotEarly
    BY TopOn DEF TimeOK, NotEarly, Calls
<1> QED BY <1>1, WdInvAlways, TimeAlways, PTL

\* When no tick loop runs nothing that is due has been left in the queue, until
\* the tick counter wraps (vmxLib.c vmxTickAnnounce, workQLib.c workQDoWork).
THEOREM NoneIsLate == Spec /\ []NoWrap => []NotLate
<1>1. WdInv /\ TimeOK => NotLate
  <2> SUFFICES ASSUME WdInv, TimeOK,
                      \A i \in DOMAIN stack : stack[i].at \notin {"tick", "fire"}
               PROVE  \A w \in Elements(tickQ) :
                         /\ set[w].due >= sysAbsTicks
                         /\ set[w].delay > 0 => set[w].due > sysAbsTicks
      BY DEF NotLate
  <2>1. \A f \in On : f.at # "tick"
      BY DEF On, Elements
  <2> QED BY <2>1 DEF TimeOK
<1> QED BY <1>1, WdInvAlways, TimeAlways, PTL

\* A function is called for the start that named it, once, with its delay; and
\* not after a cancel or a delete that found the kernel free (wdLib.c wdStart,
\* wdCancel, wdDestroy).
THEOREM CalledForItsStart == Spec => []CalledAsAsked
<1>1. WdInv => CalledAsAsked
  <2> SUFFICES ASSUME WdInv, Calls
               PROVE  /\ Top.func = wdFunc[Top.wd]
                      /\ asked[Top.wd].fate # "over"
                      /\ Top.wd \in Private => set[Top.wd].delay = asked[Top.wd].delay
      BY DEF CalledAsAsked
  <2>1. PICK b, t : OnTop(b, t)
      BY Splits DEF WdInv
  <2>2. t.at = "fire" /\ dfrStartCount[t.wd] = 0 /\ Top = t /\ t \in On /\ t.wd \in Wds
      BY <2>1, FrameKinds DEF Calls, OnTop
  <2>3. Armed(t.wd)
      BY <2>2 DEF Armed
  <2>4. ~Cancelling(t.wd)
    <3>1. \A f \in Elements(b) : ~Rests(f)
        BY <2>1, <2>2, NothingRests DEF Interrupt
    <3> QED BY <2>1, <2>2, <3>1 DEF Cancelling, OnTop, Rests
  <2>5. asked[t.wd].fate # "over"
      BY <2>2, <2>3, <2>4 DEF WdInv, FateOK
  <2>6. t.func = wdFunc[t.wd]
      BY <2>2 DEF WdInv, FuncOK
  <2> QED BY <2>2, <2>3, <2>5, <2>6 DEF WdInv, DelayOK
<1> QED BY <1>1, WdInvAlways, PTL

\* When wdDestroy lets go of a watchdog nothing refers to it any more (wdLib.c
\* wdDestroy).
THEOREM DeletedIsLetGo == Spec => []DeletedIsUnused
<1>1. WdInv => DeletedIsUnused
  <2> SUFFICES ASSUME WdInv, NEW w \in Wds, status[w] = "DEAD"
               PROVE  /\ w \notin Elements(tickQ)
                      /\ \A i \in DOMAIN jobs : jobs[i].op # "tick" => jobs[i].wd # w
                      /\ \A i \in DOMAIN stack :
                            /\ stack[i].at \in {"start", "cancel", "fire"} =>
                                  stack[i].wd # w
                            /\ stack[i].at = "post" => stack[i].job.wd # w
      BY DEF DeletedIsUnused
  <2>1. w \notin Elements(tickQ)
      BY DEF WdInv, QueueOK
  <2>2. /\ \A j \in Elements(jobs) : ~JobFor(j, w)
        /\ \A f \in On : ~FrameFor(f, w)
      BY DEF WdInv, StatusOK, Types
  <2>3. \A i \in DOMAIN jobs : jobs[i].op # "tick" => jobs[i].wd # w
      BY <2>2 DEF Elements, JobFor
  <2>4. ASSUME NEW i \in DOMAIN stack
        PROVE  /\ stack[i].at \in {"start", "cancel", "fire"} => stack[i].wd # w
               /\ stack[i].at = "post" => stack[i].job.wd # w
    <3>1. stack[i] \in On /\ stack[i] \in Frames
        BY DEF On, Elements, WdInv, StackOK
    <3>2. stack[i].at = "post" => stack[i].job.op # "tick"
        BY <3>1, FrameKinds, JobKinds
    <3> QED BY <2>2, <3>1, <3>2 DEF FrameFor, JobFor
  <2> QED BY <2>1, <2>3, <2>4
<1> QED BY <1>1, WdInvAlways, PTL

-----------------------------------------------------------------------------
(***************************************************************************)
(* The work queue is correct for every size of the ring, every depth of    *)
(* interrupt nesting and any number of jobs.                               *)
(***************************************************************************)
USE WorkQAssumption DEF WorkQAssumption, States, Owning, Deferring

\* The masked increment stays in the ring (the index update of workQAdd and
\* workQDoWork).
LEMMA AdvanceInRing == \A i \in Slots : Advance(i) \in Slots
BY DEF Advance, Slots

LEMMA DistanceFacts == \A r, s \in Slots :
    /\ Distance(r, s) \in Nat /\ Distance(r, s) < MAX_WORK_Q_JOBS
    /\ Distance(r, s) = 0 <=> s = r
    /\ \A t \in Slots : Distance(r, s) = Distance(r, t) => s = t
    /\ Advance(s) # r => Distance(r, Advance(s)) = Distance(r, s) + 1
    /\ s # r => Distance(Advance(r), s) = Distance(r, s) - 1
BY DEF Distance, Advance, Slots

LEMMA Ranges ==
    /\ 0 \in Levels /\ Levels \subseteq Nat
    /\ 0 \in Slots /\ Slots \subseteq Nat
    /\ \A l \in Levels : l < MaxNest => l + 1 \in Levels
    /\ \A l \in Levels : l > 0 => l - 1 \in Levels
BY DEF Levels, Slots

\* Every variable keeps its type: the indices never leave the ring of
\* workQLib, and a level only ever is at one of its states.
LEMMA TypeInductive == WorkQTypeOK /\ Control /\ [WorkQNext]_workQVars => WorkQTypeOK'
<1> SUFFICES ASSUME WorkQTypeOK, Control, [WorkQNext]_workQVars PROVE WorkQTypeOK'
    OBVIOUS
<1> USE AdvanceInRing, Ranges DEF WorkQTypeOK, At, Goto, ghostVars, queueVars
<1>1. CASE IntEnt BY <1>1 DEF IntEnt
<1>2. CASE Reboot BY <1>2 DEF Reboot
<1>3. ASSUME NEW l \in Levels, Step(l) PROVE WorkQTypeOK'
  <2>1. CASE IntRet(l) BY <2>1 DEF IntRet
  <2>2. CASE IntRetResched(l) BY <2>2 DEF IntRetResched
  <2>3. CASE EnterKernel(l) BY <2>3 DEF EnterKernel
  <2>4. CASE LeaveKernel(l) BY <2>4 DEF LeaveKernel
  <2>5. CASE CallDoWork(l) BY <2>5 DEF CallDoWork
  <2>6. CASE WorkQAdd(l)
    <3>1. CASE workQWriteIndex' = workQReadIndex BY <2>6, <3>1 DEF WorkQAdd
    <3>2. CASE workQWriteIndex' # workQReadIndex BY <2>6, <3>2 DEF WorkQAdd
    <3> QED BY <3>1, <3>2
  <2>7. CASE MarkNotEmpty(l) BY <2>7 DEF MarkNotEmpty
  <2>8. CASE StoreJob(l) BY <2>8 DEF StoreJob
  <2>9. CASE TakeJob(l) BY <2>9 DEF TakeJob
  <2>10. CASE CallJob(l)
    <3>1. ran' \in Nat BY <2>10 DEF CallJob
    <3>2. called' \in Nat BY <2>10 DEF CallJob
    <3> QED BY <2>10, <3>1, <3>2 DEF CallJob
  <2>11. CASE JobReturns(l) BY <2>11 DEF JobReturns
  <2>12. CASE DrainDone(l)
    <3>1. depth[l] > 0 BY <2>12 DEF DrainDone, Control
    <3> QED BY <2>12, <3>1 DEF DrainDone
  <2> QED BY <1>3, <2>1, <2>2, <2>3, <2>4, <2>5, <2>6, <2>7, <2>8, <2>9,
             <2>10, <2>11, <2>12 DEF Step
<1>4. CASE UNCHANGED workQVars BY <1>4 DEF workQVars
<1> QED BY <1>1, <1>2, <1>3, <1>4 DEF WorkQNext

\* The mutual exclusion of the kernel is kept by every entry, exit, interrupt
\* and deferral.
LEMMA ControlInductive ==
    WorkQTypeOK /\ Control /\ [WorkQNext]_workQVars => Control'
<1> SUFFICES ASSUME WorkQTypeOK, Control, [WorkQNext]_workQVars PROVE Control'
    OBVIOUS
<1> USE Ranges DEF WorkQTypeOK, Control, KernelMutex, At, Goto, ghostVars, queueVars
<1>1. CASE IntEnt BY <1>1 DEF IntEnt
<1>2. CASE Reboot BY <1>2 DEF Reboot
<1>3. ASSUME NEW l \in Levels, Step(l) PROVE Control'
  <2>1. CASE IntRet(l) BY <2>1 DEF IntRet
  <2>2. CASE IntRetResched(l) BY <2>2 DEF IntRetResched
  <2>3. CASE EnterKernel(l) BY <2>3 DEF EnterKernel
  <2>4. CASE LeaveKernel(l) BY <2>4 DEF LeaveKernel
  <2>5. CASE CallDoWork(l) BY <2>5 DEF CallDoWork
  <2>6. CASE WorkQAdd(l) BY <2>6 DEF WorkQAdd
  <2>7. CASE MarkNotEmpty(l) BY <2>7 DEF MarkNotEmpty
  <2>8. CASE StoreJob(l) BY <2>8 DEF StoreJob
  <2>9. CASE TakeJob(l) BY <2>9 DEF TakeJob
  <2>10. CASE CallJob(l) BY <2>10 DEF CallJob
  <2>11. CASE JobReturns(l) BY <2>11 DEF JobReturns
  <2>12. CASE DrainDone(l) BY <2>12 DEF DrainDone
  <2> QED BY <1>3, <2>1, <2>2, <2>3, <2>4, <2>5, <2>6, <2>7, <2>8, <2>9,
             <2>10, <2>11, <2>12 DEF Step
<1>4. CASE UNCHANGED workQVars BY <1>4 DEF workQVars
<1> QED BY <1>1, <1>2, <1>3, <1>4 DEF WorkQNext

\* What waits in the ring stays what was posted, through posts that are
\* interrupted before they store, and through jobs that are being called.
LEMMA ContentInductive ==
    /\ WorkQTypeOK /\ WorkQTypeOK' /\ Control /\ (~panicked => Content)
    /\ CallsPostedJob /\ [WorkQNext]_workQVars
    => (~panicked' => Content')
<1> SUFFICES ASSUME WorkQTypeOK, WorkQTypeOK', Control, ~panicked => Content,
                    CallsPostedJob, [WorkQNext]_workQVars, ~panicked'
             PROVE  Content'
    OBVIOUS
<1> USE Ranges DEF WorkQTypeOK, Control, KernelMutex, At, Goto, ghostVars, queueVars,
                   Content, FlagTells, Stored, Storing, Taken,
                   NoneTaken, Offset, Waiting, JobOf
<1>1. CASE IntEnt BY <1>1 DEF IntEnt
<1>2. CASE Reboot BY <1>2 DEF Reboot, Distance
<1>3. ASSUME NEW l \in Levels, Step(l) PROVE Content'
  <2>1. CASE IntRet(l) BY <2>1 DEF IntRet
  <2>2. CASE IntRetResched(l) BY <2>2 DEF IntRetResched
  <2>3. CASE EnterKernel(l) BY <2>3 DEF EnterKernel
  <2>4. CASE LeaveKernel(l) BY <2>4 DEF LeaveKernel
  <2>5. CASE CallDoWork(l) BY <2>5 DEF CallDoWork
  <2>6. CASE WorkQAdd(l)
    <3> USE <2>6 DEF WorkQAdd
    <3>1. /\ ~panicked /\ Content
          /\ workQWriteIndex' = Advance(workQWriteIndex)
          /\ workQWriteIndex' # workQReadIndex
          /\ workQReadIndex' = workQReadIndex
          /\ workQJobs' = workQJobs /\ called' = called
        OBVIOUS
    <3>2. /\ posted' = posted + 1 /\ pc' = [pc EXCEPT ![l] = "mark"]
          /\ arg' = [arg EXCEPT ![l] = posted + 1]
          /\ pJob' = [pJob EXCEPT ![l] = workQWriteIndex]
          /\ pc[l] = "out"
        BY <3>1
    <3>. HIDE <2>6 DEF WorkQAdd, Content, Stored, Storing, Taken, NoneTaken,
              Offset, Waiting, JobOf
    <3>3. /\ Waiting' = Waiting + 1 /\ Waiting \in Nat
          /\ Offset(workQWriteIndex) = Waiting
          /\ \A s \in Slots : Offset(s) \in Nat /\ Offset(s)' = Offset(s)
        BY <3>1, DistanceFacts DEF Waiting, Offset
    <3>4. \A s \in Slots : JobOf(s)' = JobOf(s)
        BY <3>2, <3>3 DEF JobOf
    <3>5. \A s \in Slots : Offset(s) < Waiting + 1 =>
             Offset(s) < Waiting \/ s = workQWriteIndex
        BY <3>3, DistanceFacts DEF Offset, Waiting
    <3>6. FlagTells' BY <3>2
    <3>7. Stored' BY <3>1, <3>2, <3>3, <3>4, <3>5 DEF Content, Stored
    <3>8. JobOf(workQWriteIndex) = posted + 1 BY <3>3 DEF JobOf
    <3>9. ASSUME NEW k \in Levels, pc'[k] \in Deferring
          PROVE  (Offset(pJob[k]) < Waiting /\ arg[k] = JobOf(pJob[k]))'
      <4>1. CASE k = l BY <3>1, <3>2, <3>3, <3>8, <4>1 DEF Offset, JobOf
      <4>2. CASE k # l
        <5>1. pJob'[k] = pJob[k] /\ pJob[k] \in Slots /\ arg'[k] = arg[k]
                /\ pc[k] \in Deferring
            BY <3>2, <3>9, <4>2
        <5>2. Offset(pJob[k]) < Waiting /\ arg[k] = JobOf(pJob[k])
            BY <3>1, <5>1 DEF Content, Storing
        <5>3. Distance(workQReadIndex, pJob[k]) \in Nat BY <5>1, DistanceFacts
        <5>4. Offset(pJob[k])' = Offset(pJob[k]) BY <3>1, <5>1 DEF Offset
        <5>5. JobOf(pJob[k])' = JobOf(pJob[k])
            BY <3>2, <3>3, <5>3, <5>4 DEF JobOf, Offset
        <5>6. Waiting < Waiting' BY <3>3
        <5> QED BY <3>3, <5>1, <5>2, <5>3, <5>4, <5>5, <5>6 DEF Offset
      <4> QED BY <4>1, <4>2
    <3>10. Taken' BY <3>1, <3>2, <3>3 DEF Content, Taken
    <3>11. NoneTaken' BY <3>1, <3>2, <3>3 DEF Content, NoneTaken
    <3>12. Storing' BY <3>9 DEF Storing
    <3> QED BY <3>6, <3>7, <3>10, <3>11, <3>12 DEF Content
  <2>7. CASE MarkNotEmpty(l) BY <2>7 DEF MarkNotEmpty
  <2>8. CASE StoreJob(l)
    <3> USE <2>8 DEF StoreJob
    <3>1. \A s \in Slots : Offset(s)' = Offset(s) /\ JobOf(s)' = JobOf(s)
        OBVIOUS
    <3>2. workQJobs'[pJob[l]] = JobOf(pJob[l]) OBVIOUS
    <3>3. ASSUME NEW s \in Slots, Offset(s) < Waiting
          PROVE  \/ workQJobs'[s] = JobOf(s)
                 \/ \E k \in Levels : pc'[k] \in Deferring /\ pJob'[k] = s
      <4>1. CASE s = pJob[l] BY <4>1, <3>2
      <4>2. CASE s # pJob[l] BY <4>2, <3>3
      <4> QED BY <4>1, <4>2
    <3>4. Stored' BY <3>1, <3>3
    <3>5. FlagTells' OBVIOUS
    <3>6. Storing' BY <3>1
    <3>7. Taken' /\ NoneTaken' OBVIOUS
    <3> QED BY <3>4, <3>5, <3>6, <3>7
  <2>9. CASE TakeJob(l)
    <3> USE <2>9 DEF TakeJob
    <3>1. /\ ~panicked /\ Content
          /\ workQReadIndex # workQWriteIndex
          /\ workQReadIndex' = Advance(workQReadIndex)
          /\ workQWriteIndex' = workQWriteIndex
          /\ workQJobs' = workQJobs /\ workQIsEmpty' = workQIsEmpty
          /\ called' = called /\ posted' = posted
          /\ pJob' = [pJob EXCEPT ![l] = workQReadIndex]
          /\ pc[l] = "drain" /\ pc' = [pc EXCEPT ![l] = "call"]
        OBVIOUS
    <3>2. \A k \in Levels : k # l => pc[k] = "out" OBVIOUS
    <3>. HIDE <2>9 DEF TakeJob, Content, Stored, Storing, Taken, NoneTaken,
              Offset, Waiting, JobOf
    <3>3. /\ Waiting \in Nat /\ Waiting < MAX_WORK_Q_JOBS
          /\ Waiting' = Waiting - 1
        BY <3>1, DistanceFacts DEF Waiting, Offset
    <3>4. ASSUME NEW s \in Slots
          PROVE  /\ s # workQReadIndex => /\ Offset(s)' = Offset(s) - 1
                                          /\ JobOf(s)' = JobOf(s)
                 /\ s = workQReadIndex => Offset(s)' = MAX_WORK_Q_JOBS - 1
                 /\ Offset(s) \in Nat
      <4>1. s # workQReadIndex => Offset(s)' = Offset(s) - 1
          BY <3>1, DistanceFacts DEF Offset
      <4>2. Offset(s) \in Nat BY DistanceFacts DEF Offset
      <4>3. s = workQReadIndex => Offset(s)' = MAX_WORK_Q_JOBS - 1
          BY <3>1 DEF Offset, Distance, Advance, Slots
      <4> QED BY <3>1, <3>3, <4>1, <4>2, <4>3 DEF JobOf
    <3>5. FlagTells' BY <3>1, <3>2 DEF Content, FlagTells
    <3>6. ASSUME NEW s \in Slots, Offset(s)' < Waiting'
          PROVE  workQJobs'[s] = JobOf(s)'
      <4>1. s # workQReadIndex /\ Offset(s) < Waiting BY <3>3, <3>4, <3>6
      <4>2. workQJobs[s] = JobOf(s)
        BY <3>1, <3>2, <4>1 DEF Content, Stored
      <4> QED BY <3>1, <3>4, <4>1, <4>2
    <3>7. Stored' BY <3>6 DEF Stored
    <3>8. Storing' BY <3>1, <3>2 DEF Storing
    <3>9. called + Waiting = posted BY <3>1, <3>2 DEF Content, NoneTaken
    <3>10. Taken' BY <3>1, <3>2, <3>3, <3>9 DEF Taken
    <3>11. NoneTaken' BY <3>1 DEF NoneTaken
    <3> QED BY <3>5, <3>7, <3>8, <3>10, <3>11 DEF Content
  <2>10. CASE CallJob(l) BY <2>10 DEF CallJob
  <2>11. CASE JobReturns(l) BY <2>11 DEF JobReturns
  <2>12. CASE DrainDone(l) BY <2>12 DEF DrainDone
  <2> QED BY <1>3, <2>1, <2>2, <2>3, <2>4, <2>5, <2>6, <2>7, <2>8, <2>9,
             <2>10, <2>11, <2>12 DEF Step
<1>4. CASE UNCHANGED workQVars BY <1>4 DEF workQVars
<1> QED BY <1>1, <1>2, <1>3, <1>4 DEF WorkQNext

\* The kernel is only left with the flag set, and then nothing waits: no level
\* can be between reserving a slot and clearing the flag.
LEMMA StrandedInductive == IInv /\ [WorkQNext]_workQVars => NoStrandedWork'
<1> SUFFICES ASSUME IInv, [WorkQNext]_workQVars PROVE NoStrandedWork'
    OBVIOUS
<1> USE Ranges DEF NoStrandedWork, IInv, WorkQTypeOK, Control, KernelMutex, Content,
                   FlagTells, At, Goto, ghostVars, queueVars
<1>1. CASE IntEnt BY <1>1 DEF IntEnt
<1>2. CASE Reboot BY <1>2 DEF Reboot
<1>3. ASSUME NEW l \in Levels, Step(l) PROVE NoStrandedWork'
  <2>1. CASE IntRet(l) BY <2>1 DEF IntRet
  <2>2. CASE IntRetResched(l) BY <2>2 DEF IntRetResched
  <2>3. CASE EnterKernel(l) BY <2>3 DEF EnterKernel
  <2>4. CASE LeaveKernel(l) BY <2>4 DEF LeaveKernel
  <2>5. CASE CallDoWork(l) BY <2>5 DEF CallDoWork
  <2>6. CASE WorkQAdd(l) BY <2>6 DEF WorkQAdd
  <2>7. CASE MarkNotEmpty(l) BY <2>7 DEF MarkNotEmpty
  <2>8. CASE StoreJob(l) BY <2>8 DEF StoreJob
  <2>9. CASE TakeJob(l) BY <2>9 DEF TakeJob
  <2>10. CASE CallJob(l) BY <2>10 DEF CallJob
  <2>11. CASE JobReturns(l) BY <2>11 DEF JobReturns
  <2>12. CASE DrainDone(l) BY <2>12 DEF DrainDone
  <2> QED BY <1>3, <2>1, <2>2, <2>3, <2>4, <2>5, <2>6, <2>7, <2>8, <2>9,
             <2>10, <2>11, <2>12 DEF Step
<1>4. CASE UNCHANGED workQVars BY <1>4 DEF workQVars
<1> QED BY <1>1, <1>2, <1>3, <1>4 DEF WorkQNext

\* A slot that was taken keeps its content until its job is called.
LEMMA CallsInductive == IInv /\ [WorkQNext]_workQVars => CallsPostedJob'
<1> SUFFICES ASSUME IInv, [WorkQNext]_workQVars PROVE CallsPostedJob'
    OBVIOUS
<1> USE Ranges DEF CallsPostedJob, IInv, WorkQTypeOK, Control, KernelMutex, At, Goto,
                   ghostVars, queueVars
<1>1. CASE IntEnt BY <1>1 DEF IntEnt
<1>2. CASE Reboot BY <1>2 DEF Reboot
<1>3. ASSUME NEW l \in Levels, Step(l) PROVE CallsPostedJob'
  <2>1. CASE IntRet(l) BY <2>1 DEF IntRet
  <2>2. CASE IntRetResched(l) BY <2>2 DEF IntRetResched
  <2>3. CASE EnterKernel(l) BY <2>3 DEF EnterKernel
  <2>4. CASE LeaveKernel(l) BY <2>4 DEF LeaveKernel
  <2>5. CASE CallDoWork(l) BY <2>5 DEF CallDoWork
  <2>6. CASE WorkQAdd(l) BY <2>6 DEF WorkQAdd
  <2>7. CASE MarkNotEmpty(l) BY <2>7 DEF MarkNotEmpty
  <2>8. CASE StoreJob(l)
    <3>1. ASSUME NEW k \in Levels, pc[k] = "call" PROVE pJob[k] # pJob[l]
      <4>1. Storing /\ Taken BY <2>8 DEF StoreJob, Content
      <4>2. Offset(pJob[l]) < Waiting BY <2>8, <4>1 DEF StoreJob, Storing
      <4>3. Advance(pJob[k]) = workQReadIndex BY <3>1, <4>1 DEF Taken
      <4>4. pJob[k] \in Slots /\ pJob[l] \in Slots /\ workQReadIndex \in Slots
              /\ workQWriteIndex \in Slots
          OBVIOUS
      <4> HIDE DEF WorkQTypeOK, IInv, Control
      <4> QED BY <4>2, <4>3, <4>4 DEF Offset, Waiting, Distance, Advance, Slots
    <3> QED BY <2>8, <3>1 DEF StoreJob
  <2>9. CASE TakeJob(l)
    <3> USE <2>9 DEF TakeJob
    <3>1. \A k \in Levels : k # l => pc[k] = "out" OBVIOUS
    <3>2. Content /\ workQReadIndex # workQWriteIndex OBVIOUS
    <3>3. Offset(workQReadIndex) = 0 /\ Waiting > 0 /\ Waiting \in Nat
        BY <3>2, DistanceFacts DEF Offset, Waiting
    <3>4. workQJobs[workQReadIndex] = JobOf(workQReadIndex)
        BY <3>1, <3>2, <3>3 DEF Content, Stored
    <3>5. called + Waiting = posted BY <3>1, <3>2 DEF Content, NoneTaken
    <3>6. workQJobs[workQReadIndex] = called + 1
        BY <3>3, <3>4, <3>5 DEF JobOf
    <3> QED BY <3>1, <3>6
  <2>10. CASE CallJob(l) BY <2>10 DEF CallJob
  <2>11. CASE JobReturns(l) BY <2>11 DEF JobReturns
  <2>12. CASE DrainDone(l) BY <2>12 DEF DrainDone
  <2> QED BY <1>3, <2>1, <2>2, <2>3, <2>4, <2>5, <2>6, <2>7, <2>8, <2>9,
             <2>10, <2>11, <2>12 DEF Step
<1>4. CASE UNCHANGED workQVars BY <1>4 DEF workQVars
<1> QED BY <1>1, <1>2, <1>3, <1>4 DEF WorkQNext

\* The inductive invariant holds.
LEMMA Inductive == WorkQSpec => []IInv
<1>1. WorkQInit => IInv
  <2> SUFFICES ASSUME WorkQInit PROVE IInv
      OBVIOUS
  <2> USE Ranges DEF WorkQInit
  <2>1. WorkQTypeOK BY DEF WorkQTypeOK
  <2>2. Control BY DEF Control, KernelMutex
  <2>3. NoStrandedWork /\ CallsPostedJob BY DEF NoStrandedWork, CallsPostedJob
  <2>4. Content
    BY DEF Content, FlagTells, Stored, Storing, Taken, NoneTaken, Offset,
           Waiting, Distance
  <2> QED BY <2>1, <2>2, <2>3, <2>4 DEF IInv
<1>2. IInv /\ [WorkQNext]_workQVars => IInv'
  <2> SUFFICES ASSUME IInv, [WorkQNext]_workQVars PROVE IInv'
      OBVIOUS
  <2>1. WorkQTypeOK' BY TypeInductive DEF IInv
  <2>2. Control' BY ControlInductive DEF IInv
  <2>3. ~panicked' => Content' BY <2>1, ContentInductive DEF IInv
  <2>4. NoStrandedWork' BY StrandedInductive DEF IInv
  <2>5. CallsPostedJob' BY CallsInductive DEF IInv
  <2> QED BY <2>1, <2>2, <2>3, <2>4, <2>5 DEF IInv
<1> QED BY <1>1, <1>2, PTL DEF WorkQSpec

\* The indices stay in the ring, whatever its size.
THEOREM TypeCorrect == WorkQSpec => []WorkQTypeOK
<1>1. IInv => WorkQTypeOK BY DEF IInv
<1> QED BY <1>1, Inductive, PTL

\* The flag kernelState gives the kernel to one level at a time.
THEOREM MutexCorrect == WorkQSpec => []KernelMutex
<1>1. IInv => KernelMutex BY DEF IInv, Control
<1> QED BY <1>1, Inductive, PTL

\* No deferred job is left behind when the kernel is released.
THEOREM NothingStranded == WorkQSpec => []NoStrandedWork
<1>1. IInv => NoStrandedWork BY DEF IInv
<1> QED BY <1>1, Inductive, PTL

\* A job is called with what was posted.
THEOREM CallsCorrect == WorkQSpec => []CallsPostedJob
<1>1. IInv => CallsPostedJob BY DEF IInv
<1> QED BY <1>1, Inductive, PTL

LEMMA InitKept == WorkQInit => Promise!JobInit
BY DEF WorkQInit, Promise!JobInit

LEMMA StepKept == IInv /\ [WorkQNext]_workQVars => [Promise!JobNext]_(Promise!jobVars)
<1> SUFFICES ASSUME IInv, [WorkQNext]_workQVars
             PROVE  Promise!JobNext \/ UNCHANGED <<posted, called, ran>>
    BY DEF Promise!jobVars
<1> USE DEF At, Goto, ghostVars, queueVars
<1>1. CASE IntEnt BY <1>1 DEF IntEnt
<1>2. CASE Reboot BY <1>2 DEF Reboot, Promise!JobNext, Promise!Restart
<1>3. ASSUME NEW l \in Levels, Step(l)
      PROVE  Promise!JobNext \/ UNCHANGED <<posted, called, ran>>
  <2>1. CASE IntRet(l) BY <2>1 DEF IntRet
  <2>2. CASE IntRetResched(l) BY <2>2 DEF IntRetResched
  <2>3. CASE EnterKernel(l) BY <2>3 DEF EnterKernel
  <2>4. CASE LeaveKernel(l) BY <2>4 DEF LeaveKernel
  <2>5. CASE CallDoWork(l) BY <2>5 DEF CallDoWork
  <2>6. CASE WorkQAdd(l)
    <3>1. CASE workQWriteIndex' = workQReadIndex BY <2>6, <3>1 DEF WorkQAdd
    <3>2. CASE workQWriteIndex' # workQReadIndex
      <4>1. /\ ~panicked /\ posted' = posted + 1 /\ UNCHANGED <<called, ran>>
            /\ Advance(workQWriteIndex) # workQReadIndex
          BY <2>6, <3>2 DEF WorkQAdd
      <4>2. /\ workQReadIndex \in Slots /\ workQWriteIndex \in Slots
            /\ posted \in Nat /\ called \in Nat
            /\ Taken /\ NoneTaken
          BY <4>1 DEF IInv, WorkQTypeOK, Content
      <4>3. Waiting \in Nat /\ Waiting + 1 < MAX_WORK_Q_JOBS
          BY <4>1, <4>2 DEF Waiting, Offset, Distance, Advance, Slots
      <4>4. called + Waiting = posted \/ called + 1 + Waiting = posted
          BY <4>2 DEF Taken, NoneTaken
      <4>5. posted - called < MAX_WORK_Q_JOBS BY <4>2, <4>3, <4>4
      <4> QED BY <4>1, <4>5 DEF Promise!JobNext, Promise!Post
    <3> QED BY <3>1, <3>2
  <2>7. CASE MarkNotEmpty(l) BY <2>7 DEF MarkNotEmpty
  <2>8. CASE StoreJob(l) BY <2>8 DEF StoreJob
  <2>9. CASE TakeJob(l) BY <2>9 DEF TakeJob
  <2>10. CASE CallJob(l)
    <3>1. /\ ~panicked /\ pc[l] = "call" /\ ran' = workQJobs[pJob[l]]
          /\ called' = called + 1 /\ posted' = posted
        BY <2>10 DEF CallJob
    <3>2. ran' = called + 1 BY <1>3, <3>1 DEF IInv, CallsPostedJob
    <3>3. called + 1 + Waiting = posted /\ posted \in Nat /\ called \in Nat
          /\ workQReadIndex \in Slots /\ workQWriteIndex \in Slots
        BY <1>3, <3>1 DEF IInv, Content, Taken, WorkQTypeOK
    <3>4. Waiting \in Nat BY <3>3, DistanceFacts DEF Waiting, Offset
    <3>5. called < posted BY <3>3, <3>4
    <3> QED BY <3>1, <3>2, <3>5 DEF Promise!JobNext, Promise!Run
  <2>11. CASE JobReturns(l) BY <2>11 DEF JobReturns
  <2>12. CASE DrainDone(l) BY <2>12 DEF DrainDone
  <2> QED BY <1>3, <2>1, <2>2, <2>3, <2>4, <2>5, <2>6, <2>7, <2>8, <2>9,
             <2>10, <2>11, <2>12 DEF Step
<1>4. CASE UNCHANGED workQVars BY <1>4 DEF workQVars
<1> QED BY <1>1, <1>2, <1>3, <1>4 DEF WorkQNext

\* workQAdd and workQDoWork implement the bounded queue of jobs: each job is
\* called once, in the order of the posts, with what was posted.
THEOREM PromiseKept == WorkQSpec => KeepsPromise
BY InitKept, StepKept, Inductive, PTL DEF WorkQSpec, KeepsPromise, Promise!JobSpec
=============================================================================
